----------------------------- MODULE ConflictLog -----------------------------
(***************************************************************************)
(* One apply worker resolving and logging conflicts, change by change, in  *)
(* its apply transaction.                                                  *)
(*                                                                         *)
(* The classifier and last-update-wins resolver (spec sections 4.3, 8) and *)
(* the apply transaction around them live in bdr_apply.c, which is not in  *)
(* this tree: they are modelled from the spec.  The conflict record        *)
(* (bdr_make_apply_conflict) and its two sinks (bdr_conflict_log_table,    *)
(* bdr_conflict_log_serverlog) are modelled from                           *)
(* src/bdr_conflict_logging.c.                                             *)
(*                                                                         *)
(* A change is abstracted to its kind, the local row the lookup found      *)
(* ("none", one written "local"ly, or one replicated from the same "peer"  *)
(* the change comes from), how the two commit timestamps compare (with the *)
(* NodeId order deciding ties) and the conflict handler registered.  A     *)
(* tuple Datum is "tuple" or "zero" ((Datum) 0).  An INSERT carries its    *)
(* new tuple, from which the worker builds the keys it looks up the local  *)
(* row with (IndexScanKeys).                                               *)
(***************************************************************************)
EXTENDS Naturals, Sequences, FiniteSets

CONSTANTS
    NodeIds,      \* NodeIds <<sysid, timeline, dboid>> of the nodes
    SelfNode,     \* this node
    PeerNode,     \* the node the changes come from
    Orders,       \* subset of {"remote", "local", "tie"}: whose commit is later
    Handlers,     \* subset of {"none", "skip", "tuple"}
    MaxChanges,   \* changes the peer sends
    MaxAborts,    \* transient failures of an apply transaction
    MaxRestarts   \* restarts of the apply worker after it crashed

IK == INSTANCE IndexScanKeys

Kinds == {"insert", "update", "delete"}
Locals == {"none", "local", "peer"}
\* The new tuple of an INSERT; other changes are looked up by their key.
NoTuple == [a \in IK!Attrs |-> IK!Null]
\* Equal timestamps are compared between the peer and a local write.
Change == {c \in [kind : Kinds, local : Locals, order : Orders,
                  handler : Handlers, tuple : IK!Tuples] :
              /\ c.order = "tie" => c.local = "local"
              /\ c.kind # "insert" => c.tuple = NoTuple}

ASSUME {SelfNode, PeerNode} \subseteq NodeIds /\ SelfNode # PeerNode

\* BDR_CONFLICT_HISTORY_COLS and the column groups of bdr_conflict_history.
HistoryCols == 35
ErrorCols == 13

VARIABLES
    config,    \* bdr_log_conflicts_to_table, include_tuples, server log
    pc,        \* step of the apply transaction
    cur,       \* the change being applied (redelivered unchanged on retry)
    failing,   \* this attempt's apply raised an ERROR
    ctype,     \* ConflictType the classifier chose
    cres,      \* ConflictResolution the resolver chose
    rec,       \* the BdrApplyConflict record
    pending,   \* conflict history rows inserted by the open transaction
    history,   \* committed rows of bdr.bdr_conflict_history
    applied,   \* type, resolution and timestamp order of committed conflicts
    received,  \* changes received so far
    aborts,    \* transient aborts so far
    restarts   \* worker restarts so far

vars == <<config, pc, cur, failing, ctype, cres, rec, pending, history,
          applied, received, aborts, restarts>>

Config == [logToTable : BOOLEAN, includeTuples : BOOLEAN, logToServer : BOOLEAN]

-----------------------------------------------------------------------------
(* Classifier and resolver (spec 4.3; bdr_apply.c is not in this tree)     *)

\* ConflictType of a change given the lookup, "NoConflict" where the
\* table of section 4.3 has none.
ConflictTypeOf(c, fails) ==
    CASE fails                                  -> "UnhandledTxAbort"
      [] c.kind = "insert" /\ c.local # "none"  -> "InsertInsert"
      [] c.kind = "update" /\ c.local = "local" -> "UpdateUpdate"
      [] c.kind = "update" /\ c.local = "none"  -> "UpdateDelete"
      [] c.kind = "delete" /\ c.local = "none"  -> "DeleteDelete"
      [] OTHER                                  -> "NoConflict"

\* The fixed total order on NodeIds: system_id, then timeline_id, then
\* database_id, ascending.
NodeIdGreater(a, b) ==
    \/ a[1] > b[1]
    \/ a[1] = b[1] /\ a[2] > b[2]
    \/ a[1] = b[1] /\ a[2] = b[2] /\ a[3] > b[3]

\* Last update wins; on equal timestamps the larger NodeId wins.
LastUpdateWins(c) ==
    CASE c.order = "remote" -> "LastUpdateWinsKeepRemote"
      [] c.order = "local"  -> "LastUpdateWinsKeepLocal"
      [] OTHER -> IF NodeIdGreater(PeerNode, SelfNode)
                  THEN "LastUpdateWinsKeepRemote"
                  ELSE "LastUpdateWinsKeepLocal"

ResolutionOf(c, type) ==
    CASE type = "UnhandledTxAbort" -> "UnhandledTxAbort"
      [] c.handler = "skip"        -> "ConflictTriggerSkipChange"
      [] c.handler = "tuple"       -> "ConflictTriggerReturnedTuple"
      [] type \in {"InsertInsert", "UpdateUpdate"} -> LastUpdateWins(c)
      [] OTHER                     -> "DefaultSkipChange"

-----------------------------------------------------------------------------
(* The conflict record and its sinks (src/bdr_conflict_logging.c)          *)

\* bdr_make_apply_conflict (lines 634-729).  The record is palloc0'd, so a
\* field the code does not assign is zero: with a local tuple and
\* include_tuples off, local_tuple stays (Datum) 0 and local_tuple_null
\* stays false.
MakeApplyConflict(c, type, res) ==
    LET hasLocal  == c.local # "none"
        hasRemote == c.kind # "delete"
    IN  [type            |-> type,
         resolution      |-> res,
         localTuple      |-> IF hasLocal /\ config.includeTuples
                             THEN "tuple" ELSE "zero",
         localTupleNull  |-> ~hasLocal,
         localXmin       |-> hasLocal,
         remoteTuple     |-> IF hasRemote /\ config.includeTuples
                             THEN "tuple" ELSE "zero",
         remoteTupleNull |-> ~(hasRemote /\ config.includeTuples),
         origin          |-> IF c.local = "peer" THEN "remote" ELSE "self",
         applyError      |-> type = "UnhandledTxAbort"]

\* row_to_json / row_to_stringinfo of a tuple flagged non-null dereference
\* the Datum: (Datum) 0 is a NULL pointer and the worker dies.
Derefs(datum, isnull) == ~isnull /\ datum = "zero"

\* A fault: the error group advances attno once more than it has columns.
ColumnsWrittenOverrun(r) ==
    17 + (IF r.applyError THEN ErrorCols + 1 ELSE ErrorCols) + 5

\* The number of columns bdr_conflict_log_table fills before its
\* Assert(attno == BDR_CONFLICT_HISTORY_COLS): 17 conflict columns, the
\* error group (the apply-error branch advances attno once for the
\* sqlstate and the statement column together), 5 node-id columns.
ColumnsWritten(r) == 17 + (IF r.applyError THEN ErrorCols - 1 ELSE ErrorCols) + 5

HistoryRow(r) ==
    [type |-> r.type, resolution |-> r.resolution,
     localTuple |-> IF r.localTupleNull THEN "null" ELSE r.localTuple,
     width |-> ColumnsWritten(r)]

-----------------------------------------------------------------------------
Init ==
    /\ config \in Config
    /\ pc = "idle"
    /\ cur = CHOOSE c \in Change : TRUE
    /\ failing = FALSE
    /\ ctype = "NoConflict"
    /\ cres = "DefaultApplyChange"
    /\ rec = MakeApplyConflict(cur, ctype, cres)
    /\ pending = << >>
    /\ history = << >>
    /\ applied = << >>
    /\ received = 0
    /\ aborts = 0
    /\ restarts = 0

\* The apply transaction aborts: its rows go, the change is redelivered.
Abort ==
    /\ pc' = "lookup"
    /\ pending' = << >>
    /\ failing' = FALSE
    /\ aborts' = aborts + 1

Receive ==
    /\ pc = "idle"
    /\ received < MaxChanges
    /\ \E c \in Change : cur' = c
    /\ pc' = "lookup"
    /\ received' = received + 1
    /\ UNCHANGED <<config, failing, ctype, cres, rec, pending, history,
                   applied, aborts, restarts>>

\* The lookup and classification (spec 4.3).  A transient apply ERROR
\* becomes an UnhandledTxAbort conflict.
Resolve ==
    /\ pc = "lookup"
    /\ \E fails \in IF aborts < MaxAborts THEN BOOLEAN ELSE {FALSE} :
          LET type == ConflictTypeOf(cur, fails) IN
          /\ failing' = fails
          /\ ctype' = type
          /\ cres' = IF type = "NoConflict" THEN "DefaultApplyChange"
                     ELSE ResolutionOf(cur, type)
          /\ pc' = IF type = "NoConflict" THEN "logged" ELSE "resolved"
    /\ UNCHANGED <<config, cur, rec, pending, history, applied, received,
                   aborts, restarts>>

Build ==
    /\ pc = "resolved"
    /\ rec' = MakeApplyConflict(cur, ctype, cres)
    /\ pc' = "built"
    /\ UNCHANGED <<config, cur, failing, ctype, cres, pending, history,
                   applied, received, aborts, restarts>>

\* A fault: the history row is written outside the apply transaction.
LogTableOutsideTxn ==
    /\ pc = "built"
    /\ \/ /\ ~config.logToTable
          /\ pc' = "tableDone"
          /\ UNCHANGED <<pending, history, failing, aborts>>
       \/ /\ config.logToTable /\ Derefs(rec.localTuple, rec.localTupleNull)
          /\ pc' = "crashed"
          /\ UNCHANGED <<pending, history, failing, aborts>>
       \/ /\ config.logToTable /\ ~Derefs(rec.localTuple, rec.localTupleNull)
          /\ history' = Append(history, HistoryRow(rec))
          /\ pc' = "tableDone"
          /\ UNCHANGED <<pending, failing, aborts>>
    /\ UNCHANGED <<config, cur, ctype, cres, rec, applied, received, restarts>>

\* bdr_conflict_log_table (lines 356-572): nothing unless
\* bdr_log_conflicts_to_table; the local tuple goes through row_to_json;
\* the row is inserted in the apply transaction, and the insert may fail
\* (spec scenario E), aborting it.  The ERRORs of lines 375-379 (no
\* transaction, or an aborted one) have no branch: pc = "built" lies
\* between Receive and Finish or Abort, inside the open transaction.
LogTable ==
    /\ pc = "built"
    /\ \/ /\ ~config.logToTable
          /\ pc' = "tableDone"
          /\ UNCHANGED <<pending, history, failing, aborts>>
       \/ /\ config.logToTable /\ Derefs(rec.localTuple, rec.localTupleNull)
          /\ pc' = "crashed"
          /\ UNCHANGED <<pending, history, failing, aborts>>
       \/ /\ config.logToTable /\ ~Derefs(rec.localTuple, rec.localTupleNull)
          /\ pending' = Append(pending, HistoryRow(rec))
          /\ pc' = "tableDone"
          /\ UNCHANGED <<history, failing, aborts>>
       \/ /\ config.logToTable /\ ~Derefs(rec.localTuple, rec.localTupleNull)
          /\ aborts < MaxAborts
          /\ Abort
          /\ UNCHANGED history
    /\ UNCHANGED <<config, cur, ctype, cres, rec, applied, received, restarts>>

\* bdr_conflict_log_serverlog (lines 577-621): the key is printed from the
\* local tuple whenever local_tuple_null is false.
LogServer ==
    /\ pc = "tableDone"
    /\ \/ /\ config.logToServer /\ Derefs(rec.localTuple, rec.localTupleNull)
          /\ pc' = "crashed"
       \/ /\ ~(config.logToServer /\ Derefs(rec.localTuple, rec.localTupleNull))
          /\ pc' = "logged"
    /\ UNCHANGED <<config, cur, failing, ctype, cres, rec, pending, history,
                   applied, received, aborts, restarts>>

\* The apply transaction ends: an apply ERROR aborts it after the conflict
\* was logged, otherwise the change is applied and the rows commit with it.
Finish ==
    /\ pc = "logged"
    /\ \/ /\ failing
          /\ Abort
          /\ UNCHANGED <<history, applied>>
       \/ /\ ~failing
          /\ history' = history \o pending
          /\ applied' = IF ctype = "NoConflict" THEN applied
                        ELSE Append(applied, [type |-> ctype, resolution |-> cres,
                                              order |-> cur.order])
          /\ pending' = << >>
          /\ pc' = "idle"
          /\ UNCHANGED <<failing, aborts>>
    /\ UNCHANGED <<config, cur, ctype, cres, rec, received, restarts>>

\* The postmaster restarts after the crash; replay resumes at the last
\* committed change, so the same change comes again.
Restart ==
    /\ pc = "crashed"
    /\ restarts < MaxRestarts
    /\ pc' = "lookup"
    /\ pending' = << >>
    /\ failing' = FALSE
    /\ restarts' = restarts + 1
    /\ UNCHANGED <<config, cur, ctype, cres, rec, history, applied, received,
                   aborts>>

Terminated ==
    /\ \/ pc = "idle" /\ received = MaxChanges
       \/ pc = "crashed" /\ restarts = MaxRestarts
    /\ UNCHANGED vars

Next == Receive \/ Resolve \/ Build \/ LogTable \/ LogServer \/ Finish
        \/ Restart \/ Terminated

Spec == Init /\ [][Next]_vars

-----------------------------------------------------------------------------
(* Properties                                                              *)

Row == [type : STRING, resolution : STRING,
        localTuple : {"null", "tuple", "zero"}, width : 0..HistoryCols]

TypeOK ==
    /\ config \in Config
    /\ pc \in {"idle", "lookup", "resolved", "built", "tableDone", "logged",
              "crashed"}
    /\ cur \in Change
    /\ failing \in BOOLEAN
    /\ pending \in Seq(Row) /\ history \in Seq(Row)
    /\ applied \in Seq([type : STRING, resolution : STRING, order : Orders])
    /\ received \in 0..MaxChanges
    /\ aborts \in 0..MaxAborts /\ restarts \in 0..MaxRestarts

\* Spec 8, logging completeness: with bdr_log_conflicts_to_table on, the
\* committed conflict history has exactly one row per committed conflict,
\* with its type and resolution, however often the apply transaction was
\* aborted after logging (insert failure, apply ERROR) and redelivered;
\* with it off, none.
LoggingComplete ==
    /\ Len(history) = (IF config.logToTable THEN Len(applied) ELSE 0)
    /\ \A i \in 1..Len(history) :
          /\ history[i].type = applied[i].type
          /\ history[i].resolution = applied[i].resolution

\* Spec 4.3, an INSERT meets InsertInsert when the local lookup finds a
\* row: whenever the worker looks up the local row for an INSERT, for
\* every plain unique index (key columns only, no expression, predicate,
\* INCLUDE columns or NULLS NOT DISTINCT), the keys build_index_scan_keys makes of
\* the change's new tuple find a local row exactly when inserting
\* the tuple would violate the index, so the conflict is neither missed
\* (and the apply fails on the unique violation) nor invented.
ScanKeysFindConflicts ==
    pc = "lookup" /\ cur.kind = "insert" => IK!ScanKeysFindConflicts(cur.tuple)

\* Spec 4.4: the server-log destination is best effort and a conflict
\* record is well formed, so logging a conflict never takes the apply
\* worker down.
LoggingNeverCrashes == pc # "crashed"

\* bdr_conflict_log_table's Assert(attno == BDR_CONFLICT_HISTORY_COLS):
\* every row it forms fills each column of bdr_conflict_history once.
HistoryRowComplete ==
    \A i \in 1..Len(pending) : pending[i].width = HistoryCols
=============================================================================
