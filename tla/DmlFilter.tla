------------------------------ MODULE DmlFilter ------------------------------
(***************************************************************************)
(* The ExecutorStart hook BdrExecutorStart() and the read-only switch      *)
(* bdr_node_set_read_only_internal() of src/bdr_executor.c.                *)
(*                                                                         *)
(* A backend runs statements; each is checked once, at ExecutorStart,     *)
(* against the node's read-only flag, the session's context (apply worker  *)
(* replaying, bdr.replicate_ddl_command, an extension script) and the      *)
(* table it writes.  Another session may flip the node's read-only flag,   *)
(* subject to the node's status.                                           *)
(*                                                                         *)
(* A statement is abstracted to its CmdType and plan shape (modifying CTE, *)
(* row marks, ON CONFLICT DO UPDATE) and the class of its result relation. *)
(***************************************************************************)
EXTENDS Naturals, Sequences

CONSTANTS
    MaxStatements,  \* statements the backend runs
    MaxToggles      \* read-only changes by other sessions

ASSUME MaxStatements \in Nat /\ MaxToggles \in Nat

\* Statement shapes: a plain SELECT, SELECT ... FOR UPDATE (row marks),
\* INSERT, INSERT ... ON CONFLICT DO UPDATE, UPDATE, DELETE, MERGE.
Ops == {"select", "selectForUpdate", "insert", "upsert", "update", "delete",
        "merge"}

\* queryDesc->operation for each shape.
CmdType(op) ==
    CASE op \in {"select", "selectForUpdate"} -> "CMD_SELECT"
      [] op \in {"insert", "upsert"}          -> "CMD_INSERT"
      [] op = "update"                        -> "CMD_UPDATE"
      [] op = "delete"                        -> "CMD_DELETE"
      [] op = "merge"                         -> "CMD_MERGE"

\* Result relations: a permanent table with a replica identity index, one
\* without, a TEMP or UNLOGGED table, a pg_catalog table.
Tables == {"pk", "nopk", "temp", "catalog"}

\* A modifying CTE (WITH ... UPDATE ... RETURNING) in a SELECT or INSERT.
Statement ==
    {st \in [op : Ops, cte : BOOLEAN, table : Tables,
             inReplicateDdl : BOOLEAN, inExtension : BOOLEAN] :
        /\ st.cte => st.op \in {"select", "insert"}
        /\ st.inExtension => st.inReplicateDdl}

NodeStatuses == {"initing", "ready", "killed"}

VARIABLES
    session,    \* [alwaysAllow, replaying, permitUnsafe, bdrDb] of the
                \* backend; bdrDb: bdr_is_bdr_activated_db(MyDatabaseId)
    node,       \* the local bdr_nodes row: [status, readOnly]
    executed,   \* statements that passed ExecutorStart, with the flag seen
    stmts,      \* statements run so far
    toggles     \* read-only changes so far

vars == <<session, node, executed, stmts, toggles>>

-----------------------------------------------------------------------------
(* BdrExecutorStart (lines 428-561)                                        *)

\* Lines 443-449: a statement writes if it has a modifying CTE or row
\* marks, or is not a SELECT.
PerformsWrites(st) ==
    st.cte \/ st.op = "selectForUpdate" \/ CmdType(st.op) # "CMD_SELECT"

\* The relations listed in plannedstmt->resultRelations.
ResultRelations(st) ==
    IF st.op \in {"select", "selectForUpdate"} /\ ~st.cte THEN {} ELSE {st.table}

\* read_only_node (line 458).
ReadOnlyNode == node.readOnly /\ ~session.permitUnsafe

\* Lines 484-495: row DML inside bdr.replicate_ddl_command.
RejectedInReplicateDdl(st) ==
    /\ st.inReplicateDdl /\ ~st.inExtension
    /\ CmdType(st.op) \in {"CMD_INSERT", "CMD_UPDATE", "CMD_DELETE"}

\* The shortcut taken for every INSERT without a modifying CTE, whether or
\* not the node is read-only.
PlainInsertIgnoringReadOnly(st) == CmdType(st.op) = "CMD_INSERT" /\ ~st.cte

\* Line 498: a plain INSERT on a writable node needs no further check.
PlainInsert(st) == CmdType(st.op) = "CMD_INSERT" /\ ~st.cte /\ ~ReadOnlyNode

\* Lines 503-553: each WAL-logged, non-catalog result relation is refused
\* on a read-only node, and refused without a replica identity index.
RelationRejected(st) ==
    \E rel \in ResultRelations(st) :
        /\ rel \notin {"temp", "catalog"}
        /\ ReadOnlyNode \/ rel = "nopk"

\* The statements BdrExecutorStart lets through, in the order of its
\* exits: the "goto done" of lines 437-456, then bdr_locks_check_dml
\* (line 461), which raises when another node holds the global DDL lock
\* (outside this model, so given as ddlLocked), then the checks.
Passes(st, ddlLocked) ==
    \/ session.alwaysAllow
    \/ session.replaying
    \/ ~PerformsWrites(st)
    \/ ~session.bdrDb
    \/ /\ ~ddlLocked
       /\ ~RejectedInReplicateDdl(st)
       /\ PlainInsert(st) \/ ~RelationRejected(st)

\* Statements that BdrExecutorStart leaves unchecked: the apply worker's
\* replay (replorigin_session_origin set, line 441) and sessions with
\* bdr_always_allow_writes (line 437).
Exempt == session.alwaysAllow \/ session.replaying

\* Statements that change rows of their result relation.
ModifiesRows(st) == ResultRelations(st) # {}

\* Statements that change rows already present, and so need the old row's
\* key to be replicated: UPDATE, DELETE, MERGE, INSERT ... ON CONFLICT DO
\* UPDATE, and the UPDATE of a modifying CTE.
ChangesExistingRows(st) ==
    st.op \in {"update", "delete", "merge", "upsert"} \/ st.cte

-----------------------------------------------------------------------------
Init ==
    /\ session \in [alwaysAllow : BOOLEAN, replaying : BOOLEAN,
                    permitUnsafe : BOOLEAN, bdrDb : BOOLEAN]
    /\ node \in [status : NodeStatuses, readOnly : BOOLEAN]
    /\ executed = <<>>
    /\ stmts = 0
    /\ toggles = 0

\* The backend runs one statement.  BdrExecutorStart either raises (the
\* statement is not executed) or hands it to standard_ExecutorStart.  A
\* statement of a database BDR is not activated in is recorded as exempt:
\* BDR promises nothing there.
RunStatement ==
    /\ stmts < MaxStatements
    /\ stmts' = stmts + 1
    /\ \E st \in Statement, ddlLocked \in BOOLEAN :
         executed' =
            IF Passes(st, ddlLocked)
            THEN Append(executed, [st |-> st, exempt |-> Exempt \/ ~session.bdrDb,
                                   readOnly |-> ReadOnlyNode])
            ELSE executed
    /\ UNCHANGED <<session, node, toggles>>

(* bdr_node_set_read_only_internal (lines 311-386), called from another    *)
(* session: refused while the node is not READY or KILLED unless forced;   *)
(* otherwise the local bdr_nodes row gets node_read_only.  The local row   *)
(* always exists once the node has a status, so the not-found ERROR at     *)
(* line 376 is not reached.                                                *)
SetReadOnly ==
    /\ toggles < MaxToggles
    /\ toggles' = toggles + 1
    /\ \E readOnly \in BOOLEAN, force \in BOOLEAN :
         IF node.status \notin {"ready", "killed"} /\ ~force
           THEN UNCHANGED node
           ELSE node' = [node EXCEPT !.readOnly = readOnly]
    /\ UNCHANGED <<session, executed, stmts>>

\* The node's join completes or the node is parted (outside this file).
StatusChange ==
    /\ \/ node.status = "initing" /\ node' = [node EXCEPT !.status = "ready"]
       \/ node.status = "ready" /\ node' = [node EXCEPT !.status = "killed"]
    /\ UNCHANGED <<session, executed, stmts, toggles>>

\* The session has run its statements and no further change comes.
Terminated ==
    /\ stmts = MaxStatements /\ toggles = MaxToggles
    /\ node.status = "killed"
    /\ UNCHANGED vars

Next == RunStatement \/ SetReadOnly \/ StatusChange \/ Terminated

Spec == Init /\ [][Next]_vars

-----------------------------------------------------------------------------
TypeOK ==
    /\ session \in [alwaysAllow : BOOLEAN, replaying : BOOLEAN,
                    permitUnsafe : BOOLEAN, bdrDb : BOOLEAN]
    /\ node \in [status : NodeStatuses, readOnly : BOOLEAN]
    /\ executed \in Seq([st : Statement, exempt : BOOLEAN, readOnly : BOOLEAN])
    /\ Len(executed) <= MaxStatements
    /\ stmts \in 0..MaxStatements /\ toggles \in 0..MaxToggles

\* A read-only node (bdr.bdr_node_set_read_only, without
\* bdr_permit_unsafe_commands) executes no statement of a user session that
\* writes rows of a permanent user table, whichever path through
\* BdrExecutorStart (the plain-INSERT shortcut, a modifying CTE, row marks)
\* the statement takes.
ReadOnlyNodeWritesOnlyLocal ==
    \A i \in DOMAIN executed :
        LET e == executed[i] IN
        (e.readOnly /\ ~e.exempt /\ ModifiesRows(e.st))
            => e.st.table \in {"temp", "catalog"}

\* The comment at lines 502 and 547-551: a user statement that changes
\* existing rows of a permanent table without a replica identity index is
\* refused, since its changes could not be applied downstream by key.
RowChangesHaveReplicaIdentity ==
    \A i \in DOMAIN executed :
        LET e == executed[i] IN
        (~e.exempt /\ ChangesExistingRows(e.st)) => e.st.table # "nopk"

\* The comment at lines 463-483: inside bdr.replicate_ddl_command (outside
\* an extension script) no statement changes rows, since the command string
\* is replicated as a statement.
NoRowDmlInReplicateDdl ==
    \A i \in DOMAIN executed :
        LET e == executed[i] IN
        (~e.exempt /\ e.st.inReplicateDdl /\ ~e.st.inExtension)
            => ~ModifiesRows(e.st)

=============================================================================
