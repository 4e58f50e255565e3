---------------------------- MODULE CommandFilter ----------------------------
(***************************************************************************)
(* The ProcessUtility hook bdr_commandfilter() (src/bdr_commandfilter.c)   *)
(* in one backend: which utility statements it rejects, which it captures  *)
(* for replication, the global DDL lock it takes, and the two nesting      *)
(* counters (bdr_ddl_nestlevel, bdr_extension_nestlevel) it keeps across   *)
(* re-entrant calls and unwinds in PG_CATCH when an error escapes.          *)
(*                                                                         *)
(* A statement is abstracted to its kind and whether it touches permanent  *)
(* relations (statement_affects_only_nonpermanent).  Hook frames are the   *)
(* invocations of bdr_commandfilter on the C stack; call frames are a      *)
(* top-level SELECT running a function (optionally with an EXCEPTION       *)
(* block) and bdr.replicate_ddl_command(), which run utility statements    *)
(* through SPI with context PROCESS_UTILITY_QUERY.                         *)
(***************************************************************************)
EXTENDS Naturals, Sequences, FiniteSets

CONSTANTS
    MaxDepth,       \* bound on nested invocations
    MaxStatements   \* bound on top-level statements of the session

ASSUME MaxDepth \in Nat \ {0} /\ MaxStatements \in Nat \ {0}

\* Statement kinds standing for the node tags the hook tells apart.
HookKinds == {"Txn",            \* T_TransactionStmt (COMMIT)
              "Local",          \* the "commands we skip" list (VACUUM, DO ...)
              "LocalWrite",     \* the skip-list tags allowed_on_read_only_node
                                \* refuses: TRUNCATE, COPY, tablespaces,
                                \* ALTER DATABASE, event triggers, roles
              "Database",       \* CREATE/DROP DATABASE, ALTER DATABASE RENAME
              "CreateTable",    \* T_CreateStmt: BDR_LOCK_DDL
              "AlterTable",     \* T_AlterTableStmt: lock from its subcommands
              "Comment",        \* T_CommentStmt: BDR_LOCK_NOLOCK
              "Unsupported",    \* error_unsupported_command() kinds
              "DefineDdl",      \* CREATE SCHEMA/DOMAIN/TYPE/VIEW/FUNCTION,
                                \* ALTER OWNER/DEFAULT PRIVILEGES: BDR_LOCK_DDL
              "CreateIndex",    \* T_IndexStmt
              "DropIndexConcurrently",
              "CreateTableAs",
              "SecLabel",       \* T_SecLabelStmt
              "Drop",           \* T_DropStmt of anything but an extension,
                                \* not CONCURRENTLY
              "CreateExtension",
              "AlterExtension", \* T_AlterExtension(Contents)Stmt
              "DropExtension"}  \* T_DropStmt with removeType OBJECT_EXTENSION
CallKinds == {"Select", "ReplicateDdl"}
\* The kinds that raise bdr_extension_nestlevel (lines 1449-1463).
ExtensionKinds == {"CreateExtension", "AlterExtension", "DropExtension"}
\* Kinds whose relation statement_affects_only_nonpermanent() inspects
\* (lines 600-726); DROP INDEX CONCURRENTLY is always taken as permanent.
PersistenceKinds == {"CreateTable", "AlterTable", "CreateIndex",
                     "CreateTableAs"}
\* Kinds the hook replicates (it neither skips nor only checks them).
DDLKinds == HookKinds \ {"Txn", "Local", "LocalWrite", "Database"}
Locks == {"nolock", "ddl", "write"}

Frame == [kind : HookKinds \cup CallKinds, persistent : BOOLEAN,
          lock : Locks, captured : BOOLEAN, inExt : BOOLEAN,
          handler : BOOLEAN]

VARIABLES
    session,    \* GUCs and node state fixed for the session
    stack,      \* active frames, outermost first
    ddlNest,    \* bdr_ddl_nestlevel
    extNest,    \* bdr_extension_nestlevel
    ddlLock,    \* strongest global DDL lock the transaction holds
    raising,    \* an ERROR is propagating (longjmp in progress)
    stmts       \* top-level statements run so far

vars == <<session, stack, ddlNest, extNest, ddlLock, raising, stmts>>

\* The database the backend is connected to: one BDR is activated in, one
\* it is not, or the BDR supervisor database.
Databases == {"bdr", "plain", "supervisor"}

Session == [skipLocking : BOOLEAN, skipRepl : BOOLEAN, permitUnsafe : BOOLEAN,
            readOnly : BOOLEAN, replaying : BOOLEAN, database : Databases]

-----------------------------------------------------------------------------
(* State the hook reads                                                    *)

Frames(k) == {i \in 1..Len(stack) : stack[i].kind \in k}

\* creating_extension: an enclosing CREATE EXTENSION is running its script.
\* CREATE EXTENSION and ALTER EXTENSION UPDATE run the extension's script;
\* only the script issues statements of its own.
CreatingExtension == Frames({"CreateExtension", "AlterExtension"}) # {}

\* in_bdr_replicate_ddl_command
InReplicateDdl == Frames({"ReplicateDdl"}) # {}

\* allowed_on_read_only_node with T_IndexStmt missing from its switch.
AllowedOnReadOnlyMissingIndex(kind, persistent) ==
    kind \in {"Txn", "Local", "CreateIndex"} \/ ~persistent

\* allowed_on_read_only_node (lines 728-825)
AllowedOnReadOnly(kind, persistent) ==
    kind \in {"Txn", "Local"} \/ ~persistent

\* What distinguishes statements of a kind for the filters: the ALTER
\* TABLE subcommand, the CREATE TABLE clause, the extension dropped.
Variants(kind) ==
    CASE kind = "AlterTable"    -> {"AddColumn", "AddColumnDefault",
                                    "AddIndexExclude", "SetRelOptions",
                                    "AlterColumnType", "Unknown"}
      [] kind = "CreateTable"   -> {"plain", "ofType", "exclude"}
      [] kind = "DropExtension" -> {"other", "bdr"}
      [] kind = "Local"         -> {"vacuum", "other"}
      [] kind = "Database"      -> {"other", "reserved"}
      [] kind = "CreateIndex"   -> {"plain", "concurrent", "uniqueConcurrent",
                                    "uniqueWhere"}
      [] kind = "SecLabel"      -> {"bdr", "other"}
      [] kind = "DefineDdl"     -> {"view", "other"}
      [] kind = "Drop"          -> {"permanent", "temporary", "mixed"}
      [] OTHER                  -> {"none"}

\* ALTER TABLE subcommands that ask for only the DDL lock, and those
\* error_on_persistent_rv rejects on a permanent table (lines 206-426).
ATDdlLockCmds == {"AddColumn", "AddColumnDefault", "AddIndexExclude"}
ATRejectedCmds == {"AddColumnDefault", "AddIndexExclude", "AlterColumnType",
                   "Unknown"}

\* CREATE INDEX (lines 1162-1203): CONCURRENTLY is refused inside
\* bdr.replicate_ddl_command, and on a permanent relation unless DDL
\* replication is skipped; a unique partial index on a permanent relation
\* is refused.
IndexRejected(st) ==
    \/ /\ st.variant \in {"concurrent", "uniqueConcurrent"}
       /\ InReplicateDdl \/ (~session.skipRepl /\ st.persistent)
    \/ st.variant = "uniqueWhere" /\ st.persistent

\* The switch over statements standard_ProcessUtility runs itself (lines
\* 1247-1384): CREATE TABLE AS on a permanent table (filter_CreateTableAs),
\* DROP INDEX CONCURRENTLY as CREATE INDEX CONCURRENTLY, a security label
\* of a provider other than bdr.
StandardRejected(st) ==
    CASE st.kind = "CreateTableAs" -> st.persistent
      [] st.kind = "DropIndexConcurrently" ->
            InReplicateDdl \/ (~session.skipRepl /\ st.persistent)
      [] st.kind = "SecLabel" -> st.variant = "other"
      [] OTHER -> FALSE

\* The per-statement filters that raise an ERROR: error_unsupported_command
\* (103-113), filter_CreateStmt (125-157), filter_AlterTableStmt
\* (159-435), prevent_drop_extension_bdr (843-877), CREATE INDEX and the
\* standard_ProcessUtility switch.  All of them let everything through
\* when bdr_permit_unsafe_commands is set.
Rejected(st) ==
    /\ ~session.permitUnsafe
    /\ CASE st.kind \in {"Unsupported", "AlterExtension"} -> TRUE
          [] st.kind = "CreateTable"   ->
                st.variant = "ofType" \/ (st.variant = "exclude" /\ st.persistent)
          [] st.kind = "AlterTable"    ->
                st.persistent /\ st.variant \in ATRejectedCmds
          [] st.kind = "DropExtension" -> st.variant = "bdr"
          [] st.kind = "CreateIndex"   -> IndexRejected(st)
          [] OTHER                     -> StandardRejected(st)

\* statement_affects_only_nonpermanent() on a DROP of permanent and
\* temporary relations together: checked_remember_persistence raises,
\* whatever bdr_permit_unsafe_commands says (lines 587-594).
MixedDrop(st) == st.kind = "Drop" /\ st.variant = "mixed"

\* bdr_commandfilter_dbname (lines 826-842): the supervisor database's name
\* is reserved.
DbnameRejected(st) ==
    ~session.permitUnsafe /\ st.variant = "reserved"

\* The lock_type the per-statement switches leave (lines 1098-1383).
LockType(st) ==
    CASE st.kind \in {"CreateTable", "DefineDdl"} -> "ddl"
      [] st.kind = "CreateIndex" -> IF st.variant = "concurrent" THEN "ddl" ELSE "write"
      [] st.kind = "AlterTable"  ->
            IF ~session.permitUnsafe /\ st.variant \in ATDdlLockCmds
            THEN "ddl" ELSE "write"
      [] st.kind = "Comment"     -> "nolock"
      [] OTHER                   -> "write"

Stronger(a, b) ==
    IF a = "write" \/ b = "write" THEN "write"
    ELSE IF a = "ddl" \/ b = "ddl" THEN "ddl" ELSE "nolock"

NewFrame(kind, persistent, lock, captured) ==
    [kind |-> kind, persistent |-> persistent, lock |-> lock,
     captured |-> captured, inExt |-> kind \in ExtensionKinds,
     handler |-> FALSE]

-----------------------------------------------------------------------------
Init ==
    /\ session \in Session
    /\ stack = << >>
    /\ ddlNest = 0
    /\ extNest = 0
    /\ ddlLock = "nolock"
    /\ raising = FALSE
    /\ stmts = 0

\* ereport(ERROR) before PG_TRY: nothing of this invocation is pushed.
Raise(lock) ==
    /\ raising' = TRUE
    /\ ddlLock' = lock
    /\ UNCHANGED <<session, stack, ddlNest, extNest>>

\* done: (lines 1441-1468): CREATE/DROP EXTENSION bump the extension
\* nesting level, then the statement runs inside PG_TRY.
Done(st, lockType, captured, lock) ==
    /\ stack' = Append(stack, NewFrame(st.kind, st.persistent, lockType, captured))
    /\ extNest' = extNest + (IF st.kind \in ExtensionKinds THEN 1 ELSE 0)
    /\ ddlNest' = ddlNest + (IF captured THEN 1 ELSE 0)
    /\ ddlLock' = lock
    /\ UNCHANGED <<session, raising>>

\* The early "goto done" exits: replaying a remote change, or a statement
\* of an extension script (lines 923-929).
Unfiltered == session.replaying \/ CreatingExtension

ReadOnlyRejects(st) ==
    /\ session.readOnly /\ ~session.permitUnsafe
    /\ ~AllowedOnReadOnly(st.kind, st.persistent)

\* The condition under which the hook captures the statement for
\* replication (lines 1401-1402).
CaptureCondition(persistent) ==
    /\ persistent
    /\ ~session.skipRepl
    /\ extNest = 0
    /\ ~InReplicateDdl
    /\ ddlNest = 0

\* A fault: a captured statement outside the top level is passed silently.
LockAndCaptureNoTopCheck(st, top) ==
    LET lock  == LockType(st)
        takes == ~session.skipLocking /\ st.persistent /\ lock # "nolock"
        held  == IF takes THEN Stronger(ddlLock, lock) ELSE ddlLock
    IN  \/ takes /\ Raise(ddlLock)
        \/ Done(st, lock, CaptureCondition(st.persistent) /\ top, held)

\* bdr_acquire_ddl_lock for persistent statements that need one, then
\* capture of the outermost persistent DDL, which must be top level
\* (lines 1385-1437).  The lock request itself may fail with an ERROR.
LockAndCapture(st, top) ==
    LET lock  == LockType(st)
        takes == ~session.skipLocking /\ st.persistent /\ lock # "nolock"
        held  == IF takes THEN Stronger(ddlLock, lock) ELSE ddlLock
        capture == CaptureCondition(st.persistent)
    IN  \/ takes /\ Raise(ddlLock)
        \/ capture /\ ~top /\ Raise(held)
        \/ ~(capture /\ ~top) /\ Done(st, lock, capture, held)

\* Only VACUUM may run on the BDR supervisor database (lines 909-920).
SupervisorRejects(st) ==
    /\ session.database = "supervisor"
    /\ ~(st.kind = "Local" /\ st.variant = "vacuum")

\* "goto done": the statement runs without lock or capture.
GotoDone(st) == Done(st, "nolock", FALSE, ddlLock)

\* One invocation of bdr_commandfilter up to PG_TRY (lines 883-1468), its
\* checks in the order the code makes them, each an early exit: the
\* supervisor database, the extension script and replay exits, transaction
\* control, a database without BDR, the read-only check, the "commands we
\* skip" list, the database-name check, the per-statement filters.
Enter(st, top) ==
    IF SupervisorRejects(st) THEN Raise(ddlLock)
    ELSE IF Unfiltered THEN GotoDone(st)
    ELSE IF st.kind = "Txn"
         THEN IF InReplicateDdl THEN Raise(ddlLock) ELSE GotoDone(st)
    ELSE IF session.database # "bdr" THEN GotoDone(st)
    ELSE IF ReadOnlyRejects(st) THEN Raise(ddlLock)
    ELSE IF st.kind \in {"Local", "LocalWrite"} THEN GotoDone(st)
    ELSE IF st.kind = "Database"
         THEN IF DbnameRejected(st) THEN Raise(ddlLock) ELSE GotoDone(st)
    ELSE IF Rejected(st) \/ MixedDrop(st) THEN Raise(ddlLock)
    ELSE LockAndCapture(st, top)

\* Whether statement_affects_only_nonpermanent() finds a permanent object:
\* a DROP by the objects it names, CREATE [TEMP] VIEW and the kinds of
\* PersistenceKinds by their relation, every other statement always.
Persistence(k, v) ==
    CASE k = "Drop"             -> {v # "temporary"}
      [] k = "DefineDdl"        -> {TRUE, v # "view"}
      [] k \in PersistenceKinds -> BOOLEAN
      [] OTHER                  -> {TRUE}

\* The statements a session can issue, as the hook sees them.
Statements(kinds) ==
    UNION {UNION {[kind : {k}, variant : {v}, persistent : Persistence(k, v)] :
                     v \in Variants(k)} : k \in kinds}

Running == ~raising /\ stack # << >>
Top == stack[Len(stack)]

\* A new top-level statement: a utility statement, alone in its query
\* string (PROCESS_UTILITY_TOPLEVEL) or in a multi-statement string, or a
\* SELECT of a function / of bdr.replicate_ddl_command.
StartStatement ==
    /\ stack = << >> /\ ~raising
    /\ stmts < MaxStatements
    /\ stmts' = stmts + 1
    /\ \/ \E st \in Statements(HookKinds), top \in BOOLEAN : Enter(st, top)
       \/ \E kind \in CallKinds, handler \in BOOLEAN :
            /\ stack' = << [NewFrame(kind, TRUE, "nolock", FALSE) EXCEPT
                              !.handler = handler /\ kind = "Select"] >>
            /\ UNCHANGED <<session, ddlNest, extNest, ddlLock, raising>>

\* The running statement issues a utility statement of its own (an
\* extension script, a DO block, a function body, SPI in
\* bdr.replicate_ddl_command): context PROCESS_UTILITY_QUERY.
NestedStatement ==
    /\ Running
    /\ Len(stack) < MaxDepth
    /\ \E st \in Statements(HookKinds \ {"Txn"}) : Enter(st, FALSE)
    /\ UNCHANGED stmts

\* bdr.replicate_ddl_command runs COMMIT through SPI.
NestedTxn ==
    /\ Running
    /\ Len(stack) < MaxDepth
    /\ Top.kind = "ReplicateDdl"
    /\ Enter([kind |-> "Txn", variant |-> "none", persistent |-> TRUE], FALSE)
    /\ UNCHANGED stmts

\* A fault: the DDL nesting level is decremented whether or not this
\* invocation incremented it.
CompleteAlwaysDecrementing ==
    /\ Running
    /\ stack' = SubSeq(stack, 1, Len(stack) - 1)
    /\ extNest' = extNest - (IF Top.inExt THEN 1 ELSE 0)
    /\ ddlNest' = ddlNest - 1
    /\ ddlLock' = IF Len(stack) = 1 THEN "nolock" ELSE ddlLock
    /\ UNCHANGED <<session, raising, stmts>>

\* The statement on top of the stack returns normally: the code after
\* PG_END_TRY undoes what this invocation added to the nesting levels
\* (lines 1505-1520).  The outermost return ends the transaction.
Complete ==
    /\ Running
    /\ stack' = SubSeq(stack, 1, Len(stack) - 1)
    /\ extNest' = extNest - (IF Top.inExt THEN 1 ELSE 0)
    /\ ddlNest' = ddlNest - (IF Top.captured THEN 1 ELSE 0)
    /\ ddlLock' = IF Len(stack) = 1 THEN "nolock" ELSE ddlLock
    /\ UNCHANGED <<session, raising, stmts>>

\* The running statement raises an ERROR.
Fail ==
    /\ Running
    /\ raising' = TRUE
    /\ UNCHANGED <<session, stack, ddlNest, extNest, ddlLock, stmts>>

\* A fault: PG_CATCH forgets to undo the DDL nesting level.
CatchFrameKeepingNest ==
    /\ raising /\ stack # << >> /\ Top.kind \in HookKinds
    /\ stack' = SubSeq(stack, 1, Len(stack) - 1)
    /\ extNest' = extNest - (IF Top.inExt THEN 1 ELSE 0)
    /\ UNCHANGED <<session, ddlNest, ddlLock, raising, stmts>>

\* PG_CATCH of a hook invocation the error unwinds through: undo its
\* nesting levels and PG_RE_THROW (lines 1478-1501).
CatchFrame ==
    /\ raising /\ stack # << >> /\ Top.kind \in HookKinds
    /\ stack' = SubSeq(stack, 1, Len(stack) - 1)
    /\ extNest' = extNest - (IF Top.inExt THEN 1 ELSE 0)
    /\ ddlNest' = ddlNest - (IF Top.captured THEN 1 ELSE 0)
    /\ UNCHANGED <<session, ddlLock, raising, stmts>>

\* A function's EXCEPTION block catches the error; the function goes on.
CatchInHandler ==
    /\ raising /\ stack # << >>
    /\ Top.kind = "Select" /\ Top.handler
    /\ raising' = FALSE
    /\ UNCHANGED <<session, stack, ddlNest, extNest, ddlLock, stmts>>

\* A function without a handler, or bdr.replicate_ddl_command, is unwound.
UnwindCall ==
    /\ raising /\ stack # << >>
    /\ Top.kind \in CallKinds /\ ~Top.handler
    /\ stack' = SubSeq(stack, 1, Len(stack) - 1)
    /\ UNCHANGED <<session, ddlNest, extNest, ddlLock, raising, stmts>>

\* The error reaches the top level: the transaction aborts, its DDL lock
\* and captured commands go with it.  The nesting levels are process
\* globals that only the hook itself resets.
AbortTransaction ==
    /\ raising /\ stack = << >>
    /\ raising' = FALSE
    /\ ddlLock' = "nolock"
    /\ UNCHANGED <<session, stack, ddlNest, extNest, stmts>>

Terminated ==
    /\ stack = << >> /\ ~raising /\ stmts = MaxStatements
    /\ UNCHANGED vars

Next ==
    \/ StartStatement \/ NestedStatement \/ NestedTxn
    \/ Complete \/ Fail
    \/ CatchFrame \/ CatchInHandler \/ UnwindCall \/ AbortTransaction
    \/ Terminated

Spec == Init /\ [][Next]_vars

-----------------------------------------------------------------------------
(* Properties                                                              *)

TypeOK ==
    /\ session \in Session
    /\ stack \in Seq(Frame) /\ Len(stack) <= MaxDepth
    /\ ddlNest \in Nat /\ extNest \in Nat
    /\ ddlLock \in Locks
    /\ raising \in BOOLEAN
    /\ stmts \in 0..MaxStatements

\* The nesting levels always count the invocations on the stack that
\* raised them: however an ERROR unwinds the re-entrant hook, and
\* whichever handler catches it, no level leaks into later statements.
NestLevelsMatchStack ==
    /\ ddlNest = Cardinality({i \in 1..Len(stack) : stack[i].captured})
    /\ extNest = Cardinality({i \in 1..Len(stack) : stack[i].inExt})

\* Every persistent DDL statement the node executes reaches the other
\* nodes: it was captured, or an enclosing statement was (captured DDL,
\* CREATE/DROP EXTENSION, bdr.replicate_ddl_command), unless replication
\* is switched off for the session or the node is replaying.
PersistentDDLReplicated ==
    \A i \in 1..Len(stack) :
        (/\ stack[i].kind \in DDLKinds /\ stack[i].persistent
         /\ session.database = "bdr"
         /\ ~session.skipRepl /\ ~session.replaying)
        => \/ stack[i].captured
           \/ \E j \in 1..i - 1 :
                 \/ stack[j].captured
                 \/ stack[j].kind \in ExtensionKinds \cup {"ReplicateDdl"}

\* What bdr_node_set_read_only promises for DDL: on a read-only node of a
\* BDR database no statement that changes a permanent object runs, however
\* it is nested (function body, DO block, multi-statement string,
\* bdr.replicate_ddl_command), unless a peer's change is being replayed or
\* bdr.permit_unsafe_ddl_commands is set.  Extension scripts skip the
\* hook's checks, so this rests on CREATE and ALTER EXTENSION being refused.
ReadOnlyNodeRunsNoPersistentDDL ==
    (/\ session.readOnly /\ session.database = "bdr"
     /\ ~session.permitUnsafe /\ ~session.replaying)
    => \A i \in 1..Len(stack) :
           stack[i].kind \in DDLKinds \cup {"LocalWrite", "Database"}
               => ~stack[i].persistent
=============================================================================
