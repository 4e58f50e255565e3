------------------------------ MODULE RowLookup ------------------------------
(***************************************************************************)
(* The apply worker's primary-key lookup, find_pkey_tuple() in             *)
(* src/bdr_executor.c, racing local writer transactions on the same row.   *)
(*                                                                         *)
(* The row is a sequence of heap versions, each stamped with the xid that  *)
(* inserted it (xmin) and the xid that updated or deleted it (xmax).  The  *)
(* lookup scans the unique index with a dirty snapshot, waits on any       *)
(* in-progress writer it sees and starts over, and, when asked to lock,    *)
(* locks the version it found with heap_lock_tuple(LockWaitBlock).         *)
(*                                                                         *)
(* Local writers are one-shot transactions that insert, update or delete   *)
(* the row and then commit or abort; they are the PostgreSQL environment,  *)
(* not code of this repository.                                            *)
(***************************************************************************)
EXTENDS Naturals, Sequences, FiniteSets

CONSTANTS
    Tx,          \* local writer transactions (model values)
    Boot,        \* the committed transaction that created the initial row
    NoXact,      \* InvalidTransactionId
    MaxLookups   \* bound on the changes the apply worker looks up

ASSUME NoXact \notin Tx \cup {Boot} /\ Boot \notin Tx
ASSUME MaxLookups \in Nat \ {0}

Xact == Tx \cup {Boot}

VARIABLES
    versions,   \* heap versions of the row: [xmin, xmax]
    xstate,     \* xstate[x]: "idle" | "active" | "committed" | "aborted"
    op,         \* op[t]: the one write transaction t performs
    pc,         \* where the apply worker is in find_pkey_tuple
    lockReq,    \* the 'lock' argument of the current lookup
    slot,       \* index of the version the scan returned (0: none)
    xwait,      \* the xid the lookup waits on in XactLockTableWait
    applyLock,  \* index of the version the apply worker holds locked
    lookups     \* lookups started so far

wvars == <<versions, xstate, op>>
avars == <<pc, lockReq, slot, xwait, applyLock, lookups>>
vars == <<wvars, avars>>

PCs == {"idle", "scan", "wait", "lock", "held", "got", "absent", "error"}

-----------------------------------------------------------------------------
(* Tuple visibility                                                        *)

InProgress(x) == x # NoXact /\ xstate[x] = "active"
Committed(x)  == x # NoXact /\ xstate[x] = "committed"

\* HeapTupleSatisfiesDirty: inserted by a committed or in-progress xact and
\* not deleted by a committed one.
DirtyVisible(i) ==
    /\ Committed(versions[i].xmin) \/ InProgress(versions[i].xmin)
    /\ ~Committed(versions[i].xmax)

VisibleVersions == {i \in 1..Len(versions) : DirtyVisible(i)}

\* The version a plain update or delete by a local writer acts on: the live
\* one, not locked by anybody else.
Updatable(i) ==
    /\ Committed(versions[i].xmin)
    /\ ~InProgress(versions[i].xmax) /\ ~Committed(versions[i].xmax)
    /\ applyLock # i

\* A fault: the xid to wait on read from the tuple header rather than from
\* the dirty snapshot, so a committed inserter is waited on as well.
WaitTargetFromHeader(i) ==
    IF InProgress(versions[i].xmax) THEN versions[i].xmax ELSE versions[i].xmin

\* snap.xmin / snap.xmax left by the dirty snapshot, and line 259's choice.
WaitTarget(i) ==
    IF InProgress(versions[i].xmin) THEN versions[i].xmin
    ELSE IF InProgress(versions[i].xmax) THEN versions[i].xmax
    ELSE NoXact

-----------------------------------------------------------------------------
Init ==
    /\ \/ versions = << >>
       \/ versions = << [xmin |-> Boot, xmax |-> NoXact] >>
    /\ xstate = [x \in Xact |-> IF x = Boot THEN "committed" ELSE "idle"]
    /\ op = [t \in Tx |-> "none"]
    /\ pc = "idle"
    /\ lockReq = FALSE
    /\ slot = 0
    /\ xwait = NoXact
    /\ applyLock = 0
    /\ lookups = 0

-----------------------------------------------------------------------------
(* Local writer transactions                                               *)

Insert(t) ==
    /\ xstate[t] = "idle"
    /\ VisibleVersions = {}          \* otherwise the unique index blocks it
    /\ versions' = Append(versions, [xmin |-> t, xmax |-> NoXact])
    /\ xstate' = [xstate EXCEPT ![t] = "active"]
    /\ op' = [op EXCEPT ![t] = "insert"]
    /\ UNCHANGED avars

Update(t, i) ==
    /\ xstate[t] = "idle"
    /\ Updatable(i)
    /\ versions' = Append([versions EXCEPT ![i].xmax = t],
                          [xmin |-> t, xmax |-> NoXact])
    /\ xstate' = [xstate EXCEPT ![t] = "active"]
    /\ op' = [op EXCEPT ![t] = "update"]
    /\ UNCHANGED avars

Delete(t, i) ==
    /\ xstate[t] = "idle"
    /\ Updatable(i)
    /\ versions' = [versions EXCEPT ![i].xmax = t]
    /\ xstate' = [xstate EXCEPT ![t] = "active"]
    /\ op' = [op EXCEPT ![t] = "delete"]
    /\ UNCHANGED avars

Finish(t) ==
    /\ xstate[t] = "active"
    /\ \E outcome \in {"committed", "aborted"} :
          xstate' = [xstate EXCEPT ![t] = outcome]
    /\ UNCHANGED <<versions, op, avars>>

-----------------------------------------------------------------------------
(* The apply worker: find_pkey_tuple()                                     *)

\* A change arrives; the caller asks for the tuple with or without a lock.
StartLookup ==
    /\ pc = "idle"
    /\ lookups < MaxLookups
    /\ \E l \in BOOLEAN : lockReq' = l
    /\ pc' = "scan"
    /\ lookups' = lookups + 1
    /\ UNCHANGED <<wvars, slot, xwait, applyLock>>

\* Where the lookup goes once the scan returned version i and nothing is
\* awaited (lines 269-308).
AfterScan(i) == IF lockReq THEN "lock" ELSE "got"

\* A fault: use the tuple the dirty snapshot returned without waiting for
\* the transaction that is writing it.
ScanWithoutWait ==
    /\ pc = "scan"
    /\ \/ /\ VisibleVersions = {}
          /\ pc' = "absent" /\ slot' = 0 /\ xwait' = NoXact
       \/ \E i \in VisibleVersions :
          /\ slot' = i /\ xwait' = NoXact /\ pc' = AfterScan(i)
    /\ UNCHANGED <<wvars, lockReq, applyLock, lookups>>

\* retry: index scan with a dirty snapshot (lines 246-267).  With no match
\* the lookup returns false; a match written by an in-progress transaction
\* makes it wait on that transaction and start over.
Scan ==
    /\ pc = "scan"
    /\ \/ /\ VisibleVersions = {}
          /\ pc' = "absent" /\ slot' = 0 /\ xwait' = NoXact
       \/ \E i \in VisibleVersions :
          /\ slot' = i
          /\ xwait' = WaitTarget(i)
          /\ pc' = IF WaitTarget(i) # NoXact THEN "wait" ELSE AfterScan(i)
    /\ UNCHANGED <<wvars, lockReq, applyLock, lookups>>

\* A fault: once the writer has ended, the version found before the wait is
\* used instead of scanning again.
WaitDoneKeepingSlot ==
    /\ pc = "wait"
    /\ ~InProgress(xwait)
    /\ pc' = AfterScan(slot)
    /\ xwait' = NoXact
    /\ UNCHANGED <<wvars, lockReq, slot, applyLock, lookups>>

\* XactLockTableWait(xwait) returns once xwait has ended; goto retry.
WaitDone ==
    /\ pc = "wait"
    /\ ~InProgress(xwait)
    /\ pc' = "scan"
    /\ xwait' = NoXact
    /\ UNCHANGED <<wvars, lockReq, slot, applyLock, lookups>>

\* The TM_Result heap_lock_tuple gives for version i once no transaction is
\* writing it any more (LockWaitBlock has waited that out, and updates are
\* not followed).
LockResult(i) ==
    LET x == versions[i].xmax IN
    IF ~Committed(x) THEN "TM_Ok"
    ELSE IF op[x] = "update" THEN "TM_Updated" ELSE "TM_Deleted"

\* A fault: a concurrent update is taken as success.
LockTupleIgnoringUpdate ==
    /\ pc = "lock"
    /\ ~InProgress(versions[slot].xmax)
    /\ CASE LockResult(slot) \in {"TM_Ok", "TM_Updated"} ->
                pc' = "held" /\ applyLock' = slot
         [] OTHER -> pc' = "error" /\ UNCHANGED applyLock
    /\ UNCHANGED <<wvars, lockReq, slot, xwait, lookups>>

\* A fault: on TM_Updated lock the same TID again instead of rescanning.
LockTupleRetrySameTid ==
    /\ pc = "lock"
    /\ ~InProgress(versions[slot].xmax)
    /\ CASE LockResult(slot) = "TM_Ok" -> pc' = "held" /\ applyLock' = slot
         [] LockResult(slot) = "TM_Updated" -> UNCHANGED <<pc, applyLock>>
         [] OTHER -> pc' = "error" /\ UNCHANGED applyLock
    /\ UNCHANGED <<wvars, lockReq, slot, xwait, lookups>>

\* heap_lock_tuple(LockWaitBlock) and the switch on its result (269-304):
\* TM_Ok keeps the lock, TM_Updated goes back to retry, anything else -
\* TM_Deleted included - is elog(ERROR).
LockTuple ==
    /\ pc = "lock"
    /\ ~InProgress(versions[slot].xmax)
    /\ CASE LockResult(slot) = "TM_Ok" -> pc' = "held" /\ applyLock' = slot
         [] LockResult(slot) = "TM_Updated" ->
                pc' = "scan" /\ UNCHANGED applyLock
         [] OTHER -> pc' = "error" /\ UNCHANGED applyLock
    /\ UNCHANGED <<wvars, lockReq, slot, xwait, lookups>>

\* The caller applies the change and commits, releasing the tuple lock.
ApplyFinish ==
    /\ pc \in {"held", "got", "absent"}
    /\ pc' = "idle"
    /\ slot' = 0
    /\ applyLock' = 0
    /\ UNCHANGED <<wvars, lockReq, xwait, lookups>>

\* The ERROR aborts the apply transaction; the worker restarts and the
\* change is sent again.
Restart ==
    /\ pc = "error"
    /\ pc' = "idle"
    /\ slot' = 0
    /\ UNCHANGED <<wvars, lockReq, xwait, applyLock, lookups>>

\* Every change looked up and every local transaction ended.
Terminated ==
    /\ pc = "idle" /\ lookups = MaxLookups
    /\ \A x \in Tx : xstate[x] \in {"committed", "aborted"}
    /\ UNCHANGED vars

ApplyStep == StartLookup \/ Scan \/ WaitDone \/ LockTuple \/ ApplyFinish
             \/ Restart

WriterStep ==
    \E t \in Tx :
        \/ Insert(t)
        \/ \E i \in 1..Len(versions) : Update(t, i) \/ Delete(t, i)
        \/ Finish(t)

Next == ApplyStep \/ WriterStep \/ Terminated

\* The worker keeps running; a local transaction does not stay open forever.
Fairness ==
    /\ WF_vars(Scan) /\ WF_vars(WaitDone) /\ WF_vars(LockTuple)
    /\ WF_vars(ApplyFinish) /\ WF_vars(Restart)
    /\ \A t \in Tx : WF_vars(Finish(t))

Spec == Init /\ [][Next]_vars /\ Fairness

-----------------------------------------------------------------------------
(* Properties                                                              *)

TypeOK ==
    /\ versions \in Seq([xmin : Xact, xmax : Xact \cup {NoXact}])
    /\ xstate \in [Xact -> {"idle", "active", "committed", "aborted"}]
    /\ op \in [Tx -> {"none", "insert", "update", "delete"}]
    /\ pc \in PCs
    /\ lockReq \in BOOLEAN
    /\ slot \in 0..Len(versions)
    /\ xwait \in Tx \cup {NoXact}
    /\ applyLock \in 0..Len(versions)
    /\ lookups \in 0..MaxLookups

\* A tuple the lookup returns, with or without a lock, was written by a
\* committed transaction: the dirty snapshot's in-progress writers are
\* always waited out (lines 259-266) before the slot is used.
ReturnedTupleCommitted ==
    pc \in {"lock", "got", "held"} => Committed(versions[slot].xmin)

\* Once heap_lock_tuple returned TM_Ok the apply worker holds the row's
\* only live version: nobody has updated or deleted it, and no other
\* version of the key is visible to a dirty snapshot.
HeldVersionIsCurrent ==
    pc = "held" =>
        /\ applyLock = slot
        /\ ~Committed(versions[slot].xmax)
        /\ ~InProgress(versions[slot].xmax)
        /\ VisibleVersions = {slot}

\* Every lookup ends: it returns a tuple, returns "not found", or raises,
\* however many times concurrent writers make it wait and retry.
LookupCompletes ==
    pc = "scan" ~> pc \in {"held", "got", "absent", "error"}

\* Spec section 5: a row changed by a concurrent local transaction makes
\* the lookup wait and restart, never fail.  find_pkey_tuple raises
\* elog(ERROR) on TM_Deleted (line 301).
NoLookupError == pc # "error"

-----------------------------------------------------------------------------
(* Refinement: find_pkey_tuple implements LookupSpec.  The scan, the waits *)
(* and the lock attempts are all one busy lookup; the step that returns a  *)
(* tuple, "not found" or an error is the abstract answer.                  *)

LookupStatus ==
    CASE pc \in {"scan", "wait", "lock"} -> "busy"
      [] pc = "got"    -> "found"
      [] pc = "error"  -> "failed"
      [] OTHER         -> pc

Abs == INSTANCE LookupSpec
         WITH status <- LookupStatus, wantLock <- lockReq,
              found <- IF pc \in {"got", "held"} THEN slot ELSE 0

\* Every behaviour of find_pkey_tuple against local writers is one of
\* LookupSpec: each tuple it returns was the row's one current version when
\* returned, "not found" means the row had none, an error means the row had
\* been deleted, a held version is not changed by any writer, and a lookup
\* that can answer eventually does.
ImplementsLookupSpec == Abs!Spec
=============================================================================
