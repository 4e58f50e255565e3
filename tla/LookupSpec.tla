------------------------------ MODULE LookupSpec ------------------------------
(***************************************************************************)
(* What find_pkey_tuple() in src/bdr_executor.c promises the apply worker, *)
(* stated without its dirty snapshot, its waits and its retries: a lookup  *)
(* answers in one step, with the row's one current version (locked if      *)
(* asked), with "not found" when the row has none, or with an error when   *)
(* the row was deleted under a locking lookup; a locked version stays      *)
(* untouched until the apply transaction ends.                             *)
(*                                                                         *)
(* The row's versions and the local writers' transactions are the          *)
(* environment: any step may change them, save the xmax of a locked        *)
(* version.  RowLookup is shown to implement this specification.           *)
(***************************************************************************)
EXTENDS Naturals, Sequences

CONSTANTS Tx, Boot, NoXact, MaxLookups

VARIABLES
    versions, xstate, op,   \* the row and the local writers, as in RowLookup
    status,     \* idle, busy, found, held, absent or failed
    wantLock,   \* the lookup was asked to lock
    found,      \* the version returned (0: none)
    lookups

lvars == <<status, wantLock, found, lookups>>
vars == <<versions, xstate, op, lvars>>

Committed(x)  == x # NoXact /\ xstate[x] = "committed"
InProgress(x) == x # NoXact /\ xstate[x] = "active"

\* A version written by a committed transaction that no transaction is
\* updating or deleting, or has.
Current(i) ==
    /\ Committed(versions[i].xmin)
    /\ ~Committed(versions[i].xmax) /\ ~InProgress(versions[i].xmax)

\* A version some committed transaction deleted.
Deleted(i) ==
    /\ Committed(versions[i].xmin) /\ Committed(versions[i].xmax)
    /\ op[versions[i].xmax] = "delete"

Init ==
    /\ versions \in {<< >>, << [xmin |-> Boot, xmax |-> NoXact] >>}
    /\ xstate = [x \in Tx \cup {Boot} |-> IF x = Boot THEN "committed" ELSE "idle"]
    /\ op = [t \in Tx |-> "none"]
    /\ status = "idle" /\ wantLock = FALSE /\ found = 0 /\ lookups = 0

Begin ==
    /\ status = "idle" /\ lookups < MaxLookups
    /\ status' = "busy" /\ lookups' = lookups + 1
    /\ \E l \in BOOLEAN : wantLock' = l
    /\ UNCHANGED <<versions, xstate, op, found>>

\* The lookup returns the one current version, locked when asked.
Return ==
    /\ status = "busy"
    /\ \E i \in DOMAIN versions :
         /\ Current(i)
         /\ \A j \in DOMAIN versions \ {i} : ~Current(j)
         /\ found' = i
         /\ status' = IF wantLock THEN "held" ELSE "found"
    /\ UNCHANGED <<versions, xstate, op, wantLock, lookups>>

NotFound ==
    /\ status = "busy"
    /\ \A i \in DOMAIN versions : ~Current(i)
    /\ status' = "absent"
    /\ UNCHANGED <<versions, xstate, op, wantLock, found, lookups>>

\* A locking lookup fails only when a committed transaction deleted the row.
Fail ==
    /\ status = "busy" /\ wantLock
    /\ \E i \in DOMAIN versions : Deleted(i)
    /\ status' = "failed"
    /\ UNCHANGED <<versions, xstate, op, wantLock, found, lookups>>

\* The apply transaction ends, releasing any lock.
End ==
    /\ status \in {"found", "held", "absent", "failed"}
    /\ status' = "idle" /\ found' = 0
    /\ UNCHANGED <<versions, xstate, op, wantLock, lookups>>

\* Local writers: anything, except to a version the apply worker holds.
Env ==
    /\ status = "held" => versions'[found].xmax = versions[found].xmax
    /\ UNCHANGED lvars

Next == Begin \/ Return \/ NotFound \/ Fail \/ End \/ Env

\* A lookup does not stay busy while it could answer.
Spec == Init /\ [][Next]_vars /\ WF_vars(Return \/ NotFound \/ Fail)

=============================================================================
