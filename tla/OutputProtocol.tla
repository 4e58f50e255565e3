--------------------------- MODULE OutputProtocol ---------------------------
(***************************************************************************)
(* Protocol negotiation and tuple encoding of the BDR output plugin,       *)
(* src/bdr_output.c: pg_decode_startup() with bdr_ensure_node_ready() and  *)
(* start_lsn_sanity_check(), pg_decode_shutdown(), and write_tuple() with  *)
(* decide_datum_transfer().                                                *)
(*                                                                         *)
(* A walsender for a peer's slot starts: the client's options decide       *)
(* whether column values may be sent as binary images or in send/recv      *)
(* form.  Each decoded row is written column by column, each column as     *)
(* 'n' (null), 'u' (unchanged TOAST), 'b', 's' or 't'.                     *)
(*                                                                         *)
(* The server is PostgreSQL 10 or later, whose timestamps are always       *)
(* 64-bit integers.  The client describes itself: its architecture         *)
(* (sizeof int/long/Datum, endianness, float4/float8 by value), whether    *)
(* its datetimes are integers, and whether its major version is ours.      *)
(***************************************************************************)
EXTENDS Naturals, FiniteSets

CONSTANTS
    ColTypes,   \* the column types of the decoded relation
    MaxStarts   \* walsender starts (the client reconnects after an exit)

\* The types a column may have.  For each: typtype, whether its oid is
\* below FirstNormalObjectId, typelem set, attlen -1, a receive function.
TypeInfo ==
    [int4      |-> [typtype |-> "b", builtin |-> TRUE,  elem |-> FALSE, varlena |-> FALSE, recv |-> TRUE],
     text      |-> [typtype |-> "b", builtin |-> TRUE,  elem |-> FALSE, varlena |-> TRUE,  recv |-> TRUE],
     timestamp |-> [typtype |-> "b", builtin |-> TRUE,  elem |-> FALSE, varlena |-> FALSE, recv |-> TRUE],
     interval  |-> [typtype |-> "b", builtin |-> TRUE,  elem |-> FALSE, varlena |-> FALSE, recv |-> TRUE],
     int4array |-> [typtype |-> "b", builtin |-> TRUE,  elem |-> TRUE,  varlena |-> TRUE,  recv |-> TRUE],
     composite |-> [typtype |-> "c", builtin |-> FALSE, elem |-> FALSE, varlena |-> TRUE,  recv |-> TRUE],
     userbase  |-> [typtype |-> "b", builtin |-> FALSE, elem |-> FALSE, varlena |-> TRUE,  recv |-> FALSE]]

ASSUME ColTypes \subseteq DOMAIN TypeInfo /\ MaxStarts \in Nat

\* The types decide_datum_transfer treats as datetime (line 1071).
DatetimeTypes == {"timestamp"}

\* The builtin types whose binary image and send/recv form hold a
\* timestamp-like value, an int64 or a float8 by the build's datetime kind.
DatetimeRepresentation == {"timestamp", "interval"}

\* Architecture of the client relative to ours (lines 681-697).
Archs == {"same", "sizeofDiffers", "endianDiffers", "byvalDiffers"}

\* bdr.bdr_nodes status of the local node and of the peer.
LocalStatuses == {"none", "beginningInit", "copyingInitialData", "catchup",
                  "creatingOutboundSlots", "ready", "killed"}
RemoteStatuses == {"absent", "ready", "killed"}

Formats == {"n", "u", "b", "s", "t"}

VARIABLES
    pc,         \* the walsender: idle, streaming, init, error or down
    client,     \* what the client said of itself: [arch, intDatetime, sameMajor]
    proto,      \* BdrOutputData: [binary, sendrecv, mismatch]
    slotHeld,   \* this walsender holds a BdrWorkerCtl slot
    tuple,      \* the format of each column of the last tuple written
    starts

vars == <<pc, client, proto, slotHeld, tuple, starts>>

NoTuple == [t \in ColTypes |-> "none"]

-----------------------------------------------------------------------------
(* pg_decode_startup (lines 458-788)                                       *)

\* Lines 674-716: the generic decision on binary and send/recv transfer.
Negotiate(c) ==
    [binary   |-> c.arch = "same",
     sendrecv |-> c.sameMajor,
     mismatch |-> ~c.intDatetime]

\* bdr_ensure_node_ready (lines 285-373): the node statuses that let the
\* walsender stream.
NodeReady(our, remote) ==
    /\ remote # "killed"
    /\ our \in {"ready", "creatingOutboundSlots", "catchup",
                "copyingInitialData"}

\* The option parsers (lines 166-284) raise an ERROR on a malformed value.
OptionFaults == {"badOption"}

\* start_lsn_sanity_check under bdr.check_lsn_mismatch (lines 396-453):
\* the peer asks for an LSN beyond our insert position, or we for one
\* beyond the peer's.
LsnFaults == {"remoteFutureLsn", "localFutureLsn"}

\* After the options (lines 608-668): the bdr schema is missing, a required
\* option is missing (bdr_req_param), the encodings differ, or either side's
\* BDR version is too old for the other.
CheckFaults == {"noSchema", "missingParam", "encoding", "version"}

\* The first check of the startup callback a connection fails, if any: the
\* option loop (lines 490-587, an unknown option or "unidirectional"), the
\* checks above, and paused worker management (lines 769-773).
Faults == {"none", "paused"} \cup OptionFaults \cup LsnFaults \cup CheckFaults

\* Where the startup callback leaves the walsender, its checks taken in the
\* order it makes them.  start_lsn_sanity_check signals the postmaster when
\* the peer asks for an LSN beyond our insert position, which shuts the
\* instance down; every other check raises an ERROR that ends the
\* walsender.  While the slot is being created (is_init) the option checks,
\* the negotiation and bdr_ensure_node_ready are skipped; the option
\* "interactive" (lines 553-574) supplies every required option.
StartupOutcome(isInit, interactive, fault, our, remote) ==
    LET skipped == IF isInit THEN {"missingParam", "encoding", "version"}
                   ELSE IF interactive THEN {"missingParam"} ELSE {}
    IN
    IF fault = "remoteFutureLsn" THEN "down"
    ELSE IF fault \notin {"none", "paused"} \cup skipped THEN "error"
    ELSE IF ~isInit /\ ~NodeReady(our, remote) THEN "error"
    ELSE IF fault = "paused" THEN "error"
    ELSE IF isInit THEN "init"
    ELSE "streaming"

\* The whole startup callback: on success the walsender holds a worker slot.
Startup ==
    /\ pc = "idle" /\ starts < MaxStarts
    /\ starts' = starts + 1
    /\ \E isInit, interactive \in BOOLEAN, fault \in Faults,
          c \in [arch : Archs, intDatetime : BOOLEAN, sameMajor : BOOLEAN],
          our \in LocalStatuses, remote \in RemoteStatuses :
         LET cl == IF interactive
                     THEN [arch |-> "same", intDatetime |-> TRUE, sameMajor |-> TRUE]
                     ELSE c
             out == StartupOutcome(isInit, interactive, fault, our, remote)
         IN
         /\ pc' = out
         /\ slotHeld' = (out \in {"streaming", "init"})
         /\ client' = cl
         /\ proto' = IF out = "streaming" THEN Negotiate(cl)
                     ELSE [binary |-> FALSE, sendrecv |-> FALSE, mismatch |-> FALSE]
    /\ UNCHANGED tuple

\* pg_decode_shutdown (lines 791-797) releases the worker slot; after an
\* ERROR the walsender exits and the peer reconnects.
Shutdown ==
    /\ pc \in {"streaming", "init", "error"}
    /\ pc' = "idle" /\ slotHeld' = FALSE /\ tuple' = NoTuple
    /\ UNCHANGED <<client, proto, starts>>

-----------------------------------------------------------------------------
(* write_tuple (lines 1106-1237)                                           *)

\* The decision without the datetime-mismatch branch of line 1070.
DecideDatumTransferIgnoringMismatch(t) ==
    LET ty == TypeInfo[t] IN
    CASE proto.binary /\ ty.typtype = "b" /\ ty.builtin /\ ~ty.elem -> "b"
      [] proto.sendrecv /\ ty.recv /\ (ty.builtin \/ ty.typtype # "c")
             /\ (ty.builtin \/ ~ty.elem) -> "s"
      [] OTHER -> "t"

\* decide_datum_transfer (lines 1065-1100) for a non-null column.
DecideDatumTransfer(t) ==
    LET ty == TypeInfo[t] IN
    CASE proto.mismatch /\ t \in DatetimeTypes -> "t"
      [] proto.binary /\ ty.typtype = "b" /\ ty.builtin /\ ~ty.elem -> "b"
      [] proto.sendrecv /\ ty.recv /\ (ty.builtin \/ ty.typtype # "c")
             /\ (ty.builtin \/ ~ty.elem) -> "s"
      [] OTHER -> "t"

\* The column's format for a value that is null, stored out of line and
\* unchanged by an UPDATE, or present.
ColumnFormat(t, v) ==
    CASE v = "null" -> "n"
      [] v = "toast" /\ TypeInfo[t].varlena -> "u"
      [] OTHER -> DecideDatumTransfer(t)

\* A decoded row of the relation is written.
WriteTuple ==
    /\ pc = "streaming"
    /\ \E vals \in [ColTypes -> {"value", "null", "toast"}] :
         tuple' = [t \in ColTypes |-> ColumnFormat(t, vals[t])]
    /\ UNCHANGED <<pc, client, proto, slotHeld, starts>>

Stopped ==
    /\ pc \in {"idle", "down"} /\ (pc = "down" \/ starts = MaxStarts)
    /\ UNCHANGED vars

Init ==
    /\ pc = "idle"
    /\ client = [arch |-> "same", intDatetime |-> TRUE, sameMajor |-> TRUE]
    /\ proto = [binary |-> FALSE, sendrecv |-> FALSE, mismatch |-> FALSE]
    /\ slotHeld = FALSE
    /\ tuple = NoTuple
    /\ starts = 0

Next == Startup \/ Shutdown \/ WriteTuple \/ Stopped

Spec == Init /\ [][Next]_vars

-----------------------------------------------------------------------------
TypeOK ==
    /\ pc \in {"idle", "streaming", "init", "error", "down"}
    /\ client \in [arch : Archs, intDatetime : BOOLEAN, sameMajor : BOOLEAN]
    /\ proto \in [binary : BOOLEAN, sendrecv : BOOLEAN, mismatch : BOOLEAN]
    /\ slotHeld \in BOOLEAN
    /\ tuple \in [ColTypes -> Formats \cup {"none"}]
    /\ starts \in 0..MaxStarts

\* The client can read a column in the format it was sent in.  A binary
\* image is only meaningful to a build of the same architecture and, for a
\* datetime value, the same datetime representation; a send/recv form only
\* to the same major version and datetime representation; an embedded type
\* oid only when the type is builtin.  Text, null and unchanged-TOAST
\* markers are always readable.
Readable(t, f) ==
    LET ty == TypeInfo[t]
        sameDatetime == t \in DatetimeRepresentation => client.intDatetime
    IN
    CASE f = "b" -> ty.builtin /\ client.arch = "same" /\ sameDatetime
      [] f = "s" -> /\ ty.recv /\ client.sameMajor /\ sameDatetime
                    /\ (ty.elem \/ ty.typtype = "c") => ty.builtin
      [] OTHER -> TRUE

\* The comment at line 1069, "always disallow fancyness if there's type
\* representation mismatches": every column write_tuple sends, whatever
\* the client's architecture, version and datetime representation, is one
\* the client can decode.
DatumsDecodable ==
    \A t \in ColTypes : tuple[t] # "none" => Readable(t, tuple[t])

=============================================================================
