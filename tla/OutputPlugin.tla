---------------------------- MODULE OutputPlugin ----------------------------
(***************************************************************************)
(* The change-streaming callbacks of the BDR output plugin,                *)
(* src/bdr_output.c: pg_decode_begin_txn(), pg_decode_change(),            *)
(* pg_decode_message() and pg_decode_commit_txn(), with their filters      *)
(* should_forward_changeset() and should_forward_change().                 *)
(*                                                                         *)
(* Logical decoding hands the plugin each committed transaction in commit  *)
(* order: BEGIN, its changes and transactional messages, COMMIT; a         *)
(* non-transactional message as it is met.  The plugin registers no        *)
(* filter_by_origin callback (lines 151-165), so every callback is called  *)
(* for every origin and each decides on its own whether to write.          *)
(*                                                                         *)
(* A transaction's origin is abstracted to what should_forward_changeset   *)
(* tells apart: none (written here), a peer of this BDR group, another     *)
(* origin (e.g. another logical replication system), and                   *)
(* DoNotReplicateId (bdr.do_not_replicate, used while restoring a base     *)
(* backup at join).  Relations are a user table, an internal table         *)
(* (bdr_conflict_history, bdr_conflict_handlers, bdr_global_locks) and     *)
(* bdr_replication_set_config, whose rows decide which actions of the user *)
(* table the client's replication sets replicate.  The walsender caches    *)
(* those flags in the table's BDR relcache entry.  Tuples are not          *)
(* represented; see OutputProtocol for their encoding.                     *)
(***************************************************************************)
EXTENDS Naturals, Sequences, FiniteSets

CONSTANTS
    MaxTxns,    \* WAL entries (transactions and non-transactional messages)
    MaxItems    \* changes and messages in one transaction

ASSUME MaxTxns \in Nat /\ MaxItems \in Nat \ {0}

Origins == {"local", "peer", "foreign", "doNotReplicate"}

Rels == {"userTable", "conflictHistory", "replSetConfig"}

\* The internal relations whose oids pg_decode_startup looks up.
InternalRels == {"conflictHistory"}

\* Relations in the bdr schema.
BdrSchemaRels == {"conflictHistory", "replSetConfig"}

\* bdr.bdr_replication_set_config (BdrReplicationSetConfigRelid).
ConfigRel == "replSetConfig"

Actions == {"insert", "update", "delete"}

\* What bdr_heap_compute_replication_settings makes of the configuration
\* for the user table and the client's sets: inserts only, or every action.
Configs == {{"insert"}, Actions}
InitialConfig == {"insert"}

Tag == [insert |-> "I", update |-> "U", delete |-> "D"]

\* A change; one to bdr_replication_set_config carries the configuration
\* it leaves.  Any origin may carry one: the bdr.* functions change it on
\* this node, and since the bdr schema is always sent (lines 841-843) a
\* peer's change to it is applied here under the peer's origin.
Change ==
    [kind : {"change"}, rel : Rels \ {ConfigRel}, action : Actions,
     config : {{}}]
    \cup [kind : {"change"}, rel : {ConfigRel}, action : {"update"},
          config : Configs]

\* BDR's own logical messages (DDL lock protocol) are logged by BDR's own
\* sessions, which have no replication origin: a transaction that carries
\* one is local.
TxnMessage == [kind : {"message"}]

Txn(origin) ==
    {[kind |-> "txn", origin |-> origin, items |-> s] :
        s \in UNION {[1..n -> Change \cup
                             (IF origin = "local" THEN TxnMessage ELSE {})] :
                        n \in 1..MaxItems}}

VARIABLES
    forward,    \* the client's forward_changesets option (line 524)
    wal,        \* committed transactions and messages, in commit order
    pos,        \* the WAL entry being decoded
    item,       \* 0 before BEGIN, then the next item, Len+1 at COMMIT
    out,        \* the records written to the client
    cache       \* the user table's BDR relcache entry: computed_repl_valid
                \* and the computed_repl_insert/update/delete flags

vars == <<forward, wal, pos, item, out, cache>>

Record(tag, i) == [tag |-> tag, txn |-> i, rel |-> "none"]

-----------------------------------------------------------------------------
\* should_forward_changeset (lines 803-822): local changes, and every change
\* when forwarding; else none marked DoNotReplicateId and none of a peer.
ShouldForwardChangeset(origin) ==
    \/ origin = "local" \/ forward
    \/ origin # "doNotReplicate" /\ origin # "peer"

\* The configuration the historic snapshot shows while item n of WAL entry
\* i is decoded: the one the last change to bdr_replication_set_config
\* before it left, in commit order and, within its transaction, in order.
ConfigAt(i, n) ==
    LET earlier == {e \in (1..i) \X (1..MaxItems) :
                      /\ wal[e[1]].kind = "txn"
                      /\ e[2] \in DOMAIN wal[e[1]].items
                      /\ e[1] < i \/ e[2] < n
                      /\ wal[e[1]].items[e[2]].kind = "change"
                      /\ wal[e[1]].items[e[2]].rel = ConfigRel}
        last == CHOOSE e \in earlier :
                  \A f \in earlier : f[1] < e[1] \/ (f[1] = e[1] /\ f[2] <= e[2])
    IN IF earlier = {} THEN InitialConfig
       ELSE wal[last[1]].items[last[2]].config

\* The flags of the user table: the cached ones, or, when the cache is not
\* valid, bdr_heap_compute_replication_settings from the visible
\* configuration.
Flags(c) == IF c.valid THEN c.flags ELSE ConfigAt(pos, item)

ShouldForwardChange(rel, action) ==
    LET flushed == IF rel = ConfigRel THEN [cache EXCEPT !.valid = FALSE]
                   ELSE cache
    IN CASE rel \in InternalRels  -> [send |-> FALSE, cache |-> cache]
         [] rel \in BdrSchemaRels -> [send |-> TRUE, cache |-> flushed]
         [] OTHER -> [send |-> action \in Flags(cache),
                      cache |-> [valid |-> TRUE, flags |-> Flags(cache)]]

\* The WAL entry being decoded is a transaction and the decoder is at its
\* k-th item, 0 standing for its BEGIN.
AtItem(k) ==
    /\ pos <= Len(wal) /\ wal[pos].kind = "txn"
    /\ item = k

\* The item the decoder is at.
Current == wal[pos].items[item]

\* The decoder is at an item of the transaction of the given kind.
AtItemOfKind(kind) ==
    /\ pos <= Len(wal) /\ wal[pos].kind = "txn"
    /\ item \in DOMAIN wal[pos].items
    /\ Current.kind = kind

-----------------------------------------------------------------------------
(* The database commits a transaction, or logs a non-transactional BDR     *)
(* message (outside this file).                                            *)
CommitTxn ==
    /\ Len(wal) < MaxTxns
    /\ \E origin \in Origins : \E t \in Txn(origin) : wal' = Append(wal, t)
    /\ UNCHANGED <<forward, pos, item, out, cache>>

LogMessage ==
    /\ Len(wal) < MaxTxns
    /\ wal' = Append(wal, [kind |-> "message"])
    /\ UNCHANGED <<forward, pos, item, out, cache>>

\* pg_decode_begin_txn (lines 871-925).
Begin ==
    /\ AtItem(0)
    /\ out' = IF ShouldForwardChangeset(wal[pos].origin)
                THEN Append(out, Record("B", pos)) ELSE out
    /\ item' = 1
    /\ UNCHANGED <<forward, wal, pos, cache>>

ChangeRecord == [tag |-> Tag[Current.action], txn |-> pos, rel |-> Current.rel]

\* pg_decode_change testing only the relation, as pg_decode_message does.
DecodeChangeRelationOnly ==
    /\ AtItemOfKind("change")
    /\ LET r == ShouldForwardChange(Current.rel, Current.action) IN
         /\ cache' = r.cache
         /\ out' = IF r.send THEN Append(out, ChangeRecord) ELSE out
    /\ item' = item + 1
    /\ UNCHANGED <<forward, wal, pos>>

\* pg_decode_change (lines 967-1032): 'I', 'U' or 'D' with the relation.
DecodeChange ==
    /\ AtItemOfKind("change")
    /\ IF ShouldForwardChangeset(wal[pos].origin)
       THEN LET r == ShouldForwardChange(Current.rel, Current.action) IN
              /\ cache' = r.cache
              /\ out' = IF r.send THEN Append(out, ChangeRecord) ELSE out
       ELSE UNCHANGED <<out, cache>>
    /\ item' = item + 1
    /\ UNCHANGED <<forward, wal, pos>>

\* pg_decode_message (lines 1240-1255) for a transactional message: 'M',
\* whatever the transaction's origin.
DecodeTxnMessage ==
    /\ AtItemOfKind("message")
    /\ out' = Append(out, Record("M", pos))
    /\ item' = item + 1
    /\ UNCHANGED <<forward, wal, pos, cache>>

\* pg_decode_commit_txn (lines 941-964).
Commit ==
    /\ pos <= Len(wal) /\ wal[pos].kind = "txn"
    /\ item = Len(wal[pos].items) + 1
    /\ out' = IF ShouldForwardChangeset(wal[pos].origin)
                THEN Append(out, Record("C", pos)) ELSE out
    /\ pos' = pos + 1 /\ item' = 0
    /\ UNCHANGED <<forward, wal, cache>>

\* pg_decode_message for a non-transactional message.
DecodeMessage ==
    /\ pos <= Len(wal) /\ wal[pos].kind = "message"
    /\ out' = Append(out, Record("M", 0))
    /\ pos' = pos + 1
    /\ UNCHANGED <<forward, wal, item, cache>>

Terminated ==
    /\ Len(wal) = MaxTxns /\ pos > Len(wal)
    /\ UNCHANGED vars

Init ==
    /\ forward \in BOOLEAN
    /\ wal = <<>> /\ pos = 1 /\ item = 0 /\ out = <<>>
    /\ cache = [valid |-> FALSE, flags |-> {}]

Next ==
    \/ CommitTxn \/ LogMessage
    \/ Begin \/ DecodeChange \/ DecodeTxnMessage \/ Commit \/ DecodeMessage
    \/ Terminated

Spec == Init /\ [][Next]_vars

-----------------------------------------------------------------------------
TypeOK ==
    /\ forward \in BOOLEAN
    /\ wal \in Seq(UNION {Txn(o) : o \in Origins} \cup {[kind |-> "message"]})
    /\ cache \in [valid : BOOLEAN, flags : SUBSET Actions]
    /\ pos \in 1..Len(wal) + 1
    /\ out \in Seq([tag : {"B", "I", "U", "D", "M", "C"}, txn : 0..MaxTxns,
                    rel : Rels \cup {"none"}])

ChangeTags == {"I", "U", "D"}

\* The transaction whose BEGIN is the last BEGIN or COMMIT written before
\* the k-th record, or 0 when none is open.
OpenTxn(k) ==
    LET frames == {j \in 1..k - 1 : out[j].tag \in {"B", "C"}}
        last == CHOOSE j \in frames : \A m \in frames : m <= j
    IN IF frames = {} \/ out[last].tag = "C" THEN 0 ELSE out[last].txn

\* The client sees well-formed transactions: a BEGIN only between
\* transactions, and every change, transactional message and COMMIT inside
\* the BEGIN of its own transaction.  Each of pg_decode_begin_txn,
\* pg_decode_change and pg_decode_commit_txn tests the origin on its own.
WellFramed ==
    \A k \in DOMAIN out :
        IF out[k].tag = "B" THEN OpenTxn(k) = 0
        ELSE out[k].txn # 0 => OpenTxn(k) = out[k].txn

\* The changes the client should get: those of its own node and of other
\* systems, or all when it forwards; never of the internal relations;
\* all of the rest of the bdr schema; of the user table the actions the
\* configuration in force when the change was made replicates.
Wanted(origin, c, config) ==
    /\ c.kind = "change"
    /\ forward \/ origin \in {"local", "foreign"}
    /\ c.rel \notin InternalRels
    /\ c.rel \in BdrSchemaRels \/ c.action \in config

\* The change records the client should get for a transaction, in order.
Expected(i) ==
    LET its  == wal[i].items
        kept == SelectSeq([n \in DOMAIN its |-> n],
                          LAMBDA n : Wanted(wal[i].origin, its[n], ConfigAt(i, n)))
    IN [m \in DOMAIN kept |->
          [tag |-> Tag[its[kept[m]].action], txn |-> i, rel |-> its[kept[m]].rel]]

\* The change records the client got for a transaction, in order.
Sent(i) == SelectSeq(out, LAMBDA r : r.txn = i /\ r.tag \in ChangeTags)

\* A change to bdr_replication_set_config in a transaction before the i-th
\* that should_forward_changeset skipped: pg_decode_change returns before
\* should_forward_change, so the flush of line 838 never runs for it.
ConfigChangeSkippedBefore(i) ==
    \E j \in 1..i - 1 :
        /\ wal[j].kind = "txn"
        /\ ~ShouldForwardChangeset(wal[j].origin)
        /\ \E n \in DOMAIN wal[j].items : wal[j].items[n].rel = ConfigRel

=============================================================================
