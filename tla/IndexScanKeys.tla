---------------------------- MODULE IndexScanKeys ----------------------------
(***************************************************************************)
(* The scan keys the apply worker builds to find a local row that an       *)
(* incoming tuple collides with: build_index_scan_keys() and               *)
(* build_index_scan_key() in src/bdr_executor.c, and the index scan of     *)
(* find_pkey_tuple() that uses them, as pure operators.                    *)
(*                                                                         *)
(* A table has two columns; a value is "a", "b" or Null.  An index is its  *)
(* pg_index row: unique or not, with expression columns or not, partial    *)
(* (its predicate stands for "column 2 is not null") or not, NULLS NOT     *)
(* DISTINCT or not, its indkey (the table column of each index column)     *)
(* and how many of those are key columns, the rest being INCLUDE columns.  *)
(* The dirty snapshot and the waits of find_pkey_tuple are RowLookup's.    *)
(***************************************************************************)
EXTENDS Naturals, Sequences

Null == "null"
Vals == {"a", "b"}
Attrs == 1..2

\* tup->values and tup->isnull of a BDRTupleData, as one function.
Tuples == [Attrs -> Vals \cup {Null}]

\* The index columns over Attrs: every indkey of one or two distinct
\* columns, with one or all of them key columns.
IndKeys == {<<1>>, <<2>>, <<1, 2>>, <<2, 1>>}

Indexes ==
    {idx \in [unique : BOOLEAN, expr : BOOLEAN, partial : BOOLEAN,
              nnd : BOOLEAN, indkey : IndKeys, nkey : 1..2] :
        idx.nkey <= Len(idx.indkey)}

\* The predicate a partial index stands for.
Pred(row) == row[2] # Null

\* scan_keys[i] = NULL
NoKey == << >>

-----------------------------------------------------------------------------
(* build_index_scan_key (lines 166-225)                                    *)

\* A fault: the scan argument taken from the tuple's column at the index
\* column's own position, not from the table column indkey names.
BuildIndexScanKeyByPosition(idx, tup) ==
    [skey     |-> [k \in 1..Len(idx.indkey) |->
                     [attno |-> k, arg |-> tup[k], isnull |-> tup[k] = Null]],
     hasnulls |-> \E k \in 1..Len(idx.indkey) : tup[k] = Null]

\* One equality key per attribute of the index relation (INCLUDE columns
\* too: RelationGetNumberOfAttributes), on index column attoff+1, with the
\* tuple's value of table column indkey[attoff]; SK_ISNULL where that value
\* is null.  Returns the keys and whether any was null.
BuildIndexScanKey(idx, tup) ==
    [skey     |-> [k \in 1..Len(idx.indkey) |->
                     [attno  |-> k,
                      arg    |-> tup[idx.indkey[k]],
                      isnull |-> tup[idx.indkey[k]] = Null]],
     hasnulls |-> \E k \in 1..Len(idx.indkey) : tup[idx.indkey[k]] = Null]

\* build_index_scan_keys (lines 121-160): no key for an index that is not
\* unique or has expression columns, nor for one whose key has a null.
BuildIndexScanKeys(idxs, tup) ==
    [i \in DOMAIN idxs |->
        IF ~idxs[i].unique \/ idxs[i].expr THEN NoKey
        ELSE LET r == BuildIndexScanKey(idxs[i], tup)
             IN IF r.hasnulls THEN NoKey ELSE r.skey]

\* The index scan of find_pkey_tuple (lines 246-253) with keys on every
\* index attribute: it returns a row the index holds (a partial index only
\* those meeting its predicate) whose index tuple equals every key.  A
\* btree equality key never matches null, and SK_ISNULL matches nothing.
ScanFinds(idx, skey, row) ==
    /\ skey # NoKey
    /\ idx.partial => Pred(row)
    /\ \A k \in DOMAIN skey :
          /\ ~skey[k].isnull
          /\ row[idx.indkey[skey[k].attno]] = skey[k].arg

-----------------------------------------------------------------------------
(* The reference: PostgreSQL's unique constraint                           *)

\* Inserting tup next to row violates idx: the index is unique, both rows
\* are in it, and they agree on every key column; nulls are distinct from
\* each other unless the index is NULLS NOT DISTINCT.
UniqueConflict(idx, tup, row) ==
    /\ idx.unique
    /\ idx.partial => Pred(tup) /\ Pred(row)
    /\ \A k \in 1..idx.nkey :
          LET a == idx.indkey[k] IN
          IF tup[a] = Null \/ row[a] = Null THEN idx.nnd /\ tup[a] = row[a]
          ELSE tup[a] = row[a]

\* The plain unique (and non-unique) indexes: no expression columns (the
\* code skips them), not partial, no INCLUDE columns and nulls distinct.  For
\* the other three kinds the equivalence below fails (see the hazards).
SupportedIndexes ==
    {[unique |-> u, expr |-> FALSE, partial |-> FALSE, nnd |-> FALSE,
      indkey |-> k, nkey |-> Len(k)] : u \in BOOLEAN, k \in IndKeys}

\* The scan keys build_index_scan_keys makes of tup find a local row
\* exactly when an insert of tup would violate that plain unique index: a
\* key on the wrong column, or a null taken as a value, makes the apply
\* worker miss an INSERT/INSERT conflict or invent one.
ScanKeysFindConflicts(tup) ==
    \A idx \in SupportedIndexes, row \in Tuples :
        UniqueConflict(idx, tup, row)
            <=> ScanFinds(idx, BuildIndexScanKeys(<<idx>>, tup)[1], row)
=============================================================================
