----------------------------- MODULE HashTable -----------------------------
(***************************************************************************)
(* The chained hash table under StorageEngine (storage/hash_table.cpp).    *)
(*                                                                         *)
(* A bucket is the sequence of the nodes of its linked list, head first.   *)
(* The vector of buckets is a sequence, so bucket b of the code is         *)
(* buckets_[b + 1].  insert, erase and clear are one step each, except     *)
(* that the loop of rehash_if_needed takes one step for every node it      *)
(* moves: the table has no lock, and what a reader on another thread finds *)
(* in the middle of that loop is a question worth asking.  While the loop  *)
(* runs, old is the vector moved out of buckets_; otherwise it is << >>    *)
(* and the caller is free to start its next operation.                     *)
(***************************************************************************)
EXTENDS Integers, Sequences, FiniteSets

CONSTANTS Key,          \* keys
          Entry,        \* stored entries
          NoEntry,      \* std::nullopt
          Hash,         \* std::hash of every key
          BucketCount,  \* the constructor's argument
          MinBuckets    \* the constructor's lower limit (16 in the code)

ASSUME HashAssumption == Hash \in [Key -> Nat]

ASSUME BucketsAssumption == BucketCount \in Nat /\ MinBuckets \in Nat \ {0}

ASSUME NoEntryAssumption == NoEntry \notin Entry

VARIABLES buckets_,  \* the vector of chains
          size_,     \* the node counter
          old        \* the chains a running rehash has still to move

vars == <<buckets_, size_, old>>

Node == [key : Key, entry : Entry]

-----------------------------------------------------------------------------
(* Walking one chain.                                                      *)

\* bucket_index
Slot(bs, k) == (Hash[k] % Len(bs)) + 1

Holds(bs, k) ==
  \E i \in 1 .. Len(bs[Slot(bs, k)]) : bs[Slot(bs, k)][i].key = k

\* The node at which the search loops of insert, find and erase stop.
FirstAt(chain, k) ==
  CHOOSE i \in 1 .. Len(chain) :
    chain[i].key = k /\ \A j \in 1 .. (i - 1) : chain[j].key # k

find(bs, k) ==
  IF Holds(bs, k)
  THEN bs[Slot(bs, k)][FirstAt(bs[Slot(bs, k)], k)].entry
  ELSE NoEntry

-----------------------------------------------------------------------------
(* The changes the operations make to a vector of chains.                  *)

EmptyTable(n) == [i \in 1 .. n |-> << >>]

Overwrite(bs, k, e) ==
  LET s == Slot(bs, k)
      f == FirstAt(bs[s], k)
  IN  [bs EXCEPT ![s] = [@ EXCEPT ![f] = [key |-> k, entry |-> e]]]

Push(bs, k, e) ==
  [bs EXCEPT ![Slot(bs, k)] = <<[key |-> k, entry |-> e]>> \o @]

\* Fault: erase takes out the head of the chain, as if prev were null.
UnlinkHead(bs, k) ==
  [bs EXCEPT ![Slot(bs, k)] = Tail(@)]

Unlink(bs, k) ==
  LET s == Slot(bs, k)
      f == FirstAt(bs[s], k)
  IN  [bs EXCEPT ![s] = SubSeq(@, 1, f - 1) \o SubSeq(@, f + 1, Len(@))]

\* load <= max_load_factor_ fails: size / buckets > 0.75
LoadExceeded(size, n) == 4 * size > 3 * n

-----------------------------------------------------------------------------
Init ==
  /\ buckets_ = EmptyTable(IF BucketCount < MinBuckets THEN MinBuckets
                                                       ELSE BucketCount)
  /\ size_ = 0
  /\ old = << >>

\* insert of a key the chain already holds: the entry is replaced in place.
InsertExisting(k, e) ==
  /\ old = << >>
  /\ Holds(buckets_, k)
  /\ buckets_' = Overwrite(buckets_, k, e)
  /\ UNCHANGED <<size_, old>>

\* Fault: rehash_if_needed does not reset size_ before it inserts again.
InsertNewKeepsSize(k, e) ==
  /\ old = << >>
  /\ ~Holds(buckets_, k)
  /\ size_' = size_ + 1
  /\ \/ /\ ~LoadExceeded(size_ + 1, Len(buckets_))
        /\ buckets_' = Push(buckets_, k, e)
        /\ UNCHANGED old
     \/ /\ LoadExceeded(size_ + 1, Len(buckets_))
        /\ old' = Push(buckets_, k, e)
        /\ buckets_' = EmptyTable(2 * Len(buckets_))

\* Fault: the new vector is as long as the old one.
InsertNewSameLength(k, e) ==
  /\ old = << >>
  /\ ~Holds(buckets_, k)
  /\ \/ /\ ~LoadExceeded(size_ + 1, Len(buckets_))
        /\ buckets_' = Push(buckets_, k, e)
        /\ size_' = size_ + 1
        /\ UNCHANGED old
     \/ /\ LoadExceeded(size_ + 1, Len(buckets_))
        /\ old' = Push(buckets_, k, e)
        /\ buckets_' = EmptyTable(Len(buckets_))
        /\ size_' = 0

\* insert of a new key: a node at the head, then rehash_if_needed, which
\* returns at once or moves the chains out and starts its loop.
InsertNew(k, e) ==
  /\ old = << >>
  /\ ~Holds(buckets_, k)
  /\ \/ /\ ~LoadExceeded(size_ + 1, Len(buckets_))
        /\ buckets_' = Push(buckets_, k, e)
        /\ size_' = size_ + 1
        /\ UNCHANGED old
     \/ /\ LoadExceeded(size_ + 1, Len(buckets_))
        /\ old' = Push(buckets_, k, e)
        /\ buckets_' = EmptyTable(2 * Len(buckets_))
        /\ size_' = 0

\* Fault: a node keeps its bucket number when the vector has grown.
RehashMoveSameBucket ==
  \E i \in 1 .. Len(old) :
    /\ old[i] # << >>
    /\ \A j \in 1 .. (i - 1) : old[j] = << >>
    /\ buckets_' = [buckets_ EXCEPT ![i] = <<Head(old[i])>> \o @]
    /\ size_' = size_ + 1
    /\ old' = [old EXCEPT ![i] = Tail(@)]

\* Fault: the rest of the chain is let go of with its first node.
RehashMoveFirst ==
  \E i \in 1 .. Len(old) :
    /\ old[i] # << >>
    /\ \A j \in 1 .. (i - 1) : old[j] = << >>
    /\ buckets_' = Push(buckets_, Head(old[i]).key, Head(old[i]).entry)
    /\ size_' = size_ + 1
    /\ old' = [old EXCEPT ![i] = << >>]

\* One turn of the inner loop of rehash_if_needed: the next node of the first
\* chain that is not used up is inserted into the new vector and deleted.  The
\* insert finds no node with this key, and its own call of rehash_if_needed
\* returns at once: OnePlace and LoadBounded below say so.
RehashMove ==
  \E i \in 1 .. Len(old) :
    /\ old[i] # << >>
    /\ \A j \in 1 .. (i - 1) : old[j] = << >>
    /\ buckets_' = Push(buckets_, Head(old[i]).key, Head(old[i]).entry)
    /\ size_' = size_ + 1
    /\ old' = [old EXCEPT ![i] = Tail(@)]

\* The outer loop ends and the emptied vector goes out of scope.
RehashDone ==
  /\ old # << >>
  /\ \A i \in 1 .. Len(old) : old[i] = << >>
  /\ old' = << >>
  /\ UNCHANGED <<buckets_, size_>>

\* erase; a key that is not there changes nothing.
Erase(k) ==
  /\ old = << >>
  /\ Holds(buckets_, k)
  /\ buckets_' = Unlink(buckets_, k)
  /\ size_' = size_ - 1
  /\ UNCHANGED old

\* clear keeps the vector and its length.
Clear ==
  /\ old = << >>
  /\ buckets_' = EmptyTable(Len(buckets_))
  /\ size_' = 0
  /\ UNCHANGED old

Rehash == RehashMove \/ RehashDone

Call == \/ \E k \in Key, e \in Entry : InsertExisting(k, e) \/ InsertNew(k, e)
        \/ \E k \in Key : Erase(k)
        \/ Clear

Next == Call \/ Rehash

Spec == Init /\ [][Next]_vars

-----------------------------------------------------------------------------
(* The table as its callers see it once the running operation returns.     *)

Lookup(k) == IF old # << >> /\ Holds(old, k) THEN find(old, k)
                                             ELSE find(buckets_, k)

KV == INSTANCE KVMap WITH map <- [k \in Key |-> Lookup(k)]

KeysOf(bs) == {k \in Key : Holds(bs, k)}

-----------------------------------------------------------------------------
TypeOK ==
  /\ buckets_ \in Seq(Seq(Node))
  /\ Len(buckets_) > 0
  /\ size_ \in Nat
  /\ old \in Seq(Seq(Node))

\* The nodes of a vector of chains are where bucket_index looks for them, and
\* no key has two nodes.
WellPlaced(bs) ==
  \A b \in 1 .. Len(bs) : \A i \in 1 .. Len(bs[b]) :
    /\ Slot(bs, bs[b][i].key) = b
    /\ \A j \in 1 .. Len(bs[b]) : bs[b][j].key = bs[b][i].key => j = i

\* Every key is linked in at most one place of the whole structure, in the
\* bucket that bucket_index computes for it, at every step of a rehash too:
\* hash_table.cpp never leaves a node that find cannot reach, nor a second
\* node that a later erase would leave behind.
OnePlace ==
  /\ WellPlaced(buckets_)
  /\ old # << >> =>
       /\ WellPlaced(old)
       /\ \A k \in Key : ~(Holds(old, k) /\ Holds(buckets_, k))

\* size_, which DBSIZE, INFO and the sweep's log line read, is the number of
\* keys linked in buckets_: insert, erase, clear and the reset to 0 and recount
\* inside rehash_if_needed keep the counter and the chains together.
SizeCountsKeys ==
  IsFiniteSet(KeysOf(buckets_)) /\ size_ = Cardinality(KeysOf(buckets_))

\* The load factor is never exceeded between two operations, nor by the inserts
\* that rehash_if_needed itself makes: the recursion rehash -> insert ->
\* rehash_if_needed is never more than one level deep.
LoadBounded == ~LoadExceeded(size_, Len(buckets_))

\* The chained table implements the map: every step changes one key, or clears
\* all of them, or is invisible to a caller that waits for the operation to
\* return, as the moves of a rehash are.
ImplementsMap == KV!Spec

\* An operation of hash_table.cpp has the effect on the map that its caller
\* asked for, on the very key it was given, whatever else is in the chain;
\* an insert that makes the table grow has it at once.
CallsHaveTheirEffect ==
  [][/\ \A k \in Key, e \in Entry :
          InsertExisting(k, e) \/ InsertNew(k, e) => KV!Put(k, e)
     /\ \A k \in Key : Erase(k) => KV!Delete(k)
     /\ Clear => KV!Clear
     /\ Rehash => UNCHANGED [k \in Key |-> Lookup(k)]]_vars
=============================================================================
