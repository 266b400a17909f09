----------------------------- MODULE BufferPool -----------------------------
(***************************************************************************)
(* The buffers that StorageEngine::set copies keys and values through      *)
(* (memory/buffer_pool.cpp, memory/string_pool.cpp), used by every worker. *)
(*                                                                         *)
(* acquire and release hold mutex_ and are one step each; the copying in   *)
(* between is not protected by anything but the ownership of the block.    *)
(* Blocks are numbered in the order in which slabs_ brings them.  Strings  *)
(* that fit into a block are Short, the others Long.                       *)
(***************************************************************************)
EXTENDS Naturals, Sequences, SequencesExt

CONSTANTS Thread, Short, Long,
          NoString,        \* nothing was written yet
          initial_blocks,  \* blocks of the first slab
          SlabBlocks       \* blocks of a later one (64)

ASSUME BlocksAssumption == initial_blocks \in Nat /\ SlabBlocks \in Nat \ {0}

ASSUME ThreadsAssumption == IsFiniteSet(Thread)

VARIABLES free_list_,
          allocated,   \* blocks in slabs_
          content,     \* what is in each block
          at           \* where each thread is inside StringPool::copy

vars == <<free_list_, allocated, content, at>>

Idle == [pc |-> "idle"]

Goto(t, frame) == at' = [at EXCEPT ![t] = frame]

Numbers(from, n) == [i \in 1 .. n |-> from + i]

Holding(t) == at[t].pc \in {"copy", "build", "release"}

Held == {at[t].block : t \in {u \in Thread : Holding(u)}}

Init ==
  /\ free_list_ = Numbers(0, initial_blocks)
  /\ allocated = initial_blocks
  /\ content = [b \in 1 .. initial_blocks |-> NoString]
  /\ at = [t \in Thread |-> Idle]

\* Fault: the block stays in the free list.
acquireKeeps(t, s) ==
  /\ at[t] = Idle
  /\ free_list_ # << >>
  /\ Goto(t, [pc |-> "copy", source |-> s, block |-> Last(free_list_)])
  /\ UNCHANGED <<free_list_, allocated, content>>

\* Fault: a new slab every time.
acquireGrows(t, s) ==
  LET more == allocated + SlabBlocks
      free == free_list_ \o Numbers(allocated, SlabBlocks)
  IN  /\ at[t] = Idle
      /\ Goto(t, [pc |-> "copy", source |-> s, block |-> Last(free)])
      /\ free_list_' = Front(free)
      /\ allocated' = more
      /\ content' = [b \in 1 .. more |-> IF b > allocated THEN NoString ELSE content[b]]

\* The last free block, after a new slab if there is none.
acquire(t, s) ==
  LET empty == free_list_ = << >>
      more  == IF empty THEN allocated + SlabBlocks ELSE allocated
      free  == IF empty THEN Numbers(allocated, SlabBlocks) ELSE free_list_
  IN  /\ at[t] = Idle
      /\ Goto(t, [pc |-> "copy", source |-> s, block |-> Last(free)])
      /\ free_list_' = Front(free)
      /\ allocated' = more
      /\ content' = [b \in 1 .. more |-> IF b > allocated THEN NoString ELSE content[b]]

\* Fault: a block that has been used is not written again.
memcpyOnce(t) ==
  /\ at[t].pc = "copy"
  /\ content' = [content EXCEPT ![at[t].block] = IF @ = NoString THEN at[t].source ELSE @]
  /\ Goto(t, [pc |-> "build", source |-> at[t].source, block |-> at[t].block])
  /\ UNCHANGED <<free_list_, allocated>>

memcpy(t) ==
  /\ at[t].pc = "copy"
  /\ content' = [content EXCEPT ![at[t].block] = at[t].source]
  /\ Goto(t, [pc |-> "build", source |-> at[t].source, block |-> at[t].block])
  /\ UNCHANGED <<free_list_, allocated>>

\* std::string result(block, source.size())
Build(t) ==
  /\ at[t].pc = "build"
  /\ Goto(t, [pc |-> "release", source |-> at[t].source, block |-> at[t].block,
              result |-> content[at[t].block]])
  /\ UNCHANGED <<free_list_, allocated, content>>

release(t) ==
  /\ at[t].pc = "release"
  /\ free_list_' = Append(free_list_, at[t].block)
  /\ Goto(t, [pc |-> "return", source |-> at[t].source, result |-> at[t].result])
  /\ UNCHANGED <<allocated, content>>

\* A long string does not go through the pool.
CopyLong(t, s) ==
  /\ at[t] = Idle
  /\ Goto(t, [pc |-> "return", source |-> s, result |-> s])
  /\ UNCHANGED <<free_list_, allocated, content>>

Return(t) ==
  /\ at[t].pc = "return"
  /\ Goto(t, Idle)
  /\ UNCHANGED <<free_list_, allocated, content>>

copy(t) == \/ \E s \in Short : acquire(t, s)
           \/ \E s \in Long : CopyLong(t, s)
           \/ memcpy(t) \/ Build(t) \/ release(t) \/ Return(t)

Next == \E t \in Thread : copy(t)

Spec == Init /\ [][Next]_vars

-----------------------------------------------------------------------------
\* Every block is free or held, never both, and by one thread only: acquire and
\* release of any number of workers neither lose a block nor give it out twice.
EachBlockOnce ==
  /\ IsInjective(free_list_)
  /\ ToSet(free_list_) \cap Held = {}
  /\ ToSet(free_list_) \cup Held = 1 .. allocated
  /\ \A t, u \in Thread :
       Holding(t) /\ Holding(u) /\ at[t].block = at[u].block => t = u

\* StringPool::copy returns its argument, although the block it copies through
\* is written without a lock and has been used by other threads before.
CopyIsExact ==
  \A t \in Thread : at[t].pc \in {"release", "return"} => at[t].result = at[t].source

\* acquire brings a new slab only when every block is in use: whatever the
\* workers copy, the slabs stay those of the start, or hold no more than one
\* slab beyond the blocks that all other threads can hold at once.
PoolIsBounded ==
  allocated = initial_blocks \/ allocated < Cardinality(Thread) + SlabBlocks
=============================================================================
