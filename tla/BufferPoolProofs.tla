-------------------------- MODULE BufferPoolProofs --------------------------
(***************************************************************************)
(* Proofs about BufferPool, for any number of threads and any sizes of the *)
(* slabs.                                                                  *)
(***************************************************************************)
EXTENDS BufferPool, FiniteSetTheorems, SequenceTheorems, TLAPS

Frames ==
  /\ DOMAIN at = Thread
  /\ \A t \in Thread : at[t].pc \in {"idle", "copy", "build", "release", "return"}
  /\ \A t \in Thread : Holding(t) => at[t].block \in 1 .. allocated

Blocks ==
  /\ allocated \in Nat
  /\ DOMAIN content = 1 .. allocated
  /\ free_list_ \in Seq(1 .. allocated)

\* The free list names a block once, and no block that a thread holds.
Free ==
  /\ \A i, j \in 1 .. Len(free_list_) : free_list_[i] = free_list_[j] => i = j
  /\ \A i \in 1 .. Len(free_list_), t \in Thread : Holding(t) => at[t].block # free_list_[i]

Alone == \A t, u \in Thread : Holding(t) /\ Holding(u) /\ at[t].block = at[u].block => t = u

\* No block is lost.
NoneLost ==
  \A b \in 1 .. allocated : \/ \E i \in 1 .. Len(free_list_) : free_list_[i] = b
                            \/ \E t \in Thread : Holding(t) /\ at[t].block = b

\* The block holds what the thread has written until it has read it back.
Written == \A t \in Thread : at[t].pc = "build" => content[at[t].block] = at[t].source

IInv == /\ Frames /\ Blocks /\ Free /\ Alone /\ NoneLost
        /\ Written /\ CopyIsExact /\ PoolIsBounded

\* The constructor puts every block on the free list, and no thread holds one.
LEMMA InitIInv == Init => IInv
<1> SUFFICES ASSUME Init PROVE IInv
  OBVIOUS
<1>1. /\ free_list_ = [i \in 1 .. initial_blocks |-> 0 + i] /\ allocated = initial_blocks
      /\ initial_blocks \in Nat
      /\ DOMAIN content = 1 .. allocated /\ DOMAIN at = Thread
      /\ \A t \in Thread : at[t].pc = "idle"
  BY BlocksAssumption DEF Init, Numbers, Idle
<1>2. free_list_ \in Seq(1 .. allocated) /\ Len(free_list_) = allocated
  BY <1>1
<1>3. Frames /\ Blocks /\ Free /\ Alone /\ Written /\ CopyIsExact /\ PoolIsBounded
  BY <1>1, <1>2
     DEF Frames, Blocks, Free, Alone, Written, CopyIsExact, PoolIsBounded, Holding
<1>4. NoneLost
  BY <1>1, <1>2 DEF NoneLost
<1> QED BY <1>3, <1>4 DEF IInv

-----------------------------------------------------------------------------
(* acquire                                                                 *)

\* What back and pop_back leave of a vector that is not empty
LEMMA TakeLast ==
  ASSUME NEW S, NEW s \in Seq(S), s # << >>
  PROVE  /\ Len(s) \in Nat \ {0} /\ Last(s) = s[Len(s)] /\ Last(s) \in S
         /\ Front(s) \in Seq(S) /\ Len(Front(s)) = Len(s) - 1
         /\ \A i \in 1 .. Len(s) - 1 : Front(s)[i] = s[i]
<1>1. Len(s) \in Nat \ {0} /\ Last(s) = s[Len(s)] /\ Last(s) \in S
  BY DEF Last
<1>2. Front(s) = SubSeq(s, 1, Len(s) - 1)
  BY DEF Front
<1>3. \A i \in 1 .. Len(s) - 1 : s[i] \in S
  BY <1>1
<1>4. /\ Front(s) \in Seq(S)
      /\ Len(Front(s)) = IF 1 <= Len(s) - 1 THEN Len(s) - 1 - 1 + 1 ELSE 0
      /\ \A i \in 1 .. Len(s) - 1 - 1 + 1 : Front(s)[i] = s[1 + i - 1]
  BY <1>1, <1>2, <1>3, SubSeqProperties
<1>5. /\ Len(Front(s)) = Len(s) - 1
      /\ \A i \in 1 .. Len(s) - 1 : Front(s)[i] = s[i]
  <2> DEFINE n == Len(s)
  <2>1. n \in Nat /\ n >= 1 /\ 1 .. n - 1 - 1 + 1 = 1 .. n - 1
    BY <1>1
  <2>2. \A i \in 1 .. n - 1 : 1 + i - 1 = i
    BY <2>1
  <2>3. Len(Front(s)) = n - 1
    <3>1. Len(Front(s)) = IF 1 <= n - 1 THEN n - 1 - 1 + 1 ELSE 0
      BY <1>4
    <3> HIDE DEF n
    <3> QED BY <2>1, <3>1
  <2>4. \A i \in 1 .. n - 1 : Front(s)[i] = s[i]
    BY <1>4, <2>1, <2>2
  <2> QED BY <2>3, <2>4
<1> QED BY <1>1, <1>4, <1>5

\* A thread that finds the free list empty is one of fewer than Cardinality(Thread)
\* that hold all the blocks.
LEMMA AllHeld ==
  ASSUME IInv, NEW t \in Thread, at[t] = Idle, free_list_ = << >>
  PROVE  allocated < Cardinality(Thread)
<1> DEFINE Others == Thread \ {t}
           holder == [b \in 1 .. allocated |->
                        CHOOSE u \in Others : Holding(u) /\ at[u].block = b]
<1>1. ASSUME NEW b \in 1 .. allocated
      PROVE  \E u \in Others : Holding(u) /\ at[u].block = b
  <2>1. PICK u \in Thread : Holding(u) /\ at[u].block = b
    BY DEF IInv, NoneLost
  <2>2. u # t
    BY <2>1 DEF Holding, Idle
  <2> QED BY <2>1, <2>2
<1>2. \A b \in 1 .. allocated : holder[b] \in Others /\ at[holder[b]].block = b
  BY <1>1
<1>3. holder \in Injection(1 .. allocated, Others)
  BY <1>2 DEF Injection, IsInjective
<1>4. /\ IsFiniteSet(Others) /\ Cardinality(Others) = Cardinality(Thread) - 1
      /\ Cardinality(Thread) \in Nat
  BY ThreadsAssumption, FS_RemoveElement, FS_CardinalityType
<1>5. Cardinality(1 .. allocated) <= Cardinality(Others)
  BY <1>3, <1>4, FS_Injection
<1>6. allocated \in Nat
  BY DEF IInv, Blocks
<1>7. Cardinality(1 .. allocated) = allocated
  BY <1>6, FS_Interval
<1> QED BY <1>4, <1>5, <1>6, <1>7

\* acquire takes a block that nobody else has, from the free list or from a new slab.
LEMMA AcquireKeeps ==
  ASSUME IInv, NEW t \in Thread, NEW s \in Short, acquire(t, s)
  PROVE  IInv'
<1> DEFINE empty == free_list_ = << >>
           more  == IF empty THEN allocated + SlabBlocks ELSE allocated
           free  == IF empty THEN Numbers(allocated, SlabBlocks) ELSE free_list_
<1>1. /\ at[t] = Idle /\ allocated' = more /\ free_list_' = Front(free)
      /\ content' = [b \in 1 .. more |-> IF b > allocated THEN NoString ELSE content[b]]
      /\ at' = [at EXCEPT ![t] = [pc |-> "copy", source |-> s, block |-> Last(free)]]
  BY DEF acquire, Goto
<1>2. /\ allocated \in Nat /\ SlabBlocks \in Nat \ {0}
      /\ free_list_ \in Seq(1 .. allocated) /\ DOMAIN at = Thread
  BY BlocksAssumption DEF IInv, Blocks, Frames
<1>3. /\ more \in Nat /\ more >= allocated /\ free \in Seq(1 .. more) /\ free # << >>
      /\ \A i, j \in 1 .. Len(free) : free[i] = free[j] => i = j
      /\ \A i \in 1 .. Len(free), u \in Thread : Holding(u) => at[u].block # free[i]
      /\ \A b \in 1 .. more : \/ \E i \in 1 .. Len(free) : free[i] = b
                              \/ \E u \in Thread : Holding(u) /\ at[u].block = b
  <2>1. CASE ~empty
    BY <1>2, <2>1 DEF IInv, Free, NoneLost
  <2>2. CASE empty
    <3>1. /\ free = [i \in 1 .. SlabBlocks |-> allocated + i] /\ more = allocated + SlabBlocks
          /\ free_list_ = << >>
      BY <2>2 DEF Numbers
    <3>2. free \in Seq(1 .. more) /\ Len(free) = SlabBlocks /\ more \in Nat /\ more >= allocated
      BY <1>2, <3>1
    <3>3. free # << >>
      BY <1>2, <3>2
    <3>4. \A i \in 1 .. Len(free), u \in Thread : Holding(u) => at[u].block # free[i]
      BY <1>2, <3>1, <3>2 DEF IInv, Frames
    <3>5. ASSUME NEW b \in 1 .. more
          PROVE  \/ \E i \in 1 .. Len(free) : free[i] = b
                 \/ \E u \in Thread : Holding(u) /\ at[u].block = b
      <4>1. CASE b <= allocated
        BY <1>2, <3>1, <4>1 DEF IInv, NoneLost
      <4>2. CASE b > allocated
        <5>1. b - allocated \in 1 .. Len(free) /\ free[b - allocated] = b
          BY <1>2, <3>1, <3>2, <4>2
        <5> QED BY <5>1
      <4> QED BY <1>2, <3>2, <4>1, <4>2
    <3>6. \A i, j \in 1 .. Len(free) : free[i] = free[j] => i = j
      BY <1>2, <3>1, <3>2
    <3> HIDE DEF free, more
    <3> QED BY <3>2, <3>3, <3>4, <3>5, <3>6
  <2> QED BY <2>1, <2>2
<1>4. /\ at'[t].pc = "copy" /\ at'[t].block = Last(free) /\ DOMAIN at' = Thread
      /\ \A u \in Thread : u # t => at'[u] = at[u]
      /\ at[t].pc = "idle"
  BY <1>1, <1>2 DEF Idle
<1> HIDE DEF free, more, empty
<1>5. /\ Len(free) \in Nat \ {0} /\ Last(free) = free[Len(free)] /\ Last(free) \in 1 .. more
      /\ free_list_' \in Seq(1 .. more) /\ Len(free_list_') = Len(free) - 1
      /\ \A i \in 1 .. Len(free) - 1 : free_list_'[i] = free[i]
  BY <1>1, <1>3, TakeLast
<1>6. \A u \in Thread : Holding(u)' <=> u = t \/ Holding(u)
  BY <1>4 DEF Holding
<1>7. Frames'
  BY <1>1, <1>2, <1>3, <1>4, <1>5, <1>6 DEF IInv, Frames
<1>8. Blocks'
  BY <1>1, <1>3, <1>5 DEF Blocks
<1>9. Free' /\ Alone'
  <2>0. \A i \in 1 .. Len(free_list_') :
          i \in 1 .. Len(free) /\ i # Len(free) /\ free_list_'[i] = free[i]
    BY <1>5
  <2>1. \A i, j \in 1 .. Len(free_list_') : free_list_'[i] = free_list_'[j] => i = j
    BY <1>3, <2>0
  <2>2. ASSUME NEW i \in 1 .. Len(free_list_'), NEW u \in Thread, Holding(u)'
        PROVE  at'[u].block # free_list_'[i]
    <3>1. /\ i \in 1 .. Len(free) /\ Len(free) \in 1 .. Len(free) /\ i # Len(free)
          /\ free_list_'[i] = free[i]
      BY <1>5
    <3>2. CASE u = t
      BY <1>3, <1>4, <1>5, <3>1, <3>2
    <3>3. CASE u # t
      <4>1. Holding(u) /\ at'[u] = at[u]
        BY <1>4, <1>6, <2>2, <3>3
      <4> QED BY <1>3, <3>1, <4>1
    <3> QED BY <3>2, <3>3
  <2>3. \A u \in Thread : Holding(u) => at[u].block # Last(free)
    BY <1>3, <1>5
  <2>4. Alone'
    BY <1>4, <1>6, <2>3 DEF IInv, Alone
  <2> QED BY <2>1, <2>2, <2>4 DEF Free
<1>10. NoneLost'
  <2> SUFFICES ASSUME NEW b \in 1 .. more
               PROVE  \/ \E i \in 1 .. Len(free_list_') : free_list_'[i] = b
                      \/ \E u \in Thread : Holding(u)' /\ at'[u].block = b
    BY <1>1 DEF NoneLost
  <2>1. CASE \E u \in Thread : Holding(u) /\ at[u].block = b
    BY <1>4, <1>6, <2>1 DEF Holding
  <2>2. ASSUME NEW i \in 1 .. Len(free), free[i] = b
        PROVE  \/ \E j \in 1 .. Len(free_list_') : free_list_'[j] = b
               \/ \E u \in Thread : Holding(u)' /\ at'[u].block = b
    BY <1>4, <1>5, <1>6, <2>2
  <2> QED BY <1>3, <2>1, <2>2
<1>11. Written'
  <2> SUFFICES ASSUME NEW u \in Thread, at'[u].pc = "build"
               PROVE  content'[at'[u].block] = at'[u].source
    BY DEF Written
  <2>1. at'[u] = at[u] /\ at[u].block \in 1 .. allocated /\ content[at[u].block] = at[u].source
    BY <1>4 DEF IInv, Written, Frames, Holding
  <2> QED BY <1>1, <1>2, <1>3, <2>1
<1>12. CopyIsExact'
  BY <1>4 DEF IInv, CopyIsExact
<1>13. PoolIsBounded'
  <2>1. CASE empty
    <3>1. Cardinality(Thread) \in Nat
      BY ThreadsAssumption, FS_CardinalityType
    <3>2. allocated < Cardinality(Thread)
      BY <1>1, <2>1, AllHeld DEF empty
    <3> QED BY <1>1, <1>2, <2>1, <3>1, <3>2 DEF PoolIsBounded, more
  <2>2. CASE ~empty
    BY <1>1, <2>2 DEF IInv, PoolIsBounded, more
  <2> QED BY <2>1, <2>2
<1> QED BY <1>7, <1>8, <1>9, <1>10, <1>11, <1>12, <1>13 DEF IInv

-----------------------------------------------------------------------------
(* The other steps                                                         *)

\* Steps that take no block and give none back
LEMMA StayKeeps ==
  ASSUME IInv, NEW t \in Thread,
         memcpy(t) \/ Build(t) \/ Return(t) \/ (\E s \in Long : CopyLong(t, s))
  PROVE  IInv'
<1>1. /\ free_list_' = free_list_ /\ allocated' = allocated /\ DOMAIN at' = Thread
      /\ \A u \in Thread : u # t => at'[u] = at[u]
      /\ at'[t].pc \in {"idle", "build", "release", "return"}
      /\ Holding(t)' <=> Holding(t)
      /\ Holding(t) => at'[t].block = at[t].block
  BY DEF IInv, Frames, memcpy, Build, Return, CopyLong, Goto, Idle, Holding
<1>2. \A u \in Thread : /\ Holding(u)' <=> Holding(u)
                        /\ Holding(u) => at'[u].block = at[u].block
  BY <1>1 DEF Holding
<1>3. Frames' /\ Free' /\ Alone' /\ NoneLost' /\ PoolIsBounded'
  BY <1>1, <1>2 DEF IInv, Frames, Free, Alone, NoneLost, PoolIsBounded
<1>4. Blocks'
  BY <1>1 DEF IInv, Blocks, memcpy, Build, Return, CopyLong
<1>5. Written'
  <2>1. CASE memcpy(t)
    <3> SUFFICES ASSUME NEW u \in Thread, at'[u].pc = "build"
                 PROVE  content'[at'[u].block] = at'[u].source
      BY DEF Written
    <3>1. /\ content' = [content EXCEPT ![at[t].block] = at[t].source]
          /\ at[t].block \in DOMAIN content /\ Holding(t)
          /\ at'[t].block = at[t].block /\ at'[t].source = at[t].source
      BY <2>1 DEF memcpy, Goto, IInv, Frames, Blocks, Holding
    <3>2. CASE u = t
      BY <3>1, <3>2
    <3>3. CASE u # t
      <4>1. at'[u] = at[u] /\ Holding(u) /\ content[at[u].block] = at[u].source
        BY <1>1, <3>3 DEF Holding, IInv, Written
      <4>2. at[u].block # at[t].block /\ at[u].block \in DOMAIN content
        BY <3>1, <3>3, <4>1 DEF IInv, Alone, Frames, Blocks
      <4> QED BY <3>1, <4>1, <4>2
    <3> QED BY <3>2, <3>3
  <2>2. CASE ~memcpy(t)
    <3>1. content' = content /\ at'[t].pc # "build"
      BY <2>2 DEF Build, Return, CopyLong, Goto, Idle, IInv, Frames
    <3> QED BY <1>1, <3>1 DEF IInv, Written
  <2> QED BY <2>1, <2>2
<1>6. CopyIsExact'
  <2>1. at'[t].pc \in {"release", "return"} => at'[t].result = at'[t].source
    BY DEF memcpy, Build, Return, CopyLong, Goto, Idle, IInv, Frames, Written
  <2> QED BY <1>1, <2>1 DEF IInv, CopyIsExact
<1> QED BY <1>3, <1>4, <1>5, <1>6 DEF IInv

\* release puts the block on the free list when its thread has built the result.
LEMMA ReleaseKeeps ==
  ASSUME IInv, NEW t \in Thread, release(t)
  PROVE  IInv'
<1>1. /\ free_list_' = Append(free_list_, at[t].block) /\ allocated' = allocated
      /\ content' = content /\ DOMAIN at' = Thread
      /\ \A u \in Thread : u # t => at'[u] = at[u]
      /\ at'[t].pc = "return" /\ at'[t].source = at[t].source /\ at'[t].result = at[t].result
      /\ at[t].pc = "release" /\ Holding(t)
  BY DEF IInv, Frames, release, Goto, Holding
<1>2. \A u \in Thread : Holding(u)' <=> u # t /\ Holding(u)
  BY <1>1 DEF Holding
<1>3. /\ free_list_ \in Seq(1 .. allocated) /\ at[t].block \in 1 .. allocated
      /\ Len(free_list_) \in Nat
  BY <1>1 DEF IInv, Frames, Blocks
<1>4. /\ free_list_' \in Seq(1 .. allocated) /\ Len(free_list_') = Len(free_list_) + 1
      /\ \A i \in 1 .. Len(free_list_) : free_list_'[i] = free_list_[i]
      /\ free_list_'[Len(free_list_) + 1] = at[t].block
  BY <1>1, <1>3
<1>5. Frames' /\ Blocks' /\ Alone' /\ Written' /\ CopyIsExact' /\ PoolIsBounded'
  <2>1. Frames' /\ Alone'
    BY <1>1, <1>2 DEF IInv, Frames, Alone
  <2>2. Blocks' /\ PoolIsBounded'
    BY <1>1, <1>4 DEF IInv, Blocks, PoolIsBounded
  <2>3. Written' /\ CopyIsExact'
    BY <1>1 DEF IInv, Written, CopyIsExact
  <2> QED BY <2>1, <2>2, <2>3
<1>6. Free'
  BY <1>1, <1>2, <1>3, <1>4 DEF IInv, Free, Alone
<1>7. NoneLost'
  <2> SUFFICES ASSUME NEW b \in 1 .. allocated
               PROVE  \/ \E i \in 1 .. Len(free_list_') : free_list_'[i] = b
                      \/ \E u \in Thread : Holding(u)' /\ at'[u].block = b
    BY <1>1 DEF NoneLost
  <2>1. CASE b = at[t].block
    BY <1>3, <1>4, <2>1
  <2>2. ASSUME NEW i \in 1 .. Len(free_list_), free_list_[i] = b
        PROVE  i \in 1 .. Len(free_list_') /\ free_list_'[i] = b
    BY <1>3, <1>4, <2>2
  <2>3. ASSUME NEW u \in Thread, Holding(u), at[u].block = b, b # at[t].block
        PROVE  Holding(u)' /\ at'[u].block = b
    BY <1>1, <1>2, <2>3
  <2> QED BY <2>1, <2>2, <2>3 DEF IInv, NoneLost
<1> QED BY <1>5, <1>6, <1>7 DEF IInv

-----------------------------------------------------------------------------
\* The ownership of blocks is an invariant of every number of threads.
THEOREM IInvHolds == Spec => []IInv
<1>1. IInv /\ [Next]_vars => IInv'
  <2>1. CASE Next
    BY <2>1, AcquireKeeps, StayKeeps, ReleaseKeeps DEF Next, copy
  <2>2. CASE UNCHANGED vars
    BY <2>2 DEF vars, IInv, Frames, Blocks, Free, Alone, NoneLost, Written, CopyIsExact,
                PoolIsBounded, Holding
  <2> QED BY <2>1, <2>2
<1> QED BY <1>1, InitIInv, PTL DEF Spec

\* acquire and release neither lose a block nor give it out twice.
THEOREM BlocksOwned == Spec => []EachBlockOnce
<1>1. IInv => EachBlockOnce
  <2> SUFFICES ASSUME IInv PROVE EachBlockOnce
    OBVIOUS
  <2>1. DOMAIN free_list_ = 1 .. Len(free_list_) /\ free_list_ \in Seq(1 .. allocated)
    BY DEF IInv, Blocks
  <2>2. IsInjective(free_list_)
    BY <2>1 DEF IsInjective, IInv, Free
  <2>3. ToSet(free_list_) \cap Held = {}
    BY <2>1 DEF ToSet, Held, IInv, Free
  <2>4. ToSet(free_list_) \cup Held = 1 .. allocated
    <3>1. ToSet(free_list_) \subseteq 1 .. allocated
      <4>1. \A i \in 1 .. Len(free_list_) : free_list_[i] \in 1 .. allocated
        BY <2>1, ElementOfSeq
      <4> QED BY <2>1, <4>1 DEF ToSet
    <3>2. Held \subseteq 1 .. allocated
      BY DEF Held, IInv, Frames
    <3>3. 1 .. allocated \subseteq ToSet(free_list_) \cup Held
      BY <2>1 DEF ToSet, Held, IInv, NoneLost
    <3> QED BY <3>1, <3>2, <3>3
  <2> QED BY <2>2, <2>3, <2>4 DEF EachBlockOnce, IInv, Alone
<1> QED BY <1>1, IInvHolds, PTL

\* StringPool::copy returns its argument, in every thread.
THEOREM CopiesAreExact == Spec => []CopyIsExact
<1>1. IInv => CopyIsExact
  BY DEF IInv
<1> QED BY <1>1, IInvHolds, PTL

\* acquire brings a new slab only when every block is in use.
THEOREM SlabsAreBounded == Spec => []PoolIsBounded
<1>1. IInv => PoolIsBounded
  BY DEF IInv
<1> QED BY <1>1, IInvHolds, PTL

=============================================================================
