------------------------- MODULE PersistenceProofs -------------------------
(***************************************************************************)
(* Proofs about Persistence, for any finite set of keys, any values and    *)
(* logs of any length.                                                     *)
(***************************************************************************)
EXTENDS Persistence, FiniteSetTheorems, SequenceTheorems, WellFoundedInduction, TLAPS

Contents == [Key -> Stored \cup {NoValue}]

Pairs == Seq(Key \X (Stored \cup {NoValue}))

-----------------------------------------------------------------------------
(* Reading files                                                           *)

\* The largest element of a set of indices is one of its elements.
LEMMA MaxIsIn ==
  ASSUME NEW n \in Nat, NEW S \in SUBSET (1 .. n), S # {}
  PROVE  Max(S) \in S
<1> DEFINE T == {i \in Nat : \E s \in S : i = n - s}
           less == OpToRel(<, Nat)
<1>1. T # {} /\ T \subseteq Nat
  <2>1. PICK s \in S : TRUE
    OBVIOUS
  <2>2. n - s \in Nat
    BY SMT
  <2>3. n - s \in T
    BY <2>1, <2>2
  <2> QED BY <2>3
<1>2. \A x, y \in Nat : y < x => <<y, x>> \in less
  BY Zenon DEF OpToRel
<1>3. PICK x \in T : \A y \in T : <<y, x>> \notin less
  <2> HIDE DEF T
  <2> QED BY <1>1, NatLessThanWellFounded, WFMin, Zenon
<1>4. \A y \in T : x \in Nat /\ y \in Nat /\ ~(y < x)
  <2> HIDE DEF T
  <2> QED BY <1>1, <1>2, <1>3, Zenon
<1>5. PICK m \in S : x = n - m
  OBVIOUS
<1>6. \A s \in S : m >= s
  <2> SUFFICES ASSUME NEW s \in S PROVE m >= s
    OBVIOUS
  <2>1. n - s \in T
    BY SMT
  <2>2. ~(n - s < n - m)
    BY <1>4, <1>5, <2>1
  <2> QED BY <2>2, SMT
<1> QED BY <1>6, Zenon DEF Max

\* Every value that load_into or replay stores is one of the file.
LEMMA ApplyType ==
  ASSUME NEW p \in Pairs
  PROVE  Apply(p) \in Contents
<1> SUFFICES ASSUME NEW k \in Key
             PROVE  (LET at == {i \in 1 .. Len(p) : p[i][1] = k}
                     IN  IF at = {} THEN NoValue ELSE p[Max(at)][2]) \in Stored \cup {NoValue}
  BY DEF Apply, Contents
<1> DEFINE at == {i \in 1 .. Len(p) : p[i][1] = k}
<1>1. CASE at = {}
  BY <1>1
<1>2. CASE at # {}
  <2>1. Len(p) \in Nat
    BY DEF Pairs
  <2>2. Max(at) \in 1 .. Len(p)
    BY <1>2, <2>1, MaxIsIn
  <2>3. p[Max(at)] \in Key \X (Stored \cup {NoValue})
    BY <2>2, ElementOfSeq DEF Pairs
  <2>4. p[Max(at)][2] \in Stored \cup {NoValue}
    <3> HIDE DEF at
    <3> QED BY <2>3
  <2> QED BY <1>2, <2>4
<1> QED BY <1>1, <1>2

\* When no key comes twice, the order of the pairs does not matter.
LEMMA ApplyOnce ==
  ASSUME NEW p \in Pairs,
         \A i, j \in 1 .. Len(p) : p[i][1] = p[j][1] => i = j,
         NEW k \in Key
  PROVE  /\ \A i \in 1 .. Len(p) : p[i][1] = k => Apply(p)[k] = p[i][2]
         /\ (\A i \in 1 .. Len(p) : p[i][1] # k) => Apply(p)[k] = NoValue
<1> DEFINE at == {i \in 1 .. Len(p) : p[i][1] = k}
<1>1. Apply(p)[k] = IF at = {} THEN NoValue ELSE p[Max(at)][2]
  BY DEF Apply
<1>2. ASSUME NEW i \in 1 .. Len(p), p[i][1] = k
      PROVE  Apply(p)[k] = p[i][2]
  <2>1. i \in at /\ Len(p) \in Nat
    BY <1>2 DEF Pairs
  <2>2. Max(at) \in at
    BY <2>1, MaxIsIn
  <2>3. Max(at) = i
    BY <1>2, <2>2
  <2> QED BY <1>1, <2>1, <2>3
<1> QED BY <1>1, <1>2

\* load_into reads all the pairs of a file whose count is not too small.
LEMMA FullPrefix ==
  ASSUME NEW p \in Pairs, NEW c \in Nat, Len(p) <= c
  PROVE  load_into(File(c, p)) = Apply(p)
<1>1. Len(p) \in Nat
  BY DEF Pairs
<1>2. Min({c, Len(p)}) = Len(p)
  BY <1>1 DEF Min
<1>3. SubSeq(p, 1, Len(p)) = p
  BY SubSeqFull DEF Pairs
<1> QED BY <1>2, <1>3 DEF load_into, File

\* What dump_entries puts out is every entry once.
LEMMA DumpIsAll ==
  ASSUME NEW m \in Contents, NEW d \in dump_entries(m)
  PROVE  /\ d \in Pairs /\ Len(d) \in Nat
         /\ \A i \in 1 .. Len(d) : d[i][1] \in Key /\ d[i][2] = m[d[i][1]]
         /\ \A i, j \in 1 .. Len(d) : d[i][1] = d[j][1] => i = j
         /\ \A k \in Key : m[k] # NoValue => \E i \in 1 .. Len(d) : d[i][1] = k
<1> DEFINE K == {j \in Key : m[j] # NoValue}
           S == {<<k, m[k]>> : k \in K}
           n == Cardinality(S)
           pair == [k \in K |-> <<k, m[k]>>]
<1>1. IsFiniteSet(S) /\ n \in Nat
  <2>1. IsFiniteSet(K)
    BY KeysAssumption, FS_Subset
  <2>2. pair \in Surjection(K, S)
    BY DEF Surjection
  <2>3. IsFiniteSet(S)
    BY <2>1, <2>2, FS_Surjection
  <2> QED BY <2>3, FS_CardinalityType
<1>2. d \in [1 .. n -> S] /\ \A i, j \in 1 .. n : i # j => d[i] # d[j]
  BY DEF dump_entries, SetToSeqs
<1>3. S \subseteq Key \X Stored
  BY DEF Contents
<1>4. d \in Pairs /\ Len(d) = n
  <2> HIDE DEF S, n
  <2>1. d \in [1 .. n -> Key \X (Stored \cup {NoValue})]
    BY <1>2, <1>3
  <2> QED BY <1>1, <2>1 DEF Pairs
<1>5. \A i \in 1 .. n : d[i][1] \in Key /\ d[i][2] = m[d[i][1]] /\ d[i] = <<d[i][1], m[d[i][1]]>>
  <2> SUFFICES ASSUME NEW i \in 1 .. n
               PROVE  d[i][1] \in Key /\ d[i][2] = m[d[i][1]] /\ d[i] = <<d[i][1], m[d[i][1]]>>
    OBVIOUS
  <2>1. d[i] \in S
    BY <1>2
  <2>2. PICK k \in K : d[i] = <<k, m[k]>>
    BY <2>1
  <2> QED BY <2>2
<1>6. \A i, j \in 1 .. n : d[i][1] = d[j][1] => i = j
  <2> SUFFICES ASSUME NEW i \in 1 .. n, NEW j \in 1 .. n, d[i][1] = d[j][1]
               PROVE  i = j
    OBVIOUS
  <2>1. d[i] = d[j]
    BY <1>5
  <2> QED BY <1>2, <2>1
<1>7. d \in Surjection(1 .. n, S)
  <2>1. d \in Injection(1 .. n, S)
    BY <1>2 DEF Injection, IsInjective
  <2>2. Cardinality(1 .. n) = n
    BY <1>1, FS_Interval
  <2> QED BY <1>1, <2>1, <2>2, FS_Injection
<1>8. ASSUME NEW k \in Key, m[k] # NoValue
      PROVE  \E i \in 1 .. n : d[i][1] = k
  <2>1. <<k, m[k]>> \in S
    BY <1>8
  <2>2. PICK i \in 1 .. n : d[i] = <<k, m[k]>>
    BY <1>7, <2>1 DEF Surjection
  <2> QED BY <2>2
<1> HIDE DEF S, n, K
<1> QED BY <1>1, <1>4, <1>5, <1>6, <1>8

\* A snapshot that was written to its end restores what was dumped.
LEMMA LoadWritten ==
  ASSUME NEW m \in Contents, NEW d \in dump_entries(m)
  PROVE  load_into(Written(d)) = m
<1>1. /\ d \in Pairs /\ Len(d) \in Nat
      /\ \A i \in 1 .. Len(d) : d[i][1] \in Key /\ d[i][2] = m[d[i][1]]
      /\ \A i, j \in 1 .. Len(d) : d[i][1] = d[j][1] => i = j
      /\ \A k \in Key : m[k] # NoValue => \E i \in 1 .. Len(d) : d[i][1] = k
  BY DumpIsAll
<1>2. load_into(Written(d)) = Apply(d)
  BY <1>1, FullPrefix DEF Written
<1>3. Apply(d) \in Contents
  BY <1>1, ApplyType
<1>4. ASSUME NEW k \in Key
      PROVE  Apply(d)[k] = m[k]
  <2>1. CASE m[k] = NoValue
    <3>1. CASE \E i \in 1 .. Len(d) : d[i][1] = k
      BY <1>1, <2>1, <3>1, ApplyOnce
    <3>2. CASE \A i \in 1 .. Len(d) : d[i][1] # k
      BY <1>1, <2>1, <3>2, ApplyOnce
    <3> QED BY <3>1, <3>2
  <2>2. CASE m[k] # NoValue
    BY <1>1, <2>2, ApplyOnce
  <2> QED BY <2>1, <2>2
<1> QED BY <1>2, <1>3, <1>4 DEF Contents

\* What a prefix of the pairs holds
LEMMA Prefix ==
  ASSUME NEW d \in Pairs, NEW n \in 0 .. Len(d)
  PROVE  /\ SubSeq(d, 1, n) \in Pairs /\ Len(SubSeq(d, 1, n)) = n
         /\ \A i \in 1 .. n : SubSeq(d, 1, n)[i] = d[i]
<1>1. n \in Nat /\ n <= Len(d) /\ Len(d) \in Nat
  BY DEF Pairs
<1>2. \A i \in 1 .. n : i \in 1 .. Len(d)
  BY <1>1
<1>3. \A i \in 1 .. n : d[i] \in Key \X (Stored \cup {NoValue})
  BY <1>2, ElementOfSeq DEF Pairs
<1>4. /\ SubSeq(d, 1, n) \in Pairs
      /\ Len(SubSeq(d, 1, n)) = IF 1 <= n THEN n - 1 + 1 ELSE 0
      /\ \A i \in 1 .. n - 1 + 1 : SubSeq(d, 1, n)[i] = d[1 + i - 1]
  BY <1>1, <1>3, SubSeqProperties DEF Pairs
<1>5. n - 1 + 1 = n /\ \A i \in 1 .. n : 1 + i - 1 = i
  BY <1>1
<1>6. Len(SubSeq(d, 1, n)) = n
  BY <1>1, <1>4, <1>5
<1>7. \A i \in 1 .. n : SubSeq(d, 1, n)[i] = d[i]
  BY <1>4, <1>5
<1> QED BY <1>4, <1>6, <1>7

\* r has of m a part, in which at most one value is cut off.
Part(m, r) ==
  /\ \A k \in Key : r[k] \in {m[k], NoValue, Torn}
  /\ \A j, k \in Key : /\ r[j] = Torn /\ m[j] # Torn
                       /\ r[k] = Torn /\ m[k] # Torn
                       => j = k

\* All but one of the pairs of p are entries of m.
Entries(m, p, l) ==
  /\ \A i, j \in 1 .. Len(p) : p[i][1] = p[j][1] => i = j
  /\ \A i \in 1 .. Len(p) : p[i][2] = m[p[i][1]] \/ (i = l /\ p[i][2] = Torn)

\* Pairs of the data, of which at most one is cut off, restore a part of the data.
LEMMA PartRestored ==
  ASSUME NEW m \in Contents, NEW p \in Pairs, NEW l, Entries(m, p, l)
  PROVE  Part(m, Apply(p))
<1>0. /\ \A i, j \in 1 .. Len(p) : p[i][1] = p[j][1] => i = j
      /\ \A i \in 1 .. Len(p) : p[i][2] = m[p[i][1]] \/ (i = l /\ p[i][2] = Torn)
  BY DEF Entries
<1>1. \A k \in Key : \/ Apply(p)[k] = NoValue
                     \/ \E i \in 1 .. Len(p) : p[i][1] = k /\ Apply(p)[k] = p[i][2]
  BY <1>0, ApplyOnce
<1>2. Torn # NoValue
  BY KeysAssumption DEF Stored
<1>3. ASSUME NEW k \in Key
      PROVE  Apply(p)[k] \in {m[k], NoValue, Torn}
  BY <1>0, <1>1
<1>4. ASSUME NEW k \in Key, Apply(p)[k] = Torn, m[k] # Torn
      PROVE  l \in 1 .. Len(p) /\ p[l][1] = k
  BY <1>0, <1>1, <1>2, <1>4
<1>5. ASSUME NEW j \in Key, NEW k \in Key,
             Apply(p)[j] = Torn, m[j] # Torn, Apply(p)[k] = Torn, m[k] # Torn
      PROVE  j = k
  BY <1>4, <1>5
<1> QED BY <1>3, <1>5 DEF Part

SnapshotFile == [header : BOOLEAN, count : Nat, pairs : Pairs]

\* A file without its header restores nothing, which is a part of any data.
LEMMA NothingIsPart ==
  ASSUME NEW m \in Contents
  PROVE  Part(m, Nothing) /\ Nothing \in Contents
<1>1. Torn # NoValue
  BY KeysAssumption DEF Stored
<1> QED BY <1>1 DEF Part, Nothing, Contents

\* Whatever prefix of a snapshot is on disk, it restores a part of what was dumped.
LEMMA LoadCut ==
  ASSUME NEW m \in Contents, NEW d \in dump_entries(m), NEW file \in Cut(d)
  PROVE  Part(m, load_into(file)) /\ file \in SnapshotFile
<1>1. /\ d \in Pairs /\ Len(d) \in Nat
      /\ \A i \in 1 .. Len(d) : d[i][1] \in Key /\ d[i][2] = m[d[i][1]]
      /\ \A i, j \in 1 .. Len(d) : d[i][1] = d[j][1] => i = j
  BY DumpIsAll
<1>2. << >> \in Pairs /\ Len(<< >>) = 0
  BY DEF Pairs
<1>3. CASE file = Truncated
  BY <1>2, <1>3, NothingIsPart DEF Truncated, load_into, SnapshotFile
<1>4. ASSUME NEW c \in 0 .. Len(d), file = File(c, << >>)
      PROVE  Part(m, load_into(file)) /\ file \in SnapshotFile
  <2>1. c \in Nat /\ Len(<< >>) <= c
    BY <1>1, <1>2
  <2>2. load_into(file) = Apply(<< >>)
    BY <1>2, <1>4, <2>1, FullPrefix
  <2>3. Apply(<< >>) = Nothing
    BY <1>2 DEF Apply, Nothing
  <2> QED BY <1>2, <1>4, <2>1, <2>2, <2>3, NothingIsPart DEF File, SnapshotFile
<1>5. ASSUME NEW n \in 0 .. Len(d), file = File(Len(d), SubSeq(d, 1, n))
      PROVE  Part(m, load_into(file)) /\ file \in SnapshotFile
  <2> DEFINE p == SubSeq(d, 1, n)
  <2>1. p \in Pairs /\ Len(p) = n /\ \A i \in 1 .. n : p[i] = d[i]
    BY <1>1, Prefix
  <2> HIDE DEF p
  <2>2. n \in Nat /\ n <= Len(d) /\ \A i \in 1 .. n : i \in 1 .. Len(d)
    BY <1>1
  <2>3. /\ \A i, j \in 1 .. Len(p) : p[i][1] = p[j][1] => i = j
        /\ \A i \in 1 .. Len(p) : p[i][2] = m[p[i][1]]
    BY <1>1, <2>1, <2>2
  <2>4. Part(m, Apply(p))
    <3>1. Entries(m, p, 0)
      BY <2>3 DEF Entries
    <3> QED BY <2>1, <3>1, PartRestored
  <2>5. load_into(File(Len(d), p)) = Apply(p)
    BY <1>1, <2>1, <2>2, FullPrefix
  <2> QED BY <1>1, <1>5, <2>1, <2>4, <2>5 DEF File, SnapshotFile, p
<1>6. ASSUME NEW n \in 0 .. Len(d) - 1,
             file = File(Len(d), Append(SubSeq(d, 1, n), <<d[n + 1][1], Torn>>))
      PROVE  Part(m, load_into(file)) /\ file \in SnapshotFile
  <2> DEFINE q == SubSeq(d, 1, n)
             e == <<d[n + 1][1], Torn>>
             p == Append(q, e)
  <2>1. n \in Nat /\ n + 1 <= Len(d) /\ n \in 0 .. Len(d) /\ n + 1 \in 1 .. Len(d)
    BY <1>1
  <2>2. q \in Pairs /\ Len(q) = n /\ \A i \in 1 .. n : q[i] = d[i]
    BY <1>1, <2>1, Prefix
  <2>3. e \in Key \X (Stored \cup {NoValue}) /\ e[1] = d[n + 1][1] /\ e[2] = Torn
    BY <1>1, <2>1 DEF Stored
  <2> HIDE DEF q, e
  <2>4. /\ p \in Pairs /\ Len(p) = n + 1
        /\ \A i \in 1 .. n : p[i] = q[i]
        /\ p[n + 1] = e
    BY <2>1, <2>2, <2>3 DEF Pairs
  <2> HIDE DEF p
  <2>5. \A i \in 1 .. n + 1 : i \in 1 .. Len(d) /\ p[i][1] = d[i][1] /\ (i = n + 1 \/ i \in 1 .. n)
    <3>1. \A i \in 1 .. n + 1 : i \in 1 .. Len(d) /\ (i = n + 1 \/ i \in 1 .. n)
      BY <1>1, <2>1
    <3> QED BY <2>2, <2>3, <2>4, <3>1
  <2>6. \A i, j \in 1 .. Len(p) : p[i][1] = p[j][1] => i = j
    BY <1>1, <2>4, <2>5
  <2>7. \A i \in 1 .. Len(p) : p[i][2] = m[p[i][1]] \/ (i = n + 1 /\ p[i][2] = Torn)
    BY <1>1, <2>2, <2>3, <2>4, <2>5
  <2>8. Part(m, Apply(p))
    <3>1. Entries(m, p, n + 1)
      BY <2>6, <2>7 DEF Entries
    <3> QED BY <2>4, <3>1, PartRestored
  <2>9. load_into(File(Len(d), p)) = Apply(p)
    BY <1>1, <2>1, <2>4, FullPrefix
  <2> QED BY <1>1, <1>6, <2>4, <2>8, <2>9 DEF File, SnapshotFile, p, q, e
<1> QED BY <1>3, <1>4, <1>5, <1>6 DEF Cut

\* load_into stores only values that a file can hold.
LEMMA LoadType ==
  ASSUME NEW file \in SnapshotFile
  PROVE  load_into(file) \in Contents
<1>1. CASE ~file.header
  BY <1>1 DEF load_into, Nothing, Contents
<1>2. CASE file.header
  <2> DEFINE n == Min({file.count, Len(file.pairs)})
  <2>1. file.pairs \in Pairs /\ file.count \in Nat /\ Len(file.pairs) \in Nat
    BY DEF SnapshotFile, Pairs
  <2>2. n \in 0 .. Len(file.pairs)
    BY <2>1 DEF Min
  <2>3. SubSeq(file.pairs, 1, n) \in Pairs
    BY <2>1, <2>2, Prefix
  <2>4. Apply(SubSeq(file.pairs, 1, n)) \in Contents
    BY <2>3, ApplyType
  <2> QED BY <1>2, <2>4 DEF load_into
<1> QED BY <1>1, <1>2

-----------------------------------------------------------------------------
(* The invariant                                                           *)

Types ==
  /\ DOMAIN pc = Thread /\ DOMAIN dump = Thread
  /\ mem \in Contents /\ saved \in Contents
  /\ snapshot = NoFile \/ snapshot \in SnapshotFile
  /\ aof = NoFile \/ aof \in Pairs

\* The process could not bind, or has not tried yet: nobody changes the data.
Steady == ~bound /\ pc["main"] \in {"bind", "stop_ttl", "join", "exited"}

\* run writes and returns after the scheduler's thread has ended.
Turns ==
  /\ pc["main"] \in {"open", "dump", "out", "exited"} => pc["scheduler"] = "exited"
  /\ pc["main"] = "bind" => ~bound
  /\ pc["main"] \in {"serve", "drain", "open", "dump", "out"} => bound
  /\ Steady => timed = {}

\* While a snapshot is being written, the file is empty and what will be in it is known.
Writing ==
  /\ \A t \in Thread : pc[t] \in {"dump", "out"} => snapshot = Truncated /\ ~whole
  /\ \A t \in Thread : pc[t] = "out" => dump[t] \in dump_entries(saved)
  /\ pc["main"] = "out" => saved = mem
  /\ Steady /\ pc["scheduler"] = "out" => saved = mem

\* The file is what the latest dump has left of itself.
Latest ==
  snapshot # NoFile =>
    \/ snapshot = Truncated /\ ~whole
    \/ \E d \in dump_entries(saved) : snapshot = Written(d) \/ (snapshot \in Cut(d) /\ ~whole)

\* The files have the data when no write is under way.
Kept ==
  ~failed /\ (pc["main"] = "exited" \/ (Steady /\ pc["scheduler"] \notin {"dump", "out"}))
    => Recovered = mem

IInv == Types /\ Turns /\ Writing /\ Latest /\ Kept

\* The invariant holds when the program is started for the first time, on any log.
LEMMA InitIInv == Init => IInv
<1> SUFFICES ASSUME Init PROVE IInv
  OBVIOUS
<1>1. aof = NoFile \/ aof \in Pairs
  <2>1. ASSUME NEW n \in 0 .. MaxLog, aof \in [1 .. n -> Key \X (Stored \cup {NoValue})]
        PROVE  aof \in Pairs
    BY <2>1, KeysAssumption DEF Pairs
  <2> QED BY <2>1 DEF Init, Log, BoundedSeq, SeqOf
<1>2. Types
  BY <1>1 DEF Init, Types, Thread, Nothing, Contents
<1>3. Turns /\ Writing /\ Latest /\ Kept
  BY DEF Init, Turns, Writing, Latest, Kept, Steady, Thread
<1> QED BY <1>2, <1>3 DEF IInv

\* The constructor and run up to the start of the threads
LEMMA StartKeeps ==
  ASSUME IInv, Start
  PROVE  IInv'
<1>1. /\ pc'["main"] = "bind" /\ pc'["scheduler"] = "loop" /\ DOMAIN pc' = Thread
      /\ bound' = FALSE /\ timed' = {} /\ snapshot' = snapshot /\ saved' = saved
      /\ dump' = dump /\ whole' = whole
      /\ aof' = (IF aof = NoFile THEN << >> ELSE aof)
      /\ mem' = (IF snapshot # NoFile THEN load_into(snapshot) ELSE replay(aof'))
  BY DEF Start, Thread
<1>2. aof' \in Pairs
  BY <1>1 DEF IInv, Types, Pairs
<1>3. mem' \in Contents
  BY <1>1, <1>2, LoadType, ApplyType DEF IInv, Types, replay
<1>4. Types'
  BY <1>1, <1>2, <1>3 DEF IInv, Types
<1>5. Turns' /\ Writing' /\ Latest'
  BY <1>1 DEF IInv, Turns, Writing, Latest, Steady, Thread
<1>6. Kept'
  BY <1>1 DEF Kept, Recovered
<1> QED BY <1>4, <1>5, <1>6 DEF IInv

\* Commands and the TTL sweep
LEMMA ClientKeeps ==
  ASSUME IInv, Client
  PROVE  IInv'
<1>1. /\ pc' = pc /\ bound' = bound /\ snapshot' = snapshot /\ dump' = dump /\ saved' = saved
      /\ whole' = whole /\ failed' = failed
  BY DEF Client, Set, Delete, Expire, FlushDb, Rewrite
<1>2. ~Steady /\ pc["main"] \in {"serve", "drain", "stop_ttl"}
  BY DEF Client, Set, Delete, Expire, FlushDb, Rewrite, Serving, IInv, Turns, Steady
<1>3. mem' \in Contents
  <2>1. ASSUME NEW k \in Key, NEW v \in Stored \cup {NoValue}
        PROVE  [mem EXCEPT ![k] = v] \in Contents
    BY DEF IInv, Types, Contents
  <2>2. [k \in Key |-> NoValue] \in Contents
    BY DEF Contents
  <2>3. mem \in Contents
    BY DEF IInv, Types
  <2> QED BY <2>1, <2>2, <2>3
          DEF Client, Set, Delete, Expire, FlushDb, Rewrite, Data!Put, Data!Delete, Data!Clear,
              Stored
<1>4. aof' = NoFile \/ aof' \in Pairs
  <2>1. aof' = aof \/ aof' \in Log \cup {NoFile}
    BY DEF Client, Set, Delete, Expire, FlushDb, Rewrite
  <2>2. ASSUME NEW n \in 0 .. MaxLog, aof' \in [1 .. n -> Key \X (Stored \cup {NoValue})]
        PROVE  aof' \in Pairs
    BY <2>2, KeysAssumption DEF Pairs
  <2> QED BY <2>1, <2>2 DEF Log, BoundedSeq, SeqOf, IInv, Types
<1>5. Types' /\ Latest'
  BY <1>1, <1>3, <1>4 DEF IInv, Types, Latest
<1>6. ~Steady'
  BY <1>1, <1>2 DEF Steady
<1>7. Turns' /\ Writing' /\ Kept'
  BY <1>1, <1>2, <1>6 DEF IInv, Turns, Writing, Kept
<1> QED BY <1>5, <1>7 DEF IInv

\* Steps that touch neither the data nor the files
LEMMA MovesKeep ==
  ASSUME IInv, Bind \/ LoopTest \/ Sleep \/ Signal \/ Drained \/ StopSnapshots \/ Join
  PROVE  IInv'
<1>1. /\ mem' = mem /\ timed' = timed /\ snapshot' = snapshot /\ aof' = aof /\ dump' = dump
      /\ saved' = saved /\ whole' = whole /\ failed' = failed
  BY DEF Bind, LoopTest, Sleep, Signal, Drained, StopSnapshots, Join
<1>2. DOMAIN pc = Thread
  BY DEF IInv, Types
<1>3. /\ DOMAIN pc' = Thread
      /\ \A t \in Thread : pc'[t] \in {"dump", "out"} => pc[t] = pc'[t]
  BY <1>2 DEF Bind, LoopTest, Sleep, Signal, Drained, StopSnapshots, Join, Goto, Thread
<1>4. Types' /\ Latest'
  BY <1>1, <1>3 DEF IInv, Types, Latest
<1>5. Turns' /\ (Steady' => Steady)
  <2>1. CASE Bind
    BY <1>1, <1>2, <2>1 DEF Bind, Goto, Thread, IInv, Turns, Steady
  <2>2. CASE LoopTest \/ Sleep
    BY <1>1, <1>2, <2>2 DEF LoopTest, Sleep, Goto, Thread, IInv, Turns, Steady
  <2>3. CASE Signal \/ Drained \/ StopSnapshots
    BY <1>1, <1>2, <2>3 DEF Signal, Drained, StopSnapshots, Goto, Thread, IInv, Turns, Steady
  <2>4. CASE Join
    BY <1>1, <1>2, <2>4 DEF Join, Goto, Thread, IInv, Turns, Steady
  <2> QED BY <2>1, <2>2, <2>3, <2>4
<1>6. Writing'
  BY <1>1, <1>3, <1>5 DEF IInv, Writing, Thread
<1>7. Kept'
  <2>1. pc'["main"] = "exited" => pc["main"] = "exited" \/ (Steady /\ pc["scheduler"] = "exited")
    <3>1. CASE Join
      BY <1>2, <3>1 DEF Join, Goto, Thread, Steady
    <3>2. CASE Bind \/ LoopTest \/ Sleep \/ Signal \/ Drained \/ StopSnapshots
      <4>1. pc'["main"] = pc["main"] \/ pc'["main"] \in {"serve", "drain", "stop_ttl", "join"}
        <5>1. CASE LoopTest \/ Sleep
          BY <1>2, <5>1 DEF LoopTest, Sleep, Goto, Thread
        <5>2. CASE Bind \/ Signal \/ Drained \/ StopSnapshots
          BY <1>2, <5>2 DEF Bind, Signal, Drained, StopSnapshots, Goto, Thread
        <5> QED BY <3>2, <5>1, <5>2
      <4> QED BY <4>1, Zenon
    <3> QED BY <3>1, <3>2
  <2>2. pc["scheduler"] \in {"dump", "out"} => pc'["scheduler"] = pc["scheduler"]
    BY <1>2 DEF Bind, LoopTest, Sleep, Signal, Drained, StopSnapshots, Join, Goto, Thread
  <2>3. Recovered' = Recovered
    BY <1>1 DEF Recovered
  <2> QED BY <1>1, <1>5, <2>1, <2>2, <2>3 DEF IInv, Kept
<1> QED BY <1>4, <1>5, <1>6, <1>7 DEF IInv

\* The two threads that call SnapshotWriter::write, and where they go on
Writer(t, after) == \/ t = "scheduler" /\ after = "sleep"
                    \/ t = "main" /\ after = "exited"

\* A thread that writes is the only one that does.
LEMMA Alone ==
  ASSUME IInv, NEW t \in Thread, NEW u \in Thread, t # u,
         pc[t] \in {"open", "dump", "out"}
  PROVE  pc[u] \notin {"dump", "out"} /\ pc["main"] # "exited"
BY DEF IInv, Turns, Thread

\* What moves when a thread writes
LEMMA WriterMoves ==
  ASSUME IInv, NEW t, NEW after, Writer(t, after), NEW from \in {"open", "dump", "out"},
         NEW to \in {"dump", "out", after}, Goto(t, from, to), bound' = bound, timed' = timed
  PROVE  /\ t \in Thread /\ DOMAIN pc' = Thread
         /\ pc[t] = from /\ pc'[t] = to
         /\ \A u \in Thread : u # t => pc'[u] = pc[u]
         /\ Turns' /\ (Steady' => Steady /\ t = "scheduler")
<1>1. /\ t \in Thread /\ DOMAIN pc' = Thread /\ pc[t] = from /\ pc'[t] = to
      /\ \A u \in Thread : u # t => pc'[u] = pc[u]
  BY DEF Writer, Goto, Thread, IInv, Types
<1>2. CASE t = "scheduler" /\ after = "sleep"
  BY <1>1, <1>2 DEF Thread, IInv, Turns, Steady
<1>3. CASE t = "main" /\ after = "exited"
  BY <1>1, <1>3 DEF Thread, IInv, Turns, Steady
<1> QED BY <1>1, <1>2, <1>3 DEF Writer

\* The constructor of the stream truncates the file, or fails.
LEMMA OpenKeeps ==
  ASSUME IInv, NEW t, NEW after, Writer(t, after), Open(t, after)
  PROVE  IInv'
<1>1. /\ bound' = bound /\ mem' = mem /\ timed' = timed /\ aof' = aof /\ dump' = dump
      /\ saved' = saved
  BY DEF Open
<1>2. CASE /\ Goto(t, "open", "dump") /\ snapshot' = Truncated /\ whole' = FALSE
           /\ failed' = failed
  <2>1. /\ t \in Thread /\ DOMAIN pc' = Thread /\ pc[t] = "open" /\ pc'[t] = "dump"
        /\ \A u \in Thread : u # t => pc'[u] = pc[u]
        /\ Turns' /\ (Steady' => Steady /\ t = "scheduler")
    BY <1>1, <1>2, WriterMoves
  <2>2. \A u \in Thread : u # t => pc[u] \notin {"dump", "out"}
    BY <2>1, Alone
  <2>3. Types' /\ Latest'
    <3>1. Truncated \in SnapshotFile
      BY DEF Truncated, SnapshotFile, Pairs
    <3> QED BY <1>1, <1>2, <2>1, <3>1 DEF IInv, Types, Latest
  <2>4. Writing'
    BY <1>1, <1>2, <2>1, <2>2 DEF Writing, Thread
  <2>5. pc'["main"] # "exited"
    BY <2>1 DEF IInv, Turns, Thread
  <2>6. Kept'
    BY <2>1, <2>5 DEF Kept
  <2> QED BY <2>1, <2>3, <2>4, <2>6 DEF IInv
<1>3. CASE Goto(t, "open", after) /\ failed' = TRUE /\ snapshot' = snapshot /\ whole' = whole
  <2>1. /\ t \in Thread /\ DOMAIN pc' = Thread /\ pc[t] = "open" /\ pc'[t] = after
        /\ \A u \in Thread : u # t => pc'[u] = pc[u]
        /\ Turns' /\ (Steady' => Steady /\ t = "scheduler")
    BY <1>1, <1>3, WriterMoves
  <2>2. Types' /\ Latest' /\ Kept'
    BY <1>1, <1>3, <2>1 DEF IInv, Types, Latest, Kept
  <2>3. Writing'
    BY <1>1, <1>3, <2>1 DEF IInv, Writing, Writer, Thread
  <2> QED BY <2>1, <2>2, <2>3 DEF IInv
<1> QED BY <1>2, <1>3 DEF Open

\* dump_entries makes the data of the moment the latest dump.
LEMMA DumpKeeps ==
  ASSUME IInv, NEW t, NEW after, Writer(t, after), Dump(t)
  PROVE  IInv'
<1>1. /\ bound' = bound /\ mem' = mem /\ timed' = timed /\ aof' = aof /\ snapshot' = snapshot
      /\ saved' = mem /\ whole' = whole /\ failed' = failed /\ Goto(t, "dump", "out")
  BY DEF Dump
<1>2. /\ t \in Thread /\ DOMAIN pc' = Thread /\ pc[t] = "dump" /\ pc'[t] = "out"
      /\ \A u \in Thread : u # t => pc'[u] = pc[u]
      /\ Turns' /\ (Steady' => Steady /\ t = "scheduler")
  BY <1>1, WriterMoves
<1>3. DOMAIN dump' = Thread /\ dump'[t] \in dump_entries(mem)
  BY <1>2 DEF Dump, IInv, Types
<1>4. \A u \in Thread : u # t => pc[u] \notin {"dump", "out"}
  BY <1>2, Alone
<1>5. snapshot' = Truncated /\ whole' = FALSE
  BY <1>1, <1>2 DEF IInv, Writing
<1>6. Types' /\ Latest'
  BY <1>1, <1>2, <1>3, <1>5 DEF IInv, Types, Latest
<1>7. Writing'
  BY <1>1, <1>2, <1>3, <1>4, <1>5 DEF Writing, Thread
<1>8. pc'["main"] # "exited"
  BY <1>2 DEF IInv, Turns, Thread
<1>9. Kept'
  BY <1>2, <1>8 DEF Kept
<1> QED BY <1>2, <1>6, <1>7, <1>9 DEF IInv

\* What is on disk when the file is closed or the process ends
LEMMA OnDisk ==
  ASSUME NEW m \in Contents, NEW d \in dump_entries(m), NEW file \in Cut(d) \cup {Written(d)}
  PROVE  file \in SnapshotFile /\ file # NoFile
<1>1. d \in Pairs /\ Len(d) \in Nat
  BY DumpIsAll
<1>2. Written(d) \in SnapshotFile
  BY <1>1 DEF Written, File, SnapshotFile
<1>3. file \in SnapshotFile
  BY <1>2, LoadCut
<1> QED BY <1>3, FilesAssumption DEF SnapshotFile, Pairs

\* The end of write leaves the dump in the file, or a beginning of it when the disk is full.
LEMMA CloseKeeps ==
  ASSUME IInv, NEW t, NEW after, Writer(t, after), Close(t, after)
  PROVE  IInv'
<1>1. /\ bound' = bound /\ mem' = mem /\ timed' = timed /\ aof' = aof /\ saved' = saved
      /\ dump' = [dump EXCEPT ![t] = << >>] /\ Goto(t, "out", after)
  BY DEF Close
<1>2. /\ t \in Thread /\ DOMAIN pc' = Thread /\ pc[t] = "out" /\ pc'[t] = after
      /\ \A u \in Thread : u # t => pc'[u] = pc[u]
      /\ Turns' /\ (Steady' => Steady /\ t = "scheduler")
  BY <1>1, WriterMoves
<1>3. after \notin {"dump", "out"}
  BY DEF Writer
<1>4. dump[t] \in dump_entries(saved) /\ ~whole /\ saved \in Contents /\ mem \in Contents
  BY <1>2 DEF IInv, Writing, Types
<1>5. \A u \in Thread : pc'[u] \notin {"dump", "out"}
  BY <1>2, <1>3, Alone
<1>6. snapshot' \in Cut(dump[t]) \cup {Written(dump[t])}
  BY DEF Close
<1>7. snapshot' \in SnapshotFile /\ snapshot' # NoFile
  BY <1>4, <1>6, OnDisk
<1>8. Types'
  BY <1>1, <1>2, <1>7 DEF IInv, Types
<1>9. Latest'
  BY <1>1, <1>4, <1>6 DEF Close, Latest
<1>10. Writing'
  BY <1>5 DEF Writing, Thread
<1>11. Kept'
  <2> SUFFICES ASSUME ~failed',
                      \/ pc'["main"] = "exited"
                      \/ Steady' /\ pc'["scheduler"] \notin {"dump", "out"}
               PROVE  Recovered' = mem'
    BY DEF Kept
  <2>1. snapshot' = Written(dump[t])
    BY DEF Close
  <2>2. saved = mem
    <3>1. CASE t = "main"
      BY <1>2, <3>1 DEF IInv, Writing
    <3>2. CASE t = "scheduler"
      <4>1. pc["main"] # "exited" /\ pc'["main"] = pc["main"]
        BY <1>2, <3>2 DEF IInv, Turns, Thread
      <4>2. Steady
        BY <1>2, <4>1
      <4> QED BY <1>2, <3>2, <4>2 DEF IInv, Writing
    <3> QED BY <3>1, <3>2 DEF Writer
  <2>3. load_into(Written(dump[t])) = mem
    BY <1>4, <2>2, LoadWritten
  <2> QED BY <1>1, <1>7, <2>1, <2>3 DEF Recovered
<1> QED BY <1>2, <1>8, <1>9, <1>10, <1>11 DEF IInv

\* The process ends between two steps.
LEMMA CrashKeeps ==
  ASSUME IInv, Crash
  PROVE  IInv'
<1>1. /\ pc'["main"] = "crashed" /\ pc'["scheduler"] = "off"
      /\ DOMAIN pc' = Thread /\ DOMAIN dump' = Thread
      /\ mem' = mem /\ saved' = saved /\ aof' = aof /\ whole' = whole
  BY DEF Crash, Thread
<1>2. ~Steady' /\ Turns' /\ Writing' /\ Kept'
  BY <1>1 DEF Steady, Turns, Writing, Kept, Thread
<1>3. Types' /\ Latest'
  <2>1. CASE snapshot' = snapshot
    BY <1>1, <2>1 DEF IInv, Types, Latest
  <2>2. ASSUME NEW t \in Thread, pc[t] = "out", snapshot' \in Cut(dump[t])
        PROVE  Types' /\ Latest'
    <3>1. dump[t] \in dump_entries(saved) /\ ~whole /\ saved \in Contents
      BY <2>2 DEF IInv, Writing, Types
    <3>2. snapshot' \in SnapshotFile
      BY <2>2, <3>1, OnDisk
    <3> QED BY <1>1, <2>2, <3>1, <3>2 DEF IInv, Types, Latest
  <2> QED BY <2>1, <2>2 DEF Crash
<1> QED BY <1>2, <1>3 DEF IInv

-----------------------------------------------------------------------------
(* The properties                                                          *)

\* The invariant holds through every sequence of starts, writes, failures and crashes.
THEOREM IInvHolds == Spec => []IInv
<1>1. IInv /\ [Next]_vars => IInv'
  <2> SUFFICES ASSUME IInv, [Next]_vars PROVE IInv'
    OBVIOUS
  <2>1. CASE Scheduler
    <3>1. Writer("scheduler", "sleep")
      BY DEF Writer
    <3> QED BY <2>1, <3>1, MovesKeep, OpenKeeps, DumpKeeps, CloseKeeps DEF Scheduler, write
  <2>2. CASE Stop
    <3>1. Writer("main", "exited")
      BY DEF Writer
    <3> QED BY <2>2, <3>1, MovesKeep, OpenKeeps, DumpKeeps, CloseKeeps DEF Stop, write
  <2>3. CASE Start \/ Bind \/ Client \/ Signal \/ Crash
    BY <2>3, StartKeeps, MovesKeep, ClientKeeps, CrashKeeps
  <2>4. CASE UNCHANGED vars
    BY <2>4 DEF vars, IInv, Types, Turns, Writing, Latest, Kept, Steady, Recovered
  <2> QED BY <2>1, <2>2, <2>3, <2>4 DEF Next
<1> QED BY <1>1, InitIInv, PTL DEF Spec

\* run's last snapshot and the scheduler's never have the file open together.
THEOREM WritersTakeTurns == Spec => []OneWriter
<1>1. IInv => OneWriter
  BY DEF IInv, Turns, OneWriter, Thread
<1> QED BY <1>1, IInvHolds, PTL

\* A process that leaves run by itself, its last write not having failed, leaves files
\* that restore its data.
THEOREM ExitIsSafe == Spec => []ExitLosesNothing
<1>1. IInv => ExitLosesNothing
  BY DEF IInv, Kept, ExitLosesNothing
<1> QED BY <1>1, IInvHolds, PTL

\* A start from a snapshot restores the latest dump: all of it if it was written to its
\* end, and else a part in which at most one value is cut off.
THEOREM RestoreIsLatest == Spec => RestoresLatestDump
<1> DEFINE Restores ==
      Start /\ snapshot # NoFile =>
        /\ whole => mem' = saved
        /\ \A k \in Key : mem'[k] \in {saved[k], NoValue, Torn}
        /\ \A j, k \in Key : /\ mem'[j] = Torn /\ saved[j] # Torn
                             /\ mem'[k] = Torn /\ saved[k] # Torn
                             => j = k
<1>1. ASSUME IInv, [Next]_vars
      PROVE  [Restores]_vars
  <2> SUFFICES ASSUME Start, snapshot # NoFile
               PROVE  (whole => mem' = saved) /\ Part(saved, mem')
    BY DEF Part
  <2>1. mem' = load_into(snapshot) /\ saved \in Contents
    BY <1>1 DEF Start, IInv, Types
  <2>2. CASE snapshot = Truncated /\ ~whole
    BY <2>1, <2>2, NothingIsPart DEF load_into, Truncated
  <2>3. ASSUME NEW d \in dump_entries(saved), snapshot = Written(d)
        PROVE  mem' = saved /\ Part(saved, mem')
    <3>1. mem' = saved
      BY <2>1, <2>3, LoadWritten
    <3> QED BY <3>1 DEF Part
  <2>4. ASSUME NEW d \in dump_entries(saved), snapshot \in Cut(d)
        PROVE  Part(saved, mem')
    BY <2>1, <2>4, LoadCut
  <2> QED BY <1>1, <2>2, <2>3, <2>4 DEF IInv, Latest
<1>2. [][Restores]_vars => RestoresLatestDump
  BY DEF RestoresLatestDump
<1> QED BY <1>1, <1>2, IInvHolds, PTL DEF Spec

=============================================================================
