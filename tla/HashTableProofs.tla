-------------------------- MODULE HashTableProofs --------------------------
(***************************************************************************)
(* Proofs about HashTable and KeyScanner, for every set of keys and        *)
(* entries, every hash function and every initial number of buckets, and   *)
(* for every sequence of SCAN calls.                                       *)
(***************************************************************************)
EXTENDS KeyScanner, TLAPS

-----------------------------------------------------------------------------
(* Patterns.                                                               *)

\* The form of induction used below, a fact of FiniteSetTheorems' libraries that
\* the lemmas about patterns take as a hypothesis.
HasLeast == \A T \in SUBSET Nat : T # {} => \E m \in T : \A n \in T : m <= n

\* The characters of a part of a text.
LEMMA Slice ==
  ASSUME NEW s \in Seq(STRING), NEW a \in Nat, NEW b \in Int, a <= b, b <= Len(s)
  PROVE  /\ SubSeq(s, a + 1, b) \in Seq(STRING)
         /\ Len(SubSeq(s, a + 1, b)) = b - a
         /\ \A i \in 1 .. (b - a) : SubSeq(s, a + 1, b)[i] = s[a + i]
<1>1. /\ SubSeq(s, a + 1, b) \in Seq(STRING)
      /\ Len(SubSeq(s, a + 1, b)) = b - a
  OBVIOUS
<1>2. ASSUME NEW i \in 1 .. (b - a)
      PROVE  SubSeq(s, a + 1, b)[i] = s[a + i]
  OBVIOUS
<1> QED BY <1>1, <1>2

\* key.compare(at, s.size(), s), character by character
LEMMA compareIs ==
  ASSUME NEW key \in Seq(STRING), NEW s \in Seq(STRING), NEW at \in Nat
  PROVE  compare(key, at, s) <=>
           at + Len(s) <= Len(key) /\ \A i \in 1 .. Len(s) : key[at + i] = s[i]
<1> DEFINE m == Len(s)
           t == SubSeq(key, at + 1, at + m)
<1>1. m \in Nat /\ Len(key) \in Nat
  OBVIOUS
<1>2. ASSUME at + m <= Len(key)
      PROVE  t = s <=> \A i \in 1 .. m : key[at + i] = s[i]
  <2>1. t \in Seq(STRING) /\ Len(t) = m /\ \A i \in 1 .. m : t[i] = key[at + i]
    <3> DEFINE b == at + m
    <3>1. b \in Int /\ at <= b /\ b <= Len(key) /\ b - at = m /\ t = SubSeq(key, at + 1, b)
      BY <1>1, <1>2
    <3> HIDE DEF b, m, t
    <3>2. /\ SubSeq(key, at + 1, b) \in Seq(STRING)
          /\ Len(SubSeq(key, at + 1, b)) = b - at
          /\ \A i \in 1 .. (b - at) : SubSeq(key, at + 1, b)[i] = key[at + i]
      BY <3>1, Slice
    <3> QED BY <3>1, <3>2
  <2> HIDE DEF t
  <2>2. ASSUME \A i \in 1 .. m : key[at + i] = s[i] PROVE t = s
    BY <2>1, <2>2
  <2> QED BY <2>1, <2>2
<1> QED BY <1>2 DEF compare

\* part is the pattern p without its star in front (lo = 1) and its star at the
\* end (hi = Len(p) - 1), and holds no other star.
LiteralPart(p, lo, hi, part) ==
  /\ lo \in {0, 1} /\ hi \in {Len(p) - 1, Len(p)} /\ lo <= hi
  /\ \A j \in 1 .. Len(p) : p[j] = "*" <=> (j <= lo \/ j > hi)
  /\ part \in Seq(STRING) /\ Len(part) = hi - lo
  /\ \A i \in 1 .. (hi - lo) : part[i] = p[lo + i]

\* A glob with stars at its ends only, and more than a star, means that the part
\* between its stars lies in the key, at the key's start or end where no star is.
LEMMA GlobIsLiteral ==
  ASSUME HasLeast, NEW key \in Seq(STRING), NEW p \in Seq(STRING),
         NEW lo, NEW hi, NEW part, LiteralPart(p, lo, hi, part)
  PROVE  Glob(key, p) <=>
           \E a \in 0 .. Len(key) : /\ lo = 0 => a = 0
                                    /\ hi = Len(p) => a + (hi - lo) = Len(key)
                                    /\ compare(key, a, part)
<1> DEFINE n == Len(p)
           L == Len(key)
           m == hi - lo
           OK(cut, j) == IF p[j] = "*" THEN cut[j] >= cut[j - 1]
                         ELSE cut[j] = cut[j - 1] + 1 /\ key[cut[j]] = p[j]
           Fit(a) == /\ lo = 0 => a = 0
                     /\ hi = n => a + m = L
                     /\ a + m <= L
                     /\ \A i \in 1 .. m : key[a + i] = p[lo + i]
<1>1. n \in Nat /\ L \in Nat /\ lo \in {0, 1} /\ hi \in 0 .. n /\ lo <= hi /\ m \in Nat
  BY DEF LiteralPart
<1>2. /\ \A j \in 1 .. n : p[j] = "*" <=> (j <= lo \/ j > hi)
      /\ hi = n \/ hi = n - 1
  BY DEF LiteralPart
<1>3. Glob(key, p) <=> \E cut \in [0 .. n -> 0 .. L] :
        cut[0] = 0 /\ cut[n] = L /\ \A j \in 1 .. n : OK(cut, j)
  BY DEF Glob
<1>4. \A a \in 0 .. L : Fit(a) <=> /\ lo = 0 => a = 0
                                   /\ hi = n => a + m = L
                                   /\ compare(key, a, part)
  <2> TAKE a \in 0 .. L
  <2>1. a \in Nat
    OBVIOUS
  <2>2. compare(key, a, part) <=>
          a + Len(part) <= Len(key) /\ \A i \in 1 .. Len(part) : key[a + i] = part[i]
    BY <2>1, compareIs DEF LiteralPart
  <2>3. Len(part) = m /\ \A i \in 1 .. m : part[i] = p[lo + i]
    BY DEF LiteralPart
  <2> HIDE DEF m
  <2> QED BY <2>2, <2>3
<1> HIDE DEF n, L, m
<1>m. m = hi - lo
  BY DEF m
<1>5. ASSUME NEW cut \in [0 .. n -> 0 .. L], cut[0] = 0, cut[n] = L,
             \A j \in 1 .. n : OK(cut, j)
      PROVE  \E a \in 0 .. L : Fit(a)
  <2> DEFINE a == cut[lo]
             T == {j \in 0 .. m : cut[lo + j] # a + j}
  <2>1. lo \in 0 .. n /\ a \in 0 .. L
    BY <1>1
  <2>2. T = {}
    <3> SUFFICES ASSUME T # {} PROVE FALSE
      OBVIOUS
    <3>1. T \in SUBSET Nat
      BY <1>1
    <3> HIDE DEF a
    <3>2. PICK k \in T : \A j \in T : k <= j
      BY <3>1, Zenon DEF HasLeast
    <3>3. k \in 0 .. m /\ cut[lo + k] # a + k
      BY <3>2
    <3>4. k # 0
      BY <3>3, <2>1, <1>1 DEF a
    <3>5. /\ k - 1 \in 0 .. m /\ ~(k <= k - 1)
          /\ lo + k \in 1 .. n /\ ~(lo + k <= lo \/ lo + k > hi)
          /\ (lo + k) - 1 = lo + (k - 1)
      BY <3>3, <3>4, <1>1, <1>m
    <3>6. cut[lo + (k - 1)] = a + (k - 1)
      BY <3>2, <3>5
    <3>7. cut[lo + k] = cut[(lo + k) - 1] + 1
      BY <3>5, <1>2, <1>5
    <3> QED BY <3>3, <3>5, <3>6, <3>7, <2>1, <1>1
  <2>3. \A j \in 0 .. m : cut[lo + j] = a + j
    BY <2>2
  <2> HIDE DEF a
  <2>4. cut[hi] = a + m /\ cut[hi] \in 0 .. L
    <3>1. lo + m = hi /\ m \in 0 .. m
      BY <1>1, <1>m
    <3> QED BY <3>1, <2>3, <1>1, Zenon
  <2>5. lo = 0 => a = 0
    BY <1>5 DEF a
  <2>6. ASSUME NEW i \in 1 .. m PROVE key[a + i] = p[lo + i]
    <3>1. i \in 0 .. m /\ lo + i \in 1 .. n /\ ~(lo + i <= lo \/ lo + i > hi)
      BY <1>1, <1>m
    <3>2. key[cut[lo + i]] = p[lo + i]
      BY <3>1, <1>2, <1>5
    <3> QED BY <3>1, <3>2, <2>3
  <2>7. a + m <= L
    BY <2>4, <1>1
  <2>8. Fit(a)
    BY <2>4, <2>5, <2>6, <2>7, <1>5
  <2> QED BY <2>1, <2>8
<1>6. ASSUME NEW a \in 0 .. L, Fit(a)
      PROVE  \E cut \in [0 .. n -> 0 .. L] :
               cut[0] = 0 /\ cut[n] = L /\ \A j \in 1 .. n : OK(cut, j)
  <2> DEFINE cut == [j \in 0 .. n |-> IF j < lo THEN 0 ELSE IF j > hi THEN L ELSE a + (j - lo)]
  <2>1. cut \in [0 .. n -> 0 .. L]
    BY <1>1, <1>6, <1>m
  <2>2. \A j \in 0 .. n : cut[j] = IF j < lo THEN 0 ELSE IF j > hi THEN L ELSE a + (j - lo)
    OBVIOUS
  <2> HIDE DEF cut
  <2>3. cut[0] = 0
    <3>1. 0 \in 0 .. n
      BY <1>1
    <3> QED BY <3>1, <2>2, <1>1, <1>6
  <2>4. cut[n] = L
    <3>1. cut[n] = IF n < lo THEN 0 ELSE IF n > hi THEN L ELSE a + (n - lo)
      BY <2>2, <1>1
    <3>2. ~(n < lo)
      BY <1>1
    <3>3. CASE hi = n
      BY <3>1, <3>2, <3>3, <1>1, <1>6, <1>m
    <3>4. CASE hi = n - 1
      BY <3>1, <3>2, <3>4, <1>1
    <3> QED BY <3>3, <3>4, <1>2
  <2>5. ASSUME NEW j \in 1 .. n PROVE OK(cut, j)
    <3>1. j \in 0 .. n /\ j - 1 \in 0 .. n /\ j \in Int
      BY <1>1
    <3>2. CASE j <= lo
      <4>1. j = 1 /\ p[j] = "*"
        BY <3>1, <3>2, <1>1, <1>2
      <4>2. cut[j] \in 0 .. L /\ cut[j - 1] = 0
        BY <4>1, <3>1, <2>1, <2>3
      <4> QED BY <4>1, <4>2, <1>1
    <3>3. CASE j > hi
      <4>1. j = n /\ p[j] = "*"
        BY <3>1, <3>3, <1>1, <1>2
      <4>2. cut[j] = L /\ cut[j - 1] \in 0 .. L
        BY <4>1, <3>1, <2>1, <2>4
      <4> QED BY <4>1, <4>2, <1>1
    <3>4. CASE ~(j <= lo \/ j > hi)
      <4>1. p[j] # "*" /\ j - lo \in 1 .. m /\ lo + (j - lo) = j
        BY <3>1, <3>4, <1>1, <1>2, <1>m
      <4>2. cut[j] = a + (j - lo) /\ cut[j - 1] = a + ((j - 1) - lo)
        BY <3>1, <3>4, <2>2, <1>1
      <4>3. cut[j] = cut[j - 1] + 1
        BY <4>2, <3>1, <1>1
      <4>4. key[a + (j - lo)] = p[j]
        BY <4>1, <1>6
      <4> QED BY <4>1, <4>2, <4>3, <4>4
    <3> QED BY <3>2, <3>3, <3>4
  <2> QED BY <2>1, <2>3, <2>4, <2>5, Zenon
<1>7. Glob(key, p) <=> \E a \in 0 .. L : Fit(a)
  BY <1>3, <1>5, <1>6
<1> QED BY <1>4, <1>7 DEF n, L, m

\* The comparisons of KeyScanner::matches mean what the glob means.
LEMMA matchesIsGlob ==
  ASSUME HasLeast, NEW p \in Patterns, NEW key \in Key
  PROVE  matches(key, p) <=> Glob(key, p)
<1> DEFINE n == Len(p)
           L == Len(key)
           lo == IF p[1] = "*" THEN 1 ELSE 0
           hi == IF p[n] = "*" THEN n - 1 ELSE n
           part == SubSeq(p, lo + 1, hi)
<1>1. /\ key \in Seq(STRING) /\ p \in Seq(STRING) /\ p # << >> /\ p # <<"*", "*">>
      /\ \A j \in 2 .. (n - 1) : p[j] # "*"
  BY TextAssumption
<1>2. n \in Nat \ {0} /\ L \in Nat
  BY <1>1
<1> HIDE DEF n, L
<1>3. CASE n = 1 /\ p[1] = "*"
  <2>1. p = <<"*">>
    BY <1>1, <1>3 DEF n
  <2>2. matches(key, p)
    BY <2>1 DEF matches
  <2>3. Glob(key, p)
    <3> DEFINE cut == [j \in 0 .. 1 |-> IF j = 0 THEN 0 ELSE L]
    <3>1. cut \in [0 .. n -> 0 .. L] /\ cut[0] = 0 /\ cut[1] = L
      BY <1>2, <1>3
    <3> HIDE DEF cut
    <3>2. \A j \in 1 .. n : p[j] = "*" /\ cut[j] >= cut[j - 1]
      BY <3>1, <1>2, <1>3
    <3> QED BY <3>1, <3>2, <1>3 DEF Glob, n, L
  <2> QED BY <2>2, <2>3
<1>4. CASE ~(n = 1 /\ p[1] = "*")
  <2>1. p # <<"*">>
    BY <1>4 DEF n
  <2>2. n > 1 \/ p[1] # "*"
    BY <1>2, <1>4
  <2>3. ~(n = 2 /\ p[1] = "*" /\ p[2] = "*")
    <3> SUFFICES ASSUME n = 2, p[1] = "*", p[2] = "*" PROVE FALSE
      OBVIOUS
    <3>1. p = <<"*", "*">>
      BY <1>1 DEF n
    <3> QED BY <3>1, <1>1
  <2>4. lo \in {0, 1} /\ hi \in {n - 1, n} /\ lo <= hi
    BY <2>2, <1>2
  <2>5. \A j \in 1 .. n : p[j] = "*" <=> (j <= lo \/ j > hi)
    <3> TAKE j \in 1 .. n
    <3>1. CASE j = 1
      BY <3>1, <2>2, <1>2
    <3>2. CASE j = n
      BY <3>2, <2>2, <1>2
    <3>3. CASE j # 1 /\ j # n
      BY <3>3, <1>1, <1>2
    <3> QED BY <3>1, <3>2, <3>3
  <2> HIDE DEF lo, hi
  <2>6. /\ part \in Seq(STRING) /\ Len(part) = hi - lo
        /\ \A i \in 1 .. (hi - lo) : part[i] = p[lo + i]
    <3>1. lo \in Nat /\ hi \in Int /\ hi <= Len(p)
      BY <2>4, <1>2 DEF n
    <3> QED BY <3>1, <2>4, <1>1, Slice
  <2> HIDE DEF part
  <2>l. LiteralPart(p, lo, hi, part)
    BY <2>4, <2>5, <2>6 DEF LiteralPart, n
  <2>7. Glob(key, p) <=>
          \E a \in 0 .. L : /\ lo = 0 => a = 0
                            /\ hi = n => a + (hi - lo) = L
                            /\ compare(key, a, part)
    BY <2>l, <1>1, GlobIsLiteral DEF n, L
  <2>8. CASE p[1] = "*" /\ p[n] = "*"
    <3>1. n > 2 /\ lo = 1 /\ hi = n - 1
      BY <2>2, <2>3, <2>8, <1>2 DEF lo, hi
    <3>2. matches(key, p) <=> \E a \in 0 .. L : compare(key, a, part)
      BY <3>1, <2>1, <2>8, <1>1 DEF matches, n, L, part
    <3>3. lo # 0 /\ hi # n
      BY <3>1, <1>2
    <3> QED BY <3>2, <3>3, <2>7
  <2>9. CASE p[1] = "*" /\ p[n] # "*"
    <3>1. n > 1 /\ lo = 1 /\ hi = n /\ lo # 0
      BY <2>2, <2>9, <1>2 DEF lo, hi
    <3>2. Tail(p) = part
      BY <3>1, <2>6, <1>1 DEF n
    <3>3. matches(key, p) <=> n - 1 <= L /\ compare(key, L - (n - 1), part)
      BY <3>2, <2>1, <2>9, <1>1, Zenon DEF matches, n, L
    <3>4. \A a \in 0 .. L : a + (hi - lo) = L <=> n - 1 <= L /\ a = L - (n - 1)
      BY <3>1, <1>2
    <3>5. n - 1 <= L => L - (n - 1) \in 0 .. L
      BY <3>1, <1>2
    <3> QED BY <3>1, <3>3, <3>4, <3>5, <2>7
  <2>10. CASE p[1] # "*" /\ p[n] = "*"
    <3>1. lo = 0 /\ hi = n - 1 /\ hi # n
      BY <2>10, <1>2 DEF lo, hi
    <3>2. matches(key, p) <=> compare(key, 0, part)
      BY <3>1, <2>1, <2>10, <1>1 DEF matches, n, part
    <3>3. 0 \in 0 .. L
      BY <1>2
    <3> QED BY <3>1, <3>2, <3>3, <2>7
  <2>11. CASE p[1] # "*" /\ p[n] # "*"
    <3>1. lo = 0 /\ hi = n /\ hi - lo = n
      BY <2>11, <1>2 DEF lo, hi
    <3>2. matches(key, p) <=> key = p
      BY <2>1, <2>11, <1>1 DEF matches, n
    <3>3. Glob(key, p) <=> n = L /\ compare(key, 0, part)
      BY <3>1, <2>7, <1>2
    <3>4. compare(key, 0, part) <=> n <= L /\ \A i \in 1 .. n : key[i] = p[i]
      <4>1. compare(key, 0, part) <=>
              0 + Len(part) <= Len(key) /\ \A i \in 1 .. Len(part) : key[0 + i] = part[i]
        <5>1. 0 \in Nat
          OBVIOUS
        <5> QED BY <5>1, <2>6, <1>1, compareIs, Zenon
      <4>2. \A i \in 1 .. n : 0 + i = i /\ part[i] = p[i]
        BY <3>1, <2>6
      <4>3. 0 + Len(part) = n /\ Len(part) = n /\ Len(key) = L
        BY <3>1, <2>6, <1>2 DEF L
      <4> QED BY <4>1, <4>2, <4>3
    <3>5. key = p <=> n = L /\ \A i \in 1 .. n : key[i] = p[i]
      BY <1>1 DEF n, L
    <3> QED BY <3>2, <3>3, <3>4, <3>5, <1>2
  <2> QED BY <2>8, <2>9, <2>10, <2>11
<1> QED BY <1>3, <1>4

-----------------------------------------------------------------------------
(* One vector of chains.                                                   *)

\* A vector of chains as the table leaves it after every step.
Table(bs) == bs \in Seq(Seq(Node)) /\ Len(bs) > 0 /\ WellPlaced(bs)

\* bucket_index stays inside the vector.
LEMMA SlotInRange ==
  ASSUME NEW bs \in Seq(Seq(Node)), Len(bs) > 0, NEW k \in Key
  PROVE  Slot(bs, k) \in 1 .. Len(bs)
<1>1. Hash[k] \in Nat /\ Len(bs) \in Nat \ {0}
  BY HashAssumption
<1>2. Hash[k] % Len(bs) \in 0 .. (Len(bs) - 1)
  BY <1>1, SMT
<1> QED BY <1>1, <1>2, SMT DEF Slot

\* The chains of a vector are sequences of nodes.
LEMMA ChainType ==
  ASSUME NEW bs \in Seq(Seq(Node)), NEW b \in 1 .. Len(bs)
  PROVE  /\ bs[b] \in Seq(Node)
         /\ Len(bs[b]) \in Nat
         /\ \A i \in 1 .. Len(bs[b]) :
              /\ bs[b][i] \in Node
              /\ bs[b][i].key \in Key
              /\ bs[b][i].entry \in Entry
<1>1. bs[b] \in Seq(Node)
  OBVIOUS
<1>2. \A i \in 1 .. Len(bs[b]) : bs[b][i] \in Node
  BY <1>1
<1> QED BY <1>1, <1>2 DEF Node

\* In a well placed vector a node decides what every walk of its bucket sees.
LEMMA NodeDecides ==
  ASSUME NEW bs, Table(bs),
         NEW b \in 1 .. Len(bs), NEW i \in 1 .. Len(bs[b])
  PROVE  LET k == bs[b][i].key
         IN  /\ k \in Key
             /\ Slot(bs, k) = b
             /\ Holds(bs, k)
             /\ FirstAt(bs[b], k) = i
             /\ find(bs, k) = bs[b][i].entry
<1> DEFINE k == bs[b][i].key
<1>1. bs \in Seq(Seq(Node)) /\ WellPlaced(bs)
  BY DEF Table
<1>2. k \in Key /\ Len(bs[b]) \in Nat
  BY <1>1, ChainType
<1>3. Slot(bs, k) = b /\ \A j \in 1 .. Len(bs[b]) : bs[b][j].key = k => j = i
  BY <1>1 DEF WellPlaced
<1>4. Holds(bs, k)
  BY <1>3 DEF Holds
<1>5. FirstAt(bs[b], k) = i
  <2>1. bs[b][i].key = k /\ \A j \in 1 .. (i - 1) : bs[b][j].key # k
    BY <1>2, <1>3, SMT
  <2> HIDE DEF k
  <2>2. \A m \in 1 .. Len(bs[b]) :
          bs[b][m].key = k /\ (\A j \in 1 .. (m - 1) : bs[b][j].key # k) => m = i
    BY <1>3
  <2> QED BY <2>1, <2>2, SMT DEF FirstAt
<1>6. find(bs, k) = bs[b][i].entry
  BY <1>3, <1>4, <1>5 DEF find
<1> QED BY <1>2, <1>3, <1>4, <1>5, <1>6

\* A key that is held has such a node.
LEMMA HeldNode ==
  ASSUME NEW bs, Table(bs), NEW k \in Key, Holds(bs, k)
  PROVE  \E i \in 1 .. Len(bs[Slot(bs, k)]) :
           /\ Slot(bs, k) \in 1 .. Len(bs)
           /\ bs[Slot(bs, k)][i].key = k
           /\ FirstAt(bs[Slot(bs, k)], k) = i
           /\ find(bs, k) = bs[Slot(bs, k)][i].entry
           /\ find(bs, k) \in Entry
<1>1. bs \in Seq(Seq(Node)) /\ Len(bs) > 0
  BY DEF Table
<1>2. Slot(bs, k) \in 1 .. Len(bs)
  BY <1>1, SlotInRange
<1>3. PICK i \in 1 .. Len(bs[Slot(bs, k)]) : bs[Slot(bs, k)][i].key = k
  BY DEF Holds
<1>4. /\ FirstAt(bs[Slot(bs, k)], k) = i
      /\ find(bs, k) = bs[Slot(bs, k)][i].entry
  BY <1>2, <1>3, NodeDecides
<1>5. bs[Slot(bs, k)][i].entry \in Entry
  BY <1>1, <1>2, ChainType
<1> QED BY <1>2, <1>3, <1>4, <1>5

\* A key that is not held is not found.
LEMMA NotHeld ==
  ASSUME NEW bs, NEW k, ~Holds(bs, k)
  PROVE  find(bs, k) = NoEntry
BY DEF find

\* A chain that may stand in bucket b: its keys belong there and differ.
Fits(bs, b, c) ==
  /\ c \in Seq(Node)
  /\ \A i \in 1 .. Len(c) :
       /\ Slot(bs, c[i].key) = b
       /\ \A j \in 1 .. Len(c) : c[j].key = c[i].key => j = i

ReplaceChain(bs, b, c) == [bs EXCEPT ![b] = c]

\* nb is bs with chain c in bucket b: the keys of the other buckets see nothing.
Replaced(bs, b, c, nb) ==
  /\ Table(nb)
  /\ Len(nb) = Len(bs)
  /\ nb[b] = c
  /\ \A k \in Key : Slot(nb, k) = Slot(bs, k)
  /\ \A k \in Key : Slot(bs, k) # b => /\ Holds(nb, k) <=> Holds(bs, k)
                                       /\ find(nb, k) = find(bs, k)

\* Replacing the chain of one bucket by another that fits there.
LEMMA ReplaceChainEffect ==
  ASSUME NEW bs, Table(bs), NEW b \in 1 .. Len(bs), NEW c, Fits(bs, b, c)
  PROVE  Replaced(bs, b, c, ReplaceChain(bs, b, c))
<1> DEFINE nb == ReplaceChain(bs, b, c)
<1>1. bs \in Seq(Seq(Node)) /\ Len(bs) > 0 /\ WellPlaced(bs)
  BY DEF Table
<1>2. nb \in Seq(Seq(Node)) /\ Len(nb) = Len(bs)
  BY <1>1 DEF ReplaceChain, Fits
<1>3. nb[b] = c /\ \A d \in 1 .. Len(bs) : d # b => nb[d] = bs[d]
  BY <1>1 DEF ReplaceChain, Fits
<1> HIDE DEF nb
<1>4. \A k : Slot(nb, k) = Slot(bs, k)
  BY <1>2 DEF Slot
<1>5. WellPlaced(nb)
  <2> SUFFICES ASSUME NEW d \in 1 .. Len(nb), NEW i \in 1 .. Len(nb[d])
               PROVE  /\ Slot(nb, nb[d][i].key) = d
                      /\ \A j \in 1 .. Len(nb[d]) :
                           nb[d][j].key = nb[d][i].key => j = i
    BY DEF WellPlaced
  <2>1. CASE d = b
    BY <2>1, <1>3, <1>4 DEF Fits
  <2>2. CASE d # b
    <3>1. nb[d] = bs[d] /\ d \in 1 .. Len(bs)
      BY <2>2, <1>2, <1>3
    <3> QED BY <3>1, <1>1, <1>4 DEF WellPlaced
  <2> QED BY <2>1, <2>2
<1>6. ASSUME NEW k \in Key, Slot(bs, k) # b
      PROVE  nb[Slot(nb, k)] = bs[Slot(bs, k)]
  BY <1>1, <1>3, <1>4, <1>6, SlotInRange
<1>7. \A k \in Key : Slot(bs, k) # b => (Holds(nb, k) <=> Holds(bs, k))
  BY <1>6 DEF Holds
<1>8. \A k \in Key : Slot(bs, k) # b => find(nb, k) = find(bs, k)
  <2> TAKE k \in Key
  <2> HAVE Slot(bs, k) # b
  <2>1. nb[Slot(nb, k)] = bs[Slot(bs, k)] /\ (Holds(nb, k) <=> Holds(bs, k))
    BY <1>6, <1>7
  <2> QED BY <2>1 DEF find
<1> QED BY <1>1, <1>2, <1>3, <1>4, <1>5, <1>7, <1>8 DEF Table, Replaced, nb

\* Two tables with the same node for a key agree on the key.
LEMMA SameNode ==
  ASSUME NEW bs, Table(bs), NEW nb, Table(nb), NEW k \in Key,
         Holds(nb, k) => Holds(bs, k),
         \A i \in 1 .. Len(bs[Slot(bs, k)]) :
           bs[Slot(bs, k)][i].key = k =>
             \E d \in 1 .. Len(nb) : \E j \in 1 .. Len(nb[d]) :
               nb[d][j] = bs[Slot(bs, k)][i]
  PROVE  (Holds(nb, k) <=> Holds(bs, k)) /\ find(nb, k) = find(bs, k)
<1>1. CASE Holds(bs, k)
  <2>1. PICK i \in 1 .. Len(bs[Slot(bs, k)]) :
          /\ bs[Slot(bs, k)][i].key = k
          /\ find(bs, k) = bs[Slot(bs, k)][i].entry
    BY <1>1, HeldNode
  <2>2. PICK d \in 1 .. Len(nb) : \E j \in 1 .. Len(nb[d]) :
          nb[d][j] = bs[Slot(bs, k)][i]
    BY <2>1
  <2>3. PICK j \in 1 .. Len(nb[d]) : nb[d][j] = bs[Slot(bs, k)][i]
    BY <2>2
  <2>4. Holds(nb, k) /\ find(nb, k) = nb[d][j].entry
    BY <2>1, <2>3, NodeDecides
  <2> QED BY <1>1, <2>1, <2>3, <2>4
<1>2. CASE ~Holds(bs, k)
  BY <1>2, NotHeld
<1> QED BY <1>1, <1>2

\* A key whose node is the same in both chains sees nothing either.
LEMMA KeyKept ==
  ASSUME NEW bs, Table(bs), NEW b \in 1 .. Len(bs), NEW c, NEW nb,
         Replaced(bs, b, c, nb), NEW k \in Key,
         \A i \in 1 .. Len(c) : c[i].key = k =>
           \E j \in 1 .. Len(bs[b]) : bs[b][j].key = k,
         \A i \in 1 .. Len(bs[b]) : bs[b][i].key = k =>
           \E j \in 1 .. Len(c) : c[j] = bs[b][i]
  PROVE  (Holds(nb, k) <=> Holds(bs, k)) /\ find(nb, k) = find(bs, k)
<1>1. Table(nb) /\ Len(nb) = Len(bs) /\ nb[b] = c /\ Slot(nb, k) = Slot(bs, k)
  BY DEF Replaced
<1>2. CASE Slot(bs, k) # b
  BY <1>2 DEF Replaced
<1>3. CASE Slot(bs, k) = b
  <2>1. Holds(nb, k) => Holds(bs, k)
    BY <1>1, <1>3 DEF Holds
  <2>2. \A i \in 1 .. Len(bs[Slot(bs, k)]) :
          bs[Slot(bs, k)][i].key = k =>
            \E d \in 1 .. Len(nb) : \E j \in 1 .. Len(nb[d]) :
              nb[d][j] = bs[Slot(bs, k)][i]
    <3> TAKE i \in 1 .. Len(bs[Slot(bs, k)])
    <3> HAVE bs[Slot(bs, k)][i].key = k
    <3>1. \E j \in 1 .. Len(nb[b]) : nb[b][j] = bs[Slot(bs, k)][i]
      BY <1>1, <1>3
    <3> QED BY <3>1, <1>1
  <2> QED BY <2>1, <2>2, <1>1, SameNode, Zenon
<1> QED BY <1>2, <1>3

\* What Push, the new node at the head of its chain, does to every key.
LEMMA PushEffect ==
  ASSUME NEW bs, Table(bs), NEW k \in Key, NEW e \in Entry, ~Holds(bs, k)
  PROVE  LET nb == Push(bs, k, e)
         IN  /\ Table(nb)
             /\ Len(nb) = Len(bs)
             /\ Holds(nb, k) /\ find(nb, k) = e
             /\ \A x \in Key \ {k} : /\ Holds(nb, x) <=> Holds(bs, x)
                                     /\ find(nb, x) = find(bs, x)
<1> DEFINE b == Slot(bs, k)
           n == [key |-> k, entry |-> e]
           c == <<n>> \o bs[b]
           nb == Push(bs, k, e)
<1>1. bs \in Seq(Seq(Node)) /\ Len(bs) > 0 /\ WellPlaced(bs)
  BY DEF Table
<1>2. b \in 1 .. Len(bs)
  BY <1>1, SlotInRange
<1>3. bs[b] \in Seq(Node) /\ Len(bs[b]) \in Nat
  BY <1>1, <1>2, ChainType
<1>4. n \in Node
  BY DEF Node
<1>5. /\ c \in Seq(Node)
      /\ Len(c) = Len(bs[b]) + 1
      /\ c[1] = n
      /\ \A i \in 2 .. Len(c) : c[i] = bs[b][i - 1]
  BY <1>3, <1>4
<1>6. \A i \in 1 .. Len(bs[b]) : bs[b][i].key # k
  BY DEF Holds
<1> HIDE DEF b, c
<1>7. \A i \in 2 .. Len(c) :
        i - 1 \in 1 .. Len(bs[b]) /\ c[i] = bs[b][i - 1] /\ c[i].key # k
  <2> TAKE i \in 2 .. Len(c)
  <2>1. i - 1 \in 1 .. Len(bs[b]) /\ c[i] = bs[b][i - 1]
    BY <1>3, <1>5
  <2> QED BY <2>1, <1>6
<1>8. Fits(bs, b, c)
  <2> SUFFICES ASSUME NEW i \in 1 .. Len(c)
               PROVE  /\ Slot(bs, c[i].key) = b
                      /\ \A j \in 1 .. Len(c) : c[j].key = c[i].key => j = i
    BY <1>5 DEF Fits
  <2>1. CASE i = 1
    BY <2>1, <1>3, <1>5, <1>7 DEF b
  <2>2. CASE i # 1
    <3>1. i - 1 \in 1 .. Len(bs[b]) /\ c[i] = bs[b][i - 1] /\ c[i].key # k
      BY <2>2, <1>3, <1>5, <1>7
    <3>2. Slot(bs, c[i].key) = b
      BY <3>1, <1>1, <1>2 DEF WellPlaced
    <3>3. ASSUME NEW j \in 1 .. Len(c), c[j].key = c[i].key PROVE j = i
      <4>1. j # 1
        BY <3>1, <3>3, <1>5
      <4>2. j - 1 \in 1 .. Len(bs[b]) /\ c[j] = bs[b][j - 1]
        BY <4>1, <1>3, <1>5, <1>7
      <4>3. bs[b][j - 1].key = bs[b][i - 1].key
        BY <4>2, <3>1, <3>3
      <4>4. j - 1 = i - 1
        BY <4>2, <4>3, <3>1, <1>1, <1>2, Zenon DEF WellPlaced
      <4> QED BY <4>4
    <3> QED BY <3>2, <3>3
  <2> QED BY <2>1, <2>2
<1>9. nb = ReplaceChain(bs, b, c)
  BY DEF Push, ReplaceChain, b, c
<1> HIDE DEF nb, n
<1>10. Replaced(bs, b, c, nb)
  BY <1>2, <1>8, <1>9, ReplaceChainEffect
<1>11. Table(nb) /\ Len(nb) = Len(bs) /\ nb[b] = c
  BY <1>10 DEF Replaced
<1>12. Holds(nb, k) /\ find(nb, k) = e
  <2>1. b \in 1 .. Len(nb) /\ 1 \in 1 .. Len(nb[b]) /\ nb[b][1] = n
    BY <1>2, <1>3, <1>5, <1>11
  <2> QED BY <2>1, <1>11, NodeDecides DEF n
<1>13. ASSUME NEW x \in Key \ {k}
       PROVE  (Holds(nb, x) <=> Holds(bs, x)) /\ find(nb, x) = find(bs, x)
  <2>1. ASSUME NEW i \in 1 .. Len(c), c[i].key = x
        PROVE  \E j \in 1 .. Len(bs[b]) : bs[b][j].key = x
    <3>1. i # 1
      BY <2>1, <1>5 DEF n
    <3>2. i - 1 \in 1 .. Len(bs[b]) /\ c[i] = bs[b][i - 1]
      BY <3>1, <1>3, <1>5, <1>7
    <3> QED BY <2>1, <3>2
  <2>2. ASSUME NEW i \in 1 .. Len(bs[b])
        PROVE  \E j \in 1 .. Len(c) : c[j] = bs[b][i]
    <3>1. i + 1 \in 1 .. Len(c) /\ c[i + 1] = bs[b][i]
      BY <1>3, <1>5
    <3> QED BY <3>1
  <2> QED BY <2>1, <2>2, <1>2, <1>10, KeyKept
<1> QED BY <1>11, <1>12, <1>13 DEF nb

\* What Overwrite, the new entry in the old node, does to every key.
LEMMA OverwriteEffect ==
  ASSUME NEW bs, Table(bs), NEW k \in Key, NEW e \in Entry, Holds(bs, k)
  PROVE  LET nb == Overwrite(bs, k, e)
         IN  /\ Table(nb)
             /\ Len(nb) = Len(bs)
             /\ Holds(nb, k) /\ find(nb, k) = e
             /\ \A x \in Key \ {k} : /\ Holds(nb, x) <=> Holds(bs, x)
                                     /\ find(nb, x) = find(bs, x)
<1> DEFINE b == Slot(bs, k)
           f == FirstAt(bs[b], k)
           n == [key |-> k, entry |-> e]
           c == [bs[b] EXCEPT ![f] = n]
           nb == Overwrite(bs, k, e)
<1>1. bs \in Seq(Seq(Node)) /\ Len(bs) > 0 /\ WellPlaced(bs)
  BY DEF Table
<1>2. b \in 1 .. Len(bs)
  BY <1>1, SlotInRange
<1>3. bs[b] \in Seq(Node) /\ Len(bs[b]) \in Nat
  BY <1>1, <1>2, ChainType
<1>4. f \in 1 .. Len(bs[b]) /\ bs[b][f].key = k
  BY HeldNode
<1>5. n \in Node
  BY DEF Node
<1> HIDE DEF b, f
<1>6. /\ c \in Seq(Node)
      /\ Len(c) = Len(bs[b])
      /\ c[f] = n
      /\ \A i \in 1 .. Len(c) : i # f => c[i] = bs[b][i]
  BY <1>3, <1>4, <1>5
<1>7. nb = ReplaceChain(bs, b, c)
  BY DEF Overwrite, ReplaceChain, b, f
<1> HIDE DEF c
<1>8. \A i \in 1 .. Len(c) : c[i].key = bs[b][i].key
  BY <1>4, <1>6
<1>9. Fits(bs, b, c)
  BY <1>1, <1>2, <1>6, <1>8 DEF Fits, WellPlaced
<1> HIDE DEF nb
<1>10. Replaced(bs, b, c, nb)
  BY <1>2, <1>7, <1>9, ReplaceChainEffect
<1>11. Table(nb) /\ Len(nb) = Len(bs) /\ nb[b] = c
  BY <1>10 DEF Replaced
<1>12. Holds(nb, k) /\ find(nb, k) = e
  <2>1. b \in 1 .. Len(nb) /\ f \in 1 .. Len(nb[b]) /\ nb[b][f] = n
    BY <1>2, <1>4, <1>6, <1>11
  <2> QED BY <2>1, <1>11, NodeDecides
<1>13. ASSUME NEW x \in Key \ {k}
       PROVE  (Holds(nb, x) <=> Holds(bs, x)) /\ find(nb, x) = find(bs, x)
  <2>1. \A i \in 1 .. Len(c) : c[i].key = x =>
          \E j \in 1 .. Len(bs[b]) : bs[b][j].key = x
    BY <1>6, <1>8
  <2>2. \A i \in 1 .. Len(bs[b]) : bs[b][i].key = x =>
          \E j \in 1 .. Len(c) : c[j] = bs[b][i]
    BY <1>4, <1>6
  <2> QED BY <2>1, <2>2, <1>2, <1>10, KeyKept
<1> QED BY <1>11, <1>12, <1>13 DEF nb

\* c is chain d without its node f.
Without(d, f, c) ==
  /\ c \in Seq(Node)
  /\ Len(c) = Len(d) - 1
  /\ \A i \in 1 .. Len(c) : c[i] = IF i < f THEN d[i] ELSE d[i + 1]

\* Taking node f out of bucket b makes its key disappear and no other.
LEMMA DropEffect ==
  ASSUME NEW bs, Table(bs), NEW b \in 1 .. Len(bs), NEW f \in 1 .. Len(bs[b]),
         NEW c, Without(bs[b], f, c)
  PROVE  LET nb == ReplaceChain(bs, b, c)
             k  == bs[b][f].key
         IN  /\ Table(nb)
             /\ Len(nb) = Len(bs)
             /\ ~Holds(nb, k)
             /\ \A x \in Key \ {k} : /\ Holds(nb, x) <=> Holds(bs, x)
                                     /\ find(nb, x) = find(bs, x)
<1> DEFINE nb == ReplaceChain(bs, b, c)
           k  == bs[b][f].key
           from(i) == IF i < f THEN i ELSE i + 1
<1>1. bs \in Seq(Seq(Node)) /\ Len(bs) > 0 /\ WellPlaced(bs)
  BY DEF Table
<1>2. Len(bs[b]) \in Nat /\ Slot(bs, k) = b /\ k \in Key
  BY <1>1, ChainType, NodeDecides, Zenon
<1>3. c \in Seq(Node) /\ Len(c) = Len(bs[b]) - 1
  BY DEF Without
<1>4. \A i \in 1 .. Len(c) : /\ from(i) \in 1 .. Len(bs[b])
                             /\ from(i) # f
                             /\ c[i] = bs[b][from(i)]
  BY <1>2, <1>3 DEF Without
<1>5. \A i, j \in 1 .. Len(c) : from(i) = from(j) => i = j
  BY <1>2, <1>3
<1>6. \A m \in 1 .. Len(bs[b]) : m # f => \E i \in 1 .. Len(c) : from(i) = m
  <2> TAKE m \in 1 .. Len(bs[b])
  <2> HAVE m # f
  <2>1. CASE m < f
    <3>1. m \in 1 .. Len(c) /\ from(m) = m
      BY <2>1, <1>2, <1>3
    <3> QED BY <3>1
  <2>2. CASE m > f
    <3>1. m - 1 \in 1 .. Len(c) /\ from(m - 1) = m
      BY <2>2, <1>2, <1>3
    <3> QED BY <3>1
  <2> QED BY <2>1, <2>2, <1>2
<1>7. \A i, j \in 1 .. Len(bs[b]) : bs[b][i].key = bs[b][j].key => i = j
  BY <1>1 DEF WellPlaced
<1>8. \A i \in 1 .. Len(bs[b]) : Slot(bs, bs[b][i].key) = b
  BY <1>1 DEF WellPlaced
<1> HIDE DEF from, nb, k
<1>9. Fits(bs, b, c)
  <2>1. ASSUME NEW i \in 1 .. Len(c) PROVE Slot(bs, c[i].key) = b
    BY <1>4, <1>8, Zenon
  <2>2. ASSUME NEW i \in 1 .. Len(c), NEW j \in 1 .. Len(c), c[j].key = c[i].key
        PROVE  j = i
    <3>1. from(j) = from(i)
      BY <2>2, <1>4, <1>7, SMTT(30)
    <3> QED BY <3>1, <1>5, Zenon
  <2> QED BY <1>3, <2>1, <2>2, Zenon DEF Fits
<1>10. Replaced(bs, b, c, nb)
  BY <1>9, ReplaceChainEffect DEF nb
<1>11. Table(nb) /\ Len(nb) = Len(bs) /\ nb[b] = c /\ Slot(nb, k) = b
  BY <1>2, <1>10 DEF Replaced
<1>12. ~Holds(nb, k)
  <2>1. \A i \in 1 .. Len(c) : c[i].key # k
    BY <1>4, <1>7 DEF k
  <2> QED BY <2>1, <1>11 DEF Holds
<1>13. ASSUME NEW x \in Key \ {k}
       PROVE  (Holds(nb, x) <=> Holds(bs, x)) /\ find(nb, x) = find(bs, x)
  <2>1. \A i \in 1 .. Len(c) : c[i].key = x =>
          \E j \in 1 .. Len(bs[b]) : bs[b][j].key = x
    BY <1>4
  <2>2. \A m \in 1 .. Len(bs[b]) : bs[b][m].key = x =>
          \E i \in 1 .. Len(c) : c[i] = bs[b][m]
    BY <1>4, <1>6, Zenon DEF k
  <2> QED BY <2>1, <2>2, <1>10, KeyKept, SMTT(30)
<1> QED BY <1>11, <1>12, <1>13 DEF nb, k

\* The nodes of two chains put together.
LEMMA Joined ==
  ASSUME NEW S, NEW l \in Seq(S), NEW r \in Seq(S)
  PROVE  /\ l \o r \in Seq(S) /\ Len(l \o r) = Len(l) + Len(r)
         /\ \A i \in 1 .. Len(l) + Len(r) :
              (l \o r)[i] = IF i <= Len(l) THEN l[i] ELSE r[i - Len(l)]
OBVIOUS

\* The chain that erase leaves behind when it takes out node f.
LEMMA RemovedNode ==
  ASSUME NEW d \in Seq(Node), NEW f \in 1 .. Len(d)
  PROVE  Without(d, f, SubSeq(d, 1, f - 1) \o SubSeq(d, f + 1, Len(d)))
<1> DEFINE l == SubSeq(d, 1, f - 1)
           r == SubSeq(d, f + 1, Len(d))
<1>1. Len(d) \in Nat
  OBVIOUS
<1>2. l \in Seq(Node) /\ Len(l) = f - 1 /\ \A i \in 1 .. (f - 1) : l[i] = d[i]
  BY <1>1
<1>3. /\ r \in Seq(Node) /\ Len(r) = Len(d) - f
      /\ \A i \in 1 .. (Len(d) - f) : r[i] = d[f + i]
  BY <1>1
<1> HIDE DEF l, r
<1>4. /\ l \o r \in Seq(Node) /\ Len(l \o r) = Len(l) + Len(r)
      /\ \A i \in 1 .. Len(l) + Len(r) :
           (l \o r)[i] = IF i <= Len(l) THEN l[i] ELSE r[i - Len(l)]
  BY <1>2, <1>3, Joined, Zenon
<1>5. ASSUME NEW i \in 1 .. Len(l \o r)
      PROVE  (l \o r)[i] = IF i < f THEN d[i] ELSE d[i + 1]
  <2>1. (l \o r)[i] = IF i <= f - 1 THEN l[i] ELSE r[i - (f - 1)]
    BY <1>2, <1>3, <1>4
  <2>2. CASE i < f
    BY <2>1, <2>2, <1>1, <1>2
  <2>3. CASE ~(i < f)
    <3>1. i - (f - 1) \in 1 .. (Len(d) - f)
      BY <2>3, <1>1, <1>2, <1>3, <1>4
    <3>2. r[i - (f - 1)] = d[f + (i - (f - 1))] /\ f + (i - (f - 1)) = i + 1
      BY <3>1, <1>1, <1>3
    <3> QED BY <2>1, <2>3, <3>2, <1>1
  <2> QED BY <2>2, <2>3
<1>6. Len(l \o r) = Len(d) - 1
  BY <1>1, <1>2, <1>3, <1>4
<1>7. Without(d, f, l \o r)
  BY <1>4, <1>5, <1>6 DEF Without
<1> QED BY <1>7 DEF l, r

\* What Unlink, the first node with the key taken out, does to every key.
LEMMA UnlinkEffect ==
  ASSUME NEW bs, Table(bs), NEW k \in Key, Holds(bs, k)
  PROVE  LET nb == Unlink(bs, k)
         IN  /\ Table(nb)
             /\ Len(nb) = Len(bs)
             /\ ~Holds(nb, k)
             /\ \A x \in Key \ {k} : /\ Holds(nb, x) <=> Holds(bs, x)
                                     /\ find(nb, x) = find(bs, x)
<1> DEFINE b == Slot(bs, k)
           f == FirstAt(bs[b], k)
           c == SubSeq(bs[b], 1, f - 1) \o SubSeq(bs[b], f + 1, Len(bs[b]))
<1>1. bs \in Seq(Seq(Node)) /\ Len(bs) > 0
  BY DEF Table
<1>2. b \in 1 .. Len(bs)
  BY <1>1, SlotInRange
<1>3. bs[b] \in Seq(Node) /\ Len(bs[b]) \in Nat
  BY <1>1, <1>2, ChainType
<1>4. f \in 1 .. Len(bs[b]) /\ bs[b][f].key = k
  BY HeldNode
<1> HIDE DEF b, f
<1>5. Without(bs[b], f, c)
  BY <1>3, <1>4, RemovedNode
<1>6. Unlink(bs, k) = ReplaceChain(bs, b, c)
  BY DEF Unlink, ReplaceChain, b, f
<1> HIDE DEF c
<1>7. LET nb == ReplaceChain(bs, b, c)
      IN  /\ Table(nb)
          /\ Len(nb) = Len(bs)
          /\ ~Holds(nb, bs[b][f].key)
          /\ \A x \in Key \ {bs[b][f].key} : /\ Holds(nb, x) <=> Holds(bs, x)
                                             /\ find(nb, x) = find(bs, x)
  BY <1>2, <1>4, <1>5, DropEffect
<1> QED BY <1>4, <1>6, <1>7

\* What deleting the head of a chain, as rehash_if_needed does, does to every key.
LEMMA PopEffect ==
  ASSUME NEW bs, Table(bs), NEW b \in 1 .. Len(bs), bs[b] # << >>
  PROVE  LET nb == [bs EXCEPT ![b] = Tail(@)]
             k  == Head(bs[b]).key
         IN  /\ k \in Key
             /\ Head(bs[b]).entry \in Entry
             /\ Holds(bs, k)
             /\ find(bs, k) = Head(bs[b]).entry
             /\ Table(nb)
             /\ Len(nb) = Len(bs)
             /\ ~Holds(nb, k)
             /\ \A x \in Key \ {k} : /\ Holds(nb, x) <=> Holds(bs, x)
                                     /\ find(nb, x) = find(bs, x)
<1> DEFINE c == Tail(bs[b])
<1>1. bs \in Seq(Seq(Node))
  BY DEF Table
<1>2. bs[b] \in Seq(Node) /\ Len(bs[b]) \in Nat
  BY <1>1, ChainType
<1>3. 1 \in 1 .. Len(bs[b]) /\ Head(bs[b]) = bs[b][1]
  BY <1>2
<1>4. Without(bs[b], 1, c)
  <2>1. c \in Seq(Node) /\ Len(c) = Len(bs[b]) - 1
        /\ \A i \in 1 .. Len(c) : c[i] = bs[b][i + 1]
    BY <1>2
  <2> QED BY <2>1 DEF Without
<1>5. [bs EXCEPT ![b] = Tail(@)] = ReplaceChain(bs, b, c)
  BY DEF ReplaceChain
<1> HIDE DEF c
<1>6. LET nb == ReplaceChain(bs, b, c)
      IN  /\ Table(nb)
          /\ Len(nb) = Len(bs)
          /\ ~Holds(nb, bs[b][1].key)
          /\ \A x \in Key \ {bs[b][1].key} : /\ Holds(nb, x) <=> Holds(bs, x)
                                             /\ find(nb, x) = find(bs, x)
  BY <1>3, <1>4, DropEffect
<1>7. /\ bs[b][1].key \in Key
      /\ bs[b][1].entry \in Entry
      /\ Holds(bs, bs[b][1].key)
      /\ find(bs, bs[b][1].key) = bs[b][1].entry
  BY <1>1, <1>3, ChainType, NodeDecides
<1> QED BY <1>3, <1>5, <1>6, <1>7, Zenon

\* A vector of empty chains.
LEMMA EmptyEffect ==
  ASSUME NEW n \in Nat \ {0}
  PROVE  LET nb == EmptyTable(n)
         IN  /\ Table(nb)
             /\ Len(nb) = n
             /\ \A k \in Key : ~Holds(nb, k) /\ find(nb, k) = NoEntry
<1> DEFINE nb == EmptyTable(n)
<1>1. nb \in Seq(Seq(Node)) /\ Len(nb) = n /\ \A b \in 1 .. n : nb[b] = << >>
  BY DEF EmptyTable
<1> HIDE DEF nb
<1>2. Table(nb)
  BY <1>1, SMTT(30) DEF Table, WellPlaced
<1>3. ASSUME NEW k \in Key PROVE ~Holds(nb, k)
  <2>1. nb[Slot(nb, k)] = << >>
    BY <1>1, SlotInRange
  <2> QED BY <2>1 DEF Holds
<1> QED BY <1>1, <1>2, <1>3, NotHeld DEF nb

\* A vector whose chains are all used up holds nothing.
LEMMA UsedUp ==
  ASSUME NEW bs, Table(bs), \A i \in 1 .. Len(bs) : bs[i] = << >>
  PROVE  \A k \in Key : ~Holds(bs, k)
<1> TAKE k \in Key
<1>1. bs[Slot(bs, k)] = << >>
  BY SlotInRange DEF Table
<1> QED BY <1>1 DEF Holds

-----------------------------------------------------------------------------
(* The walk of KeyScanner::scan over the table.                            *)

\* In a vector twice as long a key's bucket is not an earlier one.
LEMMA GrowthMovesOn ==
  ASSUME NEW h \in Nat, NEW n \in Nat \ {0}
  PROVE  h % (2 * n) >= h % n
<1>1. ASSUME NEW q \in Nat, NEW r \in 0 .. (n - 1), h = n * q + r
      PROVE  h % n = r
  BY <1>1
<1> DEFINE d == h \div (2 * n)
           m == h % (2 * n)
<1>2. d \in Nat /\ m \in 0 .. (2 * n - 1) /\ h = (2 * n) * d + m
  <2>1. ASSUME NEW w \in Nat \ {0}
        PROVE  h \div w \in Nat /\ h % w \in 0 .. (w - 1) /\ h = w * (h \div w) + (h % w)
    OBVIOUS
  <2>2. 2 * n \in Nat \ {0}
    OBVIOUS
  <2> QED BY <2>1, <2>2, Zenon
<1> HIDE DEF d, m
<1>3. CASE m < n
  <2>1. 2 * d \in Nat /\ m \in 0 .. (n - 1) /\ h = n * (2 * d) + m
    BY <1>2, <1>3
  <2>2. h % n = m
    BY <2>1, <1>1, Zenon
  <2> QED BY <2>2, <1>2 DEF m
<1>4. CASE m >= n
  <2>1. 2 * d + 1 \in Nat /\ m - n \in 0 .. (n - 1) /\ h = n * (2 * d + 1) + (m - n)
    BY <1>2, <1>4
  <2>2. h % n = m - n
    BY <2>1, <1>1, Zenon
  <2> QED BY <2>2, <1>2 DEF m
<1> QED BY <1>2, <1>3, <1>4

\* The nodes of the table lie at the positions scan walks, each key at one.
LEMMA PositionFacts ==
  ASSUME Table(buckets_)
  PROVE  /\ \A b \in 1 .. Len(buckets_) : \A i \in 1 .. Len(buckets_[b]) :
              /\ <<b - 1, i - 1>> \in Positions
              /\ KeyAt(<<b - 1, i - 1>>) = buckets_[b][i].key
         /\ \A p \in Positions :
              /\ p \in Nat \X Nat
              /\ p[1] + 1 \in 1 .. Len(buckets_)
              /\ p[2] + 1 \in 1 .. Len(buckets_[p[1] + 1])
              /\ KeyAt(p) \in KeysOf(buckets_)
              /\ p[1] + 1 = Slot(buckets_, KeyAt(p))
         /\ \A p, q \in Positions : KeyAt(p) = KeyAt(q) => p = q
         /\ \A k \in KeysOf(buckets_) : \E p \in Positions : KeyAt(p) = k
<1>1. ASSUME NEW b \in 1 .. Len(buckets_), NEW i \in 1 .. Len(buckets_[b])
      PROVE  /\ <<b - 1, i - 1>> \in Positions
             /\ KeyAt(<<b - 1, i - 1>>) = buckets_[b][i].key
  <2>0. b \in Int /\ i \in Int
    OBVIOUS
  <2>1. (b - 1) + 1 = b /\ (i - 1) + 1 = i
    BY <2>0
  <2>2. KeyAt(<<b - 1, i - 1>>) = buckets_[b][i].key
    BY <2>1 DEF KeyAt
  <2> QED BY <2>2 DEF Positions
<1>2. ASSUME NEW p \in Positions
      PROVE  /\ p \in Nat \X Nat
             /\ p[1] + 1 \in 1 .. Len(buckets_)
             /\ p[2] + 1 \in 1 .. Len(buckets_[p[1] + 1])
             /\ KeyAt(p) \in KeysOf(buckets_)
             /\ p[1] + 1 = Slot(buckets_, KeyAt(p))
             /\ KeyAt(p) = buckets_[p[1] + 1][p[2] + 1].key
  <2>0. PICK b \in 1 .. Len(buckets_) :
          p \in {<<b - 1, i - 1>> : i \in 1 .. Len(buckets_[b])}
    BY DEF Positions
  <2>1. PICK i \in 1 .. Len(buckets_[b]) : p = <<b - 1, i - 1>>
    BY <2>0
  <2>2. Len(buckets_) \in Nat /\ Len(buckets_[b]) \in Nat
    BY ChainType DEF Table
  <2>3. p \in Nat \X Nat /\ p[1] + 1 = b /\ p[2] + 1 = i
    BY <2>1, <2>2
  <2>4. KeyAt(p) = buckets_[b][i].key
    BY <2>3 DEF KeyAt
  <2>5. KeyAt(p) \in Key /\ Slot(buckets_, KeyAt(p)) = b /\ Holds(buckets_, KeyAt(p))
    BY <2>4, NodeDecides
  <2> QED BY <2>3, <2>4, <2>5 DEF KeysOf
<1>3. ASSUME NEW p \in Positions, NEW q \in Positions, KeyAt(p) = KeyAt(q)
      PROVE  p = q
  <2>1. p[1] + 1 = q[1] + 1
    BY <1>2, <1>3
  <2> DEFINE b == p[1] + 1
  <2>a. /\ b \in 1 .. Len(buckets_)
        /\ p[2] + 1 \in 1 .. Len(buckets_[b]) /\ buckets_[b][p[2] + 1].key = KeyAt(p)
        /\ q[2] + 1 \in 1 .. Len(buckets_[b]) /\ buckets_[b][q[2] + 1].key = KeyAt(p)
    BY <1>2, <1>3, <2>1
  <2> HIDE DEF b
  <2>2. p[2] + 1 = q[2] + 1
    BY <2>a DEF Table, WellPlaced
  <2>3. /\ p[1] \in Nat /\ p[2] \in Nat /\ p = <<p[1], p[2]>>
        /\ q[1] \in Nat /\ q[2] \in Nat /\ q = <<q[1], q[2]>>
    BY <1>2
  <2> QED BY <2>1, <2>2, <2>3
<1>4. ASSUME NEW k \in KeysOf(buckets_)
      PROVE  \E p \in Positions : KeyAt(p) = k
  <2>1. k \in Key /\ Holds(buckets_, k)
    BY DEF KeysOf
  <2>2. PICK i \in 1 .. Len(buckets_[Slot(buckets_, k)]) :
          Slot(buckets_, k) \in 1 .. Len(buckets_) /\ buckets_[Slot(buckets_, k)][i].key = k
    BY <2>1, HeldNode
  <2> QED BY <2>2, <1>1, Zenon
<1> QED BY <1>1, <1>2, <1>3, <1>4

\* The walk of scan is a total order on positions.
LEMMA WalkIsTotal ==
  ASSUME NEW p \in Nat \X Nat, NEW q \in Nat \X Nat, NEW r \in Nat \X Nat
  PROVE  /\ AtOrAfter(p, q) \/ AtOrAfter(q, p)
         /\ AtOrAfter(p, p)
         /\ AtOrAfter(p, q) /\ AtOrAfter(q, p) => p = q
         /\ AtOrAfter(p, q) /\ AtOrAfter(q, r) => AtOrAfter(p, r)
<1>1. ASSUME NEW x \in Nat \X Nat
      PROVE  x[1] \in Nat /\ x[2] \in Nat /\ x = <<x[1], x[2]>>
  OBVIOUS
<1> QED BY <1>1 DEF AtOrAfter

\* The walk of scan from cursor c meets a node of key k.
Reach(bs, c, k) ==
  \E b \in 1 .. Len(bs) : \E i \in 1 .. Len(bs[b]) :
    bs[b][i].key = k /\ AtOrAfter(<<b - 1, i - 1>>, c)

\* The chains of a vector after one of them was replaced.
LEMMA ChainsAfter ==
  ASSUME NEW bs \in Seq(Seq(Node)), NEW b \in 1 .. Len(bs), NEW c \in Seq(Node)
  PROVE  LET nb == [bs EXCEPT ![b] = c]
         IN  /\ Len(nb) = Len(bs)
             /\ nb[b] = c
             /\ \A d \in 1 .. Len(bs) : d # b => nb[d] = bs[d]
OBVIOUS

\* A new node at the head of its chain takes no other node out of the walk's way.
LEMMA PushReach ==
  ASSUME NEW bs, Table(bs), NEW k \in Key, NEW e \in Entry, NEW c \in Nat \X Nat,
         NEW x, Reach(bs, c, x)
  PROVE  Reach(Push(bs, k, e), c, x)
<1> DEFINE s == Slot(bs, k)
           n == [key |-> k, entry |-> e]
           d == <<n>> \o bs[s]
           nb == Push(bs, k, e)
<1>1. bs \in Seq(Seq(Node)) /\ s \in 1 .. Len(bs)
  BY SlotInRange DEF Table
<1>2. bs[s] \in Seq(Node) /\ Len(bs[s]) \in Nat /\ n \in Node
  BY <1>1, ChainType DEF Node
<1>3. /\ d \in Seq(Node) /\ Len(d) = Len(bs[s]) + 1
      /\ \A i \in 1 .. Len(bs[s]) : d[i + 1] = bs[s][i]
  BY <1>2
<1>4. nb = [bs EXCEPT ![s] = d]
  BY DEF Push
<1> HIDE DEF s, d, nb, n
<1>5. /\ Len(nb) = Len(bs) /\ nb[s] = d
      /\ \A b \in 1 .. Len(bs) : b # s => nb[b] = bs[b]
  BY <1>1, <1>3, <1>4, ChainsAfter
<1>6. PICK b \in 1 .. Len(bs) : \E i \in 1 .. Len(bs[b]) :
        bs[b][i].key = x /\ AtOrAfter(<<b - 1, i - 1>>, c)
  BY Zenon DEF Reach
<1>7. PICK i \in 1 .. Len(bs[b]) : bs[b][i].key = x /\ AtOrAfter(<<b - 1, i - 1>>, c)
  BY <1>6, Zenon
<1>8. CASE b = s
  <2>1. i + 1 \in 1 .. Len(nb[b]) /\ nb[b][i + 1].key = x
    <3>1. i \in 1 .. Len(bs[s]) /\ bs[s][i].key = x /\ nb[b] = d
      BY <1>5, <1>7, <1>8
    <3>2. i + 1 \in 1 .. Len(d) /\ d[i + 1] = bs[s][i]
      BY <3>1, <1>2, <1>3
    <3> QED BY <3>1, <3>2
  <2>2. c[1] \in Nat /\ c[2] \in Nat /\ b \in Int /\ i \in Int
    OBVIOUS
  <2>3. AtOrAfter(<<b - 1, (i + 1) - 1>>, c)
    BY <2>2, <1>7 DEF AtOrAfter
  <2> QED BY <2>1, <2>3, <1>5, Zenon DEF Reach, nb
<1>9. CASE b # s
  BY <1>5, <1>7, <1>9, Zenon DEF Reach, nb
<1> QED BY <1>8, <1>9

\* A new entry in an old node does not change what the walk meets.
LEMMA OverwriteReach ==
  ASSUME NEW bs, Table(bs), NEW k \in Key, NEW e \in Entry, Holds(bs, k), NEW c, NEW x
  PROVE  Reach(Overwrite(bs, k, e), c, x) <=> Reach(bs, c, x)
<1> DEFINE s == Slot(bs, k)
           f == FirstAt(bs[s], k)
           n == [key |-> k, entry |-> e]
           d == [bs[s] EXCEPT ![f] = n]
           nb == Overwrite(bs, k, e)
<1>1. bs \in Seq(Seq(Node)) /\ s \in 1 .. Len(bs)
  BY SlotInRange DEF Table
<1>2. bs[s] \in Seq(Node) /\ n \in Node
  BY <1>1, ChainType DEF Node
<1>3. f \in 1 .. Len(bs[s]) /\ bs[s][f].key = k
  BY HeldNode
<1> HIDE DEF s, f
<1>4. /\ d \in Seq(Node) /\ Len(d) = Len(bs[s]) /\ d[f].key = k
      /\ \A i \in 1 .. Len(bs[s]) : i # f => d[i] = bs[s][i]
  BY <1>2, <1>3
<1>5. \A i \in 1 .. Len(bs[s]) : d[i].key = bs[s][i].key
  BY <1>3, <1>4
<1>6. nb = [bs EXCEPT ![s] = d]
  BY DEF Overwrite, s, f
<1> HIDE DEF d, nb
<1>7. /\ Len(nb) = Len(bs) /\ nb[s] = d
      /\ \A b \in 1 .. Len(bs) : b # s => nb[b] = bs[b]
  BY <1>1, <1>4, <1>6, ChainsAfter
<1>8. \A b \in 1 .. Len(bs) : /\ Len(nb[b]) = Len(bs[b])
                              /\ \A i \in 1 .. Len(bs[b]) : nb[b][i].key = bs[b][i].key
  BY <1>4, <1>5, <1>7
<1>9. Reach(nb, c, x) <=> Reach(bs, c, x)
  BY <1>7, <1>8, Zenon DEF Reach
<1> QED BY <1>9 DEF nb

\* A node taken out from behind the cursor, or from a chain in which the cursor
\* does not stand, leaves every other node in the walk's way.
LEMMA UnlinkReach ==
  ASSUME NEW bs, Table(bs), NEW k \in Key, Holds(bs, k), NEW c \in Nat \X Nat,
         ~(Slot(bs, k) = c[1] + 1 /\ FirstAt(bs[Slot(bs, k)], k) <= c[2]),
         NEW x, x # k, Reach(bs, c, x)
  PROVE  Reach(Unlink(bs, k), c, x)
<1> DEFINE s == Slot(bs, k)
           f == FirstAt(bs[s], k)
           d == SubSeq(bs[s], 1, f - 1) \o SubSeq(bs[s], f + 1, Len(bs[s]))
           nb == Unlink(bs, k)
<1>1. bs \in Seq(Seq(Node)) /\ s \in 1 .. Len(bs)
  BY SlotInRange DEF Table
<1>2. bs[s] \in Seq(Node) /\ Len(bs[s]) \in Nat
  BY <1>1, ChainType
<1>3. f \in 1 .. Len(bs[s]) /\ bs[s][f].key = k
  BY HeldNode, SMTT(30)
<1>a. ~(s = c[1] + 1 /\ f <= c[2])
  OBVIOUS
<1>b. nb = [bs EXCEPT ![s] = d]
  BY DEF Unlink
<1> HIDE DEF s, f
<1>4. Without(bs[s], f, d)
  BY <1>2, <1>3, RemovedNode, Zenon DEF s
<1> HIDE DEF d, nb
<1>5. /\ d \in Seq(Node) /\ Len(d) = Len(bs[s]) - 1
      /\ \A i \in 1 .. Len(d) : d[i] = IF i < f THEN bs[s][i] ELSE bs[s][i + 1]
  BY <1>4 DEF Without
<1>6. /\ Len(nb) = Len(bs) /\ nb[s] = d
      /\ \A b \in 1 .. Len(bs) : b # s => nb[b] = bs[b]
  BY <1>1, <1>5, <1>b, ChainsAfter
<1>7. PICK b \in 1 .. Len(bs) : \E i \in 1 .. Len(bs[b]) :
        bs[b][i].key = x /\ AtOrAfter(<<b - 1, i - 1>>, c)
  BY Zenon DEF Reach
<1>8. PICK i \in 1 .. Len(bs[b]) : bs[b][i].key = x /\ AtOrAfter(<<b - 1, i - 1>>, c)
  BY <1>7, Zenon
<1>9. c[1] \in Nat /\ c[2] \in Nat /\ b \in Int /\ i \in Int /\ f \in Int
  BY <1>3
<1>10. CASE b = s /\ i < f
  <2>1. i \in 1 .. Len(nb[b]) /\ nb[b][i].key = x
    <3>1. i \in 1 .. Len(bs[s]) /\ bs[s][i].key = x /\ nb[b] = d
      BY <1>6, <1>8, <1>10
    <3>2. i \in 1 .. Len(d) /\ d[i] = bs[s][i]
      BY <3>1, <1>2, <1>3, <1>5, <1>9, <1>10
    <3> QED BY <3>1, <3>2
  <2> QED BY <2>1, <1>6, <1>8, Zenon DEF Reach, nb
<1>11. CASE b = s /\ i >= f
  <2>1. i # f
    BY <1>3, <1>8, <1>11
  <2>2. i - 1 \in 1 .. Len(nb[b]) /\ nb[b][i - 1].key = x
    <3>1. i \in 1 .. Len(bs[s]) /\ bs[s][i].key = x /\ nb[b] = d
      BY <1>6, <1>8, <1>11
    <3>2. i - 1 \in 1 .. Len(d) /\ ~(i - 1 < f) /\ (i - 1) + 1 = i
      BY <3>1, <2>1, <1>2, <1>3, <1>5, <1>9, <1>11
    <3>3. d[i - 1] = bs[s][i]
      BY <3>2, <1>5, Zenon
    <3> QED BY <3>1, <3>2, <3>3
  <2>3. AtOrAfter(<<b - 1, (i - 1) - 1>>, c)
    BY <2>1, <1>8, <1>9, <1>11, <1>a DEF AtOrAfter
  <2> QED BY <2>2, <2>3, <1>6, Zenon DEF Reach, nb
<1>12. CASE b # s
  BY <1>6, <1>8, <1>12, Zenon DEF Reach, nb
<1> QED BY <1>9, <1>10, <1>11, <1>12

\* A key that the walk meets lies in the cursor's bucket or a later one; all the
\* keys of these buckets are met when the cursor stands at the head of its chain.
LEMMA ReachBySlot ==
  ASSUME NEW bs, Table(bs), NEW c \in Nat \X Nat, NEW k \in Key
  PROVE  /\ Reach(bs, c, k) => Slot(bs, k) > c[1]
         /\ Holds(bs, k) /\ c[2] = 0 /\ Slot(bs, k) > c[1] => Reach(bs, c, k)
<1>1. c[1] \in Nat /\ c[2] \in Nat /\ Slot(bs, k) \in 1 .. Len(bs)
  BY SlotInRange DEF Table
<1>2. ASSUME Reach(bs, c, k) PROVE Slot(bs, k) > c[1]
  <2>1. PICK b \in 1 .. Len(bs) : \E i \in 1 .. Len(bs[b]) :
          bs[b][i].key = k /\ AtOrAfter(<<b - 1, i - 1>>, c)
    BY <1>2, Zenon DEF Reach
  <2>2. PICK i \in 1 .. Len(bs[b]) : bs[b][i].key = k /\ AtOrAfter(<<b - 1, i - 1>>, c)
    BY <2>1, Zenon
  <2>3. Slot(bs, k) = b
    BY <2>2, NodeDecides
  <2>4. b \in Int /\ b - 1 >= c[1]
    BY <2>2, <1>1 DEF AtOrAfter
  <2> QED BY <2>3, <2>4, <1>1
<1>3. ASSUME Holds(bs, k), c[2] = 0, Slot(bs, k) > c[1] PROVE Reach(bs, c, k)
  <2> DEFINE s == Slot(bs, k)
  <2>1. PICK i \in 1 .. Len(bs[s]) : bs[s][i].key = k
    BY <1>3, HeldNode
  <2>2. s \in 1 .. Len(bs) /\ s > c[1]
    BY <1>1, <1>3
  <2> HIDE DEF s
  <2>3. AtOrAfter(<<s - 1, i - 1>>, c)
    BY <2>2, <1>1, <1>3 DEF AtOrAfter
  <2> QED BY <2>1, <2>2, <2>3, Zenon DEF Reach
<1> QED BY <1>2, <1>3

\* The walk over positions and the walk over chains are the same.
LEMMA ReachPosition ==
  ASSUME Table(buckets_), NEW c, NEW k
  PROVE  Reach(buckets_, c, k) <=> \E p \in Positions : KeyAt(p) = k /\ AtOrAfter(p, c)
<1>1. ASSUME Reach(buckets_, c, k)
      PROVE  \E p \in Positions : KeyAt(p) = k /\ AtOrAfter(p, c)
  <2>1. PICK b \in 1 .. Len(buckets_) : \E i \in 1 .. Len(buckets_[b]) :
          buckets_[b][i].key = k /\ AtOrAfter(<<b - 1, i - 1>>, c)
    BY <1>1, Zenon DEF Reach
  <2>2. PICK i \in 1 .. Len(buckets_[b]) :
          buckets_[b][i].key = k /\ AtOrAfter(<<b - 1, i - 1>>, c)
    BY <2>1, Zenon
  <2>3. <<b - 1, i - 1>> \in Positions /\ KeyAt(<<b - 1, i - 1>>) = k
    BY <2>2, PositionFacts
  <2> QED BY <2>2, <2>3
<1>2. ASSUME NEW p \in Positions, KeyAt(p) = k, AtOrAfter(p, c)
      PROVE  Reach(buckets_, c, k)
  <2> DEFINE b == p[1] + 1
             i == p[2] + 1
  <2>1. p \in Nat \X Nat /\ b \in 1 .. Len(buckets_) /\ i \in 1 .. Len(buckets_[b])
    BY PositionFacts
  <2>2. p = <<b - 1, i - 1>> /\ buckets_[b][i].key = k
    BY <2>1, <1>2, SMTT(30) DEF KeyAt
  <2> HIDE DEF b, i
  <2> QED BY <2>1, <2>2, <1>2, Zenon DEF Reach
<1> QED BY <1>1, <1>2

\* A page of scan: it holds the matching keys between the two cursors, and no
\* other; the new cursor is not before the old one; and a page that says it is
\* the last leaves nothing behind its cursor.
PageIsRight(cursor, count) ==
  LET page == scan(cursor, count)
  IN  /\ page.next \in Nat \X Nat
      /\ page.finished \in BOOLEAN
      /\ page.finished => \A p \in Positions : ~AtOrAfter(p, page.next)
      /\ ~page.finished => page.next # <<0, 0>>
      /\ \A p \in Positions : AtOrAfter(p, page.next) => AtOrAfter(p, cursor)
      /\ \A p \in Ahead(cursor) : KeyAt(p) \in page.keys <=> ~AtOrAfter(p, page.next)
      /\ \A k \in page.keys : \E p \in Ahead(cursor) : k = KeyAt(p)

\* Every page of the table is right, wherever it begins.
PagesAreRight == \A c \in Nat \X Nat, n \in Nat \ {0} : PageIsRight(c, n)

-----------------------------------------------------------------------------
(* The invariant of the table.                                             *)

\* While nodes are being moved, the keys moved and the keys still to move fit
\* the new vector together: the reason why the inserts of rehash_if_needed do
\* not rehash again.
RehashRoom ==
  IF old = << >>
  THEN ~LoadExceeded(size_, Len(buckets_))
  ELSE /\ IsFiniteSet(KeysOf(old))
       /\ ~LoadExceeded(size_ + Cardinality(KeysOf(old)), Len(buckets_))

IInv == TypeOK /\ OnePlace /\ SizeCountsKeys /\ RehashRoom

\* What the invariant says of the vectors: both are tables, and buckets_ is
\* not empty.
LEMMA IInvTables ==
  ASSUME IInv
  PROVE  /\ Table(buckets_)
         /\ old # << >> => Table(old)
         /\ Len(buckets_) \in Nat \ {0}
<1>1. Table(buckets_) /\ Len(buckets_) \in Nat \ {0}
  BY DEF IInv, TypeOK, OnePlace, Table
<1>2. ASSUME old # << >> PROVE Table(old)
  BY <1>2 DEF IInv, TypeOK, OnePlace, Table
<1> QED BY <1>1, <1>2

\* What a step does to the map the table stands for.
Effect ==
  /\ \A k \in Key, e \in Entry :
       InsertExisting(k, e) \/ InsertNew(k, e) => KV!Put(k, e)
  /\ \A k \in Key : Erase(k) => KV!Delete(k)
  /\ Clear => KV!Clear
  /\ Rehash => UNCHANGED [k \in Key |-> Lookup(k)]

-----------------------------------------------------------------------------
(* The loop of SCAN calls, given what the table's steps do to the map.     *)

Cursor == decode_scan_cursor(token)

\* The walk of the loop has still to come to key k.  While nodes are being moved
\* the position of k is not fixed, but its bucket in the new vector is.
Coming(k) == IF old = << >> THEN Reach(buckets_, Cursor, k)
             ELSE Cursor[2] = 0 /\ Slot(buckets_, k) > Cursor[1]

ScanTypeOK ==
  /\ token \in {<<0>>} \cup (Nat \X Nat)
  /\ pattern \in Patterns \/ stable = {}
  /\ seen \in [Key -> 0 .. 2]
  /\ stable \in SUBSET Key

\* The stable keys are stored.
Stored == \A k \in stable : Lookup(k) # NoEntry

\* No stable key is lost: it was returned or is still to come.
Covered ==
  ~excused => \A k \in stable : k \in Matching[pattern] =>
                seen[k] > 0 \/ (scanning /\ Coming(k))

\* On a quiet table the keys returned are those the walk has left behind.
Exact ==
  quiet /\ ~excused =>
    /\ old = << >>
    /\ stable = KeysOf(buckets_)
    /\ \A k \in Key :
         seen[k] = IF k \in stable /\ k \in Matching[pattern] /\ ~(scanning /\ Coming(k))
                   THEN 1 ELSE 0

ScanInv == ScanTypeOK /\ Stored /\ Covered /\ Exact

\* A token stands for a cursor, and the token of a cursor stands for it again.
LEMMA TokenFacts ==
  /\ \A t \in {<<0>>} \cup (Nat \X Nat) : decode_scan_cursor(t) \in Nat \X Nat
  /\ decode_scan_cursor(<<0>>) = <<0, 0>>
  /\ \A c \in Nat \X Nat : /\ encode_scan_cursor(c) \in {<<0>>} \cup (Nat \X Nat)
                           /\ decode_scan_cursor(encode_scan_cursor(c)) = c
                           /\ c # <<0, 0>> => encode_scan_cursor(c) # <<0>>
<1>1. Len(<<0>>) = 1 /\ <<0>>[1] = 0
  OBVIOUS
<1>2. ASSUME NEW c \in Nat \X Nat
      PROVE  c = <<c[1], c[2]>> /\ Len(c) = 2 /\ c # <<0>>
  <2>1. PICK a \in Nat, b \in Nat : c = <<a, b>>
    OBVIOUS
  <2> QED BY <2>1
<1>3. decode_scan_cursor(<<0>>) = <<0, 0>>
  BY <1>1 DEF decode_scan_cursor
<1>4. ASSUME NEW c \in Nat \X Nat PROVE decode_scan_cursor(c) = c
  BY <1>2 DEF decode_scan_cursor
<1> QED BY <1>2, <1>3, <1>4 DEF encode_scan_cursor

\* A loop that begins has every key of the table before it.
LEMMA StartScanStep ==
  ASSUME IInv, ScanInv, StartScan
  PROVE  ScanInv'
<1>1. /\ old = << >> /\ old' = << >> /\ buckets_' = buckets_ /\ size_' = size_
      /\ scanning' = TRUE /\ token' = <<0>> /\ pattern' \in Patterns
      /\ seen' = [k \in Key |-> 0] /\ stable' = KeysOf(buckets_)
      /\ quiet' = TRUE /\ excused' = FALSE
  BY DEF StartScan, vars
<1>2. Table(buckets_)
  BY IInvTables
<1>3. ScanTypeOK'
  <2>1. seen' \in [Key -> 0 .. 2] /\ stable' \in SUBSET Key
    BY <1>1 DEF KeysOf
  <2> QED BY <2>1, <1>1 DEF ScanTypeOK
<1>4. Stored'
  <2> SUFFICES ASSUME NEW k \in KeysOf(buckets_) PROVE Lookup(k)' # NoEntry
    BY <1>1 DEF Stored
  <2>1. k \in Key /\ Holds(buckets_, k)
    BY DEF KeysOf
  <2>2. find(buckets_, k) \in Entry
    BY <2>1, <1>2, HeldNode
  <2>3. Lookup(k)' = find(buckets_, k)
    BY <1>1 DEF Lookup
  <2> QED BY <2>2, <2>3, NoEntryAssumption
<1>5. ASSUME NEW k \in KeysOf(buckets_) PROVE Coming(k)'
  <2>1. Cursor' = <<0, 0>>
    BY <1>1, TokenFacts DEF Cursor
  <2>2. k \in Key /\ Holds(buckets_, k) /\ Slot(buckets_, k) > 0
    BY <1>2, SlotInRange DEF KeysOf, Table
  <2>3. Reach(buckets_, <<0, 0>>, k)
    BY <2>2, <1>2, ReachBySlot
  <2> QED BY <2>1, <2>3, <1>1, Zenon DEF Coming, Reach
<1>6. Covered'
  BY <1>1, <1>5 DEF Covered
<1>7. Exact'
  <2>1. KeysOf(buckets_)' = KeysOf(buckets_)
    BY <1>1 DEF KeysOf, Holds, Slot
  <2> QED BY <2>1, <1>1, <1>5 DEF Exact
<1> QED BY <1>3, <1>4, <1>6, <1>7 DEF ScanInv

\* A call of SCAN returns what lies between the two cursors and goes on behind.
LEMMA handle_scanStep ==
  ASSUME IInv, ScanInv, PagesAreRight, NEW count \in Counts, handle_scan(count)
  PROVE  ScanInv'
<1> DEFINE page == scan(Cursor, count)
           next == page.next
<1>1. /\ old = << >> /\ old' = << >> /\ buckets_' = buckets_ /\ scanning
      /\ token' = IF page.finished THEN <<0>> ELSE encode_scan_cursor(next)
      /\ scanning' = (token' # <<0>>)
      /\ seen' = [k \in Key |-> IF k \in page.keys /\ seen[k] < 2 THEN seen[k] + 1 ELSE seen[k]]
      /\ excused' = (excused \/ count = 0)
      /\ pattern' = pattern /\ stable' = stable /\ quiet' = quiet
  BY DEF handle_scan, vars, Cursor
<1>2. Table(buckets_) /\ IsFiniteSet(KeysOf(buckets_))
  BY IInvTables DEF IInv, SizeCountsKeys
<1>3. ScanTypeOK /\ Stored /\ Covered /\ Exact /\ Cursor \in Nat \X Nat /\ count \in Nat
  BY TokenFacts, ScanAssumption DEF ScanInv, ScanTypeOK, Cursor
<1>4. Stored'
  <2> SUFFICES ASSUME NEW k \in stable PROVE Lookup(k)' # NoEntry
    BY <1>1 DEF Stored
  <2>1. Lookup(k)' = Lookup(k)
    BY <1>1 DEF Lookup
  <2> QED BY <2>1, <1>3 DEF Stored
<1>5. seen' \in [Key -> 0 .. 2]
  <2>1. ASSUME NEW k \in Key
        PROVE  (IF k \in page.keys /\ seen[k] < 2 THEN seen[k] + 1 ELSE seen[k]) \in 0 .. 2
    <3>1. seen[k] \in 0 .. 2
      BY <1>3 DEF ScanTypeOK
    <3> HIDE DEF page
    <3> QED BY <3>1
  <2> HIDE DEF page
  <2> QED BY <2>1, <1>1
<1>6. CASE count = 0
  <2>1. page.finished
    BY <1>6, Zenon DEF scan
  <2>2. token' = <<0>>
    BY <2>1, <1>1
  <2>3. ScanTypeOK'
    BY <2>2, <1>1, <1>3, <1>5 DEF ScanTypeOK
  <2>4. excused'
    BY <1>1, <1>6, Zenon
  <2> QED BY <2>3, <2>4, <1>4 DEF ScanInv, Covered, Exact
<1>7. CASE count # 0
  <2>1. /\ next \in Nat \X Nat
        /\ page.finished \in BOOLEAN
        /\ page.finished => \A p \in Positions : ~AtOrAfter(p, next)
        /\ ~page.finished => next # <<0, 0>>
        /\ \A p \in Positions : AtOrAfter(p, next) => AtOrAfter(p, Cursor)
        /\ \A p \in Ahead(Cursor) : KeyAt(p) \in page.keys <=> ~AtOrAfter(p, next)
        /\ \A k \in page.keys : \E p \in Ahead(Cursor) : k = KeyAt(p)
    BY <1>3, <1>7, Zenon DEF PagesAreRight, PageIsRight, page, next
  <2> HIDE DEF page, next
  <2>2. ScanTypeOK'
    BY <2>1, <1>1, <1>3, <1>5, TokenFacts DEF ScanTypeOK
  <2>3. \A k \in Key :
          scanning' /\ Coming(k)' <=> \E p \in Positions : KeyAt(p) = k /\ AtOrAfter(p, next)
    <3>1. CASE page.finished
      <4>1. ~scanning'
        BY <3>1, <1>1, Zenon
      <4> QED BY <4>1, <3>1, <2>1
    <3>2. CASE ~page.finished
      <4>1. scanning' /\ Cursor' = next
        BY <3>2, <2>1, <1>1, TokenFacts, Zenon DEF Cursor
      <4>2. \A k : Coming(k)' <=> Reach(buckets_, next, k)
        BY <4>1, <1>1 DEF Coming, Reach
      <4> QED BY <4>1, <4>2, <1>2, ReachPosition
    <3> QED BY <3>1, <3>2
  <2>4. \A k \in Key :
          Coming(k) <=> \E p \in Positions : KeyAt(p) = k /\ AtOrAfter(p, Cursor)
    BY <1>1, <1>2, ReachPosition DEF Coming
  <2>5. ASSUME NEW k \in Key, k \in page.keys
        PROVE  /\ k \in Matching[pattern] /\ k \in KeysOf(buckets_)
               /\ Coming(k) /\ ~(scanning' /\ Coming(k)')
    <3>1. PICK p \in Ahead(Cursor) : k = KeyAt(p)
      BY <2>1, <2>5
    <3>2. p \in Positions /\ AtOrAfter(p, Cursor) /\ k \in Matching[pattern]
      BY <3>1 DEF Ahead
    <3>3. ~AtOrAfter(p, next)
      BY <3>1, <2>1, <2>5
    <3> QED BY <3>1, <3>2, <3>3, <2>3, <2>4, <1>2, PositionFacts
  <2>6. ASSUME NEW k \in Key, k \notin page.keys, k \in Matching[pattern]
        PROVE  scanning' /\ Coming(k)' <=> Coming(k)
    <3>1. ASSUME NEW p \in Positions, KeyAt(p) = k, AtOrAfter(p, Cursor)
          PROVE  AtOrAfter(p, next)
      BY <3>1, <2>1, <2>6 DEF Ahead
    <3> QED BY <3>1, <2>1, <2>3, <2>4
  <2>7. \A k \in Key : /\ seen[k] \in 0 .. 2
                       /\ k \in page.keys /\ seen[k] < 2 => seen'[k] = seen[k] + 1
                       /\ ~(k \in page.keys /\ seen[k] < 2) => seen'[k] = seen[k]
    BY <1>1, <1>3 DEF ScanTypeOK
  <2>8. excused' <=> excused
    BY <1>1, <1>7, Zenon
  <2>9. Covered'
    <3> SUFFICES ASSUME ~excused, NEW k \in stable, k \in Matching[pattern]
                 PROVE  seen'[k] > 0 \/ (scanning' /\ Coming(k)')
      BY <2>8, <1>1 DEF Covered
    <3>1. k \in Key /\ (seen[k] > 0 \/ Coming(k))
      BY <1>3 DEF Covered, ScanTypeOK
    <3>2. CASE k \in page.keys
      BY <3>1, <3>2, <2>7
    <3>3. CASE k \notin page.keys
      BY <3>1, <3>3, <2>6, <2>7
    <3> QED BY <3>2, <3>3
  <2>10. Exact'
    <3> SUFFICES ASSUME quiet, ~excused
                 PROVE  Exact'
      BY <2>8, <1>1 DEF Exact
    <3>1. /\ stable = KeysOf(buckets_)
          /\ \A k \in Key :
               seen[k] = IF k \in stable /\ k \in Matching[pattern] /\ ~Coming(k) THEN 1 ELSE 0
      BY <1>1, <1>3 DEF Exact
    <3>2. KeysOf(buckets_)' = KeysOf(buckets_)
      BY <1>1 DEF KeysOf, Holds, Slot
    <3>3. ASSUME NEW k \in Key
          PROVE  seen'[k] = IF k \in stable /\ k \in Matching[pattern]
                                 /\ ~(scanning' /\ Coming(k)') THEN 1 ELSE 0
      <4>1. CASE k \in page.keys
        BY <4>1, <3>1, <2>5, <2>7
      <4>2. CASE k \notin page.keys
        <5>1. seen'[k] = seen[k]
          BY <4>2, <2>7
        <5> QED BY <5>1, <4>2, <3>1, <2>6
      <4> QED BY <4>1, <4>2
    <3> QED BY <3>1, <3>2, <3>3, <1>1 DEF Exact
  <2> QED BY <2>2, <2>9, <2>10, <1>4 DEF ScanInv
<1> QED BY <1>6, <1>7

\* An insert, an erase or a move leaves what is stored under the other keys.
LEMMA StoredStep ==
  ASSUME Stored, stable' \in SUBSET Key, stable' \in SUBSET stable,
         \/ \E k \in Key, e \in Entry : KV!Put(k, e)
         \/ \E k \in Key : KV!Delete(k) /\ k \notin stable'
         \/ UNCHANGED [k \in Key |-> Lookup(k)]
  PROVE  Stored'
<1> DEFINE map == [k \in Key |-> Lookup(k)]
<1> SUFFICES ASSUME NEW x \in stable' PROVE Lookup(x)' # NoEntry
  BY DEF Stored
<1>1. x \in Key /\ Lookup(x) # NoEntry
  BY DEF Stored
<1>2. map[x] = Lookup(x) /\ map'[x] = Lookup(x)'
  BY <1>1
<1>3. ASSUME NEW k \in Key, NEW e \in Entry, KV!Put(k, e)
      PROVE  map'[x] # NoEntry
  BY <1>1, <1>2, <1>3, NoEntryAssumption, Zenon DEF KV!Put
<1>4. ASSUME NEW k \in Key, KV!Delete(k), k \notin stable'
      PROVE  map'[x] # NoEntry
  BY <1>1, <1>2, <1>4, Zenon DEF KV!Delete
<1>5. ASSUME UNCHANGED map
      PROVE  map'[x] # NoEntry
  BY <1>1, <1>2, <1>5
<1> QED BY <1>2, <1>3, <1>4, <1>5

\* An insert pushes nodes back and none forward in the walk; one that makes the
\* table grow sends every key to its bucket or a later one.
LEMMA OtherInsertStep ==
  ASSUME IInv, ScanInv, Effect, OtherInsert
  PROVE  ScanInv'
<1>1. PICK k \in Key, e \in Entry :
        \/ InsertExisting(k, e) /\ UNCHANGED client
        \/ /\ InsertNew(k, e)
           /\ quiet' = FALSE
           /\ excused' = (excused \/ (old' # << >> /\ Cursor[2] > 0))
           /\ UNCHANGED <<token, scanning, pattern, seen, stable>>
  BY Zenon DEF OtherInsert, Cursor
<1>2. UNCHANGED <<token, scanning, pattern, seen, stable>>
  BY <1>1 DEF client
<1>3. ScanTypeOK /\ Stored /\ Covered /\ Exact /\ Cursor \in Nat \X Nat /\ Cursor' = Cursor
  BY <1>2, TokenFacts DEF ScanInv, ScanTypeOK, Cursor
<1>4. ScanTypeOK'
  BY <1>2, <1>3 DEF ScanTypeOK
<1>5. Stored'
  <2>1. KV!Put(k, e)
    BY <1>1 DEF Effect
  <2>2. stable' \in SUBSET Key /\ stable' \in SUBSET stable
    BY <1>2, <1>3 DEF ScanTypeOK
  <2> QED BY <2>1, <2>2, <1>3, StoredStep
<1>6. Table(buckets_) /\ stable \in SUBSET Key
  BY <1>3, IInvTables DEF ScanTypeOK
<1>7. CASE InsertExisting(k, e) /\ UNCHANGED client
  <2>1. /\ old = << >> /\ old' = << >> /\ Holds(buckets_, k)
        /\ buckets_' = Overwrite(buckets_, k, e)
    BY <1>7 DEF InsertExisting
  <2>2. \A x : Coming(x)' <=> Coming(x)
    BY <2>1, <1>3, <1>6, OverwriteReach DEF Coming
  <2>3. KeysOf(buckets_)' = KeysOf(buckets_)
    BY <2>1, <1>6, OverwriteEffect DEF KeysOf
  <2>4. Covered'
    BY <2>2, <1>3, <1>7 DEF Covered, client
  <2>5. Exact'
    BY <2>1, <2>2, <2>3, <1>3, <1>7 DEF Exact, client
  <2> QED BY <2>4, <2>5, <1>4, <1>5 DEF ScanInv
<1>8. CASE /\ InsertNew(k, e) /\ quiet' = FALSE
           /\ excused' = (excused \/ (old' # << >> /\ Cursor[2] > 0))
  <2>1. Exact'
    BY <1>8 DEF Exact
  <2>2. old = << >> /\ ~Holds(buckets_, k)
    BY <1>8 DEF InsertNew
  <2>3. ASSUME ~excused', NEW x \in Key, Coming(x) PROVE Coming(x)'
    <3>0. Reach(buckets_, Cursor, x)
      BY <2>2, <2>3 DEF Coming
    <3>1. CASE buckets_' = Push(buckets_, k, e) /\ UNCHANGED old
      BY <3>0, <3>1, <2>2, <1>3, <1>6, PushReach DEF Coming
    <3>2. CASE old' = Push(buckets_, k, e) /\ buckets_' = EmptyTable(2 * Len(buckets_))
      <4> DEFINE n == Len(buckets_)
      <4>1. n \in Nat \ {0}
        BY IInvTables
      <4>2. Len(buckets_') = 2 * n
        BY <3>2, <4>1, EmptyEffect
      <4>3. Len(old') = n /\ old' # << >>
        BY <3>2, <4>1, <1>6, <2>2, PushEffect
      <4>4. Cursor[2] = 0
        <5>1. ~(Cursor[2] > 0)
          BY <4>3, <1>8, <2>3, Zenon
        <5>2. Cursor[2] \in Nat
          BY <1>3
        <5> QED BY <5>1, <5>2
      <4>5. Slot(buckets_, x) > Cursor[1]
        BY <3>0, <1>3, <1>6, ReachBySlot
      <4> HIDE DEF n
      <4>6. Hash[x] % (2 * n) >= Hash[x] % n /\ Hash[x] % (2 * n) \in Int /\ Hash[x] % n \in Int
        <5>1. Hash[x] \in Nat
          BY HashAssumption
        <5>2. 2 * n \in Nat \ {0}
          BY <4>1
        <5>3. ASSUME NEW h \in Nat, NEW w \in Nat \ {0} PROVE h % w \in Int
          OBVIOUS
        <5> QED BY <5>1, <5>2, <5>3, <4>1, GrowthMovesOn, Zenon
      <4>7. Slot(buckets_', x) > Cursor[1]
        BY <4>2, <4>5, <4>6, <1>3 DEF Slot, n
      <4> QED BY <4>3, <4>4, <4>7, <1>3 DEF Coming, Slot
    <3> QED BY <3>1, <3>2, <1>8 DEF InsertNew
  <2>4. Covered'
    BY <2>3, <1>2, <1>3, <1>6, <1>8, Zenon DEF Covered
  <2> QED BY <2>1, <2>4, <1>4, <1>5 DEF ScanInv
<1> QED BY <1>1, <1>7, <1>8, Zenon

\* An erase that is not in front of the cursor in its bucket leaves the others in
\* the walk's way.
LEMMA OtherEraseStep ==
  ASSUME IInv, ScanInv, Effect, OtherErase
  PROVE  ScanInv'
<1>1. PICK k \in Key :
        /\ Erase(k)
        /\ quiet' = FALSE
        /\ stable' = stable \ {k}
        /\ excused' = (\/ excused
                       \/ /\ Slot(buckets_, k) = Cursor[1] + 1
                          /\ FirstAt(buckets_[Slot(buckets_, k)], k) <= Cursor[2])
        /\ UNCHANGED <<token, scanning, pattern, seen>>
  BY DEF OtherErase, Cursor
<1>2. ScanTypeOK /\ Stored /\ Covered /\ Cursor \in Nat \X Nat /\ Cursor' = Cursor
  BY <1>1, TokenFacts DEF ScanInv, ScanTypeOK, Cursor
<1>3. ScanTypeOK'
  BY <1>1, <1>2 DEF ScanTypeOK
<1>4. Stored'
  <2>1. KV!Delete(k)
    BY <1>1 DEF Effect
  <2>2. stable' \in SUBSET Key /\ stable' \in SUBSET stable /\ k \notin stable'
    BY <1>1, <1>2 DEF ScanTypeOK
  <2> QED BY <2>1, <2>2, <1>2, StoredStep
<1>5. /\ old = << >> /\ old' = << >> /\ Holds(buckets_, k)
      /\ buckets_' = Unlink(buckets_, k) /\ Table(buckets_)
  BY <1>1, IInvTables DEF Erase
<1>6. Covered'
  <2> SUFFICES ASSUME ~excused', NEW x \in stable', x \in Matching[pattern]
               PROVE  seen[x] > 0 \/ (scanning /\ Coming(x)')
    BY <1>1 DEF Covered
  <2>1. ~excused /\ x \in stable /\ x # k
    BY <1>1
  <2>2. seen[x] > 0 \/ (scanning /\ Coming(x))
    BY <2>1, <1>2 DEF Covered
  <2>3. ASSUME Coming(x) PROVE Coming(x)'
    <3>1. Reach(buckets_, Cursor, x)
      BY <2>3, <1>5 DEF Coming
    <3>2. ~(Slot(buckets_, k) = Cursor[1] + 1
              /\ FirstAt(buckets_[Slot(buckets_, k)], k) <= Cursor[2])
      BY <1>1
    <3>3. Reach(Unlink(buckets_, k), Cursor, x)
      BY <3>1, <3>2, <2>1, <1>2, <1>5, UnlinkReach
    <3> QED BY <3>3, <1>2, <1>5, Zenon DEF Coming
  <2> QED BY <2>2, <2>3
<1>7. Exact'
  BY <1>1 DEF Exact
<1> QED BY <1>3, <1>4, <1>6, <1>7 DEF ScanInv

\* clear leaves no stable key.
LEMMA OtherClearStep ==
  ASSUME ScanInv, OtherClear
  PROVE  ScanInv'
<1>1. /\ quiet' = FALSE /\ stable' = {}
      /\ UNCHANGED <<token, scanning, pattern, seen, excused>>
  BY DEF OtherClear
<1>2. ScanTypeOK'
  BY <1>1 DEF ScanInv, ScanTypeOK
<1> QED BY <1>1, <1>2 DEF ScanInv, Stored, Covered, Exact

\* The moves of a rehash keep every key in its bucket of the new vector, and when
\* they are done the walk meets the keys of the buckets before it.
LEMMA OtherRehashStep ==
  ASSUME IInv, ScanInv, Effect, OtherRehash
  PROVE  ScanInv'
<1>1. Rehash /\ UNCHANGED <<token, scanning, pattern, seen, stable, quiet, excused>>
  BY DEF OtherRehash, client
<1>2. ScanTypeOK /\ Stored /\ Covered /\ Exact /\ Cursor \in Nat \X Nat /\ Cursor' = Cursor
  BY <1>1, TokenFacts DEF ScanInv, ScanTypeOK, Cursor
<1>3. ScanTypeOK'
  BY <1>1, <1>2 DEF ScanTypeOK
<1>4. Stored'
  <2>1. UNCHANGED [k \in Key |-> Lookup(k)]
    BY <1>1 DEF Effect
  <2>2. stable' \in SUBSET Key /\ stable' \in SUBSET stable
    BY <1>1, <1>2 DEF ScanTypeOK
  <2> QED BY <2>1, <2>2, <1>2, StoredStep
<1>5. old # << >>
  <2>1. ASSUME NEW i \in 1 .. Len(old) PROVE old # << >>
    BY <2>1
  <2> QED BY <2>1, <1>1 DEF Rehash, RehashMove, RehashDone
<1>6. Table(buckets_) /\ Table(old)
  BY <1>5, IInvTables
<1>7. ASSUME NEW x \in stable, Coming(x) PROVE Coming(x)'
  <2>1. Cursor[2] = 0 /\ Slot(buckets_, x) > Cursor[1] /\ x \in Key
    BY <1>2, <1>5, <1>7 DEF Coming, ScanTypeOK
  <2>2. CASE RehashMove
    <3>1. PICK i \in 1 .. Len(old) :
            /\ old[i] # << >>
            /\ buckets_' = Push(buckets_, Head(old[i]).key, Head(old[i]).entry)
            /\ old' = [old EXCEPT ![i] = Tail(@)]
      BY <2>2, Zenon DEF RehashMove
    <3>2. Len(old') = Len(old) /\ Len(old) > 0
      BY <3>1, <1>6 DEF Table
    <3>3. Len(buckets_') = Len(buckets_)
      BY <3>1, <1>6, SMTT(30) DEF Table, Push
    <3>4. old' # << >>
      BY <3>2
    <3> QED BY <3>3, <3>4, <2>1, <1>2 DEF Coming, Slot
  <2>3. CASE RehashDone
    <3>1. /\ \A i \in 1 .. Len(old) : old[i] = << >>
          /\ old' = << >> /\ buckets_' = buckets_
      BY <2>3 DEF RehashDone
    <3>2. ~Holds(old, x)
      BY <3>1, <2>1, <1>6, UsedUp
    <3>3. Holds(buckets_, x)
      BY <3>2, <1>2, NotHeld DEF Stored, Lookup
    <3>4. Reach(buckets_, Cursor, x)
      BY <3>3, <2>1, <1>2, <1>6, ReachBySlot
    <3> QED BY <3>1, <3>4, <1>2 DEF Coming
  <2> QED BY <2>2, <2>3, <1>1 DEF Rehash
<1>8. Covered'
  BY <1>1, <1>2, <1>7 DEF Covered
<1>9. Exact'
  BY <1>1, <1>2, <1>5 DEF Exact
<1> QED BY <1>3, <1>4, <1>8, <1>9 DEF ScanInv

\* What the loop keeps true, whatever the other clients do between its calls.
LEMMA ScanInvStep ==
  ASSUME IInv, ScanInv, Effect, PagesAreRight, [ScanNext]_scanVars
  PROVE  ScanInv'
<1>1. ASSUME UNCHANGED scanVars PROVE ScanInv'
  <2>1. /\ UNCHANGED <<buckets_, size_, old>>
        /\ UNCHANGED <<token, scanning, pattern, seen, stable, quiet, excused>>
    BY <1>1 DEF scanVars, vars, client
  <2>2. ScanTypeOK'
    BY <2>1 DEF ScanInv, ScanTypeOK
  <2>3. \A k : Coming(k)' <=> Coming(k)
    BY <2>1 DEF Coming, Reach, Cursor, Slot
  <2>4. Stored'
    <3> SUFFICES ASSUME NEW k \in stable PROVE Lookup(k)' # NoEntry
      BY <2>1 DEF Stored
    <3>1. Lookup(k)' = Lookup(k)
      BY <2>1 DEF Lookup
    <3> QED BY <3>1 DEF ScanInv, Stored
  <2>5. Covered'
    BY <2>1, <2>3 DEF ScanInv, Covered
  <2>6. KeysOf(buckets_)' = KeysOf(buckets_)
    BY <2>1 DEF KeysOf, Holds, Slot
  <2>7. Exact'
    BY <2>1, <2>3, <2>6 DEF ScanInv, Exact
  <2> QED BY <2>2, <2>4, <2>5, <2>7 DEF ScanInv
<1>2. ASSUME ScanStep PROVE ScanInv'
  BY <1>2, handle_scanStep DEF ScanStep
<1> QED BY <1>1, <1>2, StartScanStep, OtherInsertStep, OtherEraseStep, OtherClearStep,
           OtherRehashStep DEF ScanNext

\* The steps of the loop and of its environment are steps of the table.
LEMMA ScanTable ==
  ASSUME [ScanNext]_scanVars
  PROVE  [Next]_vars
<1>1. ASSUME StartScan \/ ScanStep \/ UNCHANGED scanVars PROVE UNCHANGED vars
  BY <1>1 DEF StartScan, ScanStep, handle_scan, scanVars
<1>2. ASSUME OtherInsert \/ OtherErase \/ OtherClear \/ OtherRehash PROVE Next
  BY <1>2, Zenon DEF OtherInsert, OtherErase, OtherClear, OtherRehash, Next, Call
<1> QED BY <1>1, <1>2 DEF ScanNext

-----------------------------------------------------------------------------
(* Facts about finite sets are used from here on.                          *)

INSTANCE FiniteSetTheorems

-----------------------------------------------------------------------------
(* The steps of the table.                                                 *)

\* The constructor makes an empty, well-formed table.
LEMMA InitIInv ==
  ASSUME Init
  PROVE  IInv
<1> DEFINE n == IF BucketCount < MinBuckets THEN MinBuckets ELSE BucketCount
<1>1. n \in Nat \ {0}
  BY BucketsAssumption
<1>2. buckets_ = EmptyTable(n) /\ size_ = 0 /\ old = << >>
  BY DEF Init
<1> HIDE DEF n
<1>3. Table(buckets_) /\ Len(buckets_) = n /\ KeysOf(buckets_) = {}
  BY <1>1, <1>2, EmptyEffect DEF KeysOf
<1>4. TypeOK
  BY <1>1, <1>2, <1>3 DEF TypeOK, Table
<1>5. OnePlace
  BY <1>2, <1>3 DEF OnePlace, Table
<1>6. SizeCountsKeys
  BY <1>2, <1>3, FS_EmptySet DEF SizeCountsKeys
<1>7. RehashRoom
  BY <1>1, <1>2, <1>3 DEF RehashRoom, LoadExceeded
<1> QED BY <1>4, <1>5, <1>6, <1>7 DEF IInv

\* A step after which no rehash runs, given the vector it leaves.
LEMMA IdleIInv ==
  ASSUME Table(buckets_'), old' = << >>,
         IsFiniteSet(KeysOf(buckets_)'), size_' = Cardinality(KeysOf(buckets_)'),
         ~LoadExceeded(size_', Len(buckets_'))
  PROVE  IInv'
<1>1. size_' \in Nat
  BY FS_CardinalityType
<1>2. << >> \in Seq(Seq(Node))
  OBVIOUS
<1> QED BY <1>1, <1>2
        DEF IInv, TypeOK, OnePlace, SizeCountsKeys, RehashRoom, Table, KeysOf

\* The same when a rehash is left running.
LEMMA BusyIInv ==
  ASSUME Table(buckets_'), Table(old'),
         \A k \in Key : ~(Holds(old', k) /\ Holds(buckets_', k)),
         IsFiniteSet(KeysOf(buckets_)'), size_' = Cardinality(KeysOf(buckets_)'),
         IsFiniteSet(KeysOf(old)'),
         ~LoadExceeded(size_' + Cardinality(KeysOf(old)'), Len(buckets_'))
  PROVE  IInv'
<1>1. size_' \in Nat
  BY FS_CardinalityType
<1>2. old' # << >>
  BY DEF Table
<1> QED BY <1>1, <1>2
        DEF IInv, TypeOK, OnePlace, SizeCountsKeys, RehashRoom, Table, KeysOf

\* insert of a stored key overwrites its entry and nothing else.
LEMMA InsertExistingStep ==
  ASSUME IInv, NEW k \in Key, NEW e \in Entry, InsertExisting(k, e)
  PROVE  IInv' /\ KV!Put(k, e)
<1>1. /\ old = << >> /\ old' = << >> /\ size_' = size_
      /\ Holds(buckets_, k)
      /\ buckets_' = Overwrite(buckets_, k, e)
  BY DEF InsertExisting
<1>2. Table(buckets_)
  BY IInvTables
<1>3. /\ Table(buckets_')
      /\ Len(buckets_') = Len(buckets_)
      /\ Holds(buckets_', k) /\ find(buckets_', k) = e
      /\ \A x \in Key \ {k} : /\ Holds(buckets_', x) <=> Holds(buckets_, x)
                              /\ find(buckets_', x) = find(buckets_, x)
  BY <1>1, <1>2, OverwriteEffect
<1>4. KeysOf(buckets_)' = KeysOf(buckets_)
  BY <1>1, <1>3 DEF KeysOf
<1>5. IInv'
  BY <1>1, <1>3, <1>4, IdleIInv DEF IInv, SizeCountsKeys, RehashRoom
<1>6. KV!Put(k, e)
  BY <1>1, <1>3, Zenon DEF KV!Put, Lookup
<1> QED BY <1>5, <1>6

\* insert of a new key adds it, whether or not it starts a rehash.
LEMMA InsertNewStep ==
  ASSUME IInv, NEW k \in Key, NEW e \in Entry, InsertNew(k, e)
  PROVE  IInv' /\ KV!Put(k, e)
<1> DEFINE nb == Push(buckets_, k, e)
           S  == KeysOf(buckets_)
<1>1. old = << >> /\ ~Holds(buckets_, k)
  BY DEF InsertNew
<1>2. Table(buckets_) /\ Len(buckets_) \in Nat \ {0}
  BY IInvTables
<1>3. /\ Table(nb)
      /\ Len(nb) = Len(buckets_)
      /\ Holds(nb, k) /\ find(nb, k) = e
      /\ \A x \in Key \ {k} : /\ Holds(nb, x) <=> Holds(buckets_, x)
                              /\ find(nb, x) = find(buckets_, x)
  BY <1>1, <1>2, PushEffect
<1>4. IsFiniteSet(S) /\ size_ = Cardinality(S) /\ k \notin S /\ size_ \in Nat
  BY <1>1 DEF IInv, TypeOK, SizeCountsKeys, KeysOf
<1>5. IsFiniteSet(S \cup {k}) /\ Cardinality(S \cup {k}) = size_ + 1
  BY <1>4, FS_AddElement
<1>6. {x \in Key : Holds(nb, x)} = S \cup {k}
  BY <1>3 DEF KeysOf
<1> HIDE DEF nb, S
<1>7. CASE /\ ~LoadExceeded(size_ + 1, Len(buckets_))
           /\ buckets_' = nb
           /\ size_' = size_ + 1
           /\ old' = old
  <2>1. KeysOf(buckets_)' = S \cup {k}
    BY <1>6, <1>7 DEF KeysOf
  <2>2. IInv'
    BY <1>1, <1>3, <1>5, <1>7, <2>1, IdleIInv
  <2>3. KV!Put(k, e)
    BY <1>1, <1>3, <1>7, Zenon DEF KV!Put, Lookup
  <2> QED BY <2>2, <2>3
<1>8. CASE /\ LoadExceeded(size_ + 1, Len(buckets_))
           /\ old' = nb
           /\ buckets_' = EmptyTable(2 * Len(buckets_))
           /\ size_' = 0
  <2>1. 2 * Len(buckets_) \in Nat \ {0}
    BY <1>2
  <2>2. /\ Table(buckets_')
        /\ Len(buckets_') = 2 * Len(buckets_)
        /\ \A x \in Key : ~Holds(buckets_', x) /\ find(buckets_', x) = NoEntry
    BY <1>8, <2>1, EmptyEffect
  <2>3. KeysOf(buckets_)' = {}
    BY <2>2 DEF KeysOf
  <2>4. KeysOf(old)' = S \cup {k}
    BY <1>6, <1>8 DEF KeysOf
  <2>5. ~LoadExceeded(0 + (size_ + 1), 2 * Len(buckets_))
    BY <1>1, <1>2, <1>4 DEF IInv, RehashRoom, LoadExceeded
  <2>6. IInv'
    BY <1>3, <1>5, <1>8, <2>2, <2>3, <2>4, <2>5, FS_EmptySet, BusyIInv, Zenon
  <2>7. old' # << >>
    BY <1>3, <1>8 DEF Table
  <2>8. \A x \in Key : Lookup(x)' = IF x = k THEN e ELSE Lookup(x)
    <3> TAKE x \in Key
    <3>1. CASE x = k
      BY <3>1, <2>7, <1>3, <1>8 DEF Lookup
    <3>2. CASE x # k
      <4>1. Lookup(x) = find(buckets_, x)
        BY <1>1 DEF Lookup
      <4>2. CASE Holds(nb, x)
        BY <3>2, <4>1, <4>2, <2>7, <1>3, <1>8 DEF Lookup
      <4>3. CASE ~Holds(nb, x)
        BY <3>2, <4>1, <4>3, <2>2, <1>3, <1>8, NotHeld DEF Lookup
      <4> QED BY <4>2, <4>3
    <3> QED BY <3>1, <3>2
  <2>9. KV!Put(k, e)
    BY <2>8, Zenon DEF KV!Put
  <2> QED BY <2>6, <2>9
<1> QED BY <1>7, <1>8 DEF InsertNew, nb

\* A turn of the loop of rehash_if_needed keeps the invariant and the map.
LEMMA RehashMoveStep ==
  ASSUME IInv, RehashMove
  PROVE  IInv' /\ UNCHANGED [k \in Key |-> Lookup(k)]
<1>1. PICK i \in 1 .. Len(old) :
        /\ old[i] # << >>
        /\ buckets_' = Push(buckets_, Head(old[i]).key, Head(old[i]).entry)
        /\ size_' = size_ + 1
        /\ old' = [old EXCEPT ![i] = Tail(@)]
  BY Zenon DEF RehashMove
<1> DEFINE k == Head(old[i]).key
           e == Head(old[i]).entry
<1>2. old # << >>
  BY <1>1 DEF IInv, TypeOK
<1>3. Table(old) /\ Table(buckets_) /\ Len(buckets_) \in Nat \ {0}
  BY <1>2, IInvTables
<1>4. /\ k \in Key /\ e \in Entry
      /\ Holds(old, k)
      /\ find(old, k) = e
      /\ Table(old')
      /\ Len(old') = Len(old)
      /\ ~Holds(old', k)
      /\ \A x \in Key \ {k} : /\ Holds(old', x) <=> Holds(old, x)
                              /\ find(old', x) = find(old, x)
  BY <1>1, <1>3, PopEffect, Zenon
<1> HIDE DEF k, e
<1>5. buckets_' = Push(buckets_, k, e) /\ ~Holds(buckets_, k)
  BY <1>1, <1>2, <1>4 DEF IInv, OnePlace, k, e
<1>6. /\ Table(buckets_')
      /\ Len(buckets_') = Len(buckets_)
      /\ Holds(buckets_', k) /\ find(buckets_', k) = e
      /\ \A x \in Key \ {k} : /\ Holds(buckets_', x) <=> Holds(buckets_, x)
                              /\ find(buckets_', x) = find(buckets_, x)
  BY <1>3, <1>4, <1>5, PushEffect
<1>7. \A x \in Key : ~(Holds(old', x) /\ Holds(buckets_', x))
  BY <1>2, <1>4, <1>6 DEF IInv, OnePlace
<1>8. KeysOf(buckets_)' = KeysOf(buckets_) \cup {k} /\ k \notin KeysOf(buckets_)
  BY <1>4, <1>5, <1>6 DEF KeysOf
<1>9. KeysOf(old)' = KeysOf(old) \ {k} /\ k \in KeysOf(old)
  BY <1>4 DEF KeysOf
<1>10. /\ IsFiniteSet(KeysOf(buckets_)')
       /\ Cardinality(KeysOf(buckets_)') = size_ + 1
  BY <1>8, FS_AddElement DEF IInv, SizeCountsKeys
<1>11. /\ IsFiniteSet(KeysOf(old)) /\ Cardinality(KeysOf(old)) \in Nat
       /\ ~LoadExceeded(size_ + Cardinality(KeysOf(old)), Len(buckets_))
  BY <1>2, FS_CardinalityType DEF IInv, RehashRoom
<1>12. /\ IsFiniteSet(KeysOf(old)')
       /\ Cardinality(KeysOf(old)') = Cardinality(KeysOf(old)) - 1
  BY <1>9, <1>11, FS_RemoveElement
<1>13. size_' + Cardinality(KeysOf(old)') = size_ + Cardinality(KeysOf(old))
  BY <1>1, <1>11, <1>12 DEF IInv, TypeOK
<1>14. IInv'
  BY <1>1, <1>4, <1>6, <1>7, <1>10, <1>11, <1>12, <1>13, BusyIInv, Zenon
<1>15. old' # << >>
  BY <1>4 DEF Table
<1>16. \A x \in Key : Lookup(x)' = Lookup(x)
  <2> TAKE x \in Key
  <2>1. CASE x = k
    BY <2>1, <1>2, <1>4, <1>6 DEF Lookup
  <2>2. CASE x # k
    BY <2>2, <1>2, <1>4, <1>6, <1>15 DEF Lookup
  <2> QED BY <2>1, <2>2
<1> QED BY <1>14, <1>16

\* The end of rehash_if_needed keeps the invariant and the map.
LEMMA RehashDoneStep ==
  ASSUME IInv, RehashDone
  PROVE  IInv' /\ UNCHANGED [k \in Key |-> Lookup(k)]
<1>1. /\ old # << >> /\ old' = << >>
      /\ \A i \in 1 .. Len(old) : old[i] = << >>
      /\ buckets_' = buckets_ /\ size_' = size_
  BY DEF RehashDone
<1>2. Table(old) /\ Table(buckets_) /\ Len(buckets_) \in Nat \ {0}
  BY <1>1, IInvTables
<1>3. \A k \in Key : ~Holds(old, k)
  BY <1>1, <1>2, UsedUp
<1>4. KeysOf(old) = {} /\ Cardinality(KeysOf(old)) = 0
  BY <1>3, FS_EmptySet DEF KeysOf
<1>5. ~LoadExceeded(size_, Len(buckets_)) /\ size_ \in Nat
  BY <1>1, <1>4 DEF IInv, RehashRoom, TypeOK
<1>6. KeysOf(buckets_)' = KeysOf(buckets_)
  BY <1>1 DEF KeysOf
<1>7. IInv'
  BY <1>1, <1>2, <1>5, <1>6, IdleIInv DEF IInv, SizeCountsKeys
<1>8. \A k \in Key : Lookup(k)' = Lookup(k)
  BY <1>1, <1>3 DEF Lookup
<1> QED BY <1>7, <1>8

\* erase takes its key out and no other.
LEMMA EraseStep ==
  ASSUME IInv, NEW k \in Key, Erase(k)
  PROVE  IInv' /\ KV!Delete(k)
<1>1. /\ old = << >> /\ old' = << >> /\ size_' = size_ - 1
      /\ Holds(buckets_, k)
      /\ buckets_' = Unlink(buckets_, k)
  BY DEF Erase
<1>2. Table(buckets_) /\ Len(buckets_) \in Nat \ {0}
  BY IInvTables
<1>3. /\ Table(buckets_')
      /\ Len(buckets_') = Len(buckets_)
      /\ ~Holds(buckets_', k)
      /\ \A x \in Key \ {k} : /\ Holds(buckets_', x) <=> Holds(buckets_, x)
                              /\ find(buckets_', x) = find(buckets_, x)
  BY <1>1, <1>2, UnlinkEffect
<1>4. KeysOf(buckets_)' = KeysOf(buckets_) \ {k} /\ k \in KeysOf(buckets_)
  BY <1>1, <1>3 DEF KeysOf
<1>5. /\ IsFiniteSet(KeysOf(buckets_)')
      /\ Cardinality(KeysOf(buckets_)') = size_ - 1
  BY <1>4, FS_RemoveElement DEF IInv, SizeCountsKeys
<1>6. ~LoadExceeded(size_ - 1, Len(buckets_))
  BY <1>1, <1>2 DEF IInv, TypeOK, RehashRoom, LoadExceeded
<1>7. IInv'
  BY <1>1, <1>3, <1>5, <1>6, IdleIInv
<1>8. KV!Delete(k)
  BY <1>1, <1>3, NotHeld, Zenon DEF KV!Delete, Lookup
<1> QED BY <1>7, <1>8

\* clear takes every key out.
LEMMA ClearStep ==
  ASSUME IInv, Clear
  PROVE  IInv' /\ KV!Clear
<1>1. /\ old = << >> /\ old' = << >> /\ size_' = 0
      /\ buckets_' = EmptyTable(Len(buckets_))
  BY DEF Clear
<1>2. Len(buckets_) \in Nat \ {0}
  BY IInvTables
<1>3. /\ Table(buckets_')
      /\ Len(buckets_') = Len(buckets_)
      /\ \A k \in Key : ~Holds(buckets_', k) /\ find(buckets_', k) = NoEntry
  BY <1>1, <1>2, EmptyEffect
<1>4. KeysOf(buckets_)' = {}
  BY <1>3 DEF KeysOf
<1>5. ~LoadExceeded(0, Len(buckets_))
  BY <1>2 DEF LoadExceeded
<1>6. IInv'
  BY <1>1, <1>3, <1>4, <1>5, FS_EmptySet, IdleIInv
<1>7. KV!Clear
  BY <1>1, <1>3 DEF KV!Clear, Lookup
<1> QED BY <1>6, <1>7

\* Every step keeps the invariant and is a step of the map or invisible to it.
LEMMA StepIInv ==
  ASSUME IInv, [Next]_vars
  PROVE  IInv' /\ [KV!Next]_([k \in Key |-> Lookup(k)])
<1>1. ASSUME NEW k \in Key, NEW e \in Entry, InsertExisting(k, e)
      PROVE  IInv' /\ KV!Next
  BY <1>1, InsertExistingStep DEF KV!Next
<1>2. ASSUME NEW k \in Key, NEW e \in Entry, InsertNew(k, e)
      PROVE  IInv' /\ KV!Next
  BY <1>2, InsertNewStep DEF KV!Next
<1>3. CASE RehashMove
  BY <1>3, RehashMoveStep
<1>4. CASE RehashDone
  BY <1>4, RehashDoneStep
<1>5. ASSUME NEW k \in Key, Erase(k) PROVE IInv' /\ KV!Next
  BY <1>5, EraseStep DEF KV!Next
<1>6. CASE Clear
  BY <1>6, ClearStep DEF KV!Next
<1>7. CASE UNCHANGED vars
  <2>1. IInv'
    BY <1>7 DEF vars, IInv, TypeOK, OnePlace, SizeCountsKeys, RehashRoom, KeysOf
  <2>2. UNCHANGED [k \in Key |-> Lookup(k)]
    BY <1>7 DEF vars, Lookup
  <2> QED BY <2>1, <2>2
<1> QED BY <1>1, <1>2, <1>3, <1>4, <1>5, <1>6, <1>7 DEF Next, Call, Rehash

\* insert, erase and clear do to the map what they were called for.
LEMMA StepEffect ==
  ASSUME IInv
  PROVE  Effect
<1>1. ASSUME NEW k \in Key, NEW e \in Entry,
             InsertExisting(k, e) \/ InsertNew(k, e)
      PROVE  KV!Put(k, e)
  BY <1>1, InsertExistingStep, InsertNewStep
<1>2. ASSUME NEW k \in Key, Erase(k) PROVE KV!Delete(k)
  BY <1>2, EraseStep
<1>3. ASSUME Clear PROVE KV!Clear
  BY <1>3, ClearStep
<1>4. ASSUME Rehash PROVE UNCHANGED [k \in Key |-> Lookup(k)]
  BY <1>4, RehashMoveStep, RehashDoneStep DEF Rehash
<1> QED BY <1>1, <1>2, <1>3, <1>4 DEF Effect

-----------------------------------------------------------------------------
(* The theorems about the table.                                           *)

\* The inductive invariant holds in every reachable state of hash_table.cpp.
THEOREM Invariance == Spec => []IInv
<1>1. Init => IInv
  BY InitIInv
<1>2. IInv /\ [Next]_vars => IInv'
  BY StepIInv
<1> QED BY <1>1, <1>2, PTL DEF Spec

\* The types of buckets_, size_ and old hold in every reachable state.
THEOREM TypeCorrect == Spec => []TypeOK
<1>1. IInv => TypeOK
  BY DEF IInv
<1> QED BY <1>1, Invariance, PTL

\* hash_table.cpp keeps every key in one node, in the bucket where bucket_index
\* looks for it, whatever std::hash returns.
THEOREM KeysInOnePlace == Spec => []OnePlace
<1>1. IInv => OnePlace
  BY DEF IInv
<1> QED BY <1>1, Invariance, PTL

\* size() is the number of keys in the buckets.
THEOREM SizeCorrect == Spec => []SizeCountsKeys
<1>1. IInv => SizeCountsKeys
  BY DEF IInv
<1> QED BY <1>1, Invariance, PTL

\* rehash_if_needed, whose inserts call it again, never starts a second rehash.
THEOREM LoadIsBounded == Spec => []LoadBounded
<1>1. IInv => LoadBounded
  <2> SUFFICES ASSUME IInv PROVE LoadBounded
    OBVIOUS
  <2>1. size_ \in Nat /\ Len(buckets_) \in Nat
    BY IInvTables DEF IInv, TypeOK
  <2>2. CASE old = << >>
    BY <2>2 DEF IInv, RehashRoom, LoadBounded
  <2>3. CASE old # << >>
    <3>1. /\ Cardinality(KeysOf(old)) \in Nat
          /\ ~LoadExceeded(size_ + Cardinality(KeysOf(old)), Len(buckets_))
      BY <2>3, FS_CardinalityType DEF IInv, RehashRoom
    <3> QED BY <2>1, <3>1 DEF LoadExceeded, LoadBounded
  <2> QED BY <2>2, <2>3
<1> QED BY <1>1, Invariance, PTL

\* The chained table implements the map of KVMap, for every hash function.
THEOREM Refinement == Spec => ImplementsMap
<1>1. Init => KV!Init
  <2> SUFFICES ASSUME Init PROVE KV!Init
    OBVIOUS
  <2> DEFINE n == IF BucketCount < MinBuckets THEN MinBuckets ELSE BucketCount
  <2>1. n \in Nat \ {0} /\ buckets_ = EmptyTable(n) /\ old = << >>
    BY BucketsAssumption DEF Init
  <2> HIDE DEF n
  <2>2. \A k \in Key : Lookup(k) = NoEntry
    BY <2>1, EmptyEffect DEF Lookup
  <2> QED BY <2>2 DEF KV!Init
<1>2. IInv /\ [Next]_vars => [KV!Next]_([k \in Key |-> Lookup(k)])
  BY StepIInv
<1> QED BY <1>1, <1>2, Invariance, PTL DEF Spec, ImplementsMap, KV!Spec

\* insert, erase and clear have on the map the effect they were called for, on
\* the key they were given, and the loop of rehash_if_needed has none.
THEOREM CallEffects == Spec => CallsHaveTheirEffect
<1>1. IInv /\ [Next]_vars => [Effect]_vars
  BY StepEffect
<1> QED BY <1>1, Invariance, PTL DEF Spec, CallsHaveTheirEffect, Effect

-----------------------------------------------------------------------------
(* The pages of scan.                                                      *)

\* The how many-th of the positions A the walk meets p.
RankIn(A, p) == Cardinality({q \in A : AtOrAfter(p, q)})

\* The walk of scan numbers the positions it meets 1, 2, 3 and so on.
LEMMA Ranks ==
  ASSUME NEW A \in SUBSET (Nat \X Nat), IsFiniteSet(A)
  PROVE  /\ \A p \in A : RankIn(A, p) \in 1 .. Cardinality(A)
         /\ \A p, q \in A : RankIn(A, q) <= RankIn(A, p) <=> AtOrAfter(p, q)
         /\ \A c \in 1 .. Cardinality(A) : \E p \in A : RankIn(A, p) = c
<1> DEFINE Upto(p) == {q \in A : AtOrAfter(p, q)}
           N == Cardinality(A)
           f == [p \in A |-> Cardinality(Upto(p))]
<1>0. N \in Nat
  BY FS_CardinalityType
<1>1. ASSUME NEW p \in A
      PROVE  /\ IsFiniteSet(Upto(p)) /\ Cardinality(Upto(p)) \in 1 .. N
             /\ p \in Upto(p)
  <2>1. Upto(p) \in SUBSET A /\ p \in Upto(p)
    BY WalkIsTotal
  <2> HIDE DEF Upto, N
  <2>2. IsFiniteSet(Upto(p)) /\ Cardinality(Upto(p)) <= N
    BY <2>1, FS_Subset DEF N
  <2>3. Cardinality(Upto(p)) \in Nat /\ Cardinality(Upto(p)) # 0
    BY <2>1, <2>2, FS_CardinalityType, FS_EmptySet
  <2> QED BY <2>1, <2>2, <2>3, <1>0
<1>2. ASSUME NEW p \in A, NEW q \in A, AtOrAfter(p, q)
      PROVE  Cardinality(Upto(q)) <= Cardinality(Upto(p))
  <2>1. Upto(q) \in SUBSET Upto(p)
    BY <1>2, WalkIsTotal
  <2> HIDE DEF Upto
  <2> QED BY <2>1, <1>1, FS_Subset
<1>3. ASSUME NEW p \in A, NEW q \in A, ~AtOrAfter(p, q)
      PROVE  Cardinality(Upto(p)) < Cardinality(Upto(q))
  <2>1. AtOrAfter(q, p)
    BY <1>3, WalkIsTotal
  <2>2. Upto(p) \in SUBSET Upto(q)
    BY <2>1, WalkIsTotal
  <2>3. Upto(p) # Upto(q)
    BY <1>1, <1>3, Zenon
  <2> HIDE DEF Upto, N
  <2>4. Cardinality(Upto(p)) <= Cardinality(Upto(q)) /\ Cardinality(Upto(p)) # Cardinality(Upto(q))
    BY <2>2, <2>3, <1>1, FS_Subset
  <2>5. Cardinality(Upto(p)) \in Int /\ Cardinality(Upto(q)) \in Int
    BY <1>0, <1>1
  <2> QED BY <2>4, <2>5
<1> HIDE DEF Upto, N
<1>4. f \in Surjection(A, 1 .. N)
  <2>1. f \in [A -> 1 .. N]
    BY <1>1
  <2>2. ASSUME NEW p \in A, NEW q \in A, f[p] = f[q]
        PROVE  p = q
    <3>1. Cardinality(Upto(p)) \in Int /\ Cardinality(Upto(q)) \in Int
      BY <1>0, <1>1
    <3>2. Cardinality(Upto(p)) = Cardinality(Upto(q))
      BY <2>2
    <3>3. AtOrAfter(p, q) /\ AtOrAfter(q, p)
      BY <3>1, <3>2, <1>3
    <3> QED BY <3>3, WalkIsTotal
  <2>3. f \in Injection(A, 1 .. N)
    BY <2>1, <2>2 DEF Injection, IsInjective
  <2>4. IsFiniteSet(1 .. N) /\ Cardinality(1 .. N) = N
    BY <1>0, FS_Interval
  <2> HIDE DEF f
  <2> QED BY <2>3, <2>4, FS_Injection DEF N
<1>5. \A c \in 1 .. N : \E p \in A : f[p] = c
  BY <1>4, Zenon DEF Surjection
<1>6. \A p \in A : RankIn(A, p) = Cardinality(Upto(p)) /\ f[p] = RankIn(A, p)
  BY DEF RankIn, Upto
<1>7. \A p \in A : RankIn(A, p) \in 1 .. N
  BY <1>1, <1>6
<1>8. \A p, q \in A : RankIn(A, q) <= RankIn(A, p) <=> AtOrAfter(p, q)
  <2> TAKE p \in A, q \in A
  <2>1. RankIn(A, p) \in Int /\ RankIn(A, q) \in Int
    BY <1>0, <1>7
  <2>2. /\ AtOrAfter(p, q) => RankIn(A, q) <= RankIn(A, p)
        /\ ~AtOrAfter(p, q) => RankIn(A, p) < RankIn(A, q)
    BY <1>2, <1>3, <1>6
  <2> QED BY <2>1, <2>2
<1>9. \A c \in 1 .. N : \E p \in A : RankIn(A, p) = c
  BY <1>5, <1>6
<1> QED BY <1>7, <1>8, <1>9 DEF N

\* The nodes scan could return are finitely many, because the keys are.
LEMMA AheadIsFinite ==
  ASSUME Table(buckets_), IsFiniteSet(KeysOf(buckets_)), NEW cursor
  PROVE  IsFiniteSet(Ahead(cursor)) /\ Ahead(cursor) \in SUBSET Positions
<1> DEFINE A == Ahead(cursor)
           f == [p \in A |-> KeyAt(p)]
<1>1. A \in SUBSET Positions
  BY DEF Ahead
<1>2. f \in [A -> KeysOf(buckets_)] /\ \A p, q \in A : f[p] = f[q] => p = q
  BY <1>1, PositionFacts
<1>3. f \in Injection(A, KeysOf(buckets_))
  BY <1>2 DEF Injection, IsInjective
<1> HIDE DEF f, A
<1>4. IsFiniteSet(A)
  BY <1>3, FS_Injection
<1> QED BY <1>1, <1>4 DEF A

\* Every page is right.
LEMMA PageFacts ==
  ASSUME Table(buckets_), IsFiniteSet(KeysOf(buckets_)),
         NEW cursor \in Nat \X Nat, NEW count \in Nat \ {0}
  PROVE  PageIsRight(cursor, count)
<1> DEFINE A == Ahead(cursor)
           page == scan(cursor, count)
           next == page.next
           full == Cardinality(A) >= count
           q == CHOOSE p \in A : RankIn(A, p) = count
<1>1. /\ page.keys = {KeyAt(p) : p \in {r \in A : RankIn(A, r) <= count}}
      /\ next = IF full THEN Behind(q) ELSE <<Len(buckets_), 0>>
      /\ page.finished \in BOOLEAN /\ (page.finished <=> next[1] >= Len(buckets_))
  <2>1. page.keys = {KeyAt(p) : p \in {r \in A : RankIn(A, r) <= count}}
    BY DEF scan, RankIn
  <2>2. next = IF full THEN Behind(q) ELSE <<Len(buckets_), 0>>
    BY DEF scan, RankIn
  <2>3. page.finished = (count = 0 \/ AtEnd(next))
    BY DEF scan
  <2>4. page.finished \in BOOLEAN /\ (page.finished <=> next[1] >= Len(buckets_))
    BY <2>3, Zenon DEF AtEnd
  <2> QED BY <2>1, <2>2, <2>4
<1>2. /\ IsFiniteSet(A) /\ A \in SUBSET Positions /\ A \in SUBSET (Nat \X Nat)
      /\ Cardinality(A) \in Nat
  BY AheadIsFinite, PositionFacts, FS_CardinalityType
<1>3. Len(buckets_) \in Nat
  BY DEF Table
<1>4. \A p \in Positions : p \in Nat \X Nat /\ p[1] < Len(buckets_) /\ p[1] \in Nat /\ p[2] \in Nat
  BY <1>3, PositionFacts, SMTT(30)
<1>5. \A p \in A : AtOrAfter(p, cursor)
  BY DEF Ahead
<1> HIDE DEF A, page
<1>6. \A p \in A : KeyAt(p) \in page.keys <=> RankIn(A, p) <= count
  BY <1>1, <1>2, PositionFacts
<1>7. \A k \in page.keys : \E p \in A : k = KeyAt(p)
  BY <1>1
<1>8. CASE full
  <2>1. q \in A /\ RankIn(A, q) = count
    <3>1. count \in 1 .. Cardinality(A)
      BY <1>2, <1>8
    <3>2. \E p \in A : RankIn(A, p) = count
      BY <3>1, <1>2, Ranks
    <3> QED BY <3>2
  <2> HIDE DEF q
  <2>2. q \in Nat \X Nat /\ q[1] \in Nat /\ q[2] \in Nat /\ q[1] < Len(buckets_)
    BY <2>1, <1>2, <1>4
  <2>3. next = <<q[1], q[2] + 1>>
    BY <1>1, <1>8 DEF Behind
  <2> HIDE DEF next
  <2>4. next \in Nat \X Nat /\ next[1] = q[1] /\ next[2] = q[2] + 1 /\ next # <<0, 0>>
    BY <2>2, <2>3
  <2>5. ~page.finished
    <3>1. ~(next[1] >= Len(buckets_))
      BY <2>2, <2>4, <1>3
    <3> QED BY <3>1, <1>1, Zenon
  <2>6. \A p \in Positions : AtOrAfter(p, next) <=> ~AtOrAfter(q, p)
    BY <2>2, <2>4, <1>4 DEF AtOrAfter
  <2>7. \A p \in A : RankIn(A, p) <= count <=> AtOrAfter(q, p)
    BY <2>1, <1>2, Ranks
  <2>8. \A p \in A : KeyAt(p) \in page.keys <=> ~AtOrAfter(p, next)
    BY <2>6, <2>7, <1>2, <1>6
  <2>9. \A p \in Positions : AtOrAfter(p, next) => AtOrAfter(p, cursor)
    <3> SUFFICES ASSUME NEW p \in Positions, AtOrAfter(p, next) PROVE AtOrAfter(p, cursor)
      OBVIOUS
    <3>1. AtOrAfter(p, q) /\ AtOrAfter(q, cursor)
      BY <2>1, <2>2, <2>6, <1>4, <1>5, WalkIsTotal
    <3> QED BY <3>1, <2>2, <1>4, WalkIsTotal
  <2> QED BY <2>4, <2>5, <2>8, <2>9, <1>1, <1>7, Zenon DEF A, page, next, PageIsRight
<1>9. CASE ~full
  <2>1. next = <<Len(buckets_), 0>>
    BY <1>1, <1>9
  <2> HIDE DEF next
  <2>2. next \in Nat \X Nat /\ next[1] = Len(buckets_)
    BY <2>1, <1>3
  <2>3. page.finished
    <3>1. next[1] >= Len(buckets_)
      BY <2>2, <1>3
    <3> QED BY <3>1, <1>1, Zenon
  <2>4. \A p \in Positions : ~AtOrAfter(p, next)
    BY <2>2, <1>3, <1>4 DEF AtOrAfter
  <2>5. \A p \in A : KeyAt(p) \in page.keys
    <3> TAKE p \in A
    <3>1. RankIn(A, p) \in 1 .. Cardinality(A)
      BY <1>2, Ranks
    <3> QED BY <3>1, <1>2, <1>6, <1>9
  <2> QED BY <2>2, <2>3, <2>4, <2>5, <1>2, <1>1, <1>7 DEF A, page, next, PageIsRight
<1> QED BY <1>8, <1>9

-----------------------------------------------------------------------------
(* The theorems about the loop.                                            *)

\* Every set of numbers has a least member.
LEMMA Least == HasLeast
<1> SUFFICES ASSUME NEW T \in SUBSET Nat, T # {}
             PROVE  \E m \in T : \A n \in T : m <= n
  BY DEF HasLeast
<1> DEFINE less == OpToRel(<, Nat)
<1>1. \A x, y \in Nat : y < x => <<y, x>> \in less
  BY Zenon DEF OpToRel
<1>2. PICK m \in T : \A n \in T : <<n, m>> \notin less
  BY NatLessThanWellFounded, WFMin, Zenon
<1>3. \A n \in T : ~(n < m)
  BY <1>1, <1>2, Zenon
<1> QED BY <1>3

\* Before the first loop nothing is stable and nothing was returned.
LEMMA InitScanInv ==
  ASSUME ScanInit
  PROVE  ScanInv
<1>1. IInv
  BY InitIInv DEF ScanInit
<1>2. KeysOf(buckets_) = {}
  <2> DEFINE n == IF BucketCount < MinBuckets THEN MinBuckets ELSE BucketCount
  <2>1. n \in Nat \ {0} /\ buckets_ = EmptyTable(n)
    BY BucketsAssumption DEF ScanInit, Init
  <2> HIDE DEF n
  <2> QED BY <2>1, EmptyEffect DEF KeysOf
<1>3. /\ token = <<0>> /\ stable = {} /\ seen = [k \in Key |-> 0] /\ old = << >>
  BY DEF ScanInit, Init
<1>4. ScanTypeOK
  <2>1. seen \in [Key -> 0 .. 2]
    BY <1>3
  <2> QED BY <2>1, <1>3 DEF ScanTypeOK
<1>5. Exact
  BY <1>2, <1>3 DEF Exact
<1> QED BY <1>3, <1>4, <1>5 DEF ScanInv, Stored, Covered

\* The invariant of the loop holds in every reachable state, with the table's.
THEOREM ScanInvariance == ScanSpec => [](IInv /\ ScanInv)
<1>1. ScanInit => IInv /\ ScanInv
  BY InitIInv, InitScanInv DEF ScanInit
<1>2. IInv /\ ScanInv /\ [ScanNext]_scanVars => (IInv /\ ScanInv)'
  <2> SUFFICES ASSUME IInv, ScanInv, [ScanNext]_scanVars PROVE (IInv /\ ScanInv)'
    OBVIOUS
  <2>1. PagesAreRight
    <3>1. Table(buckets_) /\ IsFiniteSet(KeysOf(buckets_))
      BY IInvTables DEF IInv, SizeCountsKeys
    <3> QED BY <3>1, PageFacts DEF PagesAreRight
  <2>2. ScanInv'
    BY <2>1, StepEffect, ScanInvStep
  <2>3. IInv'
    BY ScanTable, StepIInv
  <2> QED BY <2>2, <2>3
<1> QED BY <1>1, <1>2, PTL DEF ScanSpec

\* A loop of SCAN calls returns every matching key that is stored from its first
\* call to its last, through inserts, erases and rehashes of other clients, unless
\* one of the three excuses occurs: for every hash function, every pattern and
\* every sequence of COUNT arguments.
THEOREM ScanMissesNothing == ScanSpec => []ScanComplete
<1>1. ScanInv => ScanComplete
  BY DEF ScanInv, Covered, ScanComplete
<1> QED BY <1>1, ScanInvariance, PTL

\* On a table whose nodes nobody adds or removes, a finished loop has returned the
\* keys the glob stands for exactly once and no others.
THEOREM QuietScanIsExact == ScanSpec => []QuietScanExact
<1>1. ASSUME ScanInv PROVE QuietScanExact
  <2> SUFFICES ASSUME ~scanning, quiet, ~excused, NEW k \in Key
               PROVE  seen[k] = IF k \in stable /\ k \in Meant[pattern] THEN 1 ELSE 0
    BY DEF QuietScanExact
  <2>1. seen[k] = IF k \in stable /\ k \in Matching[pattern] THEN 1 ELSE 0
    BY <1>1 DEF ScanInv, Exact
  <2>2. CASE pattern \in Patterns
    <3>1. k \in Matching[pattern] <=> k \in Meant[pattern]
      BY <2>2, matchesIsGlob, Least DEF Matching, Meant
    <3> QED BY <2>1, <3>1
  <2>3. CASE stable = {}
    BY <2>1, <2>3
  <2> QED BY <2>2, <2>3, <1>1 DEF ScanInv, ScanTypeOK
<1> QED BY <1>1, ScanInvariance, PTL

=============================================================================
