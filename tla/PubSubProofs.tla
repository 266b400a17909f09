---------------------------- MODULE PubSubProofs ----------------------------
(***************************************************************************)
(* Proofs about PubSub, for any number of subscribers, channels and        *)
(* publishers, and vectors and mailboxes of any length.                    *)
(***************************************************************************)
EXTENDS PubSub, TLAPS, SequenceTheorems, FiniteSetTheorems, WellFoundedInduction

\* No element is in the vector twice.
Distinct(s) == \A i, j \in 1 .. Len(s) : s[i] = s[j] => i = j

-----------------------------------------------------------------------------
(* std::find with push_back, and std::remove with erase                    *)

\* A set of numbers has a least member: the form of induction used below.
LEMMA Least ==
  ASSUME NEW T \in SUBSET Nat, T # {}
  PROVE  \E m \in T : \A n \in T : m <= n
<1> DEFINE less == OpToRel(<, Nat)
<1>1. \A x, y \in Nat : y < x => <<y, x>> \in less
  BY Zenon DEF OpToRel
<1>2. PICK m \in T : \A n \in T : <<n, m>> \notin less
  BY NatLessThanWellFounded, WFMin, Zenon
<1>3. \A n \in T : ~(n < m)
  BY <1>1, <1>2, Zenon
<1> QED BY <1>3

\* One more turn of std::remove's loop
Turn(s, e, g, n) == g[n] = IF s[n] = e THEN g[n - 1] ELSE Append(g[n - 1], s[n])

\* The loop of std::remove has a result for every vector.
LEMMA KeptExists ==
  ASSUME NEW S, NEW s \in Seq(S), NEW e, NEW n \in 0 .. Len(s)
  PROVE  \E g \in [0 .. n -> Seq(S)] : g[0] = << >> /\ \A i \in 1 .. n : Turn(s, e, g, i)
<1> DEFINE P(m) == \E g \in [0 .. m -> Seq(S)] :
                     g[0] = << >> /\ \A i \in 1 .. m : Turn(s, e, g, i)
           T == {m \in 0 .. Len(s) : ~P(m)}
<1>0. Len(s) \in Nat
  BY LenProperties
<1>1. P(0)
  <2> DEFINE g == [i \in 0 .. 0 |-> << >>]
  <2>1. g \in [0 .. 0 -> Seq(S)] /\ g[0] = << >>
    BY EmptySeq
  <2>2. 1 .. 0 = {}
    OBVIOUS
  <2> HIDE DEF g
  <2> QED BY <2>1, <2>2
<1>2. ASSUME NEW m \in 0 .. Len(s), m # 0, P(m - 1)
      PROVE  P(m)
  <2>1. PICK g \in [0 .. (m - 1) -> Seq(S)] :
               g[0] = << >> /\ \A i \in 1 .. (m - 1) : Turn(s, e, g, i)
    BY <1>2
  <2>0. m \in Nat /\ m - 1 \in Nat /\ 0 \in 0 .. (m - 1) /\ m - 1 \in 0 .. (m - 1)
    BY <1>0, <1>2
  <2> DEFINE last == IF s[m] = e THEN g[m - 1] ELSE Append(g[m - 1], s[m])
             h == [i \in 0 .. m |-> IF i = m THEN last ELSE g[i]]
  <2>2. last \in Seq(S)
    <3>1. s[m] \in S
      BY <1>0, <1>2, ElementOfSeq
    <3>2. g[m - 1] \in Seq(S)
      BY <1>0, <1>2
    <3> QED BY <3>1, <3>2, AppendProperties
  <2>3. h \in [0 .. m -> Seq(S)]
    <3> HIDE DEF last
    <3> QED BY <1>0, <1>2, <2>2
  <2>4. h[m] = last /\ \A i \in 0 .. (m - 1) : h[i] = g[i]
    BY <1>0, <1>2
  <2>5. \A i \in 1 .. m : Turn(s, e, h, i)
    <3> SUFFICES ASSUME NEW i \in 1 .. m
                 PROVE  Turn(s, e, h, i)
      OBVIOUS
    <3> HIDE DEF h
    <3>1. CASE i = m
      <4>1. h[m - 1] = g[m - 1]
        BY <2>0, <2>4
      <4> QED BY <2>4, <3>1, <4>1 DEF Turn
    <3>2. CASE i # m
      <4>1. i \in 1 .. (m - 1) /\ i \in 0 .. (m - 1) /\ i - 1 \in 0 .. (m - 1)
        BY <2>0, <3>2
      <4>2. h[i] = g[i] /\ h[i - 1] = g[i - 1]
        BY <2>4, <4>1
      <4> QED BY <2>1, <4>1, <4>2 DEF Turn
    <3> QED BY <3>1, <3>2
  <2>6. h[0] = << >>
    <3> HIDE DEF h
    <3> QED BY <2>0, <2>1, <2>4
  <2> HIDE DEF h
  <2> QED BY <2>3, <2>5, <2>6
<1> HIDE DEF P
<1>3. T = {}
  <2> SUFFICES ASSUME T # {} PROVE FALSE
    OBVIOUS
  <2>0. T \in SUBSET Nat
    BY <1>0
  <2>1. PICK m \in T : \A k \in T : m <= k
    <3> HIDE DEF T
    <3> QED BY <2>0, Least
  <2>2. m # 0
    BY <1>1, <2>1
  <2>3. m - 1 \notin T /\ m - 1 \in 0 .. Len(s)
    BY <1>0, <2>1, <2>2
  <2> QED BY <1>2, <2>1, <2>2, <2>3
<1> QED BY <1>3 DEF P

\* What the loop has kept, turn by turn
LEMMA KeptTurns ==
  ASSUME NEW S, NEW s \in Seq(S), NEW e
  PROVE  Kept(s, e)[0] = << >> /\ \A i \in 1 .. Len(s) : Turn(s, e, Kept(s, e), i)
<1> DEFINE F(g) == [n \in 0 .. Len(s) |-> IF n = 0 THEN << >>
                                          ELSE IF s[n] = e THEN g[n - 1]
                                          ELSE Append(g[n - 1], s[n])]
<1>0. Len(s) \in Nat
  BY LenProperties
<1>1. PICK g \in [0 .. Len(s) -> Seq(S)] :
             g[0] = << >> /\ \A i \in 1 .. Len(s) : Turn(s, e, g, i)
  <2>1. Len(s) \in 0 .. Len(s)
    BY <1>0
  <2> QED BY <2>1, KeptExists
<1>2. g = F(g)
  <2>1. \A n \in 0 .. Len(s) : n # 0 => n \in 1 .. Len(s)
    BY <1>0
  <2>2. \A n \in 0 .. Len(s) : g[n] = F(g)[n]
    BY <1>1, <2>1 DEF Turn
  <2> QED BY <1>1, <2>2
<1>3. Kept(s, e) = CHOOSE h : h = F(h)
  BY DEF Kept
<1>4. Kept(s, e) = F(Kept(s, e))
  <2> HIDE DEF F
  <2> QED BY <1>2, <1>3
<1> HIDE DEF F
<1>5. \A n \in 0 .. Len(s) :
        Kept(s, e)[n] = IF n = 0 THEN << >>
                        ELSE IF s[n] = e THEN Kept(s, e)[n - 1]
                        ELSE Append(Kept(s, e)[n - 1], s[n])
  BY <1>4 DEF F
<1> QED BY <1>0, <1>5 DEF Turn

\* push_back adds its element and nothing else.
LEMMA AppendOne ==
  ASSUME NEW S, NEW s \in Seq(S), NEW e \in S
  PROVE  /\ Append(s, e) \in Seq(S)
         /\ \A x : Contains(Append(s, e), x) <=> Contains(s, x) \/ x = e
         /\ Distinct(s) /\ ~Contains(s, e) => Distinct(Append(s, e))
<1> DEFINE t == Append(s, e)
           n == Len(s)
<1>1. /\ t \in Seq(S) /\ n \in Nat /\ Len(t) = n + 1 /\ t[n + 1] = e
      /\ \A i \in 1 .. n : t[i] = s[i]
  BY AppendProperties, LenProperties
<1> HIDE DEF t
<1>2. \A i : i \in 1 .. Len(t) <=> i \in 1 .. n \/ i = n + 1
  BY <1>1
<1>3. \A x : Contains(t, x) <=> Contains(s, x) \/ x = e
  BY <1>1, <1>2 DEF Contains
<1>4. ASSUME Distinct(s), ~Contains(s, e)
      PROVE  Distinct(t)
  BY <1>1, <1>2, <1>4 DEF Distinct, Contains
<1> QED BY <1>1, <1>3, <1>4 DEF t

\* subscribe adds a name once.
LEMMA AddOnceIs ==
  ASSUME NEW S, NEW s \in Seq(S), NEW e \in S
  PROVE  /\ AddOnce(s, e) \in Seq(S)
         /\ \A x : Contains(AddOnce(s, e), x) <=> Contains(s, x) \/ x = e
         /\ Distinct(s) => Distinct(AddOnce(s, e))
BY AppendOne DEF AddOnce

\* std::remove and erase take a name away, and keep every other one, once if it was there
\* once.
LEMMA WithoutIs ==
  ASSUME NEW S, NEW s \in Seq(S), NEW e
  PROVE  /\ Without(s, e) \in Seq(S)
         /\ \A x : Contains(Without(s, e), x) <=> Contains(s, x) /\ x # e
         /\ Distinct(s) => Distinct(Without(s, e))
<1> DEFINE k == Kept(s, e)
           Among(n, x) == \E i \in 1 .. n : s[i] = x
           P(n) == /\ k[n] \in Seq(S)
                   /\ \A x : Contains(k[n], x) <=> Among(n, x) /\ x # e
                   /\ Distinct(s) => Distinct(k[n])
           T == {n \in 0 .. Len(s) : ~P(n)}
<1>0. Len(s) \in Nat
  BY LenProperties
<1>1. k[0] = << >> /\ \A i \in 1 .. Len(s) : Turn(s, e, k, i)
  BY KeptTurns
<1> HIDE DEF k
<1>2. P(0)
  <2>1. << >> \in Seq(S) /\ Len(<< >>) = 0 /\ 1 .. 0 = {}
    BY EmptySeq
  <2> QED BY <1>1, <2>1 DEF Contains, Distinct
<1>3. ASSUME NEW n \in 0 .. Len(s), n # 0, P(n - 1)
      PROVE  P(n)
  <2>0. n \in Nat /\ n \in 1 .. Len(s) /\ n - 1 \in 0 .. Len(s)
    BY <1>0, <1>3
  <2>1. k[n] = IF s[n] = e THEN k[n - 1] ELSE Append(k[n - 1], s[n])
    BY <1>1, <2>0 DEF Turn
  <2>2. \A x : Among(n, x) <=> Among(n - 1, x) \/ x = s[n]
    <3>1. \A i : i \in 1 .. n <=> i \in 1 .. (n - 1) \/ i = n
      BY <2>0
    <3> QED BY <3>1
  <2>3. Distinct(s) => ~Among(n - 1, s[n])
    BY <1>0, <2>0 DEF Distinct
  <2>4. s[n] \in S
    BY <2>0, ElementOfSeq
  <2> HIDE DEF Among
  <2>5. CASE s[n] = e
    BY <1>3, <2>1, <2>2, <2>5
  <2>6. CASE s[n] # e
    <3>1. /\ Append(k[n - 1], s[n]) \in Seq(S)
          /\ \A x : Contains(Append(k[n - 1], s[n]), x) <=> Contains(k[n - 1], x) \/ x = s[n]
          /\ Distinct(k[n - 1]) /\ ~Contains(k[n - 1], s[n]) => Distinct(Append(k[n - 1], s[n]))
      BY <1>3, <2>4, AppendOne
    <3> QED BY <1>3, <2>1, <2>2, <2>3, <2>6, <3>1
  <2> QED BY <2>5, <2>6
<1>4. T = {}
  <2> HIDE DEF P
  <2> SUFFICES ASSUME T # {} PROVE FALSE
    OBVIOUS
  <2>0. T \in SUBSET Nat
    BY <1>0
  <2>1. PICK m \in T : \A n \in T : m <= n
    <3> HIDE DEF T
    <3> QED BY <2>0, Least
  <2>2. m # 0
    BY <1>2, <2>1
  <2>3. m - 1 \notin T /\ m - 1 \in 0 .. Len(s)
    BY <1>0, <2>1, <2>2
  <2> QED BY <1>3, <2>1, <2>2, <2>3
<1>5. P(Len(s))
  <2> HIDE DEF P
  <2> QED BY <1>0, <1>4
<1> QED BY <1>5 DEF Without, k, Contains

-----------------------------------------------------------------------------
(* The invariant                                                           *)

\* The mailboxes that the message of p has reached
Reached(p) == {s \in Subscriber : latest[s][p] = call[p].n}

TypeOK ==
  /\ channel_map_ \in [Channel -> Seq(Subscriber)]
  /\ subscriber_map_ \in [Subscriber -> Seq(Channel)]
  /\ queues_ \in [Subscriber -> Seq([from : Publisher, n : Nat])]
  /\ call \in [Publisher -> [busy : BOOLEAN, n : Nat, targets : Seq(Subscriber), reply : Nat]]
  /\ latest \in [Subscriber -> [Publisher -> Nat]]

\* A subscriber is in the vector of a channel once.
Unique == \A c \in Channel : Distinct(channel_map_[c])

\* The subscribers that publish still has to serve are served once, and have had no
\* message of this call.
Ahead ==
  \A p \in Publisher :
    /\ Distinct(call[p].targets)
    /\ \A s \in Subscriber :
         /\ latest[s][p] <= call[p].n
         /\ Contains(call[p].targets, s) => latest[s][p] < call[p].n

\* The targets are served or still to come.
Counted ==
  \A p \in Publisher :
    Wired /\ call[p].busy =>
      /\ IsFiniteSet(Reached(p))
      /\ Cardinality(Reached(p)) + Len(call[p].targets) = call[p].reply

IInv == TypeOK /\ MapsAgree /\ Unique /\ Ahead /\ Counted

\* Nothing is subscribed, queued or published.
LEMMA InitIInv == Init => IInv
<1> SUFFICES ASSUME Init PROVE IInv
  OBVIOUS
<1>1. \A S : << >> \in Seq(S)
  BY EmptySeq
<1>2. Len(<< >>) = 0 /\ 1 .. 0 = {}
  BY EmptySeq
<1>3. TypeOK
  BY <1>1 DEF Init, TypeOK
<1>4. MapsAgree /\ Unique
  BY <1>2 DEF Init, MapsAgree, Unique, Distinct, Contains
<1>5. Ahead
  BY <1>2 DEF Init, Ahead, Distinct, Contains
<1>6. Counted
  BY DEF Init, Counted
<1> QED BY <1>3, <1>4, <1>5, <1>6 DEF IInv

\* A step that leaves the calls of publish and the mailboxes' history alone
LEMMA CallsKept ==
  ASSUME IInv, UNCHANGED <<call, latest>>
  PROVE  Ahead' /\ Counted'
BY DEF IInv, Ahead, Counted, Reached

\* subscribe enters the pair in both maps.
LEMMA subscribeStep ==
  ASSUME IInv, NEW c \in Channel, NEW s \in Subscriber, subscribe(c, s)
  PROVE  IInv'
<1>1. TypeOK /\ MapsAgree /\ Unique
  BY DEF IInv
<1> DEFINE on == channel_map_[c]
           of == subscriber_map_[s]
<1>2. /\ AddOnce(on, s) \in Seq(Subscriber)
      /\ \A x : Contains(AddOnce(on, s), x) <=> Contains(on, x) \/ x = s
      /\ Distinct(on) => Distinct(AddOnce(on, s))
  BY <1>1, AddOnceIs DEF TypeOK
<1>3. /\ AddOnce(of, c) \in Seq(Channel)
      /\ \A x : Contains(AddOnce(of, c), x) <=> Contains(of, x) \/ x = c
  BY <1>1, AddOnceIs DEF TypeOK
<1>4. /\ channel_map_' = [channel_map_ EXCEPT ![c] = AddOnce(on, s)]
      /\ subscriber_map_' = [subscriber_map_ EXCEPT ![s] = AddOnce(of, c)]
      /\ UNCHANGED <<queues_, call, latest>>
  BY DEF subscribe
<1>5. TypeOK'
  BY <1>1, <1>2, <1>3, <1>4 DEF TypeOK
<1>6. MapsAgree'
  BY <1>1, <1>2, <1>3, <1>4 DEF TypeOK, MapsAgree
<1>7. Unique'
  BY <1>1, <1>2, <1>4 DEF TypeOK, Unique
<1> QED BY <1>4, <1>5, <1>6, <1>7, CallsKept DEF IInv

\* unsubscribe takes it out of both.
LEMMA unsubscribeStep ==
  ASSUME IInv, NEW c \in Channel, NEW s \in Subscriber, unsubscribe(c, s)
  PROVE  IInv'
<1>1. TypeOK /\ MapsAgree /\ Unique
  BY DEF IInv
<1> DEFINE on == channel_map_[c]
           of == subscriber_map_[s]
<1>2. /\ Without(on, s) \in Seq(Subscriber)
      /\ \A x : Contains(Without(on, s), x) <=> Contains(on, x) /\ x # s
      /\ Distinct(on) => Distinct(Without(on, s))
  BY <1>1, WithoutIs DEF TypeOK
<1>3. /\ Without(of, c) \in Seq(Channel)
      /\ \A x : Contains(Without(of, c), x) <=> Contains(of, x) /\ x # c
  BY <1>1, WithoutIs DEF TypeOK
<1>4. /\ channel_map_' = [channel_map_ EXCEPT ![c] = Without(on, s)]
      /\ subscriber_map_' = [subscriber_map_ EXCEPT ![s] = Without(of, c)]
      /\ UNCHANGED <<queues_, call, latest>>
  BY DEF unsubscribe
<1>5. TypeOK'
  BY <1>1, <1>2, <1>3, <1>4 DEF TypeOK
<1>6. MapsAgree'
  BY <1>1, <1>2, <1>3, <1>4 DEF TypeOK, MapsAgree
<1>7. Unique'
  BY <1>1, <1>2, <1>4 DEF TypeOK, Unique
<1> QED BY <1>4, <1>5, <1>6, <1>7, CallsKept DEF IInv

\* unsubscribe_all visits the channels that the subscriber's own vector names, and these
\* are all that name it.
LEMMA unsubscribe_allStep ==
  ASSUME IInv, NEW s \in Subscriber, unsubscribe_all(s)
  PROVE  IInv'
<1>1. TypeOK /\ MapsAgree /\ Unique
  BY DEF IInv
<1>2. \A c \in Channel :
        /\ Without(channel_map_[c], s) \in Seq(Subscriber)
        /\ \A x : Contains(Without(channel_map_[c], s), x) <=> Contains(channel_map_[c], x) /\ x # s
        /\ Distinct(channel_map_[c]) => Distinct(Without(channel_map_[c], s))
  BY <1>1, WithoutIs DEF TypeOK
<1>3. << >> \in Seq(Channel) /\ \A x : ~Contains(<< >>, x)
  <2>1. << >> \in Seq(Channel) /\ Len(<< >>) = 0 /\ 1 .. 0 = {}
    BY EmptySeq
  <2> QED BY <2>1 DEF Contains
<1>4. /\ channel_map_' = [c \in Channel |-> IF Contains(subscriber_map_[s], c)
                                            THEN Without(channel_map_[c], s)
                                            ELSE channel_map_[c]]
      /\ subscriber_map_' = [subscriber_map_ EXCEPT ![s] = << >>]
      /\ UNCHANGED <<queues_, call, latest>>
  BY DEF unsubscribe_all
<1>5. TypeOK'
  BY <1>1, <1>2, <1>3, <1>4 DEF TypeOK
<1>6. MapsAgree'
  <2> SUFFICES ASSUME NEW c \in Channel, NEW u \in Subscriber
               PROVE  Contains(channel_map_'[c], u) <=> Contains(subscriber_map_'[u], c)
    BY DEF MapsAgree
  <2>1. Contains(channel_map_'[c], u) <=> Contains(channel_map_[c], u) /\ u # s
    BY <1>1, <1>2, <1>4 DEF MapsAgree
  <2>2. Contains(subscriber_map_'[u], c) <=> Contains(subscriber_map_[u], c) /\ u # s
    BY <1>1, <1>3, <1>4 DEF TypeOK
  <2> QED BY <1>1, <2>1, <2>2 DEF MapsAgree
<1>7. Unique'
  BY <1>1, <1>2, <1>4 DEF Unique
<1> QED BY <1>4, <1>5, <1>6, <1>7, CallsKept DEF IInv

\* The subscriber's side of a mailbox changes nothing but the mailbox.
LEMMA MailboxStep ==
  ASSUME IInv, NEW s \in Subscriber, try_dequeue(s) \/ clear(s)
  PROVE  IInv'
<1>1. TypeOK /\ MapsAgree /\ Unique
  BY DEF IInv
<1> DEFINE Msg == [from : Publisher, n : Nat]
<1>2. queues_[s] \in Seq(Msg) /\ queues_[s] # << >>
  BY <1>1 DEF TypeOK, try_dequeue, clear
<1>3. Tail(queues_[s]) \in Seq(Msg) /\ << >> \in Seq(Msg)
  <2> HIDE DEF Msg
  <2> QED BY <1>2, HeadTailProperties, EmptySeq
<1>4. UNCHANGED <<channel_map_, subscriber_map_, call, latest>>
  BY DEF try_dequeue, clear
<1>5. queues_' \in [Subscriber -> Seq(Msg)]
  <2>1. queues_ \in [Subscriber -> Seq(Msg)]
    BY <1>1 DEF TypeOK
  <2> HIDE DEF Msg
  <2> QED BY <1>3, <2>1 DEF try_dequeue, clear
<1>6. TypeOK'
  BY <1>1, <1>4, <1>5 DEF TypeOK
<1>7. MapsAgree' /\ Unique'
  BY <1>1, <1>4 DEF MapsAgree, Unique
<1> QED BY <1>4, <1>6, <1>7, CallsKept DEF IInv

\* publish starts a new message with a copy of the channel's vector; no mailbox has it.
LEMMA PublishStep ==
  ASSUME IInv, NEW p \in Publisher, NEW c \in Channel, Publish(p, c)
  PROVE  IInv'
<1>1. TypeOK /\ MapsAgree /\ Unique /\ Ahead /\ Counted
  BY DEF IInv
<1> DEFINE on == channel_map_[c]
           f == [busy |-> TRUE, n |-> call[p].n + 1, reply |-> Len(on), targets |-> on]
<1>2. call' = [call EXCEPT ![p] = f]
  BY DEF Publish, subscribers
<1>3. UNCHANGED <<channel_map_, subscriber_map_, queues_, latest>>
  BY DEF Publish
<1>4. on \in Seq(Subscriber) /\ Len(on) \in Nat /\ call[p].n \in Nat /\ Distinct(on)
  BY <1>1, LenProperties DEF TypeOK, Unique
<1>5. /\ f \in [busy : BOOLEAN, n : Nat, targets : Seq(Subscriber), reply : Nat]
      /\ f.busy = TRUE /\ f.n = call[p].n + 1 /\ f.reply = Len(on) /\ f.targets = on
  <2> HIDE DEF on
  <2> QED BY <1>4
<1> HIDE DEF f, on
<1>6. TypeOK'
  BY <1>1, <1>2, <1>3, <1>5 DEF TypeOK
<1>7. MapsAgree' /\ Unique'
  BY <1>1, <1>3 DEF MapsAgree, Unique
<1>8. call'[p] = f /\ \A q \in Publisher \ {p} : call'[q] = call[q]
  BY <1>1, <1>2 DEF TypeOK
<1>9. \A s \in Subscriber : latest'[s][p] \in Nat /\ latest'[s][p] < f.n
  BY <1>1, <1>3, <1>4, <1>5 DEF TypeOK, Ahead
<1>10. Ahead'
  <2> SUFFICES ASSUME NEW q \in Publisher, NEW s \in Subscriber
               PROVE  /\ Distinct(call'[q].targets)
                      /\ latest'[s][q] <= call'[q].n
                      /\ Contains(call'[q].targets, s) => latest'[s][q] < call'[q].n
    <3>1. \A q \in Publisher : Distinct(call'[q].targets)
      BY <1>1, <1>4, <1>5, <1>8 DEF Ahead
    <3> QED BY <3>1 DEF Ahead
  <2>1. CASE q = p
    BY <1>4, <1>5, <1>8, <1>9, <2>1
  <2>2. CASE q # p
    BY <1>1, <1>3, <1>8, <2>2 DEF Ahead
  <2> QED BY <2>1, <2>2
<1>11. Counted'
  <2> SUFFICES ASSUME NEW q \in Publisher, Wired, call'[q].busy
               PROVE  /\ IsFiniteSet(Reached(q)')
                      /\ Cardinality(Reached(q)') + Len(call'[q].targets) = call'[q].reply
    BY DEF Counted
  <2>1. CASE q = p
    <3>1. Reached(p)' = {}
      BY <1>4, <1>5, <1>8, <1>9 DEF Reached
    <3> QED BY <1>4, <1>5, <1>8, <2>1, <3>1, FS_EmptySet
  <2>2. CASE q # p
    BY <1>1, <1>3, <1>8, <2>2 DEF Counted, Reached
  <2> QED BY <2>1, <2>2
<1> QED BY <1>6, <1>7, <1>10, <1>11 DEF IInv

\* What one turn of the loop does to the call
LEMMA DeliverCall ==
  ASSUME TypeOK, NEW p \in Publisher, Deliver(p)
  PROVE  /\ call[p].targets \in Seq(Subscriber) /\ call[p].targets # << >>
         /\ call' \in [Publisher ->
                         [busy : BOOLEAN, n : Nat, targets : Seq(Subscriber), reply : Nat]]
         /\ call'[p].targets = Tail(call[p].targets)
         /\ call'[p].n = call[p].n /\ call'[p].busy = call[p].busy
         /\ call'[p].reply = call[p].reply
         /\ \A q \in Publisher \ {p} : call'[q] = call[q]
<1>1. call[p].targets \in Seq(Subscriber) /\ call[p].targets # << >>
  BY DEF TypeOK, Deliver
<1>2. Tail(call[p].targets) \in Seq(Subscriber)
  BY <1>1, HeadTailProperties
<1>3. call' = [call EXCEPT ![p].targets = Tail(@)]
  BY DEF Deliver
<1> QED BY <1>1, <1>2, <1>3 DEF TypeOK

\* The first element of a vector without repetition is not in the rest.
LEMMA HeadOnce ==
  ASSUME NEW S, NEW s \in Seq(S), s # << >>, Distinct(s)
  PROVE  /\ Head(s) \in S /\ Contains(s, Head(s))
         /\ Distinct(Tail(s)) /\ ~Contains(Tail(s), Head(s))
         /\ \A x : Contains(Tail(s), x) => Contains(s, x)
         /\ Len(Tail(s)) = Len(s) - 1 /\ Len(s) \in Nat \ {0}
<1> DEFINE t == Tail(s)
<1>1. /\ Len(s) \in Nat \ {0} /\ Len(t) = Len(s) - 1 /\ Head(s) = s[1]
      /\ Head(s) \in S
      /\ \A i \in 1 .. Len(t) : t[i] = s[i + 1]
  BY HeadTailProperties, EmptySeq, LenProperties
<1> HIDE DEF t
<1>2. \A i \in 1 .. Len(t) : i + 1 \in 1 .. Len(s)
  BY <1>1
<1>3. Contains(s, Head(s))
  BY <1>1 DEF Contains
<1>4. Distinct(t)
  BY <1>1, <1>2 DEF Distinct
<1>5. ~Contains(t, Head(s))
  BY <1>1, <1>2 DEF Distinct, Contains
<1>6. \A x : Contains(t, x) => Contains(s, x)
  BY <1>1, <1>2 DEF Contains
<1> QED BY <1>1, <1>3, <1>4, <1>5, <1>6 DEF t

\* One more mailbox has the message, and one target less is to come.
LEMMA DeliverStep ==
  ASSUME IInv, NEW p \in Publisher, Deliver(p)
  PROVE  IInv'
<1> DEFINE targets == call[p].targets
           h == Head(targets)
           n == call[p].n
           m == [from |-> p, n |-> n]
           Msg == [from : Publisher, n : Nat]
<1>1. TypeOK /\ MapsAgree /\ Unique /\ Ahead /\ Counted
  BY DEF IInv
<1>2. /\ targets \in Seq(Subscriber) /\ targets # << >>
      /\ call' \in [Publisher ->
                      [busy : BOOLEAN, n : Nat, targets : Seq(Subscriber), reply : Nat]]
      /\ call'[p].targets = Tail(targets)
      /\ call'[p].n = n /\ call'[p].busy = call[p].busy /\ call'[p].reply = call[p].reply
      /\ \A q \in Publisher \ {p} : call'[q] = call[q]
  BY <1>1, DeliverCall
<1>3. UNCHANGED <<channel_map_, subscriber_map_>>
  BY DEF Deliver
<1>4. /\ h \in Subscriber /\ Contains(targets, h)
      /\ Distinct(Tail(targets)) /\ ~Contains(Tail(targets), h)
      /\ \A x : Contains(Tail(targets), x) => Contains(targets, x)
      /\ Len(Tail(targets)) = Len(targets) - 1 /\ Len(targets) \in Nat \ {0}
  <2>1. Distinct(targets)
    BY <1>1 DEF Ahead
  <2> HIDE DEF targets
  <2> QED BY <1>2, <2>1, HeadOnce
<1>5. n \in Nat /\ m \in Msg /\ m.from = p /\ m.n = n
  BY <1>1 DEF TypeOK
<1>6. \/ /\ Wired
         /\ queues_' = [queues_ EXCEPT ![h] = Append(@, m)]
         /\ latest' = [latest EXCEPT ![h][p] = n]
      \/ ~Wired /\ UNCHANGED <<queues_, latest>>
  BY <1>5 DEF Deliver, enqueue
<1> HIDE DEF targets, h, n, m
<1> DEFINE row == [latest[h] EXCEPT ![p] = n]
<1>0. /\ row \in [Publisher -> Nat] /\ row[p] = n
      /\ \A q \in Publisher \ {p} : row[q] = latest[h][q]
      /\ Wired => latest' = [latest EXCEPT ![h] = row]
  BY <1>1, <1>4, <1>5, <1>6 DEF TypeOK
<1> HIDE DEF row
<1>7. TypeOK'
  <2>1. queues_' \in [Subscriber -> Seq(Msg)]
    <3>1. queues_ \in [Subscriber -> Seq(Msg)]
      BY <1>1 DEF TypeOK
    <3> HIDE DEF Msg
    <3>2. Append(queues_[h], m) \in Seq(Msg)
      BY <1>4, <1>5, <3>1, AppendProperties
    <3> QED BY <1>6, <3>1, <3>2
  <2>2. latest' \in [Subscriber -> [Publisher -> Nat]]
    BY <1>0, <1>1, <1>4, <1>6 DEF TypeOK
  <2> QED BY <1>1, <1>2, <1>3, <2>1, <2>2 DEF TypeOK
<1>8. MapsAgree' /\ Unique'
  BY <1>1, <1>3 DEF MapsAgree, Unique
<1>9. /\ Wired => latest'[h][p] = n
      /\ \A s \in Subscriber, q \in Publisher :
           (s # h \/ q # p \/ ~Wired) => latest'[s][q] = latest[s][q]
  BY <1>0, <1>1, <1>4, <1>6 DEF TypeOK
<1>10. Ahead'
  <2>1. \A q \in Publisher : Distinct(call'[q].targets)
    BY <1>1, <1>2, <1>4 DEF Ahead
  <2>2. ASSUME NEW q \in Publisher, NEW s \in Subscriber, q # p
        PROVE  /\ latest'[s][q] <= call'[q].n
               /\ Contains(call'[q].targets, s) => latest'[s][q] < call'[q].n
    BY <1>1, <1>2, <1>9, <2>2 DEF Ahead
  <2>3. ASSUME NEW s \in Subscriber
        PROVE  /\ latest'[s][p] <= n
               /\ Contains(Tail(targets), s) => latest'[s][p] < n
    <3>1. latest[s][p] <= n /\ (Contains(targets, s) => latest[s][p] < n)
      BY <1>1 DEF Ahead, n, targets
    <3>2. CASE s = h /\ Wired
      BY <1>4, <1>5, <1>9, <3>2
    <3>3. CASE s # h \/ ~Wired
      BY <1>4, <1>9, <3>1, <3>3
    <3> QED BY <3>2, <3>3
  <2> QED BY <1>2, <2>1, <2>2, <2>3 DEF Ahead
<1>11. Counted'
  <2> SUFFICES ASSUME NEW q \in Publisher, Wired, call'[q].busy
               PROVE  /\ IsFiniteSet(Reached(q)')
                      /\ Cardinality(Reached(q)') + Len(call'[q].targets) = call'[q].reply
    BY DEF Counted
  <2>1. CASE q # p
    <3>1. Reached(q)' = Reached(q)
      BY <1>2, <1>9, <2>1 DEF Reached
    <3> QED BY <1>1, <1>2, <2>1, <3>1 DEF Counted
  <2>2. CASE q = p
    <3>1. IsFiniteSet(Reached(p)) /\ Cardinality(Reached(p)) + Len(targets) = call[p].reply
      BY <1>1, <1>2, <2>2 DEF Counted, targets
    <3>2. h \notin Reached(p)
      <4>1. latest[h][p] < n /\ latest[h][p] \in Nat
        BY <1>1, <1>4 DEF Ahead, TypeOK, n, targets
      <4> QED BY <1>5, <4>1 DEF Reached, n
    <3>3. Reached(p)' = Reached(p) \cup {h}
      BY <1>2, <1>4, <1>9 DEF Reached, n
    <3>4. /\ IsFiniteSet(Reached(p)')
          /\ Cardinality(Reached(p)') = Cardinality(Reached(p)) + 1
      BY <3>1, <3>2, <3>3, FS_AddElement
    <3>5. Cardinality(Reached(p)) \in Nat
      BY <3>1, FS_CardinalityType
    <3>6. Len(call'[p].targets) = Len(targets) - 1 /\ call'[p].reply = call[p].reply
      BY <1>2, <1>4
    <3>7. Cardinality(Reached(p)') + Len(call'[p].targets) = call'[p].reply
      <4> DEFINE r == Cardinality(Reached(p))
                 l == Len(targets)
      <4>1. r \in Nat /\ l \in Nat /\ r + l = call[p].reply
        BY <1>4, <3>1, <3>5
      <4> HIDE DEF r, l
      <4>2. (r + 1) + (l - 1) = call[p].reply
        BY <4>1
      <4> QED BY <3>4, <3>6, <4>2 DEF r, l
    <3> QED BY <2>2, <3>4, <3>7
  <2> QED BY <2>1, <2>2
<1> QED BY <1>7, <1>8, <1>10, <1>11 DEF IInv

\* publish returns and is idle.
LEMMA ReturnStep ==
  ASSUME IInv, NEW p \in Publisher, Return(p)
  PROVE  IInv'
<1>1. TypeOK /\ MapsAgree /\ Unique /\ Ahead /\ Counted
  BY DEF IInv
<1>2. call' = [call EXCEPT ![p].busy = FALSE, ![p].reply = 0]
  BY DEF Return
<1>3. UNCHANGED <<channel_map_, subscriber_map_, queues_, latest>>
  BY DEF Return
<1>4. /\ call' \in [Publisher ->
                      [busy : BOOLEAN, n : Nat, targets : Seq(Subscriber), reply : Nat]]
      /\ call'[p].busy = FALSE
      /\ \A q \in Publisher : call'[q].n = call[q].n /\ call'[q].targets = call[q].targets
      /\ \A q \in Publisher \ {p} : call'[q] = call[q]
  BY <1>1, <1>2 DEF TypeOK
<1>5. TypeOK'
  BY <1>1, <1>3, <1>4 DEF TypeOK
<1>6. MapsAgree' /\ Unique'
  BY <1>1, <1>3 DEF MapsAgree, Unique
<1>7. Ahead'
  BY <1>1, <1>3, <1>4 DEF Ahead
<1>8. Counted'
  <2> SUFFICES ASSUME NEW q \in Publisher, Wired, call'[q].busy
               PROVE  /\ IsFiniteSet(Reached(q)')
                      /\ Cardinality(Reached(q)') + Len(call'[q].targets) = call'[q].reply
    BY DEF Counted
  <2>1. call'[q] = call[q]
    BY <1>4
  <2>2. Reached(q)' = Reached(q)
    BY <1>3, <2>1 DEF Reached
  <2> QED BY <1>1, <2>1, <2>2 DEF Counted
<1> QED BY <1>5, <1>6, <1>7, <1>8 DEF IInv

\* The invariant of the registry's two maps and of every call of publish.
THEOREM IInvHolds == Spec => []IInv
<1>1. IInv /\ [Next]_vars => IInv'
  <2>1. CASE UNCHANGED vars
    BY <2>1 DEF vars, IInv, TypeOK, MapsAgree, Unique, Ahead, Counted, Reached
  <2>2. ASSUME IInv, NEW p \in Publisher, publish(p)
        PROVE  IInv'
    BY <2>2, PublishStep, DeliverStep, ReturnStep DEF publish
  <2> QED BY <2>1, <2>2, subscribeStep, unsubscribeStep, unsubscribe_allStep, MailboxStep
          DEF Next
<1> QED BY <1>1, InitIInv, PTL DEF Spec

-----------------------------------------------------------------------------
(* The properties                                                          *)

\* The two maps of the registry stay each other's inverse.
THEOREM MapsInverse == Spec => []MapsAgree
<1>1. IInv => MapsAgree
  BY DEF IInv
<1> QED BY <1>1, IInvHolds, PTL

\* A mailbox gets every message of a publisher at most once, and in order.
THEOREM DeliveryInOrder == Spec => InOrder
<1> DEFINE Ordered == \A s \in Subscriber, m \in Message :
                        enqueue(s, m) => m.n > latest[s][m.from]
<1>1. ASSUME IInv, [Next]_vars
      PROVE  [Ordered]_vars
  <2> SUFFICES ASSUME Next, NEW s \in Subscriber, NEW m \in Message, enqueue(s, m)
               PROVE  m.n > latest[s][m.from]
    BY <1>1
  <2> DEFINE Msg == [from : Publisher, n : Nat]
             q == queues_[s]
  <2>1. TypeOK /\ Ahead
    BY <1>1 DEF IInv
  <2>2. queues_ \in [Subscriber -> Seq(Msg)] /\ q \in Seq(Msg) /\ m \in Msg
    <3>1. 1 .. MaxMessages \subseteq Nat
      BY BoundAssumption
    <3>2. m \in Msg
      BY <3>1 DEF Message
    <3> QED BY <2>1, <3>2 DEF TypeOK
  <2>3. /\ queues_'[s] = Append(q, m)
        /\ Len(q) \in Nat /\ Len(Append(q, m)) = Len(q) + 1 /\ Append(q, m) # << >>
    <3> HIDE DEF Msg
    <3> QED BY <2>2, AppendProperties, LenProperties DEF enqueue
  <2>4. queues_'[s] # q /\ queues_'[s] # << >>
    <3>1. Len(queues_'[s]) # Len(q)
      BY <2>3
    <3> QED BY <2>3, <3>1
  <2>5. ASSUME q # << >> PROVE queues_'[s] # Tail(q)
    <3> HIDE DEF Msg
    <3>1. Len(Tail(q)) = Len(q) - 1
      BY <2>2, <2>5, HeadTailProperties
    <3> QED BY <2>3, <3>1
  <2>6. PICK p \in Publisher : Deliver(p)
    <3>1. ASSUME NEW u \in Subscriber, try_dequeue(u) \/ clear(u)
          PROVE  FALSE
      <4>1. queues_'[s] = q \/ (q # << >> /\ queues_'[s] = Tail(q)) \/ queues_'[s] = << >>
        <5> HIDE DEF Msg
        <5> QED BY <2>2, <3>1 DEF try_dequeue, clear
      <4> QED BY <2>4, <2>5, <4>1
    <3>2. queues_' # queues_
      BY <2>4
    <3> QED BY <3>1, <3>2 DEF Next, publish, Publish, Return, subscribe, unsubscribe,
                              unsubscribe_all
  <2> DEFINE h == Head(call[p].targets)
             sent == [from |-> p, n |-> call[p].n]
  <2>7. h \in Subscriber /\ Contains(call[p].targets, h)
    BY <2>1, <2>6, DeliverCall, HeadOnce DEF Ahead
  <2>8. queues_' = [queues_ EXCEPT ![h] = Append(@, sent)]
    BY <2>4, <2>6 DEF Deliver, enqueue
  <2>9. s = h /\ Append(q, m) = Append(q, sent)
    <3> HIDE DEF Msg, h, sent
    <3> QED BY <2>2, <2>3, <2>4, <2>7, <2>8
  <2>10. m = sent
    <3>1. sent \in Msg
      BY <2>1 DEF TypeOK
    <3> HIDE DEF Msg, sent
    <3> QED BY <2>2, <2>9, <3>1, AppendInjective, SMTT(30)
  <2>11. latest[h][p] < call[p].n /\ latest[h][p] \in Nat /\ call[p].n \in Nat
    BY <2>1, <2>7 DEF Ahead, TypeOK
  <2> QED BY <2>9, <2>10, <2>11
<1>2. [][Ordered]_vars => InOrder
  BY DEF InOrder
<1> QED BY <1>1, <1>2, IInvHolds, PTL DEF Spec

\* With delivery_ set, publish returns the number of mailboxes its message has reached.
THEOREM ReplyIsTrue == Wired => (Spec => ReplyIsDelivered)
<1> SUFFICES ASSUME Wired PROVE Spec => ReplyIsDelivered
  OBVIOUS
<1> DEFINE Told == \A p \in Publisher : Return(p) =>
                     call[p].reply = Cardinality({s \in Subscriber : latest[s][p] = call[p].n})
<1>1. ASSUME IInv
      PROVE  Told
  <2> SUFFICES ASSUME NEW p \in Publisher, Return(p)
               PROVE  call[p].reply = Cardinality(Reached(p))
    BY DEF Reached
  <2>1. /\ IsFiniteSet(Reached(p))
        /\ Cardinality(Reached(p)) + Len(call[p].targets) = call[p].reply
    BY <1>1 DEF IInv, Counted, Return
  <2>2. Len(call[p].targets) = 0
    BY EmptySeq DEF Return
  <2>3. Cardinality(Reached(p)) \in Nat
    BY <2>1, FS_CardinalityType
  <2> QED BY <2>1, <2>2, <2>3
<1>2. IInv => [Told]_vars
  BY <1>1
<1>3. [][Told]_vars => ReplyIsDelivered
  BY DEF ReplyIsDelivered
<1> QED BY <1>2, <1>3, IInvHolds, PTL

=============================================================================
