------------------------ MODULE StorageEngineProofs ------------------------
(***************************************************************************)
(* Proofs about StorageEngine, for any number of keys and workers, any     *)
(* values, TTLs and deltas and any width of the integers.                  *)
(***************************************************************************)
EXTENDS StorageEngine, TLAPS

\* What a lookup returns, expired or not
Looked(k) == IF table[k] = NoEntry THEN Nil ELSE table[k].value

Domains == DOMAIN table = Key /\ DOMAIN worker = Worker

\* A call that is under way has seen what is live, and, behind is_expired, what its
\* second lookup would return.
Seen ==
  \A w \in Worker :
    /\ Following(w) => worker[w].key \in Key /\ LiveValue(worker[w].key) \in answers[w]
    /\ worker[w].pc = "find" => Looked(worker[w].key) \in answers[w]

\* What the sweep has collected and not yet erased was overdue.
Collected == sweep.pc = "erase" => sweep.expired \subseteq overdue

\* A call of increment adds a number of long long, and, once it has read, is about to
\* store that sum over a value it has seen.
Counting ==
  \A w \in Worker :
    /\ Following(w) => worker[w].delta \in Number
    /\ worker[w].pc = "write" =>
         \E a \in answers[w] \ {Text} :
           worker[w].next = Wrap(parse_value(a) + worker[w].delta)

IInv == Domains /\ Seen /\ Collected /\ Counting

-----------------------------------------------------------------------------
(* What one step can do                                                    *)

\* A step that is not the end of an EXPIRE leaves an entry alone, removes it, replaces
\* it by one without a TTL, or lets time pass for it.
EntryStep(k) ==
  \/ table'[k] = table[k]
  \/ table'[k] = NoEntry
  \/ \E v : table'[k] = [value |-> v, left |-> Never]
  \/ table[k] # NoEntry /\ table'[k].value = table[k].value

\* The end of an EXPIRE, in worker u, on the entry
PutStep(k) ==
  \E u \in Worker : /\ worker[u].pc = "put" /\ worker[u].key = k /\ worker'[u] = Idle
                    /\ table'[k].value = worker[u].value

\* Every step does one of the two to every entry.
LEMMA TableStep ==
  ASSUME IInv, Next, NEW k \in Key
  PROVE  EntryStep(k) \/ PutStep(k)
<1>1. DOMAIN table = Key /\ DOMAIN worker = Worker
  BY DEF IInv, Domains
<1>2. CASE SweepStep
  BY <1>1, <1>2 DEF SweepStep, Sweep, SweepBegins, Collect, SweepErases, SweepLogs, erase,
                    EntryStep
<1>3. CASE TimeStep
  BY <1>1, <1>3 DEF TimeStep, Tick, EntryStep
<1>4. ASSUME NEW w \in Worker, OneCall(w)
      PROVE  EntryStep(k)
  BY <1>1, <1>4 DEF OneCall, set, remove, clear_all, insert, erase, EntryStep
<1>5. ASSUME NEW w \in Worker, Begin(w)
      PROVE  EntryStep(k)
  BY <1>5 DEF Begin, Call, set_ttl, EntryStep
<1>6. ASSUME NEW w \in Worker, Proceed(w)
      PROVE  EntryStep(k) \/ PutStep(k)
  <2>1. CASE is_expired(w) \/ get(w) \/ Reply(w) \/ ReadClock(w)
    BY <2>1 DEF is_expired, get, Reply, ReadClock, EntryStep
  <2>2. CASE increment(w)
    BY <1>1, <2>2 DEF increment, insert, EntryStep
  <2>3. CASE PutBack(w)
    BY <1>1, <2>3 DEF PutBack, insert, Goto, EntryStep, PutStep
  <2> QED BY <1>6, <2>1, <2>2, <2>3 DEF Proceed
<1> QED BY <1>2, <1>3, <1>4, <1>5, <1>6 DEF Next, ClientStep, WorkerStep

\* A worker that is inside get or increment after a step has just called it, or was
\* inside it before, on the same key; it gets behind is_expired only when the entry
\* has not expired.
LEMMA FrameStep ==
  ASSUME IInv, Next, NEW w \in Worker, Following(w)'
  PROVE  /\ worker'[w].key \in Key
         /\ worker'[w].pc = "find" =>
              /\ Following(w) /\ worker'[w].key = worker[w].key
              /\ worker[w].pc = "find" \/ (table' = table /\ ~Expired(worker[w].key))
<1> DEFINE Goal == /\ worker'[w].key \in Key
                   /\ worker'[w].pc = "find" =>
                        /\ Following(w) /\ worker'[w].key = worker[w].key
                        /\ worker[w].pc = "find" \/ (table' = table /\ ~Expired(worker[w].key))
<1>0. /\ DOMAIN table = Key /\ DOMAIN worker = Worker
      /\ worker'[w].pc \in {"check", "find", "write"}
      /\ Following(w) => worker[w].key \in Key
  BY DEF IInv, Domains, Seen, Following, Reading
<1>1. CASE worker'[w] = worker[w]
  BY <1>0, <1>1 DEF Following, Reading
<1>2. CASE SweepStep
  <2>1. worker' = worker
    BY <1>2 DEF SweepStep, Sweep, SweepBegins, Collect, SweepErases, SweepLogs
  <2> QED BY <1>1, <2>1
<1>3. CASE TimeStep
  <2>1. worker'[w] = worker[w] \/ worker'[w].pc = "put"
    BY <1>3 DEF TimeStep, Tick
  <2> QED BY <1>0, <1>1, <2>1
<1>4. ASSUME NEW u \in Worker, OneCall(u)
      PROVE  Goal
  <2>1. worker' = worker
    BY <1>4 DEF OneCall, set, remove, clear_all
  <2> QED BY <1>1, <2>1
<1>5. ASSUME NEW u \in Worker, Begin(u)
      PROVE  Goal
  <2>1. CASE u # w
    <3>1. worker'[w] = worker[w]
      BY <1>0, <1>5, <2>1 DEF Begin, Call, set_ttl, Goto
    <3> QED BY <1>1, <3>1
  <2>2. CASE u = w
    BY <1>0, <1>5, <2>2 DEF Begin, Call, set_ttl, Goto
  <2> QED BY <2>1, <2>2
<1>6. ASSUME NEW u \in Worker, Proceed(u)
      PROVE  Goal
  <2>1. CASE u # w
    <3>1. worker'[w] = worker[w]
      BY <1>0, <1>6, <2>1
         DEF Proceed, is_expired, get, Got, Reply, increment, ReadClock, PutBack, Goto
    <3> QED BY <1>1, <3>1
  <2>2. CASE u = w /\ is_expired(w)
    BY <1>0, <1>1, <2>2 DEF is_expired, Got, Goto, Second, Following, Reading
  <2>3. CASE u = w /\ get(w)
    BY <1>0, <1>1, <2>3 DEF get, Got, Goto, Following, Reading
  <2>4. CASE u = w /\ (Reply(w) \/ increment(w) \/ ReadClock(w) \/ PutBack(w))
    BY <1>0, <2>4 DEF Reply, increment, ReadClock, PutBack, Goto, Idle
  <2> QED BY <1>6, <2>1, <2>2, <2>3, <2>4 DEF Proceed
<1> QED BY <1>2, <1>3, <1>4, <1>5, <1>6 DEF Next, ClientStep, WorkerStep

-----------------------------------------------------------------------------
(* The invariant                                                           *)

\* No call and no sweep is under way in an empty engine.
LEMMA InitIInv == Init => IInv
BY DEF Init, IInv, Domains, Seen, Collected, Counting, Following, Reading, Idle, Asleep

\* No step adds or loses a key or a worker.
LEMMA NextDomains ==
  ASSUME IInv, Next
  PROVE  Domains'
<1>1. Domains
  BY DEF IInv
<1> QED
  BY <1>1 DEF Domains, Next, ClientStep, WorkerStep, SweepStep, TimeStep, OneCall, Begin,
              Proceed, Sweep, set, remove, clear_all, Call, set_ttl, is_expired, Got, get,
              Reply, increment, ReadClock, PutBack, SweepBegins, Collect, SweepErases,
              SweepLogs, Tick, insert, erase, Goto

\* What a step adds to the answers of a call that is still under way
LEMMA Observed ==
  ASSUME Next, NEW w \in Worker, Following(w)'
  PROVE  answers'[w] = (IF Following(w) THEN answers[w] ELSE {})
                         \cup {LiveValue(worker[w].key)'} \cup PuttingBack(worker'[w].key)
BY DEF Next, ClientStep, WorkerStep, SweepStep, TimeStep, Observe

\* Behind is_expired, the second lookup returns what has been observed: an entry that is
\* expired now was stored before, or is being put back.
LEMMA NextSeen ==
  ASSUME IInv, Next
  PROVE  Seen'
<1> SUFFICES ASSUME NEW w \in Worker
             PROVE  /\ Following(w)' => /\ worker'[w].key \in Key
                                        /\ LiveValue(worker[w].key)' \in answers'[w]
                    /\ worker'[w].pc = "find" => Looked(worker[w].key)' \in answers'[w]
  BY DEF Seen
<1>1. ASSUME Following(w)'
      PROVE  worker'[w].key \in Key /\ LiveValue(worker[w].key)' \in answers'[w]
  BY <1>1, FrameStep, Observed
<1>2. ASSUME worker'[w].pc = "find"
      PROVE  Looked(worker[w].key)' \in answers'[w]
  <2> DEFINE k == worker[w].key
  <2>1. Following(w)'
    BY <1>2 DEF Following, Reading
  <2>2. /\ Following(w) /\ worker'[w].key = k
        /\ worker[w].pc = "find" \/ (table' = table /\ ~Expired(k))
    BY <1>2, <2>1, FrameStep
  <2>3. k \in Key
    BY <2>2 DEF IInv, Seen
  <2>4. answers'[w] = answers[w] \cup {LiveValue(worker[w].key)'} \cup PuttingBack(k)
    BY <2>1, <2>2, Observed
  <2>5. CASE table'[k] = NoEntry \/ table'[k].left # 0
    BY <2>2, <2>4, <2>5 DEF Looked, LiveValue, Expired
  <2>6. CASE table'[k] # NoEntry /\ table'[k].left = 0
    <3>1. worker[w].pc = "find"
      BY <2>2, <2>6 DEF Expired
    <3>2. Looked(k) \in answers[w]
      BY <3>1 DEF IInv, Seen
    <3>3. Looked(worker[w].key)' = table'[k].value
      BY <2>2, <2>6 DEF Looked
    <3>4. CASE EntryStep(k)
      <4>1. table[k] # NoEntry /\ table'[k].value = table[k].value
        <5>1. Never # 0
          BY NumbersAssumption
        <5>2. ASSUME NEW v, table'[k] = [value |-> v, left |-> Never]
              PROVE  FALSE
          BY <2>6, <5>1, <5>2
        <5> QED BY <2>6, <3>4, <5>2 DEF EntryStep
      <4> QED BY <2>4, <3>2, <3>3, <4>1 DEF Looked
    <3>5. CASE PutStep(k)
      <4>1. table'[k].value \in PuttingBack(k)
        BY <3>5 DEF PutStep, PuttingBack
      <4> QED BY <2>4, <3>3, <4>1
    <3> QED BY <2>3, <3>4, <3>5, TableStep
  <2> QED BY <2>5, <2>6
<1> QED BY <1>1, <1>2

\* A call of increment that has read ends by storing.
LEMMA WriteEnds ==
  ASSUME IInv, Next, NEW w \in Worker, worker[w].pc = "write", worker'[w] # worker[w]
  PROVE  increment(w)
<1>1. DOMAIN worker = Worker
  BY DEF IInv, Domains
<1>2. CASE SweepStep
  BY <1>2 DEF SweepStep, Sweep, SweepBegins, Collect, SweepErases, SweepLogs
<1>3. CASE TimeStep
  BY <1>3 DEF TimeStep, Tick
<1>4. ASSUME NEW u \in Worker, OneCall(u) \/ Begin(u)
      PROVE  FALSE
  BY <1>1, <1>4 DEF OneCall, set, remove, clear_all, Begin, Call, set_ttl, Goto, Idle
<1>5. ASSUME NEW u \in Worker, Proceed(u)
      PROVE  increment(w)
  <2>1. u = w
    BY <1>1, <1>5 DEF Proceed, is_expired, get, Got, Reply, increment, ReadClock, PutBack, Goto
  <2> QED BY <1>5, <2>1 DEF Proceed, is_expired, get, Reply, ReadClock, PutBack
<1> QED BY <1>2, <1>3, <1>4, <1>5 DEF Next, ClientStep, WorkerStep

\* Only a call that was reading comes to store.
LEMMA WriteBegins ==
  ASSUME IInv, Next, NEW w \in Worker, worker'[w].pc = "write", worker'[w] # worker[w]
  PROVE  Reading(w)
<1>1. DOMAIN worker = Worker
  BY DEF IInv, Domains
<1>2. CASE SweepStep
  BY <1>2 DEF SweepStep, Sweep, SweepBegins, Collect, SweepErases, SweepLogs
<1>3. CASE TimeStep
  BY <1>3 DEF TimeStep, Tick
<1>4. ASSUME NEW u \in Worker, OneCall(u) \/ Begin(u)
      PROVE  FALSE
  BY <1>1, <1>4 DEF OneCall, set, remove, clear_all, Begin, Call, set_ttl, Goto
<1>5. ASSUME NEW u \in Worker, Proceed(u)
      PROVE  Reading(w)
  <2>1. u = w
    BY <1>1, <1>5 DEF Proceed, is_expired, get, Got, Reply, increment, ReadClock, PutBack, Goto
  <2> QED BY <1>1, <1>5, <2>1
          DEF Proceed, is_expired, get, Reply, increment, ReadClock, PutBack, Goto, Idle, Reading
<1> QED BY <1>2, <1>3, <1>4, <1>5 DEF Next, ClientStep, WorkerStep

\* What get returns has been observed, to the client and to increment alike.
LEMMA ReadStep ==
  ASSUME IInv, Next, NEW w \in Worker, Reading(w)
  PROVE  /\ worker'[w].pc = "reply" => worker'[w].value \in answers[w]
         /\ worker'[w].pc = "write" =>
              /\ worker'[w].delta = worker[w].delta
              /\ \E a \in answers[w] \ {Text} :
                   worker'[w].next = Wrap(parse_value(a) + worker[w].delta)
<1> DEFINE Goal == /\ worker'[w].pc = "reply" => worker'[w].value \in answers[w]
                   /\ worker'[w].pc = "write" =>
                        /\ worker'[w].delta = worker[w].delta
                        /\ \E a \in answers[w] \ {Text} :
                             worker'[w].next = Wrap(parse_value(a) + worker[w].delta)
<1> SUFFICES ASSUME worker'[w].pc \in {"reply", "write"}
             PROVE  Goal
  OBVIOUS
<1>1. /\ DOMAIN worker = Worker
      /\ LiveValue(worker[w].key) \in answers[w]
      /\ worker[w].pc = "find" => Looked(worker[w].key) \in answers[w]
  BY DEF IInv, Domains, Seen, Following
<1>2. is_expired(w) \/ get(w)
  <2>1. worker'[w] # worker[w] /\ worker[w].pc \in {"check", "find"}
    BY DEF Reading
  <2>2. CASE SweepStep
    BY <2>1, <2>2 DEF SweepStep, Sweep, SweepBegins, Collect, SweepErases, SweepLogs
  <2>3. CASE TimeStep
    BY <2>1, <2>3 DEF TimeStep, Tick
  <2>4. ASSUME NEW u \in Worker, OneCall(u) \/ Begin(u)
        PROVE  FALSE
    BY <1>1, <2>1, <2>4 DEF OneCall, set, remove, clear_all, Begin, Call, set_ttl, Goto, Idle
  <2>5. ASSUME NEW u \in Worker, Proceed(u)
        PROVE  is_expired(w) \/ get(w)
    <3>1. u = w
      BY <1>1, <2>1, <2>5 DEF Proceed, is_expired, get, Got, Reply, increment, ReadClock,
                              PutBack, Goto
    <3> QED BY <2>1, <2>5, <3>1 DEF Proceed, Reply, increment, ReadClock, PutBack
  <2> QED BY <2>2, <2>3, <2>4, <2>5 DEF Next, ClientStep, WorkerStep
<1>3. ASSUME NEW v, v \in answers[w], Got(w, v)
      PROVE  Goal
  BY <1>1, <1>3 DEF Got, Goto, Reading
<1>4. CASE is_expired(w)
  <2>1. Expired(worker[w].key) /\ Got(w, Nil)
    BY <1>1, <1>4 DEF is_expired, Goto, Second
  <2> QED BY <1>1, <1>3, <2>1 DEF LiveValue
<1>5. CASE get(w)
  BY <1>1, <1>3, <1>5 DEF get, Looked
<1> QED BY <1>2, <1>4, <1>5

\* The delta of a call does not change, and the value it has read stays among the answers.
LEMMA NextCounting ==
  ASSUME IInv, Next
  PROVE  Counting'
<1> SUFFICES ASSUME NEW w \in Worker, Following(w)'
             PROVE  /\ worker'[w].delta \in Number
                    /\ worker'[w].pc = "write" =>
                         \E a \in answers'[w] \ {Text} :
                           worker'[w].next = Wrap(parse_value(a) + worker'[w].delta)
  BY DEF Counting, Following, Wrap, parse_value
<1>0. /\ DOMAIN worker = Worker /\ 0 \in Number /\ Deltas \subseteq Number
      /\ Following(w) => worker[w].delta \in Number
  BY NumbersAssumption DEF IInv, Domains, Counting, Number
<1>1. worker'[w].delta \in Number
  <2>1. CASE worker'[w] = worker[w]
    BY <1>0, <2>1 DEF Following, Reading
  <2>2. CASE SweepStep
    BY <2>1, <2>2 DEF SweepStep, Sweep, SweepBegins, Collect, SweepErases, SweepLogs
  <2>3. CASE TimeStep
    BY <2>1, <2>3 DEF TimeStep, Tick, Following, Reading
  <2>4. ASSUME NEW u \in Worker, OneCall(u)
        PROVE  worker'[w].delta \in Number
    BY <2>1, <2>4 DEF OneCall, set, remove, clear_all
  <2>5. ASSUME NEW u \in Worker, Begin(u)
        PROVE  worker'[w].delta \in Number
    BY <1>0, <2>1, <2>5, SMTT(30) DEF Begin, Call, set_ttl, Goto, Following, Reading
  <2>6. ASSUME NEW u \in Worker, Proceed(u)
        PROVE  worker'[w].delta \in Number
    <3>1. CASE u # w
      BY <1>0, <2>1, <2>6, <3>1
         DEF Proceed, is_expired, get, Got, Reply, increment, ReadClock, PutBack, Goto
    <3>2. CASE u = w /\ (is_expired(w) \/ get(w))
      BY <1>0, <2>1, <3>2, SMTT(30) DEF is_expired, get, Got, Goto, Second, Following, Reading
    <3>3. CASE u = w /\ (Reply(w) \/ increment(w) \/ ReadClock(w) \/ PutBack(w))
      BY <1>0, <3>3 DEF Reply, increment, ReadClock, PutBack, Goto, Idle, Following, Reading
    <3> QED BY <2>6, <3>1, <3>2, <3>3 DEF Proceed
  <2> QED BY <2>2, <2>3, <2>4, <2>5, <2>6 DEF Next, ClientStep, WorkerStep
<1>2. ASSUME worker'[w].pc = "write"
      PROVE  \E a \in answers'[w] \ {Text} :
               worker'[w].next = Wrap(parse_value(a) + worker'[w].delta)
  <2>1. Following(w) => answers[w] \subseteq answers'[w]
    BY Observed
  <2>2. CASE worker'[w] = worker[w]
    BY <1>2, <2>1, <2>2 DEF IInv, Counting, Following
  <2>3. CASE Reading(w)
    BY <1>2, <2>1, <2>3, ReadStep DEF Following
  <2>4. worker'[w] = worker[w] \/ Reading(w)
    BY <1>2, WriteBegins
  <2> QED BY <2>2, <2>3, <2>4
<1> QED BY <1>1, <1>2

\* What the sweep holds stays overdue until it is erased.
LEMMA NextCollected ==
  ASSUME IInv, Next
  PROVE  Collected'
<1> SUFFICES ASSUME sweep'.pc = "erase"
             PROVE  sweep'.expired \subseteq overdue'
  BY DEF Collected
<1>1. overdue' = overdue \cup {k \in Key : Expired(k)'}
  BY DEF Next, ClientStep, WorkerStep, SweepStep, TimeStep, Observe
<1>2. CASE sweep' = sweep
  BY <1>1, <1>2 DEF IInv, Collected
<1>3. CASE SweepStep
  <2>1. CASE Collect
    BY <1>1, <2>1 DEF Collect, Expired
  <2>2. CASE SweepErases
    BY <1>1, <2>2 DEF SweepErases, IInv, Collected
  <2>3. CASE SweepBegins \/ SweepLogs
    BY <2>3 DEF SweepBegins, SweepLogs, Asleep
  <2> QED BY <1>3, <2>1, <2>2, <2>3 DEF SweepStep, Sweep
<1>4. SweepStep \/ sweep' = sweep
  BY DEF Next, ClientStep, WorkerStep, TimeStep, OneCall, Begin, Proceed, set, remove, clear_all,
         Call, set_ttl, is_expired, get, Reply, increment, ReadClock, PutBack, Tick
<1> QED BY <1>2, <1>3, <1>4

\* The invariant of get's two lookups and of purge_expired's two passes over the table.
THEOREM IInvHolds == Spec => []IInv
<1>1. IInv /\ [Next]_vars => IInv'
  <2>1. CASE Next
    BY <2>1, NextDomains, NextSeen, NextCollected, NextCounting DEF IInv
  <2>2. CASE UNCHANGED vars
    BY <2>2 DEF vars, IInv, Domains, Seen, Collected, Counting, Following, Reading, Looked,
                LiveValue, Expired
  <2> QED BY <2>1, <2>2
<1> QED BY <1>1, InitIInv, PTL DEF Spec

-----------------------------------------------------------------------------
(* The properties                                                          *)

\* What get returns, to the client or to increment, was the live value at some moment of
\* the call, or is what an EXPIRE put back during it.
THEOREM GetIsTrue == Spec => GetAnswerWasTrue
<1> DEFINE Answered ==
      \A w \in Worker : Reading(w) =>
        /\ worker'[w].pc = "reply" => worker'[w].value \in answers[w]
        /\ worker'[w].pc = "write" =>
             \E a \in answers[w] \ {Text} :
               worker'[w].next = Wrap(parse_value(a) + worker[w].delta)
<1>1. ASSUME IInv, [Next]_vars
      PROVE  [Answered]_vars
  BY <1>1, ReadStep
<1>2. [][Answered]_vars => GetAnswerWasTrue
  BY DEF GetAnswerWasTrue
<1> QED BY <1>1, <1>2, IInvHolds, PTL DEF Spec

\* An addition of two numbers of long long wraps to a number of long long, which differs
\* from the sum by a multiple of the range.
LEMMA WrapIsModular ==
  ASSUME NEW a \in Number, NEW d \in Number
  PROVE  /\ Wrap(a + d) \in Number
         /\ (Wrap(a + d) - a - d) % (2 * (IntMax + 1)) = 0
<1> DEFINE D == 2 * (IntMax + 1)
<1>1. IntMax \in Nat /\ a \in Int /\ d \in Int /\ D \in Nat \ {0}
  BY NumbersAssumption DEF Number
<1>2. Wrap(a + d) \in Number
  BY <1>1 DEF Wrap, Number
<1>3. Wrap(a + d) - a - d \in {0, D, -D}
  BY <1>1 DEF Wrap
<1>4. ASSUME NEW m \in Nat \ {0}
      PROVE  0 % m = 0 /\ m % m = 0 /\ (-m) % m = 0
  OBVIOUS
<1> HIDE DEF D
<1>5. (Wrap(a + d) - a - d) % D = 0
  BY <1>1, <1>3, <1>4
<1> QED BY <1>2, <1>5 DEF D

\* INCR, DECR and INCRBY store the value they saw plus the delta, modulo the range of
\* long long, when the key had one live value all through the call.
THEOREM IncrementsCount == Spec => IncrementCounts
<1> DEFINE Counted ==
      \A w \in Worker, v \in Number \cup {Nil} :
        worker[w].pc = "write" /\ worker'[w] = Idle /\ answers[w] = {v} =>
          \E n \in Number :
            /\ table'[worker[w].key] = [value |-> n, left |-> Never]
            /\ (n - (IF v = Nil THEN 0 ELSE v) - worker[w].delta) % (2 * (IntMax + 1)) = 0
<1>1. ASSUME IInv, [Next]_vars
      PROVE  [Counted]_vars
  <2> SUFFICES ASSUME Next, NEW w \in Worker, NEW v \in Number \cup {Nil},
                      worker[w].pc = "write", worker'[w] = Idle, answers[w] = {v}
               PROVE  \E n \in Number :
                        /\ table'[worker[w].key] = [value |-> n, left |-> Never]
                        /\ (n - (IF v = Nil THEN 0 ELSE v) - worker[w].delta)
                             % (2 * (IntMax + 1)) = 0
    BY <1>1
  <2>1. /\ DOMAIN table = Key /\ DOMAIN worker = Worker
        /\ worker[w].key \in Key /\ worker[w].delta \in Number
        /\ worker[w].next = Wrap(parse_value(v) + worker[w].delta)
    BY <1>1 DEF IInv, Domains, Seen, Counting, Following
  <2>2. increment(w)
    BY <1>1, WriteEnds DEF Idle
  <2>3. parse_value(v) = (IF v = Nil THEN 0 ELSE v) /\ parse_value(v) \in Number
    BY NumbersAssumption DEF parse_value, Number
  <2>4. table'[worker[w].key] = [value |-> worker[w].next, left |-> Never]
    BY <2>1, <2>2 DEF increment, insert
  <2> QED BY <2>1, <2>3, <2>4, WrapIsModular
<1>2. [][Counted]_vars => IncrementCounts
  BY DEF IncrementCounts
<1> QED BY <1>1, <1>2, IInvHolds, PTL DEF Spec

\* purge_expired erases only keys that were expired at some moment of the sweep.
THEOREM SweepIsFair == Spec => SweepTakesOverdue
<1> DEFINE Taken == \A k \in Key : table[k] # NoEntry /\ table'[k] = NoEntry /\ sweep' # sweep
                                     => k \in overdue
<1>1. ASSUME IInv, [Next]_vars
      PROVE  [Taken]_vars
  <2> SUFFICES ASSUME Next, NEW k \in Key,
                      table[k] # NoEntry, table'[k] = NoEntry, sweep' # sweep
               PROVE  k \in overdue
    BY <1>1
  <2>1. SweepStep
    BY DEF Next, ClientStep, WorkerStep, TimeStep, OneCall, Begin, Proceed, set, remove,
           clear_all, Call, set_ttl, is_expired, get, Reply, increment, ReadClock, PutBack, Tick
  <2>2. SweepErases
    BY <2>1 DEF SweepStep, Sweep, SweepBegins, Collect, SweepLogs
  <2> QED BY <1>1, <2>2 DEF SweepErases, erase, IInv, Domains, Collected
<1>2. [][Taken]_vars => SweepTakesOverdue
  BY DEF SweepTakesOverdue
<1> QED BY <1>1, <1>2, IInvHolds, PTL DEF Spec

=============================================================================
