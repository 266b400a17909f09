-------------------------- MODULE ThreadPoolProofs --------------------------
(***************************************************************************)
(* Proofs about ThreadPool, for any number of workers, callers and tasks,  *)
(* and about the sessions its workers run in Net, for any number of        *)
(* clients.                                                                *)
(***************************************************************************)
EXTENDS ThreadPool, Net, Integers, FiniteSets, TLAPS, SequenceTheorems

\* What the workers' and the callers' places say about the rest of the state.
Places ==
  /\ \A w \in Worker : worker[w] = "running" <=> running[w] # NoTask
  /\ \A w \in Worker : worker[w] = "exited" => stopping_ /\ tasks_ = << >>
  /\ \A c \in Caller :
       caller[c] \in {"notify_all", "join", "joined"} => stopping_
  /\ \A c \in Caller :
       caller[c] = "joined" => \A w \in Worker : worker[w] = "exited"

IInv == TypeOK /\ Places /\ NoLostWakeup /\ EachTaskOnce

-----------------------------------------------------------------------------
(* Types, places and wakeups.                                              *)

\* The starting state: nothing queued, every worker about to lock.
LEMMA InitIInv ==
  ASSUME Init
  PROVE  IInv
<1>1. TypeOK
  BY EmptySeq DEF Init, TypeOK
<1>2. Places
  BY DEF Init, Places
<1>3. NoLostWakeup
  BY WorkerAssumption DEF Init, NoLostWakeup
<1>4. EachTaskOnce
  BY DEF Init, EachTaskOnce, Elements
<1> QED BY <1>1, <1>2, <1>3, <1>4 DEF IInv

\* EachTaskOnce speaks of the queue and the histories only.
LEMMA KeepsTasks ==
  ASSUME EachTaskOnce, UNCHANGED <<tasks_, running, accepted, started, finished>>
  PROVE  EachTaskOnce'
BY DEF EachTaskOnce, Elements

\* EachTaskOnce of the next state, part by part.
LEMMA TasksNext ==
  ASSUME accepted' = started' \o tasks_',
         \A i, j \in 1 .. Len(accepted') : accepted'[i] = accepted'[j] => i = j,
         \A u, v \in Worker :
           running'[u] = running'[v] /\ running'[u] # NoTask => u = v,
         \A v \in Worker : running'[v] \notin finished',
         Elements(started')
           = finished' \cup ({running'[v] : v \in Worker} \ {NoTask})
  PROVE  EachTaskOnce'
BY DEF EachTaskOnce, Elements

\* A worker locks and finds nothing to do: it goes to sleep.
LEMMA WaitStep ==
  ASSUME IInv, NEW w \in Worker, Wait(w)
  PROVE  IInv'
<1> USE DEF IInv, TypeOK, Wait
<1>1. TypeOK'
  OBVIOUS
<1>2. Places'
  BY DEF Places
<1>3. NoLostWakeup'
  BY DEF NoLostWakeup
<1>4. EachTaskOnce'
  BY KeepsTasks
<1> QED BY <1>1, <1>2, <1>3, <1>4

\* A worker leaves cv_.wait for no reason.
LEMMA SpuriousWakeupStep ==
  ASSUME IInv, NEW w \in Worker, SpuriousWakeup(w)
  PROVE  IInv'
<1> USE DEF IInv, TypeOK, SpuriousWakeup
<1>1. TypeOK'
  OBVIOUS
<1>2. Places'
  BY DEF Places
<1>3. NoLostWakeup'
  BY DEF NoLostWakeup
<1>4. EachTaskOnce'
  BY KeepsTasks
<1> QED BY <1>1, <1>2, <1>3, <1>4

\* A worker leaves worker_loop.
LEMMA ExitStep ==
  ASSUME IInv, NEW w \in Worker, Exit(w)
  PROVE  IInv'
<1> USE DEF IInv, TypeOK, Exit
<1>1. TypeOK'
  OBVIOUS
<1>2. Places'
  BY DEF Places
<1>3. NoLostWakeup'
  BY DEF NoLostWakeup
<1>4. EachTaskOnce'
  BY KeepsTasks
<1> QED BY <1>1, <1>2, <1>3, <1>4

\* notify_one, after which not every worker sleeps.
LEMMA NotifyOneStep ==
  ASSUME IInv, NEW c \in Caller, NotifyOne(c)
  PROVE  IInv'
<1> USE DEF IInv, TypeOK, NotifyOne
<1>1. TypeOK'
  OBVIOUS
<1>2. Places'
  BY DEF Places
<1>3. NoLostWakeup'
  <2>1. \E w \in Worker : worker'[w] # "waiting"
    BY WorkerAssumption
  <2>2. ASSUME stopping_, NEW w \in Worker, worker'[w] = "waiting"
        PROVE  \E d \in Caller : caller'[d] = "notify_all"
    <3>1. worker[w] = "waiting"
      BY <2>2
    <3>2. PICK d \in Caller : caller[d] = "notify_all"
      BY <2>2, <3>1 DEF NoLostWakeup
    <3> QED BY <3>2
  <2> QED BY <2>1, <2>2 DEF NoLostWakeup
<1>4. EachTaskOnce'
  BY KeepsTasks
<1> QED BY <1>1, <1>2, <1>3, <1>4

\* shutdown sets stopping_ and is about to notify all.
LEMMA ShutdownStep ==
  ASSUME IInv, NEW c \in Caller, Shutdown(c)
  PROVE  IInv'
<1> USE DEF IInv, TypeOK, Shutdown
<1>1. TypeOK'
  OBVIOUS
<1>2. Places'
  BY DEF Places
<1>3. NoLostWakeup'
  BY DEF NoLostWakeup
<1>4. EachTaskOnce'
  BY KeepsTasks
<1> QED BY <1>1, <1>2, <1>3, <1>4

\* notify_all, after which nobody sleeps.
LEMMA NotifyAllStep ==
  ASSUME IInv, NEW c \in Caller, NotifyAll(c)
  PROVE  IInv'
<1> USE DEF IInv, TypeOK, NotifyAll
<1>1. TypeOK'
  OBVIOUS
<1>2. Places'
  BY DEF Places
<1>3. NoLostWakeup'
  <2>1. \A w \in Worker : worker'[w] # "waiting"
    OBVIOUS
  <2> QED BY <2>1, WorkerAssumption DEF NoLostWakeup
<1>4. EachTaskOnce'
  BY KeepsTasks
<1> QED BY <1>1, <1>2, <1>3, <1>4

\* shutdown has joined every worker.
LEMMA JoinStep ==
  ASSUME IInv, NEW c \in Caller, Join(c)
  PROVE  IInv'
<1> USE DEF IInv, TypeOK, Join
<1>1. TypeOK'
  OBVIOUS
<1>2. Places'
  BY DEF Places
<1>3. NoLostWakeup'
  BY WorkerAssumption DEF NoLostWakeup
<1>4. EachTaskOnce'
  BY KeepsTasks
<1> QED BY <1>1, <1>2, <1>3, <1>4

-----------------------------------------------------------------------------
(* The steps that move tasks.                                              *)

\* Appending adds one element.
LEMMA ElementsAppend ==
  ASSUME NEW s \in Seq(Task), NEW t \in Task
  PROVE  Elements(Append(s, t)) = Elements(s) \cup {t}
<1> DEFINE a == Append(s, t)
<1>1. /\ Len(a) = Len(s) + 1 /\ Len(s) \in Nat /\ a[Len(s) + 1] = t
      /\ \A i \in 1 .. Len(s) : a[i] = s[i]
  BY AppendProperties, LenProperties
<1> HIDE DEF a
<1>2. ASSUME NEW x \in Elements(a) PROVE x \in Elements(s) \cup {t}
  <2>1. PICK i \in 1 .. Len(a) : x = a[i]
    BY <1>2 DEF Elements
  <2>2. CASE i = Len(s) + 1
    BY <2>1, <2>2, <1>1
  <2>3. CASE i \in 1 .. Len(s)
    BY <2>1, <2>3, <1>1 DEF Elements
  <2> QED BY <2>2, <2>3, <1>1
<1>3. ASSUME NEW x \in Elements(s) PROVE x \in Elements(a)
  <2>1. PICK i \in 1 .. Len(s) : x = s[i]
    BY <1>3 DEF Elements
  <2>2. i \in 1 .. Len(a) /\ a[i] = x
    BY <2>1, <1>1
  <2> QED BY <2>2 DEF Elements
<1>4. t \in Elements(a)
  <2>1. Len(s) + 1 \in 1 .. Len(a) /\ a[Len(s) + 1] = t
    BY <1>1
  <2> QED BY <2>1 DEF Elements
<1> QED BY <1>2, <1>3, <1>4 DEF a

\* Moving the head of the queue to the end of the started tasks keeps their
\* concatenation, and the head is new there if nothing occurs twice in it.
LEMMA MoveHead ==
  ASSUME NEW s \in Seq(Task), NEW q \in Seq(Task), q # << >>
  PROVE  /\ Head(q) \in Task /\ Tail(q) \in Seq(Task)
         /\ Append(s, Head(q)) \o Tail(q) = s \o q
         /\ (\A i, j \in 1 .. Len(s \o q) : (s \o q)[i] = (s \o q)[j] => i = j)
              => Head(q) \notin Elements(s)
<1> DEFINE h == Head(q)
           r == Tail(q)
           a == Append(s, h)
           x == a \o r
           y == s \o q
<1>1. /\ h \in Task /\ r \in Seq(Task) /\ Len(r) = Len(q) - 1 /\ h = q[1]
      /\ Len(q) \in Nat \ {0} /\ \A i \in 1 .. Len(r) : r[i] = q[i + 1]
  BY HeadTailProperties, LenProperties, EmptySeq
<1> HIDE DEF h, r
<1>2. /\ a \in Seq(Task) /\ Len(a) = Len(s) + 1 /\ Len(s) \in Nat
      /\ a[Len(s) + 1] = h /\ \A i \in 1 .. Len(s) : a[i] = s[i]
  BY <1>1, AppendProperties, LenProperties
<1> HIDE DEF a
<1>3. /\ x \in Seq(Task) /\ Len(x) = Len(a) + Len(r)
      /\ \A i \in 1 .. Len(a) + Len(r) :
           x[i] = IF i <= Len(a) THEN a[i] ELSE r[i - Len(a)]
  BY <1>1, <1>2, ConcatProperties
<1>4. /\ y \in Seq(Task) /\ Len(y) = Len(s) + Len(q)
      /\ \A i \in 1 .. Len(s) + Len(q) :
           y[i] = IF i <= Len(s) THEN s[i] ELSE q[i - Len(s)]
  BY ConcatProperties
<1> HIDE DEF x, y
<1>5. Len(x) = Len(y)
  BY <1>1, <1>2, <1>3, <1>4
<1>6. ASSUME NEW i \in 1 .. Len(x) PROVE x[i] = y[i]
  <2>1. CASE i <= Len(s)
    <3>1. x[i] = s[i] /\ y[i] = s[i]
      BY <2>1, <1>1, <1>2, <1>3, <1>4
    <3> QED BY <3>1
  <2>2. CASE i = Len(s) + 1
    <3>1. i = Len(a) /\ i \in 1 .. Len(a) + Len(r) /\ i \in 1 .. Len(s) + Len(q)
      BY <2>2, <1>1, <1>2, <1>3, <1>5, <1>4
    <3>2. x[i] = a[Len(s) + 1]
      BY <3>1, <2>2, <1>3
    <3>3. ~(i <= Len(s)) /\ i - Len(s) = 1
      BY <2>2, <1>2
    <3>4. y[i] = q[1]
      BY <3>1, <3>3, <1>4
    <3> QED BY <3>2, <3>4, <1>1, <1>2
  <2>3. CASE i > Len(s) + 1
    <3>1. x[i] = r[i - (Len(s) + 1)] /\ y[i] = q[i - Len(s)]
      BY <2>3, <1>1, <1>2, <1>3, <1>4, SMTT(30)
    <3>2. i - (Len(s) + 1) \in 1 .. Len(r)
      BY <2>3, <1>1, <1>2, <1>3
    <3>3. r[i - (Len(s) + 1)] = q[(i - (Len(s) + 1)) + 1]
      BY <3>2, <1>1
    <3>4. (i - (Len(s) + 1)) + 1 = i - Len(s)
      BY <1>2
    <3> QED BY <3>1, <3>3, <3>4
  <2> QED BY <2>1, <2>2, <2>3, <1>2, <1>3
<1>7. x = y
  BY <1>3, <1>4, <1>5, <1>6, SeqEqual
<1>8. ASSUME \A i, j \in 1 .. Len(y) : y[i] = y[j] => i = j
      PROVE  h \notin Elements(s)
  <2> SUFFICES ASSUME NEW i \in 1 .. Len(s), s[i] = h PROVE FALSE
    BY DEF Elements
  <2>1. i \in 1 .. Len(y) /\ Len(s) + 1 \in 1 .. Len(y) /\ i # Len(s) + 1
    BY <1>1, <1>2, <1>4
  <2>2. y[i] = s[i]
    BY <1>1, <1>2, <1>4
  <2>3. y[Len(s) + 1] = q[1]
    <3>1. /\ Len(s) + 1 \in 1 .. Len(s) + Len(q) /\ ~(Len(s) + 1 <= Len(s))
          /\ (Len(s) + 1) - Len(s) = 1
      BY <1>1, <1>2
    <3> QED BY <3>1, <1>4
  <2> QED BY <2>1, <2>2, <2>3, <1>1, <1>8
<1> QED BY <1>1, <1>7, <1>8 DEF x, y, a, h, r

\* A worker takes the oldest task.
LEMMA TakeStep ==
  ASSUME IInv, NEW w \in Worker, Take(w)
  PROVE  IInv'
<1> DEFINE h == Head(tasks_)
<1> USE DEF IInv, TypeOK
<1>1. /\ h \in Task /\ Tail(tasks_) \in Seq(Task)
      /\ Append(started, h) \o Tail(tasks_) = started \o tasks_
      /\ h \notin Elements(started)
  BY MoveHead DEF Take, EachTaskOnce
<1> HIDE DEF h
<1>2. /\ worker[w] = "locking" /\ worker' = [worker EXCEPT ![w] = "running"]
      /\ running' = [running EXCEPT ![w] = h]
      /\ tasks_' = Tail(tasks_) /\ started' = Append(started, h)
      /\ tasks_ # << >>
      /\ UNCHANGED <<stopping_, caller, accepted, finished, dropped>>
  BY DEF Take, h
<1>3. running[w] = NoTask /\ h # NoTask
  BY <1>1, <1>2, NoTaskAssumption DEF Places
<1>4. TypeOK'
  BY <1>1, <1>2, AppendProperties
<1>5. Places'
  BY <1>2, <1>3 DEF Places
<1>6. NoLostWakeup'
  BY <1>2 DEF NoLostWakeup
<1>7. EachTaskOnce'
  <2>1. accepted' = started' \o tasks_'
    BY <1>1, <1>2 DEF EachTaskOnce
  <2>2. \A i, j \in 1 .. Len(accepted') : accepted'[i] = accepted'[j] => i = j
    BY <1>2 DEF EachTaskOnce
  <2>3. Elements(started') = Elements(started) \cup {h}
    BY <1>1, <1>2, ElementsAppend
  <2>4. \A v \in Worker : running[v] # h
    BY <1>1, <1>3 DEF EachTaskOnce
  <2>5. \A u, v \in Worker :
          running'[u] = running'[v] /\ running'[u] # NoTask => u = v
    BY <1>2, <2>4 DEF EachTaskOnce
  <2>6. \A v \in Worker : running'[v] \notin finished'
    BY <1>1, <1>2 DEF EachTaskOnce
  <2>7. {running'[v] : v \in Worker} \ {NoTask}
          = ({running[v] : v \in Worker} \ {NoTask}) \cup {h}
    BY <1>2, <1>3
  <2>8. Elements(started') = finished' \cup ({running'[v] : v \in Worker} \ {NoTask})
    BY <1>2, <2>3, <2>7 DEF EachTaskOnce
  <2> QED BY <2>1, <2>2, <2>5, <2>6, <2>8, TasksNext
<1> QED BY <1>4, <1>5, <1>6, <1>7

\* A task returns.
LEMMA TaskReturnsStep ==
  ASSUME IInv, NEW w \in Worker, TaskReturns(w)
  PROVE  IInv'
<1> USE DEF IInv, TypeOK
<1>1. /\ worker[w] = "running" /\ worker' = [worker EXCEPT ![w] = "locking"]
      /\ running' = [running EXCEPT ![w] = NoTask]
      /\ finished' = finished \cup {running[w]}
      /\ UNCHANGED <<tasks_, stopping_, caller, accepted, started, dropped>>
  BY DEF TaskReturns
<1>2. running[w] \in Task /\ running[w] # NoTask
  BY <1>1 DEF Places
<1>3. TypeOK'
  BY <1>1, <1>2
<1>4. Places'
  BY <1>1 DEF Places
<1>5. NoLostWakeup'
  BY <1>1 DEF NoLostWakeup
<1>6. EachTaskOnce'
  <2>1. \A u, v \in Worker :
          running'[u] = running'[v] /\ running'[u] # NoTask => u = v
    BY <1>1 DEF EachTaskOnce
  <2>2. \A v \in Worker : running'[v] \notin finished'
    BY <1>1, <1>2, NoTaskAssumption DEF EachTaskOnce
  <2>3. {running[v] : v \in Worker} \ {NoTask}
          = ({running'[v] : v \in Worker} \ {NoTask}) \cup {running[w]}
    BY <1>1, <1>2
  <2>4. Elements(started') = finished' \cup ({running'[v] : v \in Worker} \ {NoTask})
    BY <1>1, <2>3 DEF EachTaskOnce
  <2>5. /\ accepted' = started' \o tasks_'
        /\ \A i, j \in 1 .. Len(accepted') : accepted'[i] = accepted'[j] => i = j
    BY <1>1 DEF EachTaskOnce
  <2> QED BY <2>1, <2>2, <2>4, <2>5, TasksNext
<1> QED BY <1>3, <1>4, <1>5, <1>6

\* enqueue: the task is new, and either ignored or put at the end.
LEMMA EnqueueStep ==
  ASSUME IInv, NEW c \in Caller, NEW t \in Task, Enqueue(c, t)
  PROVE  IInv'
<1> USE DEF IInv, TypeOK
<1>1. /\ caller[c] = "idle" /\ t \notin Elements(accepted)
      /\ UNCHANGED <<stopping_, worker, running, started, finished>>
  BY DEF Enqueue
<1>2. CASE stopping_
  <2>1. UNCHANGED <<tasks_, caller, accepted>> /\ dropped' = dropped \cup {t}
    BY <1>2 DEF Enqueue
  <2>2. TypeOK' /\ Places' /\ NoLostWakeup'
    BY <1>1, <2>1 DEF Places, NoLostWakeup
  <2>3. EachTaskOnce'
    BY <1>1, <2>1, KeepsTasks
  <2> QED BY <2>2, <2>3
<1>3. CASE ~stopping_
  <2>1. /\ tasks_' = Append(tasks_, t) /\ accepted' = Append(accepted, t)
        /\ caller' = [caller EXCEPT ![c] = "notify_one"] /\ dropped' = dropped
    BY <1>3 DEF Enqueue
  <2>2. TypeOK'
    BY <1>1, <2>1, AppendProperties
  <2>3. Places'
    BY <1>1, <1>3, <2>1 DEF Places
  <2>4. NoLostWakeup'
    BY <1>1, <1>3, <2>1 DEF NoLostWakeup
  <2>5. EachTaskOnce'
    <3>1. accepted' = started' \o tasks_'
      <4>1. Append(started \o tasks_, t) = started \o Append(tasks_, t)
        BY AppendIsConcat, ConcatAssociative, ConcatProperties, SMTT(30)
      <4> QED BY <4>1, <1>1, <2>1 DEF EachTaskOnce
    <3>2. \A i, j \in 1 .. Len(accepted') : accepted'[i] = accepted'[j] => i = j
      <4>1. /\ Len(accepted') = Len(accepted) + 1 /\ Len(accepted) \in Nat
            /\ accepted'[Len(accepted) + 1] = t
            /\ \A i \in 1 .. Len(accepted) : accepted'[i] = accepted[i]
        BY <2>1, AppendProperties, LenProperties
      <4>2. \A i \in 1 .. Len(accepted) : accepted[i] # t
        BY <1>1 DEF Elements
      <4>3. \A i \in 1 .. Len(accepted') :
              i \in 1 .. Len(accepted) \/ i = Len(accepted) + 1
        BY <4>1
      <4>4. \A i, j \in 1 .. Len(accepted) : accepted[i] = accepted[j] => i = j
        BY DEF EachTaskOnce
      <4> SUFFICES ASSUME NEW i \in 1 .. Len(accepted'),
                          NEW j \in 1 .. Len(accepted'),
                          accepted'[i] = accepted'[j]
                   PROVE  i = j
        OBVIOUS
      <4>5. CASE i \in 1 .. Len(accepted) /\ j \in 1 .. Len(accepted)
        <5>1. accepted[i] = accepted[j]
          BY <4>1, <4>5
        <5> QED BY <5>1, <4>4, <4>5
      <4>6. CASE i \in 1 .. Len(accepted) /\ j = Len(accepted) + 1
        BY <4>1, <4>2, <4>6
      <4>7. CASE i = Len(accepted) + 1 /\ j \in 1 .. Len(accepted)
        BY <4>1, <4>2, <4>7
      <4> QED BY <4>3, <4>5, <4>6, <4>7
    <3>3. /\ \A u, v \in Worker :
               running'[u] = running'[v] /\ running'[u] # NoTask => u = v
          /\ \A v \in Worker : running'[v] \notin finished'
          /\ Elements(started')
               = finished' \cup ({running'[v] : v \in Worker} \ {NoTask})
      BY <1>1 DEF EachTaskOnce
    <3> QED BY <3>1, <3>2, <3>3, TasksNext
  <2> QED BY <2>2, <2>3, <2>4, <2>5
<1> QED BY <1>2, <1>3

\* Every step keeps the invariant.
LEMMA StepIInv ==
  ASSUME IInv, [Next]_vars
  PROVE  IInv'
<1>1. CASE UNCHANGED vars
  <2>1. TypeOK' /\ Places' /\ NoLostWakeup'
    BY <1>1 DEF vars, IInv, TypeOK, Places, NoLostWakeup
  <2>2. EachTaskOnce'
    BY <1>1, KeepsTasks DEF vars, IInv
  <2> QED BY <2>1, <2>2 DEF IInv
<1>2. ASSUME NEW w \in Worker, WorkerLoop(w) \/ SpuriousWakeup(w) PROVE IInv'
  BY <1>2, WaitStep, ExitStep, TakeStep, TaskReturnsStep, SpuriousWakeupStep
     DEF WorkerLoop
<1>3. ASSUME NEW c \in Caller, NEW t \in Task, Enqueue(c, t) PROVE IInv'
  BY <1>3, EnqueueStep
<1>4. ASSUME NEW c \in Caller, Shutdown(c) \/ Continue(c) PROVE IInv'
  BY <1>4, ShutdownStep, NotifyOneStep, NotifyAllStep, JoinStep DEF Continue
<1>5. CASE Over
  BY <1>1, <1>5 DEF Over
<1> QED BY <1>1, <1>2, <1>3, <1>4, <1>5 DEF Next

-----------------------------------------------------------------------------
(* The theorems.                                                           *)

\* The inductive invariant holds in every reachable state.
THEOREM Invariance == Spec => []IInv
<1>1. Init => IInv
  BY InitIInv
<1>2. IInv /\ [Next]_vars => IInv'
  BY StepIInv
<1> QED BY <1>1, <1>2, PTL DEF Spec

\* The types of the pool's fields hold in every reachable state.
THEOREM TypeCorrect == Spec => []TypeOK
<1>1. IInv => TypeOK
  BY DEF IInv
<1> QED BY <1>1, Invariance, PTL

\* The pool loses, duplicates and reorders no task.
THEOREM TasksOnce == Spec => []EachTaskOnce
<1>1. IInv => EachTaskOnce
  BY DEF IInv
<1> QED BY <1>1, Invariance, PTL

\* Notifying outside the mutex loses no wakeup.
THEOREM WakeupsKept == Spec => []NoLostWakeup
<1>1. IInv => NoLostWakeup
  BY DEF IInv
<1> QED BY <1>1, Invariance, PTL

\* When shutdown returns, all accepted sessions have ended.
THEOREM Drained == Spec => []ShutdownDrains
<1>1. IInv => ShutdownDrains
  <2> SUFFICES ASSUME IInv, NEW c \in Caller, caller[c] = "joined"
               PROVE  /\ tasks_ = << >>
                      /\ \A w \in Worker : worker[w] = "exited"
                      /\ Elements(accepted) = finished
    BY DEF ShutdownDrains
  <2>1. \A w \in Worker : worker[w] = "exited"
    BY DEF IInv, Places
  <2>2. tasks_ = << >>
    BY <2>1, WorkerAssumption DEF IInv, Places
  <2>3. accepted = started
    BY <2>2, ConcatEmptySeq DEF IInv, TypeOK, EachTaskOnce
  <2>4. \A w \in Worker : running[w] = NoTask
    BY <2>1 DEF IInv, Places
  <2>5. Elements(started) = finished
    BY <2>4 DEF IInv, EachTaskOnce
  <2> QED BY <2>1, <2>2, <2>3, <2>5
<1> QED BY <1>1, Invariance, PTL

-----------------------------------------------------------------------------
(* The sessions of Net                                                     *)

INSTANCE FiniteSetTheorems

\* What a client sends
Piece == {"text", "end"}

\* The ends of whole lines among the pieces q of a socket, as numbers of pieces sent:
\* n pieces were sent, and b pieces of the line before q are in the buffer.
Whole(q, b, n) ==
  {k \in (n - Len(q) + 1) .. n :
     /\ q[k - (n - Len(q))] = "end"
     /\ k = n - Len(q) + 1 => b > 0
     /\ k # n - Len(q) + 1 => q[k - (n - Len(q)) - 1] = "text"}

\* The last piece sent has not ended its line.
Within(q, b) == IF q = << >> THEN b > 0 ELSE q[Len(q)] = "text"

\* A piece that arrives completes a line if it ends one that has begun.
LEMMA AppendWhole ==
  ASSUME NEW q \in Seq(Piece), NEW b \in Nat, NEW n \in Nat, Len(q) <= n,
         NEW p \in Piece
  PROVE  /\ Whole(Append(q, p), b, n + 1) =
              Whole(q, b, n) \cup (IF p = "end" /\ Within(q, b) THEN {n + 1} ELSE {})
         /\ Within(Append(q, p), b) <=> p = "text"
<1> DEFINE r == Append(q, p)
           d == n - Len(q)
           W == Whole(q, b, n)
           New == IF p = "end" /\ Within(q, b) THEN {n + 1} ELSE {}
<1>1. Len(q) \in Nat /\ d \in Nat /\ n = d + Len(q)
  OBVIOUS
<1>2. /\ r \in Seq(Piece) /\ Len(r) = Len(q) + 1 /\ r[Len(q) + 1] = p /\ r # << >>
      /\ \A i \in 1 .. Len(q) : r[i] = q[i]
  OBVIOUS
<1>3. (n + 1) - Len(r) = d
  BY <1>1, <1>2
<1>4. q = << >> <=> Len(q) = 0
  OBVIOUS
<1> HIDE DEF r, d
<1>5. W \subseteq (d + 1) .. n
  BY DEF Whole, d
<1>6. ASSUME NEW k \in (d + 1) .. n
      PROVE  k \in Whole(r, b, n + 1) <=> k \in W
  <2>1. k - d \in 1 .. Len(q) /\ (k # d + 1 => k - d - 1 \in 1 .. Len(q))
    BY <1>1
  <2>2. r[k - d] = q[k - d] /\ (k # d + 1 => r[k - d - 1] = q[k - d - 1])
    BY <2>1, <1>2
  <2>3. k \in (d + 1) .. (n + 1)
    BY <1>1
  <2> QED BY <2>2, <2>3, <1>3 DEF Whole, d
<1>7. n + 1 \in Whole(r, b, n + 1) <=> n + 1 \in New
  <2>1. /\ n + 1 \in (d + 1) .. (n + 1) /\ (n + 1) - d = Len(q) + 1
        /\ n + 1 = d + 1 <=> Len(q) = 0
        /\ (n + 1) - d - 1 = Len(q)
    BY <1>1
  <2>2. n + 1 \in Whole(r, b, n + 1) <=>
          /\ p = "end"
          /\ Len(q) = 0 => b > 0
          /\ Len(q) # 0 => r[Len(q)] = "text"
    BY <2>1, <1>2, <1>3 DEF Whole
  <2>3. Len(q) # 0 => r[Len(q)] = q[Len(q)]
    BY <1>1, <1>2
  <2>4. Within(q, b) <=> IF Len(q) = 0 THEN b > 0 ELSE q[Len(q)] = "text"
    BY <1>4 DEF Within
  <2> QED BY <2>2, <2>3, <2>4
<1>8. \A k : k \in Whole(r, b, n + 1) => k \in (d + 1) .. n \/ k = n + 1
  BY <1>1, <1>3 DEF Whole
<1>9. n + 1 \notin (d + 1) .. n /\ New \subseteq {n + 1}
  BY <1>1
<1> HIDE DEF W, New
<1>10. Whole(r, b, n + 1) = W \cup New
  BY <1>5, <1>6, <1>7, <1>8, <1>9, Zenon
<1>11. Within(r, b) <=> p = "text"
  BY <1>2 DEF Within
<1> QED BY <1>10, <1>11 DEF r, W, New

\* The piece that is sent next is not among the pieces sent.
LEMMA NotYetSent ==
  ASSUME NEW q \in Seq(Piece), NEW b \in Nat, NEW n \in Nat
  PROVE  n + 1 \notin Whole(q, b, n)
<1>1. \A k \in Whole(q, b, n) : k \in (n - Len(q) + 1) .. n
  BY DEF Whole
<1> QED BY <1>1

\* A piece that is read takes its own end with it and no other.
LEMMA TailWhole ==
  ASSUME NEW q \in Seq(Piece), q # << >>, NEW b \in Nat, NEW n \in Nat, Len(q) <= n
  PROVE  /\ Head(q) = "text" => /\ Whole(Tail(q), b + 1, n) = Whole(q, b, n)
                                /\ Within(Tail(q), b + 1) <=> Within(q, b)
         /\ Head(q) = "end" =>
              /\ Whole(Tail(q), 0, n) = Whole(q, b, n) \ {n - Len(q) + 1}
              /\ n - Len(q) + 1 \in Whole(q, b, n) <=> b > 0
              /\ Within(Tail(q), 0) <=> Within(q, b)
<1> DEFINE r == Tail(q)
           d == n - Len(q)
<1>1. Len(q) \in Nat \ {0} /\ d \in Nat /\ n = d + Len(q)
  OBVIOUS
<1>2. /\ r \in Seq(Piece) /\ Len(r) = Len(q) - 1
      /\ \A i \in 1 .. Len(q) - 1 : r[i] = q[i + 1]
      /\ Head(q) = q[1]
  OBVIOUS
<1>3. n - Len(r) = d + 1
  BY <1>1, <1>2
<1> HIDE DEF r, d
<1>4. r = << >> <=> Len(q) = 1
  BY <1>1, <1>2
<1>5. \A x : Whole(r, x, n) \subseteq (d + 2) .. n
  BY <1>1, <1>3 DEF Whole
<1>6. Whole(q, b, n) \subseteq {d + 1} \cup ((d + 2) .. n)
  <2>1. (d + 1) .. n \subseteq {d + 1} \cup ((d + 2) .. n)
    BY <1>1
  <2> QED BY <2>1 DEF Whole, d
<1>7. d + 1 \in Whole(q, b, n) <=> Head(q) = "end" /\ b > 0
  <2>1. d + 1 \in (d + 1) .. n /\ (d + 1) - d = 1
    BY <1>1
  <2> QED BY <2>1, <1>2 DEF Whole, d
<1>8. ASSUME NEW k \in (d + 2) .. n, NEW x \in Nat, x > 0 <=> Head(q) = "text"
      PROVE  k \in Whole(r, x, n) <=> k \in Whole(q, b, n)
  <2>1. /\ k \in (d + 1) .. n /\ k # d + 1 /\ k \in (d + 1 + 1) .. n
        /\ k - (d + 1) \in 1 .. Len(q) - 1 /\ (k - (d + 1)) + 1 = k - d
        /\ k # d + 1 + 1 => /\ k - (d + 1) - 1 \in 1 .. Len(q) - 1
                            /\ (k - (d + 1) - 1) + 1 = k - d - 1
        /\ k = d + 1 + 1 => k - d - 1 = 1
    BY <1>1
  <2>2. /\ r[k - (d + 1)] = q[k - d]
        /\ k # d + 1 + 1 => r[k - (d + 1) - 1] = q[k - d - 1]
        /\ k = d + 1 + 1 => q[k - d - 1] = Head(q)
    BY <2>1, <1>2, Zenon
  <2>3. k \in Whole(q, b, n) <=> q[k - d] = "end" /\ q[k - d - 1] = "text"
    BY <2>1 DEF Whole, d
  <2>4. k \in Whole(r, x, n) <=>
          /\ r[k - (d + 1)] = "end"
          /\ k = d + 1 + 1 => x > 0
          /\ k # d + 1 + 1 => r[k - (d + 1) - 1] = "text"
    BY <2>1, <1>3, Zenon DEF Whole
  <2> QED BY <2>2, <2>3, <2>4, <1>8
<1>9. ASSUME NEW x \in Nat, x > 0 <=> Head(q) = "text"
      PROVE  Within(r, x) <=> Within(q, b)
  <2>1. CASE Len(q) = 1
    BY <2>1, <1>2, <1>4, <1>9 DEF Within
  <2>2. CASE Len(q) # 1
    <3>1. r[Len(r)] = q[Len(q)]
      BY <2>2, <1>1, <1>2
    <3> QED BY <3>1, <2>2, <1>4 DEF Within
  <2> QED BY <2>1, <2>2
<1>10. d + 1 \notin (d + 2) .. n
  BY <1>1
<1>11. ASSUME Head(q) = "text"
       PROVE  Whole(r, b + 1, n) = Whole(q, b, n) /\ (Within(r, b + 1) <=> Within(q, b))
  <2>1. b + 1 \in Nat /\ (b + 1 > 0 <=> Head(q) = "text")
    BY <1>11
  <2>2. \A k \in (d + 2) .. n : k \in Whole(r, b + 1, n) <=> k \in Whole(q, b, n)
    BY <2>1, <1>8
  <2>3. d + 1 \notin Whole(q, b, n)
    BY <1>7, <1>11
  <2>4. Within(r, b + 1) <=> Within(q, b)
    BY <2>1, <1>9
  <2> QED BY <2>2, <2>3, <2>4, <1>5, <1>6
<1>12. ASSUME Head(q) = "end"
       PROVE  /\ Whole(r, 0, n) = Whole(q, b, n) \ {d + 1}
              /\ d + 1 \in Whole(q, b, n) <=> b > 0
              /\ Within(r, 0) <=> Within(q, b)
  <2>1. 0 \in Nat /\ (0 > 0 <=> Head(q) = "text")
    BY <1>12
  <2>2. \A k \in (d + 2) .. n : k \in Whole(r, 0, n) <=> k \in Whole(q, b, n)
    BY <2>1, <1>8
  <2>3. Within(r, 0) <=> Within(q, b)
    BY <2>1, <1>9
  <2> QED BY <2>2, <2>3, <1>5, <1>6, <1>7, <1>10, <1>12
<1> QED BY <1>11, <1>12 DEF r, d

Fields == {"at", "inbox", "buffer", "hung", "sent", "open", "lines", "ran"}

\* A connection
Frame(f) == /\ DOMAIN f = Fields
            /\ f.inbox \in Seq(Piece) /\ f.buffer \in Nat
            /\ f.sent \in Nat /\ f.lines \in Nat /\ f.ran \in Nat

\* 1 while a line that was read waits for dispatch
Read(f) == IF f.at = "run" THEN 1 ELSE 0

\* The lines run, read and not yet run, and whole in the socket are lines the client
\* has ended.
Served(f) ==
  /\ Frame(f)
  /\ Len(f.inbox) <= f.sent
  /\ f.open <=> Within(f.inbox, f.buffer)
  /\ IsFiniteSet(Whole(f.inbox, f.buffer, f.sent))
  /\ f.ran + Read(f) + Cardinality(Whole(f.inbox, f.buffer, f.sent)) <= f.lines

\* The connections and the sessions that wait for a worker
Sessions == /\ DOMAIN conn = Client /\ tasks \in Seq(Client)
            /\ \A c \in Client : Served(conn[c])

\* No piece was sent and none is there.
LEMMA NothingSent ==
  ASSUME NEW n \in Nat
  PROVE  /\ Len(<< >>) <= n /\ ~Within(<< >>, 0)
         /\ IsFiniteSet(Whole(<< >>, 0, n)) /\ Cardinality(Whole(<< >>, 0, n)) = 0
<1>1. Whole(<< >>, 0, n) = {}
  BY DEF Whole
<1> QED BY <1>1, FS_EmptySet DEF Within

\* A session that goes on without having read a line
LEMMA Moved ==
  ASSUME NEW f, Served(f), NEW to, to # "run"
  PROVE  Served([f EXCEPT !.at = to])
<1> DEFINE g == [f EXCEPT !.at = to]
<1>1. Frame(f)
  BY DEF Served
<1>2. /\ Frame(g) /\ g.at = to /\ g.inbox = f.inbox /\ g.buffer = f.buffer /\ g.sent = f.sent
      /\ g.open = f.open /\ g.lines = f.lines /\ g.ran = f.ran
  BY <1>1 DEF Frame, Fields
<1> HIDE DEF g
<1>3. Read(g) = 0 /\ Read(f) \in {0, 1} /\ f.ran \in Nat /\ f.lines \in Nat
  BY <1>1, <1>2 DEF Read, Frame
<1>4. Cardinality(Whole(f.inbox, f.buffer, f.sent)) \in Nat
  BY FS_CardinalityType DEF Served
<1>5. g.ran + Read(g) + Cardinality(Whole(g.inbox, g.buffer, g.sent)) <= g.lines
  <2> DEFINE m == Cardinality(Whole(f.inbox, f.buffer, f.sent))
  <2>1. f.ran + Read(f) + m <= f.lines
    BY DEF Served
  <2>2. m \in Nat
    BY <1>4
  <2> HIDE DEF m
  <2>3. g.ran + Read(g) + m <= g.lines
    BY <2>1, <2>2, <1>2, <1>3
  <2> QED BY <2>3, <1>2 DEF m
<1>6. Served(g)
  BY <1>2, <1>5 DEF Served
<1> QED BY <1>6 DEF g

\* A connection that is closed loses what was in its socket, and nothing that was run.
LEMMA ClosedServed ==
  ASSUME NEW f, Served(f)
  PROVE  Served(Closed(f))
<1> DEFINE g == Closed(f)
<1>1. Frame(f)
  BY DEF Served
<1>2. /\ Frame(g) /\ g.at = "closed" /\ g.inbox = << >> /\ g.buffer = 0 /\ g.sent = 0
      /\ ~g.open /\ g.lines = f.lines /\ g.ran = f.ran
  <2>1. << >> \in Seq(Piece) /\ DOMAIN g = Fields
    BY <1>1 DEF Frame, Closed
  <2>2. /\ g.at = "closed" /\ g.inbox = << >> /\ g.buffer = 0 /\ g.sent = 0
        /\ g.lines = f.lines /\ g.ran = f.ran
    BY <1>1 DEF Frame, Fields, Closed
  <2>3. ~g.open
    BY <1>1 DEF Frame, Fields, Closed
  <2> HIDE DEF g
  <2> QED BY <2>1, <2>2, <2>3, <1>1 DEF Frame
<1> HIDE DEF g
<1>3. Read(g) = 0 /\ Read(f) \in {0, 1} /\ f.ran \in Nat /\ f.lines \in Nat
  BY <1>1, <1>2 DEF Read, Frame
<1>4. f.ran <= f.lines
  <2> DEFINE m == Cardinality(Whole(f.inbox, f.buffer, f.sent))
  <2>1. m \in Nat /\ f.ran + Read(f) + m <= f.lines
    BY FS_CardinalityType DEF Served
  <2> HIDE DEF m
  <2> QED BY <2>1, <1>3
<1>5. 0 \in Nat
  OBVIOUS
<1>6. g.ran + Read(g) + Cardinality(Whole(g.inbox, g.buffer, g.sent)) <= g.lines
  BY <1>2, <1>3, <1>4, <1>5, NothingSent
<1>7. Served(g)
  BY <1>2, <1>5, <1>6, NothingSent DEF Served
<1> QED BY <1>7 DEF g

\* A client sends a piece, and counts a line when it ends one.
LEMMA SendServed ==
  ASSUME NEW f, NEW g, Served(f), Frame(g), NEW p \in Piece,
         g.at = f.at, g.inbox = Append(f.inbox, p), g.buffer = f.buffer,
         g.sent = f.sent + 1, g.open = (p = "text"), g.ran = f.ran,
         g.lines = IF p = "end" /\ f.open THEN f.lines + 1 ELSE f.lines
  PROVE  Served(g)
<1> DEFINE W == Whole(f.inbox, f.buffer, f.sent)
           V == Whole(g.inbox, g.buffer, g.sent)
           q == f.inbox
           n == f.sent
           b == f.buffer
<1>1. /\ q \in Seq(Piece) /\ n \in Nat /\ b \in Nat /\ Len(q) <= n
      /\ f.open <=> Within(q, b)
      /\ f.ran \in Nat /\ f.lines \in Nat /\ Read(f) \in Nat /\ Read(g) = Read(f)
  BY DEF Served, Frame, Read
<1>2. /\ IsFiniteSet(W) /\ Cardinality(W) \in Nat
      /\ f.ran + Read(f) + Cardinality(W) <= f.lines
  BY FS_CardinalityType DEF Served
<1> HIDE DEF q, n, b
<1>3. /\ Whole(Append(q, p), b, n + 1) =
           Whole(q, b, n) \cup (IF p = "end" /\ Within(q, b) THEN {n + 1} ELSE {})
      /\ Within(Append(q, p), b) <=> p = "text"
  BY <1>1, AppendWhole
<1>g. g.inbox = Append(q, p) /\ g.buffer = b /\ g.sent = n + 1 /\ (g.open <=> p = "text")
  BY Zenon DEF q, b, n
<1>4. Len(g.inbox) <= g.sent /\ (g.open <=> Within(g.inbox, g.buffer))
  BY <1>1, <1>3, <1>g
<1>5. V = W \cup (IF p = "end" /\ f.open THEN {n + 1} ELSE {})
  BY <1>1, <1>3, <1>g DEF q, b, n
<1>6. n + 1 \notin W
  <2>1. W = Whole(q, b, n)
    BY DEF q, b, n
  <2> QED BY <2>1, <1>1, NotYetSent
<1> HIDE DEF W, V
<1>7. CASE p = "end" /\ f.open
  <2>1. V = W \cup {n + 1}
    BY <1>5, <1>7
  <2>2. IsFiniteSet(V) /\ Cardinality(V) = Cardinality(W) + 1
    BY <2>1, <1>2, <1>6, FS_AddElement
  <2>3. g.ran + Read(g) + Cardinality(V) <= g.lines
    BY <2>2, <1>1, <1>2, <1>7
  <2> QED BY <2>2, <2>3, <1>4 DEF Served, V
<1>8. CASE ~(p = "end" /\ f.open)
  <2>1. V = W /\ g.lines = f.lines
    BY <1>5, <1>8
  <2>2. IsFiniteSet(V) /\ g.ran + Read(g) + Cardinality(V) <= g.lines
    BY <2>1, <1>1, <1>2
  <2> QED BY <2>2, <1>4 DEF Served, V
<1> QED BY <1>7, <1>8

\* read_line takes a piece: the end of a line that has text makes it one to run.
LEMMA ReadServed ==
  ASSUME NEW f, Served(f), f.at = "read", f.inbox # << >>
  PROVE  Served(ReadPiece(f))
<1> DEFINE W == Whole(f.inbox, f.buffer, f.sent)
           q == f.inbox
           n == f.sent
           b == f.buffer
           m == Cardinality(W)
<1>1. /\ Frame(f) /\ q \in Seq(Piece) /\ n \in Nat /\ b \in Nat /\ Len(q) <= n
      /\ f.open <=> Within(q, b)
      /\ f.ran \in Nat /\ f.lines \in Nat /\ Read(f) = 0
  BY DEF Served, Frame, Read
<1>2. IsFiniteSet(W) /\ m \in Nat /\ f.ran + m <= f.lines
  BY <1>1, FS_CardinalityType, SMTT(30) DEF Served
<1>3. Head(q) \in Piece /\ Tail(q) \in Seq(Piece) /\ Len(Tail(q)) <= n
  BY <1>1, SMTT(30)
<1>4. CASE Head(q) = "end"
  <2> DEFINE g == ReadPiece(f)
             V == Whole(Tail(q), 0, n)
  <2>1. g = [f EXCEPT !.inbox = Tail(q), !.buffer = 0, !.at = IF b > 0 THEN "run" ELSE "read"]
    BY <1>4 DEF ReadPiece
  <2>2. /\ Frame(g) /\ g.inbox = Tail(q) /\ g.buffer = 0 /\ g.sent = n
        /\ g.at = (IF b > 0 THEN "run" ELSE "read")
        /\ g.open = f.open /\ g.ran = f.ran /\ g.lines = f.lines
    <3> HIDE DEF g
    <3>1. DOMAIN g = Fields
      BY <2>1, <1>1 DEF Frame
    <3>2. /\ g.inbox = Tail(q) /\ g.buffer = 0 /\ g.sent = n
          /\ g.at = (IF b > 0 THEN "run" ELSE "read")
          /\ g.open = f.open /\ g.ran = f.ran /\ g.lines = f.lines
      BY <2>1, <1>1 DEF Frame, Fields
    <3> QED BY <3>1, <3>2, <1>1, <1>3 DEF Frame
  <2> HIDE DEF g
  <2>3. /\ V = W \ {n - Len(q) + 1} /\ (n - Len(q) + 1 \in W <=> b > 0)
        /\ Within(Tail(q), 0) <=> Within(q, b)
    BY <1>1, <1>4, TailWhole, SMTT(30)
  <2>4. Read(g) = IF b > 0 THEN 1 ELSE 0
    BY <2>2 DEF Read
  <2> HIDE DEF W, V
  <2>5. IsFiniteSet(V) /\ f.ran + Read(g) + Cardinality(V) <= f.lines
    <3> DEFINE e == n - Len(q) + 1
    <3>1. V = W \ {e} /\ (e \in W <=> b > 0)
      BY <2>3
    <3> HIDE DEF e
    <3>2. IsFiniteSet(V) /\ Cardinality(V) = IF e \in W THEN m - 1 ELSE m
      BY <3>1, <1>2, FS_RemoveElement
    <3>3. Read(g) + Cardinality(V) = m
      <4> HIDE DEF b, m
      <4>1. CASE b > 0
        BY <4>1, <3>1, <3>2, <2>4, <1>2
      <4>2. CASE ~(b > 0)
        BY <4>2, <3>1, <3>2, <2>4, <1>2
      <4> QED BY <4>1, <4>2
    <3>4. Read(g) \in Nat /\ Cardinality(V) \in Nat /\ f.ran \in Nat
      BY <3>2, <2>4, <1>1, FS_CardinalityType
    <3> HIDE DEF m
    <3> QED BY <3>2, <3>3, <3>4, <1>2
  <2>6. Len(g.inbox) <= g.sent /\ (g.open <=> Within(g.inbox, g.buffer))
    BY <2>2, <2>3, <1>1, <1>3
  <2>7. Whole(g.inbox, g.buffer, g.sent) = V
    BY <2>2 DEF V
  <2>8. Served(g)
    BY <2>2, <2>5, <2>6, <2>7, Zenon DEF Served
  <2> QED BY <2>8 DEF g
<1>5. CASE Head(q) # "end" /\ b = MaxLine
  <2>1. ReadPiece(f) = Closed(f)
    BY <1>5 DEF ReadPiece
  <2> QED BY <2>1, ClosedServed
<1>6. CASE Head(q) # "end" /\ b # MaxLine
  <2> DEFINE g == ReadPiece(f)
  <2>1. g = [f EXCEPT !.inbox = Tail(q), !.buffer = b + 1]
    BY <1>6 DEF ReadPiece
  <2>2. /\ Frame(g) /\ g.inbox = Tail(q) /\ g.buffer = b + 1 /\ g.sent = n
        /\ g.at = "read"
        /\ g.open = f.open /\ g.ran = f.ran /\ g.lines = f.lines
    <3> HIDE DEF g
    <3>1. DOMAIN g = Fields
      BY <2>1, <1>1 DEF Frame
    <3>2. /\ g.inbox = Tail(q) /\ g.buffer = b + 1 /\ g.sent = n /\ g.at = "read"
          /\ g.open = f.open /\ g.ran = f.ran /\ g.lines = f.lines
      BY <2>1, <1>1 DEF Frame, Fields
    <3> QED BY <3>1, <3>2, <1>1, <1>3 DEF Frame
  <2> HIDE DEF g
  <2>3. Head(q) = "text"
    BY <1>3, <1>6 DEF Piece
  <2>4. Whole(Tail(q), b + 1, n) = W /\ (Within(Tail(q), b + 1) <=> Within(q, b))
    BY <2>3, <1>1, TailWhole, Zenon
  <2>5. Read(g) = 0
    BY <2>2 DEF Read
  <2>6. Len(g.inbox) <= g.sent /\ (g.open <=> Within(g.inbox, g.buffer))
    BY <2>2, <2>4, <1>1, <1>3, Zenon
  <2>7. Whole(g.inbox, g.buffer, g.sent) = W
    BY <2>2, <2>4, Zenon
  <2>8. g.ran + Read(g) + m <= g.lines
    <3>1. g.ran = f.ran /\ g.lines = f.lines
      BY <2>2
    <3> HIDE DEF m
    <3> QED BY <3>1, <2>5, <1>1, <1>2
  <2>9. Served(g)
    BY <2>2, <2>6, <2>7, <2>8, <1>2, Zenon DEF Served
  <2> QED BY <2>9 DEF g
<1> QED BY <1>4, <1>5, <1>6

\* dispatch runs the line that was read.
LEMMA DispatchServed ==
  ASSUME NEW f, NEW g, Served(f), f.at = "run", DOMAIN g = Fields, g.at = "answer",
         g.ran = f.ran + 1, g.inbox = f.inbox, g.buffer = f.buffer, g.sent = f.sent,
         g.open = f.open, g.lines = f.lines
  PROVE  Served(g)
<1> DEFINE W == Whole(f.inbox, f.buffer, f.sent)
           m == Cardinality(W)
<1>1. Frame(f) /\ Frame(g)
  BY DEF Served, Frame
<1>2. m \in Nat /\ f.ran + 1 + m <= f.lines
  BY FS_CardinalityType, Zenon DEF Served, Read
<1>3. Whole(g.inbox, g.buffer, g.sent) = W /\ Read(g) = 0
  BY DEF Read
<1> HIDE DEF W
<1>4. g.ran + Read(g) + m <= g.lines
  BY <1>1, <1>2, <1>3 DEF Frame
<1>5. Len(g.inbox) <= g.sent /\ (g.open <=> Within(g.inbox, g.buffer)) /\ IsFiniteSet(W)
  BY DEF Served, W
<1> QED BY <1>1, <1>3, <1>4, <1>5 DEF Served

\* A step that changes one connection
LEMMA OneServed ==
  ASSUME Sessions, NEW c \in Client, NEW g, Served(g), conn' = [conn EXCEPT ![c] = g],
         tasks' \in Seq(Client)
  PROVE  Sessions'
<1>1. DOMAIN conn' = Client /\ \A d \in Client : conn'[d] = IF d = c THEN g ELSE conn[d]
  BY DEF Sessions
<1>2. \A d \in Client : Served(conn'[d])
  BY <1>1 DEF Sessions
<1> QED BY <1>1, <1>2 DEF Sessions

\* Nobody has connected yet.
LEMMA InitSessions == NetInit => Sessions
<1> SUFFICES ASSUME NetInit, NEW c \in Client PROVE Served(conn[c])
  BY DEF NetInit, Sessions
<1> DEFINE g == conn[c]
<1>1. /\ DOMAIN g = Fields /\ g.inbox = << >> /\ g.buffer = 0 /\ g.sent = 0 /\ g.lines = 0
      /\ g.ran = 0 /\ g.at = "away"
  BY DEF NetInit, Fields
<1>2. ~g.open
  BY DEF NetInit
<1> HIDE DEF g
<1>3. 0 \in Nat /\ << >> \in Seq(Piece)
  OBVIOUS
<1>4. g.ran + Read(g) + Cardinality(Whole(g.inbox, g.buffer, g.sent)) <= g.lines
  BY <1>1, <1>3, NothingSent DEF Read
<1>5. Served(g)
  BY <1>1, <1>2, <1>3, <1>4, NothingSent DEF Served, Frame
<1> QED BY <1>5 DEF g

\* A step that moves a client and does not read
LEMMA GotoStep ==
  ASSUME Sessions, NEW c \in Client, NEW to, to # "run", Goto(c, to), tasks' \in Seq(Client)
  PROVE  Sessions'
<1>1. conn' = [conn EXCEPT ![c] = [conn[c] EXCEPT !.at = to]]
  BY DEF Goto
<1>2. Served([conn[c] EXCEPT !.at = to])
  BY Moved, Zenon DEF Sessions
<1> QED BY <1>1, <1>2, OneServed, Zenon

\* A step that closes a client's connection
LEMMA ClosedStep ==
  ASSUME Sessions, NEW c \in Client, mark_closed(c), tasks' \in Seq(Client)
  PROVE  Sessions'
<1>1. Served(Closed(conn[c]))
  BY ClosedServed DEF Sessions
<1> QED BY <1>1, OneServed, Zenon DEF mark_closed

\* What a client does
LEMMA UserStep ==
  ASSUME Sessions, NEW c \in Client, User(c)
  PROVE  Sessions'
<1>0. /\ DOMAIN conn = Client /\ Served(conn[c]) /\ Frame(conn[c]) /\ tasks \in Seq(Client)
  BY Zenon DEF Sessions, Served
<1>1. CASE Connect(c)
  BY <1>0, <1>1, GotoStep DEF Connect
<1>2. ASSUME NEW p \in {"text", "end"}, Send(c, p)
      PROVE  Sessions'
  <2> DEFINE f == conn[c]
             g == conn'[c]
  <2>1. /\ DOMAIN g = Fields /\ conn' = [conn EXCEPT ![c] = g]
        /\ g.at = f.at /\ g.inbox = Append(f.inbox, p) /\ g.buffer = f.buffer
        /\ g.sent = f.sent + 1 /\ g.ran = f.ran
        /\ g.lines = IF p = "end" /\ f.open THEN f.lines + 1 ELSE f.lines
    BY <1>0, <1>2, Zenon DEF Send, Frame, Fields
  <2>2. g.open = (p = "text")
    BY <1>0, <1>2 DEF Send, Frame, Fields
  <2>3. tasks' \in Seq(Client)
    BY <1>0, <1>2 DEF Send
  <2> HIDE DEF f, g
  <2>4. Frame(f) /\ Served(f)
    BY <1>0 DEF f
  <2>5. Frame(g)
    BY <2>1, <2>4, <1>2 DEF Frame, Piece
  <2>6. Served(g)
    BY <2>1, <2>2, <2>4, <2>5, SendServed DEF Piece
  <2> QED BY <2>1, <2>3, <2>6, OneServed, Zenon
<1>3. CASE HangUp(c)
  <2> DEFINE f == conn[c]
             g == conn'[c]
  <2>1. /\ DOMAIN g = Fields /\ conn' = [conn EXCEPT ![c] = g]
        /\ g.at = f.at /\ g.inbox = f.inbox /\ g.buffer = f.buffer
        /\ g.sent = f.sent /\ g.ran = f.ran /\ g.lines = f.lines /\ g.open = f.open
    BY <1>0, <1>3 DEF HangUp, Frame, Fields
  <2>2. tasks' \in Seq(Client)
    BY <1>0, <1>3 DEF HangUp
  <2> HIDE DEF g
  <2>3. Served(g)
    BY <2>1, <1>0 DEF Served, Frame, Read
  <2> QED BY <2>1, <2>2, <2>3, OneServed, Zenon
<1> QED BY <1>1, <1>2, <1>3 DEF User

\* The outcomes of ClientSession::write_line, the end of the process included
LEMMA write_lineStep ==
  ASSUME Sessions, NEW c \in Client, write_line(c)
  PROVE  Sessions'
<1>0. tasks' = tasks /\ tasks' \in Seq(Client)
  BY DEF write_line, Sessions
<1>1. CASE Goto(c, "read")
  BY <1>0, <1>1, GotoStep
<1>2. CASE mark_closed(c)
  BY <1>0, <1>2, ClosedStep
<1>3. CASE conn' = conn
  BY <1>0, <1>3 DEF Sessions
<1> QED BY <1>1, <1>2, <1>3 DEF write_line

\* The steps of handle_session
LEMMA handle_sessionStep ==
  ASSUME Sessions, NEW c \in Client, handle_session(c)
  PROVE  Sessions'
<1>0. /\ DOMAIN conn = Client /\ Served(conn[c]) /\ Frame(conn[c]) /\ tasks \in Seq(Client)
  BY Zenon DEF Sessions, Served
<1>1. CASE Greet(c) \/ Answer(c)
  BY <1>1, write_lineStep DEF Greet, Answer
<1>2. CASE read_line(c)
  <2> DEFINE f == conn[c]
             g == IF f.inbox # << >> THEN ReadPiece(f) ELSE Closed(f)
  <2>1. f.at = "read" /\ conn' = [conn EXCEPT ![c] = g] /\ tasks' \in Seq(Client)
    BY <1>0, <1>2 DEF read_line
  <2>2. Served(g)
    BY <2>1, <1>0, ReadServed, ClosedServed
  <2> HIDE DEF g
  <2> QED BY <2>1, <2>2, OneServed, Zenon
<1>3. CASE dispatch(c)
  <2> DEFINE f == conn[c]
             g == conn'[c]
  <2>1. /\ DOMAIN g = Fields /\ conn' = [conn EXCEPT ![c] = g]
        /\ f.at = "run" /\ g.at = "answer" /\ g.ran = f.ran + 1
        /\ g.inbox = f.inbox /\ g.buffer = f.buffer
        /\ g.sent = f.sent /\ g.lines = f.lines /\ g.open = f.open
    BY <1>0, <1>3 DEF dispatch, Frame, Fields
  <2>2. tasks' \in Seq(Client)
    BY <1>0, <1>3 DEF dispatch
  <2> HIDE DEF g
  <2>3. Served(g)
    BY <2>1, <1>0, DispatchServed
  <2> QED BY <2>1, <2>2, <2>3, OneServed, Zenon
<1> QED BY <1>1, <1>2, <1>3 DEF handle_session

\* The accept loop, the pool and stop
LEMMA ServerStep ==
  ASSUME Sessions, stop \/ AcceptLoop \/ Begin
  PROVE  Sessions'
<1>0. /\ DOMAIN conn = Client /\ tasks \in Seq(Client) /\ \A c \in Client : Served(conn[c])
  BY DEF Sessions
<1>1. CASE stop
  <2>1. /\ tasks' = tasks /\ DOMAIN conn' = Client
        /\ \A c \in Client : conn'[c] = Closed(conn[c]) \/ conn'[c] = conn[c]
    BY <1>1 DEF stop
  <2>2. \A c \in Client : Served(conn'[c])
    BY <2>1, <1>0, ClosedServed
  <2> QED BY <2>1, <2>2, <1>0 DEF Sessions
<1>2. CASE Test \/ Timeout \/ Release \/ PoolShutdown
  <2>1. conn' = conn /\ tasks' = tasks
    BY <1>2 DEF Test, Timeout, Release, PoolShutdown
  <2> QED BY <2>1, <1>0 DEF Sessions
<1>3. ASSUME NEW c \in Client, Accept(c)
      PROVE  Sessions'
  <2>1. CASE admit
    <3>1. Goto(c, "queued") /\ tasks' \in Seq(Client)
      BY <2>1, <1>0, <1>3 DEF Accept
    <3> QED BY <3>1, GotoStep
  <2>2. CASE ~admit
    <3>1. mark_closed(c) /\ tasks' \in Seq(Client)
      BY <2>2, <1>0, <1>3 DEF Accept
    <3> QED BY <3>1, ClosedStep
  <2> QED BY <2>1, <2>2
<1>4. CASE Begin
  <2>1. Head(tasks) \in Client /\ Goto(Head(tasks), "greet") /\ tasks' \in Seq(Client)
    BY <1>0, <1>4 DEF Begin
  <2> QED BY <2>1, GotoStep
<1> QED BY <1>1, <1>2, <1>3, <1>4 DEF AcceptLoop

\* handle_session runs no command whose end has not arrived and no line twice, however
\* the pieces arrive: for any number of clients and workers and lines of any length.
THEOREM WholeLines == NetSpec => []OnlyWholeLines
<1>1. Sessions /\ [NetNext]_netVars => Sessions'
  <2> SUFFICES ASSUME Sessions, [NetNext]_netVars PROVE Sessions'
    OBVIOUS
  <2>1. CASE UNCHANGED netVars
    BY <2>1 DEF Sessions, netVars
  <2>2. CASE NetNext
    BY <2>2, ServerStep, UserStep, handle_sessionStep DEF NetNext
  <2> QED BY <2>1, <2>2
<1>2. Sessions => OnlyWholeLines
  <2> SUFFICES ASSUME Sessions, NEW c \in Client PROVE conn[c].ran <= conn[c].lines
    BY DEF OnlyWholeLines
  <2> DEFINE f == conn[c]
             m == Cardinality(Whole(f.inbox, f.buffer, f.sent))
  <2>1. m \in Nat /\ f.ran + Read(f) + m <= f.lines
    BY FS_CardinalityType, Zenon DEF Sessions, Served
  <2>2. f.ran \in Nat /\ f.lines \in Nat /\ Read(f) \in Nat
    BY DEF Sessions, Served, Frame, Read
  <2> HIDE DEF m
  <2> QED BY <2>1, <2>2
<1> QED BY <1>1, <1>2, InitSessions, PTL DEF NetSpec

=============================================================================
