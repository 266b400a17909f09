----------------------------- MODULE ThreadPool -----------------------------
(***************************************************************************)
(* The pool that runs client sessions (concurrency/thread_pool.cpp).       *)
(*                                                                         *)
(* A section under mutex_ is one step; notify_one and notify_all come      *)
(* after the unlock and are steps of their own.  A worker inside cv_.wait  *)
(* has released the mutex; it leaves when it is notified, or for no reason *)
(* at all, and then evaluates the predicate again.  A task is one session; *)
(* it ends because the socket is non-blocking: read_line closes a session  *)
(* that has nothing to read, and no client sends for ever without a pause. *)
(***************************************************************************)
EXTENDS Naturals, Sequences

CONSTANTS Worker,   \* the threads of workers_
          Caller,   \* threads that call enqueue and shutdown
          Task,     \* the tasks they enqueue, each at most once
          NoTask

ASSUME WorkerAssumption == Worker # {}   \* the constructor makes one out of zero

ASSUME NoTaskAssumption == NoTask \notin Task

VARIABLES tasks_, stopping_,
          worker,    \* [Worker -> {"locking", "waiting", "running", "exited"}]
          running,   \* the task each worker runs
          caller,    \* where each caller is
          accepted,  \* the tasks put into the queue, in order
          started,   \* the tasks taken out of it, in order
          finished,  \* the tasks that have returned
          dropped    \* the tasks enqueue ignored

vars == <<tasks_, stopping_, worker, running, caller,
          accepted, started, finished, dropped>>

Elements(s) == {s[i] : i \in 1 .. Len(s)}

Init ==
  /\ tasks_ = << >>
  /\ stopping_ = FALSE
  /\ worker = [w \in Worker |-> "locking"]
  /\ running = [w \in Worker |-> NoTask]
  /\ caller = [c \in Caller |-> "idle"]
  /\ accepted = << >>
  /\ started = << >>
  /\ finished = {}
  /\ dropped = {}

-----------------------------------------------------------------------------
(* worker_loop                                                             *)

Wait(w) ==
  /\ worker[w] = "locking"
  /\ ~stopping_ /\ tasks_ = << >>
  /\ worker' = [worker EXCEPT ![w] = "waiting"]
  /\ UNCHANGED <<tasks_, stopping_, running, caller,
                 accepted, started, finished, dropped>>

SpuriousWakeup(w) ==
  /\ worker[w] = "waiting"
  /\ worker' = [worker EXCEPT ![w] = "locking"]
  /\ UNCHANGED <<tasks_, stopping_, running, caller,
                 accepted, started, finished, dropped>>

\* Fault: a worker leaves as soon as the pool is stopping.
ExitEarly(w) ==
  /\ worker[w] = "locking"
  /\ stopping_
  /\ worker' = [worker EXCEPT ![w] = "exited"]
  /\ UNCHANGED <<tasks_, stopping_, running, caller,
                 accepted, started, finished, dropped>>

\* Fault: continue in the place of return.
ExitNever(w) ==
  /\ worker[w] = "locking"
  /\ stopping_ /\ tasks_ = << >>
  /\ UNCHANGED vars

Exit(w) ==
  /\ worker[w] = "locking"
  /\ stopping_ /\ tasks_ = << >>
  /\ worker' = [worker EXCEPT ![w] = "exited"]
  /\ UNCHANGED <<tasks_, stopping_, running, caller,
                 accepted, started, finished, dropped>>

\* Fault: the front of the queue is copied and not popped.
TakeWithoutPop(w) ==
  /\ worker[w] = "locking"
  /\ tasks_ # << >>
  /\ worker' = [worker EXCEPT ![w] = "running"]
  /\ running' = [running EXCEPT ![w] = Head(tasks_)]
  /\ started' = Append(started, Head(tasks_))
  /\ UNCHANGED <<tasks_, stopping_, caller, accepted, finished, dropped>>

\* Fault: a worker takes a task only when there are two.
TakeOfTwo(w) ==
  /\ worker[w] = "locking"
  /\ Len(tasks_) > 1 \/ (stopping_ /\ tasks_ # << >>)
  /\ worker' = [worker EXCEPT ![w] = "running"]
  /\ running' = [running EXCEPT ![w] = Head(tasks_)]
  /\ tasks_' = Tail(tasks_)
  /\ started' = Append(started, Head(tasks_))
  /\ UNCHANGED <<stopping_, caller, accepted, finished, dropped>>

Take(w) ==
  /\ worker[w] = "locking"
  /\ tasks_ # << >>
  /\ worker' = [worker EXCEPT ![w] = "running"]
  /\ running' = [running EXCEPT ![w] = Head(tasks_)]
  /\ tasks_' = Tail(tasks_)
  /\ started' = Append(started, Head(tasks_))
  /\ UNCHANGED <<stopping_, caller, accepted, finished, dropped>>

TaskReturns(w) ==
  /\ worker[w] = "running"
  /\ worker' = [worker EXCEPT ![w] = "locking"]
  /\ running' = [running EXCEPT ![w] = NoTask]
  /\ finished' = finished \cup {running[w]}
  /\ UNCHANGED <<tasks_, stopping_, caller, accepted, started, dropped>>

-----------------------------------------------------------------------------
(* enqueue and shutdown                                                    *)

\* Fault: enqueue does not notify.
EnqueueSilently(c, t) ==
  /\ caller[c] = "idle"
  /\ t \notin Elements(accepted) \cup dropped
  /\ \/ /\ stopping_
        /\ dropped' = dropped \cup {t}
        /\ UNCHANGED <<tasks_, accepted>>
     \/ /\ ~stopping_
        /\ tasks_' = Append(tasks_, t)
        /\ accepted' = Append(accepted, t)
        /\ UNCHANGED dropped
  /\ UNCHANGED <<stopping_, worker, running, caller, started, finished>>

Enqueue(c, t) ==
  /\ caller[c] = "idle"
  /\ t \notin Elements(accepted) \cup dropped
  /\ \/ /\ stopping_
        /\ dropped' = dropped \cup {t}
        /\ UNCHANGED <<tasks_, caller, accepted>>
     \/ /\ ~stopping_
        /\ tasks_' = Append(tasks_, t)
        /\ accepted' = Append(accepted, t)
        /\ caller' = [caller EXCEPT ![c] = "notify_one"]
        /\ UNCHANGED dropped
  /\ UNCHANGED <<stopping_, worker, running, started, finished>>

\* wakes one waiting worker, or nobody when none waits
NotifyOne(c) ==
  /\ caller[c] = "notify_one"
  /\ caller' = [caller EXCEPT ![c] = "idle"]
  /\ \/ \E w \in Worker : /\ worker[w] = "waiting"
                          /\ worker' = [worker EXCEPT ![w] = "locking"]
     \/ (\A w \in Worker : worker[w] # "waiting") /\ UNCHANGED worker
  /\ UNCHANGED <<tasks_, stopping_, running,
                 accepted, started, finished, dropped>>

\* A call that finds stopping_ set returns at once and changes nothing.
Shutdown(c) ==
  /\ caller[c] = "idle"
  /\ ~stopping_
  /\ stopping_' = TRUE
  /\ caller' = [caller EXCEPT ![c] = "notify_all"]
  /\ UNCHANGED <<tasks_, worker, running,
                 accepted, started, finished, dropped>>

NotifyAll(c) ==
  /\ caller[c] = "notify_all"
  /\ caller' = [caller EXCEPT ![c] = "join"]
  /\ worker' = [w \in Worker |-> IF worker[w] = "waiting" THEN "locking"
                                                          ELSE worker[w]]
  /\ UNCHANGED <<tasks_, stopping_, running,
                 accepted, started, finished, dropped>>

\* join on every thread of workers_
Join(c) ==
  /\ caller[c] = "join"
  /\ \A w \in Worker : worker[w] = "exited"
  /\ caller' = [caller EXCEPT ![c] = "joined"]
  /\ UNCHANGED <<tasks_, stopping_, worker, running,
                 accepted, started, finished, dropped>>

-----------------------------------------------------------------------------
WorkerLoop(w) == Wait(w) \/ Exit(w) \/ Take(w) \/ TaskReturns(w)

Continue(c) == NotifyOne(c) \/ NotifyAll(c) \/ Join(c)

\* The pool is down and every task has been offered to it.
Over ==
  /\ \E c \in Caller : caller[c] = "joined"
  /\ \A c \in Caller : caller[c] \in {"idle", "joined"}
  /\ Task \subseteq Elements(accepted) \cup dropped
  /\ UNCHANGED vars

Next == \/ \E w \in Worker : WorkerLoop(w) \/ SpuriousWakeup(w)
        \/ \E c \in Caller : \/ \E t \in Task : Enqueue(c, t)
                             \/ Shutdown(c)
                             \/ Continue(c)
        \/ Over

\* Threads that can run do run; nobody has to call enqueue or shutdown, and no
\* spurious wakeup has to happen.
Spec == /\ Init /\ [][Next]_vars
        /\ \A w \in Worker : WF_vars(WorkerLoop(w))
        /\ \A c \in Caller : WF_vars(Continue(c))

-----------------------------------------------------------------------------
TypeOK ==
  /\ tasks_ \in Seq(Task)
  /\ stopping_ \in BOOLEAN
  /\ worker \in [Worker -> {"locking", "waiting", "running", "exited"}]
  /\ running \in [Worker -> Task \cup {NoTask}]
  /\ caller \in [Caller -> {"idle", "notify_one", "notify_all", "join", "joined"}]
  /\ accepted \in Seq(Task)
  /\ started \in Seq(Task)
  /\ finished \subseteq Task
  /\ dropped \subseteq Task

\* Every accepted task is at all times in exactly one place: in the queue, with
\* one worker, or finished; and sessions are served in the order in which they
\* were accepted.
EachTaskOnce ==
  /\ accepted = started \o tasks_
  /\ \A i, j \in 1 .. Len(accepted) : accepted[i] = accepted[j] => i = j
  /\ \A v, w \in Worker :
       running[v] = running[w] /\ running[v] # NoTask => v = w
  /\ \A w \in Worker : running[w] \notin finished
  /\ Elements(started) = finished \cup ({running[w] : w \in Worker} \ {NoTask})

\* No wakeup is lost.  Although enqueue and shutdown notify after they have
\* released the mutex, it never happens that a task lies in the queue, or the
\* pool is stopping, while every worker sleeps and nobody is about to wake one.
NoLostWakeup ==
  /\ tasks_ # << >> /\ (\A w \in Worker : worker[w] = "waiting")
       => \E c \in Caller : caller[c] \in {"notify_one", "notify_all"}
  /\ stopping_ /\ (\E w \in Worker : worker[w] = "waiting")
       => \E c \in Caller : caller[c] = "notify_all"

\* When shutdown has joined the workers, the sessions accepted before it have
\* all run to their end: DatabaseServer::run may then write the last snapshot
\* without a worker still changing the data.
ShutdownDrains ==
  (\E c \in Caller : caller[c] = "joined") =>
    /\ tasks_ = << >>
    /\ \A w \in Worker : worker[w] = "exited"
    /\ Elements(accepted) = finished

\* An accepted session is served.
AcceptedTaskRuns ==
  \A t \in Task : t \in Elements(accepted) ~> t \in finished

\* shutdown returns.
ShutdownReturns ==
  \A c \in Caller : caller[c] = "notify_all" ~> caller[c] = "joined"
=============================================================================
