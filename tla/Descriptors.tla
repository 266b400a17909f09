---------------------------- MODULE Descriptors ----------------------------
(***************************************************************************)
(* File descriptors and the objects that own them, from the start of       *)
(* DatabaseServer::run to its return (net/tcp_server.cpp,                  *)
(* net/io_multiplexer.cpp, net/async_accept_loop.cpp, net/accept_loop.cpp, *)
(* net/client_session.cpp and the files of the snapshot thread).           *)
(*                                                                         *)
(* The kernel gives out the lowest number that is free, so a number that   *)
(* was closed is soon another file's: a second close, or a number that was *)
(* read before a close and used after it, would hit a stranger.  A signal  *)
(* is handled by the main thread, between two of its steps, or by any      *)
(* other thread, while the main thread goes on.  AcceptLoop, which the     *)
(* server does not use, can take the place of AsyncAcceptLoop; it keeps    *)
(* its sessions itself when it has no handler.                             *)
(***************************************************************************)
EXTENDS Integers, FiniteSets, FiniteSetsExt

CONSTANTS Client,
          MaxFd,    \* the descriptors the process may open, from 1
          Kinds     \* which accept loops: "async", "blocking", "keeping"

ASSUME MaxFdAssumption == MaxFd \in Nat

Free == <<"free">>
Listen == <<"listen">>
Epoll == <<"epoll">>
File == <<"file">>
Conn(c) == <<"conn", c>>

Signal == {"SIGINT", "SIGTERM"}

VARIABLES fds,        \* the kernel's table: what every number stands for
          kind,       \* the accept loop in use
          main,       \* where run is
          running_,   \* TcpServer::running_
          listen_fd_, \* TcpServer::listen_fd_
          poll_fd_,   \* IoMultiplexer::poll_fd_
          watched,    \* the number that add_read has registered, or -1
          accepting,  \* what accept was called on
          session,    \* every client's connection and its ClientSession
          file,       \* the snapshot thread's file, or -1
          handler,    \* where the handler of each signal is, and on which thread
          installed,  \* the signals that are not yet back at SIG_DFL
          others      \* the pool's and the schedulers' threads run

tcp == <<running_, listen_fd_>>

signals == <<handler, installed>>

vars == <<fds, kind, main, tcp, poll_fd_, watched, accepting, session, file, signals, others>>

\* The number the kernel gives to the next file; -1 with EMFILE
NewFd == LET free == {n \in 1 .. MaxFd : fds[n] = Free}
         IN  IF free = {} THEN -1 ELSE Min(free)

Opened(n, what) == [m \in 1 .. MaxFd |-> IF m = n THEN what ELSE fds[m]]

\* ::close, which ends whatever the number stands for now
close(n) == [m \in 1 .. MaxFd |-> IF m = n THEN Free ELSE fds[m]]

Away == [at |-> "away", fd_ |-> -1, alive_ |-> FALSE]

Gone == [at |-> "gone", fd_ |-> -1, alive_ |-> FALSE]

Idle == [at |-> "idle", on |-> "none"]

\* The snapshot thread is started before the listener.
Init ==
  /\ fds = [n \in 1 .. MaxFd |-> Free]
  /\ kind \in Kinds
  /\ main = "socket"
  /\ running_ = FALSE /\ listen_fd_ = -1
  /\ poll_fd_ = -1 /\ watched = -1
  /\ accepting = Free
  /\ session = [c \in Client |-> Away]
  /\ file = -1
  /\ handler = [s \in Signal |-> Idle]
  /\ installed = {}
  /\ others = TRUE

\* A thread goes on only when no handler runs on it.
On(thread) == \A s \in Signal : handler[s].on # thread

-----------------------------------------------------------------------------
(* The signal handlers: forward_signal, which calls stop                   *)

\* A second signal of the same number ends the process at once and is left out.
\* The destructor of TcpServer clears g_active_server.
SignalArrives(s, thread) ==
  /\ s \in installed
  /\ thread = "main" \/ others
  /\ installed' = installed \ {s}
  /\ IF main # "returned" /\ running_
     THEN /\ running_' = FALSE
          /\ handler' = [handler EXCEPT ![s] = [at |-> "close", on |-> thread]]
     ELSE UNCHANGED <<running_, handler>>
  /\ UNCHANGED <<fds, kind, main, listen_fd_, poll_fd_, watched, accepting, session, file, others>>

\* Connections nobody has accepted go with the listening socket, unless a call of
\* accept still holds it.
BacklogLost ==
  session' = [c \in Client |-> IF session[c].at = "backlog" /\ accepting # Listen
                               THEN Gone ELSE session[c]]

\* The two halves of close_listen
HandlerCloses(s) ==
  /\ handler[s].at = "close"
  /\ fds' = close(listen_fd_)
  /\ BacklogLost
  /\ handler' = [handler EXCEPT ![s].at = "reset"]
  /\ UNCHANGED <<kind, main, tcp, poll_fd_, watched, accepting, file, installed, others>>

HandlerResets(s) ==
  /\ handler[s].at = "reset"
  /\ listen_fd_' = -1
  /\ handler' = [handler EXCEPT ![s] = Idle]
  /\ UNCHANGED <<fds, kind, main, running_, poll_fd_, watched, accepting, session, file,
                 installed, others>>

-----------------------------------------------------------------------------
(* TcpServer::bind_and_listen                                              *)

Goto(from, to) == On("main") /\ main = from /\ main' = to

socket ==
  /\ Goto("socket", IF NewFd = -1 THEN "join" ELSE "bind")
  /\ listen_fd_' = NewFd
  /\ fds' = Opened(NewFd, Listen)
  /\ UNCHANGED <<kind, running_, poll_fd_, watched, accepting, session, file, signals, others>>

Bound ==
  /\ Goto("bind", IF kind = "async" THEN "epoll" ELSE "test")
  /\ running_' = TRUE
  /\ installed' = Signal
  /\ UNCHANGED <<fds, kind, listen_fd_, poll_fd_, watched, accepting, session, file, handler,
                 others>>

\* Fault: the listening socket of a failed start is left.
BindFailsLeaving ==
  /\ Goto("bind", "join")
  /\ listen_fd_' = -1
  /\ UNCHANGED <<fds, kind, running_, poll_fd_, watched, accepting, session, file, signals,
                 others>>

\* setsockopt, inet_pton, bind or listen fails.
BindFails ==
  /\ Goto("bind", "join")
  /\ fds' = close(listen_fd_)
  /\ listen_fd_' = -1
  /\ UNCHANGED <<kind, running_, poll_fd_, watched, accepting, session, file, signals, others>>

-----------------------------------------------------------------------------
(* The accept loops                                                        *)

\* IoMultiplexer's constructor
epoll_create ==
  /\ Goto("epoll", "add")
  /\ poll_fd_' = NewFd
  /\ fds' = Opened(NewFd, Epoll)
  /\ UNCHANGED <<kind, tcp, watched, accepting, session, file, signals, others>>

\* Its result is not looked at: a loop that watches nothing only times out.
add_read ==
  /\ Goto("add", "test")
  /\ watched' = IF poll_fd_ # -1 /\ listen_fd_ # -1 /\ fds[Max({1, listen_fd_})] = Listen
                THEN listen_fd_ ELSE -1
  /\ UNCHANGED <<fds, kind, tcp, poll_fd_, accepting, session, file, signals, others>>

\* Fault: the loop does not look at running_.
TestForever ==
  /\ Goto("test", IF kind = "async" THEN "wait" ELSE "accept")
  /\ UNCHANGED <<fds, kind, tcp, poll_fd_, watched, accepting, session, file, signals, others>>

Test ==
  /\ Goto("test", IF ~running_ THEN "drop" ELSE IF kind = "async" THEN "wait" ELSE "accept")
  /\ UNCHANGED <<fds, kind, tcp, poll_fd_, watched, accepting, session, file, signals, others>>

Backlog == {c \in Client : session[c].at = "backlog"}

\* wait times out or fails, or its callback is told of a number that is not, or no
\* longer, the listener's.
WaitInVain ==
  /\ Goto("wait", "test")
  /\ UNCHANGED <<fds, kind, tcp, poll_fd_, watched, accepting, session, file, signals, others>>

WaitReady ==
  /\ Goto("wait", "accept")
  /\ watched # -1 /\ watched = listen_fd_ /\ fds[Max({1, watched})] = Listen
  /\ Backlog # {}
  /\ UNCHANGED <<fds, kind, tcp, poll_fd_, watched, accepting, session, file, signals, others>>

\* ::accept begins, on what the number in listen_fd_ stands for by now.
CallAccept ==
  /\ Goto("accept", "accepting")
  /\ accepting' = IF listen_fd_ = -1 THEN Free ELSE fds[Max({1, listen_fd_})]
  /\ UNCHANGED <<fds, kind, tcp, poll_fd_, watched, session, file, signals, others>>

AcceptFails ==
  /\ Goto("accepting", "test")
  /\ accepting # Listen \/ NewFd = -1
  /\ accepting' = Free
  /\ session' = [c \in Client |-> IF c \in Backlog /\ Listen \notin {fds[n] : n \in 1 .. MaxFd}
                                  THEN Gone ELSE session[c]]
  /\ UNCHANGED <<fds, kind, tcp, poll_fd_, watched, file, signals, others>>

\* The rest of the backlog is lost if the socket was closed during the call.
Accepted(c) ==
  /\ Goto("accepting", "handle")
  /\ accepting = Listen /\ NewFd # -1 /\ c \in Backlog
  /\ accepting' = Free
  /\ fds' = Opened(NewFd, Conn(c))
  /\ session' = [d \in Client |->
       IF d = c THEN [at |-> "accepted", fd_ |-> NewFd, alive_ |-> TRUE]
       ELSE IF d \in Backlog /\ Listen \notin {fds[n] : n \in 1 .. MaxFd}
            THEN Gone ELSE session[d]]
  /\ UNCHANGED <<kind, tcp, poll_fd_, watched, file, signals, others>>

\* Fault: a session that is closed is closed again.
mark_closedAgain(c, to) ==
  /\ fds' = close(session[c].fd_)
  /\ session' = [session EXCEPT ![c].at = to, ![c].alive_ = FALSE]

mark_closed(c, to) ==
  /\ fds' = IF session[c].alive_ THEN close(session[c].fd_) ELSE fds
  /\ session' = [session EXCEPT ![c] = [at |-> to, fd_ |-> -1, alive_ |-> FALSE]]

\* The handler gives the session to a worker; without one the loop keeps it.
HandOver(c) ==
  /\ Goto("handle", "test")
  /\ session[c].at = "accepted"
  /\ session' = [session EXCEPT ![c].at = IF kind = "keeping" THEN "kept" ELSE "serving"]
  /\ UNCHANGED <<fds, kind, tcp, poll_fd_, watched, accepting, file, signals, others>>

\* The handler closes a session it does not admit; then the session is destroyed.
Reject(c) ==
  /\ Goto("handle", "destroy")
  /\ kind # "keeping" /\ session[c].at = "accepted"
  /\ mark_closed(c, "rejected")
  /\ UNCHANGED <<kind, tcp, poll_fd_, watched, accepting, file, signals, others>>

Destroy(c) ==
  /\ Goto("destroy", "test")
  /\ session[c].at = "rejected"
  /\ mark_closed(c, "gone")
  /\ UNCHANGED <<kind, tcp, poll_fd_, watched, accepting, file, signals, others>>

\* A worker: read_line or write_line closes the session, handle_session closes it when
\* its loop has ended, and the destructor closes it.
Serve(c) ==
  /\ \/ session[c].at = "serving" /\ mark_closed(c, "ended")
     \/ session[c].at = "ended" /\ mark_closed(c, "done")
     \/ session[c].at = "done" /\ mark_closed(c, "gone")
  /\ UNCHANGED <<kind, main, tcp, poll_fd_, watched, accepting, file, signals, others>>

-----------------------------------------------------------------------------
(* The snapshot thread, and the end of run                                 *)

OpenFile ==
  /\ others
  /\ file = -1 /\ NewFd # -1
  /\ file' = NewFd
  /\ fds' = Opened(NewFd, File)
  /\ UNCHANGED <<kind, main, tcp, poll_fd_, watched, accepting, session, signals, others>>

CloseFile ==
  /\ file # -1
  /\ fds' = close(file)
  /\ file' = -1
  /\ UNCHANGED <<kind, main, tcp, poll_fd_, watched, accepting, session, signals, others>>

\* The end of AcceptLoop::run_until_stopped, one kept session after the other
DropKept(c) ==
  /\ Goto("drop", "drop")
  /\ session[c].at = "kept"
  /\ mark_closed(c, "gone")
  /\ UNCHANGED <<kind, tcp, poll_fd_, watched, accepting, file, signals, others>>

Dropped ==
  /\ Goto("drop", "join")
  /\ \A c \in Client : session[c].at # "kept"
  /\ UNCHANGED <<fds, kind, tcp, poll_fd_, watched, accepting, session, file, signals, others>>

\* pool.shutdown
PoolShutdown ==
  /\ Goto("join", "stop")
  /\ \A c \in Client : session[c].at \notin {"serving", "ended", "done"}
  /\ UNCHANGED <<fds, kind, tcp, poll_fd_, watched, accepting, session, file, signals, others>>

\* Fault: a thread that is inside a signal handler is not waited for.
SchedulersStopAtOnce ==
  /\ Goto("stop", "leave")
  /\ file = -1
  /\ others' = FALSE
  /\ UNCHANGED <<fds, kind, tcp, poll_fd_, watched, accepting, session, file, signals>>

\* ttl_scheduler.stop and snapshots.stop.  The joins, those of the pool included, wait
\* for a thread that is inside a signal handler too.
SchedulersStop ==
  /\ Goto("stop", "leave")
  /\ file = -1
  /\ On("other")
  /\ others' = FALSE
  /\ UNCHANGED <<fds, kind, tcp, poll_fd_, watched, accepting, session, file, signals>>

\* The last snapshot, whose file the main thread opens and closes when it is alone, and
\* the end of run's locals: the multiplexer closes its descriptor, and TcpServer stops if
\* nobody has stopped it.
Leave ==
  /\ Goto("leave", "returned")
  /\ fds' = [n \in 1 .. MaxFd |-> IF n = poll_fd_ \/ (running_ /\ n = listen_fd_)
                                  THEN Free ELSE fds[n]]
  /\ poll_fd_' = -1
  /\ running_' = FALSE
  /\ UNCHANGED <<kind, listen_fd_, watched, accepting, session, file, signals, others>>

\* External: a client connects while the socket listens.
Connect(c) ==
  /\ session[c].at = "away"
  /\ main \notin {"socket", "bind"}
  /\ \E n \in 1 .. MaxFd : fds[n] = Listen
  /\ session' = [session EXCEPT ![c].at = "backlog"]
  /\ UNCHANGED <<fds, kind, main, tcp, poll_fd_, watched, accepting, file, signals, others>>

Run ==
  \/ socket \/ Bound \/ BindFails
  \/ epoll_create \/ add_read \/ Test \/ WaitInVain \/ WaitReady
  \/ CallAccept \/ AcceptFails
  \/ \E c \in Client : Accepted(c) \/ HandOver(c) \/ Reject(c) \/ Destroy(c) \/ DropKept(c)
  \/ Dropped \/ PoolShutdown \/ SchedulersStop \/ Leave

Handle(s) == HandlerCloses(s) \/ HandlerResets(s)

Next ==
  \/ Run
  \/ \E s \in Signal : Handle(s) \/ \E t \in {"main", "other"} : SignalArrives(s, t)
  \/ \E c \in Client : Serve(c) \/ Connect(c)
  \/ OpenFile \/ CloseFile

\* The threads run, a session ends some time, and the snapshot thread's loop sees that
\* it is to stop, however often it opens its file.
Spec ==
  /\ Init /\ [][Next]_vars
  /\ WF_vars(Run) /\ WF_vars(CloseFile) /\ SF_vars(SchedulersStop)
  /\ \A s \in Signal : WF_vars(Handle(s))
  /\ \A c \in Client : WF_vars(Serve(c))

-----------------------------------------------------------------------------
(* Properties                                                              *)

\* Every owner's number stands for its own file: the listener's until close_listen
\* closes it, the multiplexer's, the snapshot file's, and every session's as long as
\* it is alive.  No close, however late or often repeated, and whichever thread the
\* signal stops, has hit a number that the kernel had given to somebody else.
OwnDescriptors ==
  /\ listen_fd_ # -1 /\ (\A s \in Signal : handler[s].at # "reset") => fds[listen_fd_] = Listen
  /\ poll_fd_ # -1 => fds[poll_fd_] = Epoll
  /\ file # -1 => fds[file] = File
  /\ \A c \in Client : session[c].alive_ => fds[session[c].fd_] = Conn(c)

\* When run returns, by a signal or because it could not listen, nothing is left open:
\* every path closes the listener, the multiplexer and every accepted connection.
NothingLeftOpen == main = "returned" => \A n \in 1 .. MaxFd : fds[n] = Free

\* A signal handler works on a TcpServer that exists: run does not return while one is
\* inside stop, on whatever thread, since it waits for every thread first.
HandlerSeesServer == main = "returned" => \A s \in Signal : handler[s] = Idle

\* A signal ends a run with AsyncAcceptLoop, whatever descriptors are left to it.
SignalEndsRun ==
  \A s \in Signal : kind = "async" /\ handler[s] # Idle ~> main = "returned"

=============================================================================
