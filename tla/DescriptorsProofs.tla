------------------------- MODULE DescriptorsProofs -------------------------
(***************************************************************************)
(* Proofs about Descriptors, for any set of clients, any number of         *)
(* descriptors and any choice of accept loops.                             *)
(***************************************************************************)
EXTENDS Descriptors, TLAPS, WellFoundedInduction

Numbers == 1 .. MaxFd

\* What a number can stand for
What == {Free, Listen, Epoll, File} \cup {Conn(c) : c \in Client}

\* Where run is while it can accept
Looping == {"test", "wait", "accept", "accepting", "handle", "destroy", "drop"}

\* Where run is when the accept loop has ended or was never entered
Ending == {"join", "stop", "leave", "returned"}

\* A client's connection and its ClientSession
SessionAt == {"away", "backlog", "accepted", "kept", "serving", "rejected", "ended", "done", "gone"}

Session == [at : SessionAt, fd_ : Numbers \cup {-1}, alive_ : BOOLEAN]

\* What a signal's handler can be doing, and on which thread
Handling == {Idle} \cup [at : {"close", "reset"}, on : {"main", "other"}]

Types ==
  /\ fds \in [Numbers -> What]
  /\ main \in {"socket", "bind", "epoll", "add"} \cup Looping \cup Ending
  /\ running_ \in BOOLEAN /\ others \in BOOLEAN
  /\ listen_fd_ \in Numbers \cup {-1}
  /\ poll_fd_ \in Numbers \cup {-1}
  /\ file \in Numbers \cup {-1}
  /\ session \in [Client -> Session]
  /\ handler \in [Signal -> Handling]
  /\ installed \in SUBSET Signal

\* The listener's number is its own until a handler has closed it.
Listening == listen_fd_ # -1 /\ \A s \in Signal : handler[s].at # "reset"

\* A number stands for a file exactly when the file's owner holds that number.
Owners ==
  \A n \in Numbers :
    /\ fds[n] = Listen <=> Listening /\ n = listen_fd_
    /\ fds[n] = Epoll <=> n = poll_fd_
    /\ fds[n] = File <=> n = file
    /\ \A c \in Client : fds[n] = Conn(c) <=> session[c].alive_ /\ n = session[c].fd_

\* Who holds the listening socket: bind_and_listen, the running server, or one handler
Listener ==
  /\ listen_fd_ # -1 => main = "bind" \/ running_ \/ \E s \in Signal : handler[s] # Idle
  /\ main = "bind" \/ running_ \/ (\E s \in Signal : handler[s].at = "close") => listen_fd_ # -1
  /\ running_ => \A s \in Signal : handler[s] = Idle
  /\ \A s, t \in Signal : handler[s] # Idle /\ handler[t] # Idle => s = t
  /\ main \in {"socket", "bind"} => ~running_ /\ installed = {} /\ \A s \in Signal : handler[s] = Idle
  /\ main \in Ending \cup {"drop"} => ~running_

\* What the places of run say about the other owners
Places ==
  /\ main = "socket" => listen_fd_ = -1
  /\ main \in {"socket", "bind", "epoll"} => poll_fd_ = -1
  /\ main \in {"leave", "returned"} => ~others /\ file = -1 /\ On("other")
  /\ main = "returned" => On("main") /\ poll_fd_ = -1

\* An accepted connection is in exactly one pair of hands while it is open.
Hands ==
  /\ \A c \in Client :
       session[c].alive_ =>
         /\ session[c].fd_ # -1
         /\ \/ session[c].at = "accepted"
            \/ session[c].at = "kept" /\ main \in Looping
            \/ session[c].at = "serving" /\ main \in Looping \cup {"join"}
  /\ \A c, d \in Client : session[c].at = "accepted" /\ session[d].at = "accepted" => c = d
  /\ \A c \in Client : session[c].at = "accepted" => main = "handle"

IInv == Types /\ Owners /\ Listener /\ Places /\ Hands

-----------------------------------------------------------------------------
(* The kernel's numbers                                                    *)

\* No two kinds of files, and no two clients' connections, are the same.
LEMMA Distinct ==
  /\ Free # Listen /\ Free # Epoll /\ Free # File
  /\ Listen # Epoll /\ Listen # File /\ Epoll # File
  /\ \A c \in Client : Conn(c) \notin {Free, Listen, Epoll, File}
  /\ \A c, d \in Client : Conn(c) = Conn(d) => c = d
<1>1. /\ Free[1] = "free" /\ Listen[1] = "listen" /\ Epoll[1] = "epoll" /\ File[1] = "file"
      /\ \A c \in Client : Conn(c)[1] = "conn" /\ Conn(c)[2] = c
  BY DEF Free, Listen, Epoll, File, Conn
<1> QED BY <1>1

\* A new number is one that was free.
LEMMA NewFdIsFree ==
  NewFd = -1 \/ (NewFd \in Numbers /\ fds[NewFd] = Free)
<1> DEFINE free == {n \in Numbers : fds[n] = Free}
           less == OpToRel(<, Nat)
<1>1. CASE free = {}
  BY <1>1 DEF NewFd, Numbers
<1>2. CASE free # {}
  <2>1. free \subseteq Nat
    BY MaxFdAssumption, SMT DEF Numbers
  <2>2. \A x, y \in Nat : y < x => <<y, x>> \in less
    BY Zenon DEF OpToRel
  <2> HIDE DEF free
  <2>3. PICK x \in free : \A y \in free : <<y, x>> \notin less
    BY <1>2, <2>1, NatLessThanWellFounded, WFMin, Zenon
  <2>4. \A y \in free : x =< y
    <3>1. \A y \in free : x \in Nat /\ y \in Nat /\ ~(y < x)
      BY <2>1, <2>2, <2>3, Zenon
    <3> QED BY <3>1, SMT
  <2>5. Min(free) \in free
    BY <2>4, Zenon DEF Min
  <2> QED BY <1>2, <2>5, Zenon DEF NewFd, Numbers, free
<1> QED BY <1>1, <1>2

\* Opening and closing change one number.
LEMMA OneNumber ==
  ASSUME Types, NEW n, NEW what \in What
  PROVE  /\ Opened(n, what) \in [Numbers -> What]
         /\ close(n) \in [Numbers -> What]
         /\ \A m \in Numbers : /\ Opened(n, what)[m] = IF m = n THEN what ELSE fds[m]
                               /\ close(n)[m] = IF m = n THEN Free ELSE fds[m]
BY DEF Types, Opened, close, Numbers, What

\* A session that is closed gives its number back if it still has one.
LEMMA ClosedGivesBack ==
  ASSUME IInv, NEW c \in Client, NEW to \in SessionAt, mark_closed(c, to),
         listen_fd_' = listen_fd_, poll_fd_' = poll_fd_, file' = file, handler' = handler
  PROVE  /\ fds' \in [Numbers -> What]
         /\ session' \in [Client -> Session]
         /\ session'[c] = [at |-> to, fd_ |-> -1, alive_ |-> FALSE]
         /\ \A d \in Client \ {c} : session'[d] = session[d]
         /\ Owners'
<1>1. Types /\ Owners /\ Free \in What
  BY DEF IInv, What
<1> DEFINE n == session[c].fd_
<1>2. fds' \in [Numbers -> What]
  BY <1>1, OneNumber DEF mark_closed, Types
<1>3. /\ session' \in [Client -> Session]
      /\ session'[c] = [at |-> to, fd_ |-> -1, alive_ |-> FALSE]
      /\ \A d \in Client \ {c} : session'[d] = session[d]
  BY <1>1 DEF mark_closed, Types, Session
<1>4. \A m \in Numbers : fds'[m] = IF session[c].alive_ /\ m = n THEN Free ELSE fds[m]
  BY <1>1, OneNumber, ZenonT(30) DEF mark_closed
<1>5. session[c].alive_ => n \in Numbers /\ fds[n] = Conn(c)
  BY <1>1 DEF Types, Session, Owners, IInv, Hands
<1>6. Owners'
  <2> SUFFICES ASSUME NEW m \in Numbers
               PROVE  /\ fds'[m] = Listen <=> Listening' /\ m = listen_fd_'
                      /\ fds'[m] = Epoll <=> m = poll_fd_'
                      /\ fds'[m] = File <=> m = file'
                      /\ \A d \in Client :
                           fds'[m] = Conn(d) <=> session'[d].alive_ /\ m = session'[d].fd_
    BY Zenon DEF Owners, Numbers
  <2>1. Listening' = Listening
    BY DEF Listening
  <2>2. CASE session[c].alive_ /\ m = n
    BY <1>1, <1>3, <1>4, <1>5, <2>1, <2>2, Distinct DEF Owners
  <2>3. CASE ~(session[c].alive_ /\ m = n)
    BY <1>1, <1>3, <1>4, <2>1, <2>3, Distinct DEF Owners
  <2> QED BY <2>2, <2>3
<1> QED BY <1>2, <1>3, <1>6

-----------------------------------------------------------------------------
(* The steps                                                               *)

\* run begins with nothing open.
LEMMA InitIInv ==
  ASSUME Init
  PROVE  IInv
<1>1. Types
  <2>1. fds \in [Numbers -> What] /\ installed \in SUBSET Signal
    BY DEF Init, What, Numbers
  <2>2. session \in [Client -> Session]
    <3>1. Away \in Session
      BY DEF Away, Session, SessionAt
    <3> QED BY <3>1 DEF Init
  <2>3. handler \in [Signal -> Handling]
    BY DEF Init, Handling
  <2> QED BY <2>1, <2>2, <2>3 DEF Init, Types
<1>2. Owners
  BY MaxFdAssumption, Distinct DEF Init, Owners, Listening, Away, Numbers
<1>3. Listener /\ Places
  BY DEF Init, Listener, Places, Idle, Ending
<1>4. Hands
  BY DEF Init, Hands, Away
<1> QED BY <1>1, <1>2, <1>3, <1>4 DEF IInv

\* Steps that only move run: add_read and the loops' tests and waits, the ends of the
\* loop and of the pool.
LEMMA MovesKeep ==
  ASSUME IInv,
         add_read \/ Test \/ WaitInVain \/ WaitReady \/ CallAccept \/ Dropped \/ PoolShutdown
  PROVE  IInv'
<1> USE DEF Goto, tcp, signals, add_read, Test, WaitInVain, WaitReady, CallAccept, Dropped,
            PoolShutdown
<1>1. Types'
  BY DEF IInv, Types, Looping, Ending
<1>2. Owners'
  BY DEF IInv, Owners, Listening
<1>3. Listener'
  BY DEF IInv, Listener, Ending
<1>4. Places'
  BY DEF IInv, Places, On
<1>5. Hands'
  BY DEF IInv, Types, Hands, Looping
<1> QED BY <1>1, <1>2, <1>3, <1>4, <1>5 DEF IInv

\* bind_and_listen opens the listening socket, keeps it, or closes it again.
LEMMA BindKeeps ==
  ASSUME IInv, socket \/ Bound \/ BindFails
  PROVE  IInv'
<1> USE DEF Goto, tcp, signals
<1>0. Types /\ Owners /\ Free \in What /\ Listen \in What
  BY DEF IInv, What
<1>1. CASE socket
  <2>1. Types'
    BY <1>0, <1>1, NewFdIsFree, OneNumber DEF socket, Types, Ending
  <2>2. Listener' /\ Places'
    BY <1>1, NewFdIsFree DEF socket, IInv, Types, Listener, Places, On, Ending, Idle
  <2>3. Hands'
    BY <1>1 DEF socket, IInv, Types, Hands, Looping
  <2>4. listen_fd_ = -1 /\ \A s \in Signal : handler[s].at # "reset"
    BY <1>1 DEF socket, IInv, Places, Listener, Idle
  <2>5. Owners'
    BY <1>0, <1>1, <2>4, MaxFdAssumption, NewFdIsFree, OneNumber, Distinct
       DEF socket, Owners, Listening, Types, Numbers
  <2> QED BY <2>1, <2>2, <2>3, <2>5 DEF IInv
<1>2. CASE Bound
  <2>1. Types'
    BY <1>0, <1>2 DEF Bound, Types, Looping
  <2>2. Owners'
    BY <1>0, <1>2 DEF Bound, Owners, Listening
  <2>3. Listener' /\ Places'
    BY <1>2 DEF Bound, IInv, Listener, Places, On, Ending
  <2>4. Hands'
    BY <1>2 DEF Bound, IInv, Types, Hands, Looping
  <2> QED BY <2>1, <2>2, <2>3, <2>4 DEF IInv
<1>3. CASE BindFails
  <2>1. Types'
    BY <1>0, <1>3, OneNumber DEF BindFails, Types, Ending
  <2>2. Listener' /\ Places'
    BY <1>3 DEF BindFails, IInv, Listener, Places, On, Ending, Idle
  <2>3. Hands'
    BY <1>3 DEF BindFails, IInv, Types, Hands, Looping
  <2>4. Listening /\ listen_fd_ \in Numbers
    BY <1>0, <1>3 DEF BindFails, IInv, Listener, Listening, Types, Idle
  <2>5. \A m \in Numbers : fds'[m] = IF m = listen_fd_ THEN Free ELSE fds[m]
    BY <1>0, <1>3, OneNumber DEF BindFails
  <2>6. Owners'
    BY <1>0, <1>3, <2>4, <2>5, Distinct DEF BindFails, Owners, Listening, Numbers
  <2> QED BY <2>1, <2>2, <2>3, <2>6 DEF IInv
<1> QED BY <1>1, <1>2, <1>3

\* The multiplexer and the snapshot thread take and give back a number of their own.
LEMMA OtherFilesKeep ==
  ASSUME IInv, epoll_create \/ OpenFile \/ CloseFile
  PROVE  IInv'
<1> USE DEF tcp, signals
<1>0. Types /\ Owners /\ {Free, Epoll, File} \subseteq What
  BY DEF IInv, What
<1>1. CASE epoll_create
  <2>1. Types'
    BY <1>0, <1>1, NewFdIsFree, OneNumber DEF epoll_create, Goto, Types
  <2>2. poll_fd_ = -1
    BY <1>1 DEF epoll_create, Goto, IInv, Places
  <2>3. Owners'
    BY <1>0, <1>1, <2>2, MaxFdAssumption, NewFdIsFree, OneNumber, Distinct
       DEF epoll_create, Owners, Listening, Numbers
  <2>4. Listener' /\ Places' /\ Hands'
    BY <1>1 DEF epoll_create, Goto, IInv, Types, Listener, Places, Hands, On, Looping, Ending
  <2> QED BY <2>1, <2>3, <2>4 DEF IInv
<1>2. CASE OpenFile
  <2>1. Types'
    BY <1>0, <1>2, NewFdIsFree, OneNumber DEF OpenFile, Types
  <2>2. Owners'
    BY <1>0, <1>2, MaxFdAssumption, NewFdIsFree, OneNumber, Distinct
       DEF OpenFile, Owners, Listening, Numbers
  <2>3. Listener' /\ Places' /\ Hands'
    BY <1>2 DEF OpenFile, IInv, Listener, Places, Hands, On
  <2> QED BY <2>1, <2>2, <2>3 DEF IInv
<1>3. CASE CloseFile
  <2>1. Types'
    BY <1>0, <1>3, OneNumber DEF CloseFile, Types
  <2>2. \A m \in Numbers : fds'[m] = IF m = file THEN Free ELSE fds[m]
    BY <1>0, <1>3, OneNumber DEF CloseFile
  <2>3. Owners'
    BY <1>0, <1>3, <2>2, MaxFdAssumption, Distinct DEF CloseFile, Owners, Listening, Numbers
  <2>4. Listener' /\ Places' /\ Hands'
    BY <1>3 DEF CloseFile, IInv, Listener, Places, Hands, On
  <2> QED BY <2>1, <2>3, <2>4 DEF IInv
<1> QED BY <1>1, <1>2, <1>3


\* A connection is accepted, or the call fails.
LEMMA AcceptKeeps ==
  ASSUME IInv, AcceptFails \/ \E c \in Client : Accepted(c)
  PROVE  IInv'
<1> USE DEF Goto, tcp, signals
<1>0. Types /\ Owners /\ Gone \in Session /\ ~Gone.alive_ /\ Gone.at = "gone"
  BY DEF IInv, Gone, Session, SessionAt
<1>1. CASE AcceptFails
  <2>1. /\ session' \in [Client -> Session]
        /\ \A c \in Client : /\ session'[c].alive_ <=> session[c].alive_
                             /\ session[c].alive_ => session'[c] = session[c]
                             /\ session'[c].at = "accepted" => session[c].at = "accepted"
    <3>1. \A c \in Client : session'[c] = session[c] \/ (session'[c] = Gone /\ session[c].at = "backlog")
      BY <1>1 DEF AcceptFails, Backlog
    <3>2. session' = [c \in Client |-> session'[c]]
      BY <1>1 DEF AcceptFails
    <3>3. \A c \in Client : session[c] \in Session /\ (session[c].at = "backlog" => ~session[c].alive_)
      BY <1>0 DEF Types, IInv, Hands
    <3>4. \A c \in Client : session'[c] \in Session
      BY <1>0, <3>1, <3>3
    <3> QED BY <1>0, <3>1, <3>2, <3>3, <3>4 DEF Session
  <2>2. Types'
    BY <1>0, <1>1, <2>1 DEF AcceptFails, Types, Looping
  <2>3. Owners'
    BY <1>0, <1>1, <2>1 DEF AcceptFails, Owners, Listening
  <2>4. Listener' /\ Places'
    BY <1>1 DEF AcceptFails, IInv, Listener, Places, On, Ending
  <2>5. Hands'
    BY <1>1, <2>1 DEF AcceptFails, IInv, Hands, Looping
  <2> QED BY <2>2, <2>3, <2>4, <2>5 DEF IInv
<1>2. ASSUME NEW c \in Client, Accepted(c)
      PROVE  IInv'
  <2>1. Conn(c) \in What /\ NewFd \in Numbers /\ fds[NewFd] = Free /\ ~session[c].alive_
    <3>1. NewFd # -1 /\ session[c].at = "backlog"
      BY <1>2 DEF Accepted, Backlog
    <3> QED BY <3>1, NewFdIsFree DEF What, IInv, Hands
  <2>2. /\ session' \in [Client -> Session]
        /\ session'[c] = [at |-> "accepted", fd_ |-> NewFd, alive_ |-> TRUE]
        /\ \A d \in Client \ {c} : /\ session'[d].alive_ <=> session[d].alive_
                                   /\ session[d].alive_ => session'[d] = session[d]
                                   /\ session'[d].at = "accepted" => session[d].at = "accepted"
    <3> DEFINE new == [at |-> "accepted", fd_ |-> NewFd, alive_ |-> TRUE]
    <3>1. /\ session'[c] = new
          /\ \A d \in Client \ {c} :
               session'[d] = session[d] \/ (session'[d] = Gone /\ session[d].at = "backlog")
      BY <1>2 DEF Accepted, Backlog
    <3>2. session' = [d \in Client |-> session'[d]]
      BY <1>2 DEF Accepted
    <3>3. \A d \in Client : session[d] \in Session /\ (session[d].at = "backlog" => ~session[d].alive_)
      BY <1>0 DEF Types, IInv, Hands
    <3>4. new \in Session
      BY <2>1 DEF Session, SessionAt
    <3>5. \A d \in Client : session'[d] \in Session
      BY <1>0, <3>1, <3>3, <3>4
    <3> QED BY <1>0, <3>1, <3>2, <3>3, <3>5 DEF Session
  <2>3. \A m \in Numbers : fds'[m] = IF m = NewFd THEN Conn(c) ELSE fds[m]
    BY <1>0, <1>2, <2>1, OneNumber, SMTT(30) DEF Accepted
  <2>4. Types'
    BY <1>0, <1>2, <2>1, <2>2, OneNumber DEF Accepted, Types, Looping
  <2>5. Owners'
    <3>1. Listening' = Listening /\ UNCHANGED <<listen_fd_, poll_fd_, file>>
      BY <1>2 DEF Accepted, Listening
    <3> QED BY <1>0, <2>1, <2>2, <2>3, <3>1, Distinct, SMTT(30) DEF Owners, Numbers
  <2>6. Listener' /\ Places'
    BY <1>2 DEF Accepted, IInv, Listener, Places, On, Ending
  <2>7. Hands'
    BY <1>2, <2>1, <2>2, MaxFdAssumption, SMTT(30) DEF Accepted, IInv, Hands, Looping, Numbers
  <2> QED BY <2>4, <2>5, <2>6, <2>7 DEF IInv
<1> QED BY <1>1, <1>2

\* A session is handed over or closed, by the loop or by a worker.
LEMMA SessionsKeep ==
  ASSUME IInv, NEW c \in Client,
         HandOver(c) \/ Reject(c) \/ Destroy(c) \/ DropKept(c) \/ Serve(c) \/ Connect(c)
  PROVE  IInv'
<1> USE DEF Goto, tcp, signals
<1>0. Types /\ Owners
  BY DEF IInv
<1>1. CASE HandOver(c) \/ Connect(c)
  <2>1. /\ session' \in [Client -> Session]
        /\ \A d \in Client : /\ session'[d].alive_ <=> session[d].alive_
                             /\ session'[d].fd_ = session[d].fd_
                             /\ d # c => session'[d] = session[d]
        /\ session'[c].at # "accepted"
    <3>1. PICK to \in {"kept", "serving", "backlog"} : session' = [session EXCEPT ![c].at = to]
      BY <1>1 DEF HandOver, Connect
    <3> QED BY <1>0, <3>1 DEF Types, Session, SessionAt
  <2>2. Types'
    BY <1>0, <1>1, <2>1 DEF HandOver, Connect, Types, Looping
  <2>3. Owners'
    BY <1>0, <1>1, <2>1 DEF HandOver, Connect, Owners, Listening
  <2>4. Listener' /\ Places'
    BY <1>1 DEF HandOver, Connect, IInv, Listener, Places, On, Ending
  <2>5. Hands'
    <3>1. CASE HandOver(c)
      <4>1. main = "handle" /\ main' = "test" /\ session[c].at = "accepted"
            /\ session'[c].at \in {"kept", "serving"}
        BY <1>0, <3>1 DEF HandOver, Types, Session
      <4> QED BY <2>1, <4>1, SMTT(30) DEF IInv, Hands, Looping
    <3>2. CASE Connect(c)
      <4>1. main' = main /\ session[c].at = "away"
        BY <3>2 DEF Connect
      <4> QED BY <2>1, <4>1, SMTT(30) DEF IInv, Hands
    <3> QED BY <1>1, <3>1, <3>2
  <2> QED BY <2>2, <2>3, <2>4, <2>5 DEF IInv
<1>2. CASE Reject(c) \/ Destroy(c) \/ DropKept(c) \/ Serve(c)
  <2>1. PICK to \in {"rejected", "ended", "done", "gone"} : mark_closed(c, to)
    BY <1>2 DEF Reject, Destroy, DropKept, Serve
  <2>2. /\ listen_fd_' = listen_fd_ /\ poll_fd_' = poll_fd_ /\ file' = file /\ handler' = handler
        /\ UNCHANGED <<running_, others, installed>>
    BY <1>2 DEF Reject, Destroy, DropKept, Serve
  <2>3. /\ fds' \in [Numbers -> What]
        /\ session' \in [Client -> Session]
        /\ session'[c] = [at |-> to, fd_ |-> -1, alive_ |-> FALSE]
        /\ \A d \in Client \ {c} : session'[d] = session[d]
        /\ Owners'
    <3>1. to \in SessionAt
      BY <2>1 DEF SessionAt
    <3> QED BY <2>1, <2>2, <3>1, ClosedGivesBack
  <2>4. Types'
    BY <1>0, <1>2, <2>2, <2>3 DEF Reject, Destroy, DropKept, Serve, Types, Looping
  <2>5. Listener' /\ Places'
    BY <1>2, <2>2 DEF Reject, Destroy, DropKept, Serve, IInv, Listener, Places, On, Ending
  <2>6. Hands'
    BY <1>2, <2>1, <2>3, SMTT(30) DEF Reject, Destroy, DropKept, Serve, IInv, Hands, Looping
  <2> QED BY <2>3, <2>4, <2>5, <2>6 DEF IInv
<1> QED BY <1>1, <1>2

\* The joins, and the end of run.
LEMMA EndKeeps ==
  ASSUME IInv, SchedulersStop \/ Leave
  PROVE  IInv'
<1> USE DEF Goto, tcp, signals
<1>0. Types /\ Owners /\ Free \in What
  BY DEF IInv, What
<1>1. CASE SchedulersStop
  <2>1. Types'
    BY <1>0, <1>1 DEF SchedulersStop, Types, Ending
  <2>2. Owners'
    BY <1>0, <1>1 DEF SchedulersStop, Owners, Listening
  <2>3. Listener' /\ Places'
    BY <1>1 DEF SchedulersStop, IInv, Listener, Places, On, Ending
  <2>4. Hands'
    BY <1>1 DEF SchedulersStop, IInv, Hands, Looping
  <2> QED BY <2>1, <2>2, <2>3, <2>4 DEF IInv
<1>2. CASE Leave
  <2>1. ~running_ /\ listen_fd_' = listen_fd_ /\ handler' = handler /\ main' = "returned"
    BY <1>2 DEF Leave, IInv, Listener, Ending
  <2>2. fds' = [n \in Numbers |-> IF n = poll_fd_ THEN Free ELSE fds[n]]
    BY <1>2, <2>1 DEF Leave, Numbers
  <2>3. Types'
    BY <1>0, <1>2, <2>2 DEF Leave, Types, Ending
  <2>4. Owners'
    <3>1. \A m \in Numbers : fds'[m] = IF m = poll_fd_ THEN Free ELSE fds[m]
      BY <2>2
    <3>2. Listening' = Listening
      BY <2>1 DEF Listening
    <3>3. \A m \in Numbers : m # -1
      BY MaxFdAssumption DEF Numbers
    <3> QED BY <1>0, <1>2, <2>1, <3>1, <3>2, <3>3, Distinct, SMTT(30) DEF Leave, Owners, Numbers
  <2>5. Listener' /\ Places'
    BY <1>2 DEF Leave, IInv, Listener, Places, On, Ending
  <2>6. Hands'
    BY <1>2 DEF Leave, IInv, Hands, Looping
  <2> QED BY <2>3, <2>4, <2>5, <2>6 DEF IInv
<1> QED BY <1>1, <1>2

\* A signal stops the server once, and its handler closes the listening socket.
LEMMA SignalsKeep ==
  ASSUME IInv, NEW s \in Signal,
         HandlerCloses(s) \/ HandlerResets(s) \/ \E t \in {"main", "other"} : SignalArrives(s, t)
  PROVE  IInv'
<1> USE DEF tcp, signals
<1>0. Types /\ Owners /\ Free \in What
  BY DEF IInv, What
<1>1. ASSUME NEW t \in {"main", "other"}, SignalArrives(s, t)
      PROVE  IInv'
  <2>1. Types'
    <3>1. handler \in [Signal -> Handling] /\ [at |-> "close", on |-> t] \in Handling
      BY <1>0, <1>1 DEF Types, Handling
    <3>2. handler' \in [Signal -> Handling]
      BY <1>1, <3>1 DEF SignalArrives
    <3> QED BY <1>0, <1>1, <3>2 DEF SignalArrives, Types
  <2>2. Listening' = Listening
    BY <1>0, <1>1, SMTT(30) DEF SignalArrives, Listening, Types, Handling, IInv, Listener, Idle
  <2>3. Owners'
    BY <1>0, <1>1, <2>2 DEF SignalArrives, Owners
  <2>4. Listener'
    BY <1>0, <1>1, SMTT(30) DEF SignalArrives, IInv, Types, Handling, Listener, Idle, Ending
  <2>5. Places'
    BY <1>0, <1>1 DEF SignalArrives, IInv, Types, Handling, Listener, Places, On, Ending
  <2>6. Hands'
    BY <1>1 DEF SignalArrives, IInv, Hands
  <2> QED BY <2>1, <2>3, <2>4, <2>5, <2>6 DEF IInv
<1>2. CASE HandlerCloses(s)
  <2>1. listen_fd_ \in Numbers /\ Listening /\ ~Listening' /\ listen_fd_' = listen_fd_
    BY <1>0, <1>2 DEF HandlerCloses, Types, Handling, IInv, Listener, Listening, Idle
  <2>2. /\ session' \in [Client -> Session]
        /\ \A c \in Client : /\ session'[c].alive_ <=> session[c].alive_
                             /\ session[c].alive_ => session'[c] = session[c]
                             /\ session'[c].at = "accepted" => session[c].at = "accepted"
    <3>1. Gone \in Session /\ ~Gone.alive_ /\ Gone.at = "gone"
      BY DEF Gone, Session, SessionAt
    <3>2. \A c \in Client : session'[c] = session[c] \/ (session'[c] = Gone /\ session[c].at = "backlog")
      BY <1>2 DEF HandlerCloses, BacklogLost
    <3>3. session' = [c \in Client |-> session'[c]]
      BY <1>2 DEF HandlerCloses, BacklogLost
    <3>4. \A c \in Client : session[c] \in Session /\ (session[c].at = "backlog" => ~session[c].alive_)
      BY <1>0 DEF Types, IInv, Hands
    <3>5. \A c \in Client : session'[c] \in Session
      BY <3>1, <3>2, <3>4
    <3> QED BY <3>1, <3>2, <3>3, <3>4, <3>5 DEF Session
  <2>3. Types'
    <3>1. handler[s] \in [at : {"close", "reset"}, on : {"main", "other"}]
      BY <1>0, <1>2 DEF HandlerCloses, Types, Handling, Idle
    <3>2. [handler[s] EXCEPT !.at = "reset"] \in Handling
      BY <3>1 DEF Handling
    <3>3. handler' \in [Signal -> Handling]
      BY <1>0, <1>2, <3>2 DEF HandlerCloses, Types
    <3> QED BY <1>0, <1>2, <2>2, <3>3, OneNumber DEF HandlerCloses, Types
  <2>4. Owners'
    <3>1. \A m \in Numbers : fds'[m] = IF m = listen_fd_ THEN Free ELSE fds[m]
      BY <1>0, <1>2, OneNumber DEF HandlerCloses
    <3> QED BY <1>0, <1>2, <2>1, <2>2, <3>1, Distinct DEF HandlerCloses, Owners, Numbers
  <2>5. Listener' /\ Places'
    BY <1>0, <1>2 DEF HandlerCloses, IInv, Types, Handling, Listener, Places, On, Idle, Ending
  <2>6. Hands'
    BY <1>2, <2>2 DEF HandlerCloses, IInv, Hands
  <2> QED BY <2>3, <2>4, <2>5, <2>6 DEF IInv
<1>3. CASE HandlerResets(s)
  <2>1. Types'
    BY <1>0, <1>3 DEF HandlerResets, Types, Handling
  <2>2. ~Listening /\ ~Listening'
    BY <1>0, <1>3 DEF HandlerResets, Listening
  <2>3. Owners'
    BY <1>0, <1>3, <2>2 DEF HandlerResets, Owners
  <2>4. Listener'
    BY <1>0, <1>3, SMTT(30) DEF HandlerResets, IInv, Types, Handling, Listener, Idle, Ending
  <2>5. Places'
    BY <1>0, <1>3 DEF HandlerResets, IInv, Types, Handling, Places, On, Idle
  <2>6. Hands'
    BY <1>3 DEF HandlerResets, IInv, Hands
  <2> QED BY <2>1, <2>3, <2>4, <2>5, <2>6 DEF IInv
<1> QED BY <1>1, <1>2, <1>3

-----------------------------------------------------------------------------
(* The theorems                                                            *)

\* Every step of every thread keeps the invariant.
LEMMA NextIInv ==
  ASSUME IInv, [Next]_vars
  PROVE  IInv'
<1>1. CASE Run
  BY <1>1, MovesKeep, BindKeeps, OtherFilesKeep, AcceptKeeps, SessionsKeep, EndKeeps DEF Run
<1>2. CASE \E s \in Signal : Handle(s) \/ \E t \in {"main", "other"} : SignalArrives(s, t)
  BY <1>2, SignalsKeep DEF Handle
<1>3. CASE \E c \in Client : Serve(c) \/ Connect(c)
  BY <1>3, SessionsKeep
<1>4. CASE OpenFile \/ CloseFile
  BY <1>4, OtherFilesKeep
<1>5. CASE UNCHANGED vars
  BY <1>5, SMTT(30) DEF vars, tcp, signals, IInv, Types, Owners, Listening, Listener, Places, Hands, On
<1> QED BY <1>1, <1>2, <1>3, <1>4, <1>5 DEF Next

\* The invariant holds in every state of every run.
THEOREM IInvHolds == Spec => []IInv
<1>1. Init => IInv
  BY InitIInv
<1>2. IInv /\ [Next]_vars => IInv'
  BY NextIInv
<1> QED BY <1>1, <1>2, PTL DEF Spec

\* The numbers that TcpServer, IoMultiplexer, the snapshot thread and the sessions hold
\* are their own, for any number of clients and descriptors: no close and no accept of
\* the code, on whatever thread, hits another owner's file.
THEOREM DescriptorsOwned == Spec => []OwnDescriptors
<1>1. IInv => OwnDescriptors
  <2> SUFFICES ASSUME IInv
               PROVE  OwnDescriptors
    OBVIOUS
  <2> QED BY DEF IInv, Types, Session, Owners, Listening, Hands, OwnDescriptors
<1> QED BY <1>1, IInvHolds, PTL

\* run returns only when no signal handler is inside TcpServer::stop.
THEOREM ServerOutlivesHandlers == Spec => []HandlerSeesServer
<1>1. IInv => HandlerSeesServer
  BY DEF IInv, Types, Handling, Places, On, HandlerSeesServer
<1> QED BY <1>1, IInvHolds, PTL

\* run returns, from whichever of its ends, with every descriptor closed.
THEOREM AllClosed == Spec => []NothingLeftOpen
<1>1. IInv => NothingLeftOpen
  <2> SUFFICES ASSUME IInv, main = "returned", NEW n \in Numbers
               PROVE  fds[n] = Free
    BY DEF NothingLeftOpen, Numbers
  <2>1. \A s \in Signal : handler[s] = Idle
    BY DEF IInv, Types, Handling, Places, On
  <2>2. listen_fd_ = -1 /\ poll_fd_ = -1 /\ file = -1
    BY <2>1 DEF IInv, Listener, Places, Ending
  <2>3. \A c \in Client : ~session[c].alive_
    BY DEF IInv, Hands, Looping
  <2>4. n # -1 /\ fds[n] \in What
    BY MaxFdAssumption DEF IInv, Types, Numbers
  <2> QED BY <2>2, <2>3, <2>4 DEF IInv, Owners, What
<1> QED BY <1>1, IInvHolds, PTL

=============================================================================
