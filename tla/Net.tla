-------------------------------- MODULE Net --------------------------------
(***************************************************************************)
(* Connections: the accept loop and its handler, admission, sessions and   *)
(* the signal that stops the server (net/tcp_server.cpp,                   *)
(* net/async_accept_loop.cpp, net/client_session.cpp,                      *)
(* net/connection_pool.cpp, server/command_handler.cpp and the handler in  *)
(* server/database_server.cpp).                                            *)
(*                                                                         *)
(* What a client sends is a sequence of pieces: "text", a part of a line,  *)
(* and "end", the end of it.  The socket of a session is non-blocking:     *)
(* read returns nothing whenever the next byte has not arrived.  The pool  *)
(* is what ThreadPool promises: a queue of sessions and Workers threads.   *)
(***************************************************************************)
EXTENDS Naturals, Sequences, FiniteSets

CONSTANTS Client,
          Workers,       \* threads of the pool
          max_clients,   \* config_.max_clients
          MaxLine,       \* pieces that read_line accepts without an end
          MaxSent        \* bound: pieces a client sends

VARIABLES running_,  \* TcpServer::running_, and the listening socket is open
          loop,      \* where the thread of DatabaseServer::run is
          active_,   \* ConnectionPool::active_
          tasks,     \* sessions queued in the pool
          conn,      \* every client's connection
          up         \* the process has not been ended by SIGPIPE

netVars == <<running_, loop, active_, tasks, conn, up>>

Goto(c, to) == conn' = [conn EXCEPT ![c].at = to]

\* The socket is closed, and what was in it is gone.
Closed(f) == [f EXCEPT !.at = "closed", !.inbox = << >>, !.buffer = 0,
                       !.hung = FALSE, !.open = FALSE, !.sent = 0]

mark_closed(c) == conn' = [conn EXCEPT ![c] = Closed(@)]

At(places) == {c \in Client : conn[c].at \in places}

Serving == At({"greet", "read", "run", "answer"})

\* buffer counts the pieces in read_line's buffer; sent, open and lines are the
\* client's: pieces sent, whether it is within a line, lines it has ended.
NetInit ==
  /\ running_ = TRUE
  /\ loop = "test"
  /\ active_ = 0
  /\ tasks = << >>
  /\ conn = [c \in Client |-> [at |-> "away", inbox |-> << >>, buffer |-> 0,
                               hung |-> FALSE, sent |-> 0, open |-> FALSE,
                               lines |-> 0, ran |-> 0]]
  /\ up = TRUE

-----------------------------------------------------------------------------
(* The clients                                                             *)

Connect(c) ==
  /\ conn[c].at = "away"
  /\ running_
  /\ Goto(c, "backlog")
  /\ UNCHANGED <<running_, loop, active_, tasks, up>>

Send(c, piece) ==
  /\ conn[c].at \notin {"away", "closed"}
  /\ ~conn[c].hung
  /\ conn[c].sent < MaxSent
  /\ conn' = [conn EXCEPT ![c].inbox = Append(@, piece), ![c].sent = @ + 1,
                          ![c].open = (piece = "text"),
                          ![c].lines = IF piece = "end" /\ conn[c].open
                                       THEN @ + 1 ELSE @]
  /\ UNCHANGED <<running_, loop, active_, tasks, up>>

HangUp(c) ==
  /\ conn[c].at \notin {"away", "closed"}
  /\ ~conn[c].hung
  /\ conn' = [conn EXCEPT ![c].hung = TRUE]
  /\ UNCHANGED <<running_, loop, active_, tasks, up>>

-----------------------------------------------------------------------------
(* TcpServer::stop, from the signal handler                                *)

\* The kernel closes the connections that were never accepted.
stop ==
  /\ running_
  /\ running_' = FALSE
  /\ conn' = [c \in Client |-> IF conn[c].at = "backlog"
                               THEN Closed(conn[c]) ELSE conn[c]]
  /\ UNCHANGED <<loop, active_, tasks, up>>

-----------------------------------------------------------------------------
(* AsyncAcceptLoop::run_until_stopped                                      *)

\* Fault: the loop does not look at running_.
TestForever ==
  /\ loop = "test"
  /\ loop' = "wait"
  /\ UNCHANGED <<running_, active_, tasks, conn, up>>

Test ==
  /\ loop = "test"
  /\ loop' = IF running_ THEN "wait" ELSE "shutdown"
  /\ UNCHANGED <<running_, active_, tasks, conn, up>>

\* The wait times out, is interrupted, or accept fails.
Timeout ==
  /\ loop = "wait"
  /\ loop' = "test"
  /\ UNCHANGED <<running_, active_, tasks, conn, up>>

\* ConnectionPool::admit
admit == active_ < max_clients

\* handle_readable and the handler up to workers.dispatch, or to its return
\* when the client is not admitted.
Accept(c) ==
  /\ loop = "wait"
  /\ conn[c].at = "backlog"
  /\ IF admit
     THEN /\ loop' = "release"
          /\ active_' = active_ + 1
          /\ tasks' = Append(tasks, c)
          /\ Goto(c, "queued")
     ELSE /\ loop' = "test"
          /\ mark_closed(c)
          /\ UNCHANGED <<active_, tasks>>
  /\ UNCHANGED <<running_, up>>

\* connections.release, at once
Release ==
  /\ loop = "release"
  /\ loop' = "test"
  /\ active_' = IF active_ > 0 THEN active_ - 1 ELSE 0
  /\ UNCHANGED <<running_, tasks, conn, up>>

\* pool.shutdown returns and run goes on to the last snapshot.
PoolShutdown ==
  /\ loop = "shutdown"
  /\ tasks = << >> /\ Serving = {}
  /\ loop' = "done"
  /\ UNCHANGED <<running_, active_, tasks, conn, up>>

-----------------------------------------------------------------------------
(* A session: SessionWorker's task, which is handle_session                *)

Begin ==
  /\ tasks # << >>
  /\ Cardinality(Serving) < Workers
  /\ tasks' = Tail(tasks)
  /\ Goto(Head(tasks), "greet")
  /\ UNCHANGED <<running_, loop, active_, up>>

\* ClientSession::write_line.  A write that fails closes the session; a write
\* to a client that has gone may raise SIGPIPE, which nothing handles.
write_line(c) ==
  /\ \/ Goto(c, "read") /\ UNCHANGED up
     \/ mark_closed(c) /\ UNCHANGED up
     \/ conn[c].hung /\ up' = FALSE /\ UNCHANGED conn
  /\ UNCHANGED <<running_, loop, active_, tasks>>

Greet(c) == conn[c].at = "greet" /\ write_line(c)

\* One turn of read_line with a piece to read: a line that is too long closes
\* the session, an empty one is skipped.
ReadPiece(f) ==
  IF Head(f.inbox) = "end"
  THEN [f EXCEPT !.inbox = Tail(@), !.buffer = 0,
                 !.at = IF f.buffer > 0 THEN "run" ELSE "read"]
  ELSE IF f.buffer = MaxLine THEN Closed(f)
  ELSE [f EXCEPT !.inbox = Tail(@), !.buffer = @ + 1]

\* Fault: what was read before the end of the data is taken for a line.
read_lineAsIs(c) ==
  LET f == conn[c]
  IN  /\ f.at = "read"
      /\ conn' = [conn EXCEPT ![c] =
                    IF f.inbox # << >> THEN ReadPiece(f)
                    ELSE IF f.buffer > 0 THEN [f EXCEPT !.at = "run", !.buffer = 0]
                    ELSE Closed(f)]
      /\ UNCHANGED <<running_, loop, active_, tasks, up>>

\* Fault: the socket is a blocking one.
read_lineWaits(c) ==
  LET f == conn[c]
  IN  /\ f.at = "read"
      /\ f.inbox # << >> \/ f.hung
      /\ conn' = [conn EXCEPT ![c] = IF f.inbox # << >> THEN ReadPiece(f) ELSE Closed(f)]
      /\ UNCHANGED <<running_, loop, active_, tasks, up>>

\* Nothing to read, yet or any more, closes the session.
read_line(c) ==
  LET f == conn[c]
  IN  /\ f.at = "read"
      /\ conn' = [conn EXCEPT ![c] = IF f.inbox # << >> THEN ReadPiece(f) ELSE Closed(f)]
      /\ UNCHANGED <<running_, loop, active_, tasks, up>>

\* parse_line and dispatch
dispatch(c) ==
  /\ conn[c].at = "run"
  /\ conn' = [conn EXCEPT ![c].at = "answer", ![c].ran = @ + 1]
  /\ UNCHANGED <<running_, loop, active_, tasks, up>>

Answer(c) == conn[c].at = "answer" /\ write_line(c)

handle_session(c) == Greet(c) \/ read_line(c) \/ dispatch(c) \/ Answer(c)

AcceptLoop == Test \/ Timeout \/ (\E c \in Client : Accept(c)) \/ Release \/ PoolShutdown

User(c) == Connect(c) \/ (\E p \in {"text", "end"} : Send(c, p)) \/ HangUp(c)

NetNext == /\ up
           /\ \/ stop \/ AcceptLoop \/ Begin
              \/ \E c \in Client : User(c) \/ handle_session(c)

\* The threads of the server run, and the multiplexer reports a connection
\* that is waiting.
NetSpec == /\ NetInit /\ [][NetNext]_netVars
           /\ WF_netVars(up /\ AcceptLoop)
           /\ SF_netVars(up /\ \E c \in Client : Accept(c))
           /\ WF_netVars(up /\ Begin)
           /\ \A c \in Client : WF_netVars(up /\ handle_session(c))

-----------------------------------------------------------------------------
\* handle_session runs whole lines only: a command whose end has not arrived is
\* never run, however the client's pieces, its hanging up and the reads of
\* read_line are interleaved, and no line is run twice.
OnlyWholeLines == \A c \in Client : conn[c].ran <= conn[c].lines

\* Every connection the server has accepted or holds in its backlog is closed
\* in the end: admitted or not, served, waiting in the pool when the server
\* stops, or never accepted.
EveryConnectionClosed ==
  \A c \in Client : conn[c].at # "away" ~> (conn[c].at = "closed" \/ ~up)

\* After a signal run gets to the last snapshot: the accept loop ends, and the
\* sessions that are queued or open end.
StopReachesSnapshot == ~running_ ~> (loop = "done" \/ ~up)

=============================================================================
