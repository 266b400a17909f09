---------------------------- MODULE Persistence ----------------------------
(***************************************************************************)
(* The life of the server around its files: recovery at the start, the     *)
(* periodic snapshots, the stop, crashes and restarts                      *)
(* (server/database_server.cpp, persistence/snapshot.cpp,                  *)
(* persistence/snapshot_scheduler.cpp, AofLog::replay).                    *)
(*                                                                         *)
(* Two threads write snapshots, the scheduler's and, at the end, the one   *)
(* that runs DatabaseServer::run; pc says where each of them is.  A crash  *)
(* ends the process between any two steps.  What the process has handed to *)
(* the operating system survives it, so of a snapshot that is being        *)
(* written any prefix may be on disk.  Once the process is over, mem and   *)
(* timed remember what it held.                                            *)
(***************************************************************************)
EXTENDS Naturals, Sequences, SequencesExt

CONSTANTS Key, Value,
          NoValue,   \* no entry under the key
          Torn,      \* a value whose end was not written
          NoFile,    \* the file does not exist
          MaxLog     \* bound: lines in the append-only log

VARIABLES pc,        \* where each thread is
          running_,  \* SnapshotScheduler::running_
          bound,     \* bind_and_listen succeeded
          mem,       \* the values in storage_
          timed,     \* the keys of storage_ with an expires_at
          snapshot,  \* snapshot.vdb
          aof,       \* append.aof
          dump,      \* what each thread is writing out
          saved,     \* the data at the latest dump
          whole,     \* the latest dump is complete on disk
          failed     \* the latest write of this process failed

vars == <<pc, running_, bound, mem, timed, snapshot, aof, dump, saved, whole, failed>>

Thread == {"main", "scheduler"}

Stored == Value \cup {Torn}

ASSUME KeysAssumption == IsFiniteSet(Key) /\ MaxLog \in Nat /\ NoValue \notin Stored

ASSUME FilesAssumption ==
  NoFile \notin [header : BOOLEAN, count : Nat, pairs : Seq(Key \X (Stored \cup {NoValue}))]

Nothing == [k \in Key |-> NoValue]

Data == INSTANCE KVMap WITH Entry <- Value, NoEntry <- NoValue, map <- mem

-----------------------------------------------------------------------------
(* The files                                                               *)

\* A snapshot as its reader sees it: the first line is the header, the number
\* in the second line (0 when there is none), and the pairs of lines after it.
Truncated == [header |-> FALSE, count |-> 0, pairs |-> << >>]

File(c, d) == [header |-> TRUE, count |-> c, pairs |-> d]

Written(d) == File(Len(d), d)

\* The prefixes of Written(d): cut before the end of the header, in the count,
\* after a number of pairs, or in the value of the next one.
Cut(d) ==
  {Truncated}
  \cup {File(c, << >>) : c \in 0 .. Len(d)}
  \cup {File(Len(d), SubSeq(d, 1, n)) : n \in 0 .. Len(d)}
  \cup {File(Len(d), Append(SubSeq(d, 1, n), <<d[n + 1][1], Torn>>)) : n \in 0 .. Len(d) - 1}

\* for_each visits the entries in the order of the buckets.
dump_entries(m) == SetToSeqs({<<k, m[k]>> : k \in {j \in Key : m[j] # NoValue}})

\* storage.set, or storage.remove for NoValue, for one pair after the other.
Apply(pairs) ==
  [k \in Key |-> LET at == {i \in 1 .. Len(pairs) : pairs[i][1] = k}
                 IN  IF at = {} THEN NoValue ELSE pairs[Max(at)][2]]

\* Fault: the loop over the pairs ends one too early.
load_intoOneLess(file) ==
  IF file.header /\ file.count > 0
  THEN Apply(SubSeq(file.pairs, 1, Min({file.count - 1, Len(file.pairs)})))
  ELSE Nothing

load_into(file) ==
  IF file.header THEN Apply(SubSeq(file.pairs, 1, Min({file.count, Len(file.pairs)})))
                 ELSE Nothing

\* A line SET k v of the append-only log is <<k, v>>, a line DEL k is
\* <<k, NoValue>>.  A key contains no blank, so the first one after it ends it;
\* other lines are skipped.
Log == BoundedSeq(Key \X (Stored \cup {NoValue}), MaxLog)

replay(log) == Apply(log)

\* What a start from these files restores.
Recovered == IF snapshot # NoFile THEN load_into(snapshot) ELSE replay(aof)

-----------------------------------------------------------------------------
Init ==
  /\ pc = [main |-> "off", scheduler |-> "off"]
  /\ running_ = FALSE
  /\ bound = FALSE
  /\ mem = Nothing
  /\ timed = {}
  /\ snapshot = NoFile
  /\ aof \in Log \cup {NoFile}
  /\ dump = [t \in Thread |-> << >>]
  /\ saved = Nothing
  /\ whole = FALSE
  /\ failed = FALSE

Goto(t, from, to) == pc[t] = from /\ pc' = [pc EXCEPT ![t] = to]

-----------------------------------------------------------------------------
(* DatabaseServer: up to the accept loop                                   *)

\* The constructor opens the append-only log and creates it if need be; run
\* recovers the data and starts the threads.
Start ==
  /\ pc["main"] \in {"off", "exited", "crashed"}
  /\ pc' = [main |-> "bind", scheduler |-> "loop"]
  /\ running_' = TRUE
  /\ bound' = FALSE
  /\ aof' = IF aof = NoFile THEN << >> ELSE aof
  /\ mem' = IF snapshot # NoFile THEN load_into(snapshot) ELSE replay(aof')
  /\ timed' = {}
  /\ failed' = FALSE
  /\ UNCHANGED <<snapshot, dump, saved, whole>>

Bind ==
  /\ \/ Goto("main", "bind", "serve") /\ bound' = TRUE
     \/ Goto("main", "bind", "stop_ttl") /\ bound' = FALSE
  /\ UNCHANGED <<running_, mem, timed, snapshot, aof, dump, saved, whole, failed>>

-----------------------------------------------------------------------------
(* The data changes while sessions run and until the TTL sweep has stopped *)

Serving == pc["main"] \in {"serve", "drain"}

Set(k, v) ==
  /\ Serving
  /\ Data!Put(k, v)
  /\ timed' = timed \ {k}
  /\ UNCHANGED <<pc, running_, bound, snapshot, aof, dump, saved, whole, failed>>

Delete(k) ==
  /\ \/ Serving
     \/ k \in timed /\ pc["main"] \in {"bind", "stop_ttl"}
  /\ Data!Delete(k)
  /\ timed' = timed \ {k}
  /\ UNCHANGED <<pc, running_, bound, snapshot, aof, dump, saved, whole, failed>>

Expire(k) ==
  /\ Serving
  /\ mem[k] # NoValue
  /\ timed' = timed \cup {k}
  /\ UNCHANGED <<pc, running_, bound, mem, snapshot, aof, dump, saved, whole, failed>>

FlushDb ==
  /\ Serving
  /\ Data!Clear
  /\ timed' = {}
  /\ UNCHANGED <<pc, running_, bound, snapshot, aof, dump, saved, whole, failed>>

\* BGREWRITEAOF replaces the log.  What concurrent rewrites leave behind is not
\* described here: any log, or none when the rename fails after the remove.
Rewrite ==
  /\ Serving
  /\ aof' \in Log \cup {NoFile}
  /\ UNCHANGED <<pc, running_, bound, mem, timed, snapshot, dump, saved, whole, failed>>

-----------------------------------------------------------------------------
(* SnapshotWriter::write, in thread t, which then goes to `after'          *)

Open(t, after) ==
  /\ \/ /\ Goto(t, "open", "dump")
        /\ snapshot' = Truncated
        /\ whole' = FALSE
        /\ UNCHANGED failed
     \/ /\ Goto(t, "open", after)
        /\ failed' = TRUE
        /\ UNCHANGED <<snapshot, whole>>
  /\ UNCHANGED <<running_, bound, mem, timed, aof, dump, saved>>

Dump(t) ==
  /\ Goto(t, "dump", "out")
  /\ \E d \in dump_entries(mem) : dump' = [dump EXCEPT ![t] = d]
  /\ saved' = mem
  /\ UNCHANGED <<running_, bound, mem, timed, snapshot, aof, whole, failed>>

\* The destructor of the stream writes the rest; a full disk cuts it.
Close(t, after) ==
  /\ Goto(t, "out", after)
  /\ \/ /\ snapshot' = Written(dump[t])
        /\ whole' = TRUE
        /\ failed' = FALSE
     \/ /\ snapshot' \in Cut(dump[t])
        /\ failed' = TRUE
        /\ UNCHANGED whole
  /\ dump' = [dump EXCEPT ![t] = << >>]
  /\ UNCHANGED <<running_, bound, mem, timed, aof, saved>>

write(t, after) == Open(t, after) \/ Dump(t) \/ Close(t, after)

-----------------------------------------------------------------------------
(* SnapshotScheduler::loop                                                 *)

\* Fault: the loop does not look at running_.
LoopTestForever ==
  /\ Goto("scheduler", "loop", "open")
  /\ UNCHANGED <<running_, bound, mem, timed, snapshot, aof, dump, saved, whole, failed>>

LoopTest ==
  /\ Goto("scheduler", "loop", IF running_ THEN "open" ELSE "exited")
  /\ UNCHANGED <<running_, bound, mem, timed, snapshot, aof, dump, saved, whole, failed>>

Sleep ==
  /\ Goto("scheduler", "sleep", "loop")
  /\ UNCHANGED <<running_, bound, mem, timed, snapshot, aof, dump, saved, whole, failed>>

-----------------------------------------------------------------------------
(* DatabaseServer::run after the accept loop, or after a failed bind       *)

Signal ==
  /\ Goto("main", "serve", "drain")
  /\ UNCHANGED <<running_, bound, mem, timed, snapshot, aof, dump, saved, whole, failed>>

\* pool.shutdown returns: see ThreadPool
Drained ==
  /\ Goto("main", "drain", "stop_ttl")
  /\ UNCHANGED <<running_, bound, mem, timed, snapshot, aof, dump, saved, whole, failed>>

\* ttl_scheduler.stop returns and snapshots.stop begins.
StopSnapshots ==
  /\ Goto("main", "stop_ttl", "join")
  /\ running_' = FALSE
  /\ UNCHANGED <<bound, mem, timed, snapshot, aof, dump, saved, whole, failed>>

\* Fault: run writes the last snapshot before the scheduler's thread has ended.
JoinAtOnce ==
  /\ bound \/ pc["scheduler"] = "exited"
  /\ Goto("main", "join", IF bound THEN "open" ELSE "exited")
  /\ UNCHANGED <<running_, bound, mem, timed, snapshot, aof, dump, saved, whole, failed>>

\* Fault: run returns without the last snapshot.
JoinAndLeave ==
  /\ pc["scheduler"] = "exited"
  /\ Goto("main", "join", "exited")
  /\ UNCHANGED <<running_, bound, mem, timed, snapshot, aof, dump, saved, whole, failed>>

Join ==
  /\ pc["scheduler"] = "exited"
  /\ Goto("main", "join", IF bound THEN "open" ELSE "exited")
  /\ UNCHANGED <<running_, bound, mem, timed, snapshot, aof, dump, saved, whole, failed>>

-----------------------------------------------------------------------------
\* The process is killed, or ends by an exception no one catches.
Crash ==
  /\ pc["main"] \notin {"off", "exited", "crashed"}
  /\ pc' = [main |-> "crashed", scheduler |-> "off"]
  /\ \/ \E t \in Thread : /\ pc[t] = "out"
                          /\ snapshot' \in Cut(dump[t])
     \/ (\A t \in Thread : pc[t] # "out") /\ UNCHANGED snapshot
  /\ dump' = [t \in Thread |-> << >>]
  /\ UNCHANGED <<running_, bound, mem, timed, aof, saved, whole, failed>>

Client == \/ \E k \in Key : (\E v \in Value : Set(k, v)) \/ Delete(k) \/ Expire(k)
          \/ FlushDb
          \/ Rewrite

Scheduler == LoopTest \/ Sleep \/ write("scheduler", "sleep")

Stop == Drained \/ StopSnapshots \/ Join \/ write("main", "exited")

Next == Start \/ Bind \/ Client \/ Scheduler \/ Signal \/ Stop \/ Crash

\* The threads run; the pool drains because sessions end (AcceptedTaskRuns).
\* Nobody has to start the server, send a command or a signal.
Spec == Init /\ [][Next]_vars /\ WF_vars(Scheduler) /\ WF_vars(Stop)

-----------------------------------------------------------------------------
\* At most one thread has the snapshot file open for writing, although run
\* writes the last snapshot with the writer the scheduler uses.
OneWriter == ~ \A t \in Thread : pc[t] \in {"dump", "out"}

\* A process that leaves run by itself, stopped by a signal or because it could
\* not bind, leaves files from which the next start restores exactly the data
\* it held, unless its last write failed.
ExitLosesNothing == pc["main"] = "exited" /\ ~failed => Recovered = mem

\* What a start takes from a snapshot is the data of the latest dump: all of it
\* if that dump was written to its end, and else a part of it, in which at most
\* one value is cut off.
RestoresLatestDump ==
  [][Start /\ snapshot # NoFile =>
       /\ whole => mem' = saved
       /\ \A k \in Key : mem'[k] \in {saved[k], NoValue, Torn}
       /\ \A j, k \in Key : /\ mem'[j] = Torn /\ saved[j] # Torn
                            /\ mem'[k] = Torn /\ saved[k] # Torn
                            => j = k]_vars

\* A stop that has begun ends: the scheduler notices running_ and is joined.
StopEnds == pc["main"] = "drain" ~> pc["main"] \in {"exited", "crashed"}

\* "restored data from snapshot" is logged when load_into has restored one.
RestoredFromSnapshot == [][Start /\ snapshot # NoFile => snapshot.header]_vars
=============================================================================
