------------------------------- MODULE AofLog -------------------------------
(***************************************************************************)
(* The append-only log (persistence/aof_log.cpp), its writer StorageHooks  *)
(* (storage/storage_hooks.cpp) and BGREWRITEAOF (protocol/aof_handler.cpp) *)
(* in several threads, with crashes.                                       *)
(*                                                                         *)
(* Files are inodes: log and temp are what append.aof and                  *)
(* append.aof.rewrite name, stream_ is what the open stream writes to.     *)
(* write_line holds mutex_ and is one step.  rewrite_from holds it from    *)
(* the closing of the stream to its return, but not while it dumps the     *)
(* data and writes the temporary file.  A line SET k v is <<k, v>>, a line *)
(* DEL k is <<k, NoValue>>; the header of a rewritten log, which replay    *)
(* skips, is left out.                                                     *)
(***************************************************************************)
EXTENDS Naturals, Sequences, SequencesExt, FiniteSets

CONSTANTS Thread, Key, Value,
          NoValue,   \* no entry under the key
          Inode,     \* files of the data directory
          NoInode,   \* no file, or a closed stream
          NoThread,  \* mutex_ is free
          MaxLines   \* bound: lines a log may have before the next append

\* There is always a file that is not in use.
ASSUME FilesAssumption ==
  /\ IsFiniteSet(Thread) /\ IsFiniteSet(Key)
  /\ NoInode \notin Inode
  /\ IsFiniteSet(Inode) => Cardinality(Inode) > Cardinality(Thread) + 1

VARIABLES mem,      \* the values in the storage engine
          file,     \* the lines of every file
          log, temp, stream_,
          mutex_,   \* the thread inside the last part of rewrite_from
          at,       \* where each thread is
          apart     \* history: no two calls of this process have overlapped

vars == <<mem, file, log, temp, stream_, mutex_, at, apart>>

Idle == [pc |-> "idle"]

Goto(t, frame) == at' = [at EXCEPT ![t] = frame]

\* The files that have a name or are open, and a file that is neither.
InUse == {log, temp, stream_} \cup
         {at[t].fd : t \in {u \in Thread : at[u].pc = "write_temp"}}

Fresh == CHOOSE i \in Inode : i \notin InUse

\* A file that is no longer in use after the step is gone, lines and all.
Reclaim(f) == [i \in Inode |-> IF i \in InUse' THEN f[i] ELSE << >>]

dump_entries(m) == SetToSeqs({<<k, m[k]>> : k \in {j \in Key : m[j] # NoValue}})

\* storage.set or storage.remove for one line after the other
replay(lines) ==
  [k \in Key |-> LET on == {i \in 1 .. Len(lines) : lines[i][1] = k}
                 IN  IF on = {} THEN NoValue ELSE lines[Max(on)][2]]

\* The constructor has created the log and opened it.
Init ==
  /\ mem = [k \in Key |-> NoValue]
  /\ file = [i \in Inode |-> << >>]
  /\ log = CHOOSE i \in Inode : TRUE
  /\ stream_ = log
  /\ temp = NoInode
  /\ mutex_ = NoThread
  /\ at = [t \in Thread |-> Idle]
  /\ apart = TRUE

-----------------------------------------------------------------------------
(* StorageHooks: first the table, then the log                             *)

set(t, k, v) ==
  /\ at[t] = Idle
  /\ mem' = [mem EXCEPT ![k] = v]
  /\ Goto(t, [pc |-> "append", line |-> <<k, v>>])
  /\ UNCHANGED <<file, log, temp, stream_, mutex_>>

\* A key that is not there is not logged.
remove(t, k) ==
  /\ at[t] = Idle
  /\ mem[k] # NoValue
  /\ mem' = [mem EXCEPT ![k] = NoValue]
  /\ Goto(t, [pc |-> "append", line |-> <<k, NoValue>>])
  /\ UNCHANGED <<file, log, temp, stream_, mutex_>>

\* What stream_.open(log_path_, app) opens, and the lines in it.
Opened == IF log # NoInode THEN log ELSE Fresh

Found == IF log # NoInode THEN file[log] ELSE << >>

\* Fault: the line overwrites the log instead of being appended.
write_lineTruncates(t) ==
  /\ at[t].pc = "append"
  /\ mutex_ = NoThread
  /\ Len(file[stream_]) < MaxLines
  /\ file' = [file EXCEPT ![stream_] = <<at[t].line>>]
  /\ Goto(t, Idle)
  /\ UNCHANGED <<mem, log, temp, stream_, mutex_>>

write_line(t) ==
  LET open  == stream_ # NoInode
      i     == IF open THEN stream_ ELSE Opened
      lines == IF open THEN file[stream_] ELSE Found
  IN  /\ at[t].pc = "append"
      /\ mutex_ = NoThread
      /\ Len(lines) < MaxLines
      /\ file' = [file EXCEPT ![i] = Append(lines, at[t].line)]
      /\ stream_' = i
      /\ log' = IF open THEN log ELSE i
      /\ Goto(t, Idle)
      /\ UNCHANGED <<mem, temp, mutex_>>

-----------------------------------------------------------------------------
(* rewrite_from                                                            *)

Dump(t) ==
  /\ at[t] = Idle
  /\ \E d \in dump_entries(mem) : Goto(t, [pc |-> "open_temp", entries |-> d])
  /\ UNCHANGED <<mem, file, log, temp, stream_, mutex_>>

\* The temporary file is created, or truncated if it is there.
OpenTemp(t) ==
  LET i == IF temp # NoInode THEN temp ELSE Fresh
  IN  /\ at[t].pc = "open_temp"
      /\ temp' = i
      /\ file' = [file EXCEPT ![i] = << >>]
      /\ Goto(t, [pc |-> "write_temp", entries |-> at[t].entries, fd |-> i])
      /\ UNCHANGED <<mem, log, stream_, mutex_>>

OpenTempFails(t) ==
  /\ at[t].pc = "open_temp"
  /\ Goto(t, Idle)
  /\ UNCHANGED <<mem, file, log, temp, stream_, mutex_>>

\* The lines go to the start of the file that was opened, whatever its name is
\* by now, over what another thread has written there.  (Lines count as equally
\* long; no property looks into a file two threads have written.)
WriteTemp(t) ==
  LET f == at[t]
      n == Len(f.entries)
  IN  /\ f.pc = "write_temp"
      /\ Goto(t, [pc |-> "swap"])
      /\ UNCHANGED <<mem, log, temp, stream_, mutex_>>
      /\ file' = Reclaim([file EXCEPT ![f.fd] =
                            f.entries \o SubSeq(@, n + 1, Len(@))])

\* Fault: the stream is not closed.
RemoveLogOpen(t) ==
  /\ at[t].pc = "swap"
  /\ mutex_ = NoThread
  /\ mutex_' = t
  /\ log' = NoInode
  /\ Goto(t, [pc |-> "rename"])
  /\ UNCHANGED <<mem, file, temp, stream_>>

\* The stream is closed and the log removed.
RemoveLog(t) ==
  /\ at[t].pc = "swap"
  /\ mutex_ = NoThread
  /\ mutex_' = t
  /\ stream_' = NoInode
  /\ log' = NoInode
  /\ Goto(t, [pc |-> "rename"])
  /\ UNCHANGED <<mem, temp>>
  /\ file' = Reclaim(file)

\* The rename, and the opening of the renamed file; or the early return.
Rename(t) ==
  /\ at[t].pc = "rename"
  /\ mutex_' = NoThread
  /\ Goto(t, Idle)
  /\ \/ /\ temp # NoInode
        /\ log' = temp
        /\ stream_' = temp
        /\ temp' = NoInode
     \/ /\ temp = NoInode
        /\ UNCHANGED <<log, stream_, temp>>
  /\ UNCHANGED <<mem, file>>

-----------------------------------------------------------------------------
\* Fault: the constructor truncates the log.
RestartTruncates ==
  /\ log' = Opened
  /\ stream_' = log'
  /\ mem' = [k \in Key |-> NoValue]
  /\ mutex_' = NoThread
  /\ at' = [t \in Thread |-> Idle]
  /\ UNCHANGED temp
  /\ file' = [file EXCEPT ![log'] = << >>]

\* The process ends at any point and a new one opens the log and replays it.
\* (There is no snapshot here: see Persistence.)
Restart ==
  /\ log' = Opened
  /\ stream_' = log'
  /\ mem' = replay(Found)
  /\ mutex_' = NoThread
  /\ at' = [t \in Thread |-> Idle]
  /\ UNCHANGED temp
  /\ file' = Reclaim([file EXCEPT ![log'] = Found])

StorageHooks(t) == \/ \E k \in Key : (\E v \in Value : set(t, k, v)) \/ remove(t, k)
                   \/ write_line(t)

rewrite_from(t) == \/ Dump(t) \/ OpenTemp(t) \/ OpenTempFails(t) \/ WriteTemp(t)
                   \/ RemoveLog(t) \/ Rename(t)

Calls == {t \in Thread : at[t] # Idle}

Next == \/ /\ \E t \in Thread : StorageHooks(t) \/ rewrite_from(t)
           /\ apart' = (apart /\ Cardinality(Calls') <= 1)
        \/ Restart /\ apart' = TRUE

Spec == Init /\ [][Next]_vars

-----------------------------------------------------------------------------
\* Whatever appends, rewrites and crashes the threads go through, an open
\* stream writes to the file that log_path_ names (and replay will read), never
\* to a log that a rewrite has removed, and never to the temporary file.
StreamIsLog == stream_ # NoInode => stream_ = log /\ log # temp

\* The line a call has not written yet, when there is one call.
Pending == LET appending == {t \in Thread : at[t].pc = "append"}
           IN  IF appending = {} THEN << >> ELSE <<at[CHOOSE t \in appending : TRUE].line>>

\* rewrite_from is between the remove and the rename.
Swapping == \E t \in Thread : at[t].pc = "rename"

\* As long as the calls of the threads come one after the other, the log, with
\* the line of the call in progress, replays to the data in memory: through
\* overwrites, deletions, rewrites, failed rewrites, and restarts that find
\* whatever an earlier process with overlapping calls has left.
LogMatches ==
  apart /\ ~Swapping => log # NoInode /\ replay(file[log] \o Pending) = mem

\* As long as calls come one after the other, a crash loses at most the call in
\* progress, unless rewrite_from has removed the log and not yet renamed the
\* new one: after the restart every other key has the value it had.
RestartRecovers ==
  [][Restart /\ apart /\ ~Swapping =>
       \A k \in Key : mem'[k] = mem[k] \/ \E t \in Thread :
                        at[t].pc = "append" /\ at[t].line[1] = k]_vars
=============================================================================
