---------------------------- MODULE AofLogProofs ----------------------------
(***************************************************************************)
(* Proofs about AofLog, for any number of threads, keys, values and files  *)
(* and logs of any length.                                                 *)
(***************************************************************************)
EXTENDS AofLog, Integers, TLAPS, FiniteSetTheorems, SequenceTheorems,
        WellFoundedInduction

\* What a key may have, and a line of the log
Data == Value \cup {NoValue}

Line == Key \X Data

-----------------------------------------------------------------------------
(* What replay makes of a log                                              *)

\* The greatest member of a set of numbers is its Max.
LEMMA MaxIs ==
  ASSUME NEW S \in SUBSET Int, NEW m \in S, \A s \in S : m >= s
  PROVE  Max(S) = m
<1>1. \A x \in S : (\A y \in S : x >= y) => x = m
  OBVIOUS
<1> QED BY <1>1 DEF Max

\* A set of line numbers that is not empty has a greatest member, and Max is in it.
LEMMA MaxIsIn ==
  ASSUME NEW n \in Nat, NEW S \in SUBSET (1 .. n), S # {}
  PROVE  Max(S) \in S
<1> DEFINE T == {i \in Nat : \E s \in S : i = n - s}
           less == OpToRel(<, Nat)
<1>1. T # {} /\ T \subseteq Nat
  <2>1. PICK s \in S : TRUE
    OBVIOUS
  <2>2. n - s \in Nat
    BY SMT
  <2>3. n - s \in T
    BY <2>1, <2>2
  <2> QED BY <2>3
<1>2. \A x, y \in Nat : y < x => <<y, x>> \in less
  BY Zenon DEF OpToRel
<1>3. PICK x \in T : \A y \in T : <<y, x>> \notin less
  <2> HIDE DEF T
  <2> QED BY <1>1, NatLessThanWellFounded, WFMin, Zenon
<1>4. \A y \in T : x \in Nat /\ y \in Nat /\ ~(y < x)
  <2> HIDE DEF T
  <2> QED BY <1>1, <1>2, <1>3, Zenon
<1>5. PICK m \in S : x = n - m
  OBVIOUS
<1>6. \A s \in S : m >= s
  <2> SUFFICES ASSUME NEW s \in S PROVE m >= s
    OBVIOUS
  <2>1. n - s \in T
    OBVIOUS
  <2> QED BY <1>4, <1>5, <2>1
<1> QED BY <1>5, <1>6, MaxIs

\* The lines of a log that are about a key
On(lines, k) == {i \in 1 .. Len(lines) : lines[i][1] = k}

\* replay gives every key a value, or none.
LEMMA ReplayType ==
  ASSUME NEW lines \in Seq(Line)
  PROVE  replay(lines) \in [Key -> Data]
<1> SUFFICES ASSUME NEW k \in Key, On(lines, k) # {}
             PROVE  lines[Max(On(lines, k))][2] \in Data
  BY DEF replay, On, Data
<1>1. Max(On(lines, k)) \in On(lines, k)
  <2>1. Len(lines) \in Nat /\ On(lines, k) \in SUBSET (1 .. Len(lines))
    BY LenProperties DEF On
  <2> QED BY <2>1, MaxIsIn
<1>2. lines[Max(On(lines, k))] \in Line
  BY <1>1, ElementOfSeq DEF On
<1> QED BY <1>2 DEF Line

\* A line at the end of the log sets its key and no other.
LEMMA ReplayAppend ==
  ASSUME NEW lines \in Seq(Line), NEW k \in Key, NEW v \in Data
  PROVE  replay(Append(lines, <<k, v>>)) = [replay(lines) EXCEPT ![k] = v]
<1> DEFINE more == Append(lines, <<k, v>>)
           n == Len(lines)
<1>1. /\ n \in Nat /\ Len(more) = n + 1 /\ more[n + 1] = <<k, v>>
      /\ \A i \in 1 .. n : more[i] = lines[i]
  BY AppendProperties, LenProperties DEF Line
<1> HIDE DEF more, n
<1>2. replay(more)[k] = v
  <2>1. On(more, k) \in SUBSET Int /\ n + 1 \in On(more, k)
    BY <1>1 DEF On
  <2>2. \A s \in On(more, k) : n + 1 >= s
    BY <1>1 DEF On
  <2>3. Max(On(more, k)) = n + 1
    BY <2>1, <2>2, MaxIs
  <2> QED BY <1>1, <2>1, <2>3 DEF replay, On
<1>3. ASSUME NEW j \in Key, j # k
      PROVE  replay(more)[j] = replay(lines)[j]
  <2>1. On(more, j) = On(lines, j)
    <3>1. \A i : i \in 1 .. (n + 1) <=> i \in 1 .. n \/ i = n + 1
      BY <1>1
    <3> QED BY <1>1, <1>3, <3>1 DEF On, n
  <2>2. CASE On(lines, j) = {}
    BY <2>1, <2>2 DEF replay, On
  <2>3. CASE On(lines, j) # {}
    <3>1. Max(On(lines, j)) \in 1 .. n
      <4>1. On(lines, j) \in SUBSET (1 .. n)
        BY DEF On, n
      <4>2. Max(On(lines, j)) \in On(lines, j)
        BY <1>1, <2>3, <4>1, MaxIsIn, Zenon
      <4> QED BY <4>1, <4>2
    <3>2. more[Max(On(more, j))] = lines[Max(On(lines, j))]
      BY <1>1, <2>1, <3>1
    <3> QED BY <2>1, <2>3, <3>2 DEF replay, On
  <2> QED BY <2>2, <2>3
<1>4. replay(more) = [replay(lines) EXCEPT ![k] = v]
  <2>1. \A s : replay(s) = [j \in Key |-> replay(s)[j]]
    BY DEF replay
  <2> HIDE DEF replay
  <2> QED BY <1>2, <1>3, <2>1
<1> QED BY <1>4 DEF more

\* What dump_entries returns, in whatever order, replays to the data it was taken from.
LEMMA ReplayDump ==
  ASSUME NEW m \in [Key -> Data], NEW d \in dump_entries(m)
  PROVE  d \in Seq(Line) /\ replay(d) = m
<1> DEFINE stored == {j \in Key : m[j] # NoValue}
           S == {<<k, m[k]>> : k \in stored}
           n == Cardinality(S)
<1>1. IsFiniteSet(S) /\ n \in Nat
  <2>1. IsFiniteSet(stored)
    BY FilesAssumption, FS_Subset
  <2> DEFINE f == [k \in stored |-> <<k, m[k]>>]
  <2>2. f \in Surjection(stored, S)
    BY DEF Surjection
  <2> QED BY <2>1, <2>2, FS_Surjection, FS_CardinalityType
<1>2. d \in [1 .. n -> S] /\ \A i, j \in 1 .. n : i # j => d[i] # d[j]
  BY DEF dump_entries, SetToSeqs
<1>3. S \subseteq Line
  BY DEF Line
<1>4. d \in Seq(Line) /\ Len(d) = n
  BY <1>1, <1>2, <1>3
<1>5. \A s \in S : \E i \in 1 .. n : d[i] = s
  <2>1. d \in Injection(1 .. n, S)
    BY <1>2 DEF Injection, IsInjective
  <2>2. Cardinality(1 .. n) = n
    BY <1>1, FS_Interval
  <2>3. d \in Surjection(1 .. n, S)
    BY <1>1, <2>1, <2>2, FS_Injection
  <2> QED BY <2>3 DEF Surjection
<1>6. ASSUME NEW k \in Key
      PROVE  replay(d)[k] = m[k]
  <2>1. CASE m[k] = NoValue
    <3>1. On(d, k) = {}
      BY <1>2, <1>4, <2>1 DEF On
    <3> QED BY <2>1, <3>1 DEF replay, On
  <2>2. CASE m[k] # NoValue
    <3>1. PICK i \in 1 .. n : d[i] = <<k, m[k]>>
      BY <1>5, <2>2
    <3>2. On(d, k) = {i}
      <4>1. i \in On(d, k)
        BY <1>4, <3>1 DEF On
      <4>2. ASSUME NEW j \in On(d, k) PROVE j = i
        BY <1>2, <1>4, <3>1, <4>2 DEF On
      <4> QED BY <4>1, <4>2
    <3>3. Max(On(d, k)) = i
      BY <1>1, <3>2, MaxIs
    <3> QED BY <3>1, <3>2, <3>3 DEF replay, On
  <2> QED BY <2>1, <2>2
<1> QED BY <1>4, <1>6 DEF replay

-----------------------------------------------------------------------------
(* The invariant                                                           *)

FrameOK(f) ==
  /\ f.pc \in {"idle", "append", "open_temp", "write_temp", "swap", "rename"}
  /\ f.pc = "idle" => f = Idle
  /\ f.pc = "append" => f.line \in Line
  /\ f.pc \in {"open_temp", "write_temp"} => f.entries \in Seq(Line)
  /\ f.pc = "write_temp" => f.fd \in Inode

TypeOK ==
  /\ mem \in [Key -> Data]
  /\ file \in [Inode -> Seq(Line)]
  /\ log \in Inode \cup {NoInode}
  /\ temp \in Inode \cup {NoInode}
  /\ stream_ \in Inode \cup {NoInode}
  /\ DOMAIN at = Thread
  /\ \A t \in Thread : FrameOK(at[t])

\* The two names are never of one file, and the stream is closed or writes to the log.
Names == /\ log # NoInode => log # temp
         /\ stream_ # NoInode => stream_ = log

\* The log replays to the data in memory.
Kept == log # NoInode /\ replay(file[log]) = mem

\* How far a call is that has had the process to itself.  The temporary file takes over
\* what is in memory before the log is given up.
Sound(t) ==
  /\ at[t].pc = "append" => log # NoInode /\ replay(Append(file[log], at[t].line)) = mem
  /\ at[t].pc = "open_temp" => Kept /\ replay(at[t].entries) = mem
  /\ at[t].pc = "write_temp" =>
       /\ Kept /\ replay(at[t].entries) = mem
       /\ at[t].fd = temp /\ file[temp] = << >>
  /\ at[t].pc = "swap" => Kept /\ temp # NoInode /\ replay(file[temp]) = mem
  /\ at[t].pc = "rename" => temp # NoInode /\ replay(file[temp]) = mem

Single == \A t, u \in Thread : at[t] # Idle /\ at[u] # Idle => t = u

Alone == apart => /\ Single
                  /\ (\A t \in Thread : at[t] = Idle) => Kept
                  /\ \A t \in Thread : Sound(t)

IInv == TypeOK /\ Names /\ Alone

\* A file that has no name and is not open is there when one is needed: the log and the
\* temporary file are not both there then, and every thread has at most one file open.
LEMMA FreshIsFree ==
  ASSUME TypeOK, Names, log = NoInode \/ temp = NoInode
  PROVE  Fresh \in Inode /\ Fresh \notin InUse
<1> DEFINE W == {u \in Thread : at[u].pc = "write_temp"}
           fds == {at[t].fd : t \in W}
           x == IF log = NoInode THEN temp ELSE log
<1>1. IsFiniteSet(fds) /\ Cardinality(fds) <= Cardinality(Thread)
  <2>1. IsFiniteSet(W) /\ Cardinality(W) <= Cardinality(Thread)
    BY FilesAssumption, FS_Subset
  <2> DEFINE f == [t \in W |-> at[t].fd]
  <2>2. f \in Surjection(W, fds)
    BY DEF Surjection
  <2>3. IsFiniteSet(fds) /\ Cardinality(fds) <= Cardinality(W)
    BY <2>1, <2>2, FS_Surjection
  <2>4. Cardinality(fds) \in Nat /\ Cardinality(W) \in Nat /\ Cardinality(Thread) \in Nat
    BY <2>1, <2>3, FilesAssumption, FS_CardinalityType
  <2> QED BY <2>1, <2>3, <2>4
<1>2. IsFiniteSet(fds \cup {x}) /\ Cardinality(fds \cup {x}) <= Cardinality(Thread) + 1
  <2> HIDE DEF fds, x
  <2>1. Cardinality(fds) \in Nat /\ Cardinality(Thread) \in Nat
    BY <1>1, FilesAssumption, FS_CardinalityType
  <2> QED BY <1>1, <2>1, FS_AddElement
<1>3. InUse \cap Inode \subseteq fds \cup {x}
  BY FilesAssumption DEF InUse, Names
<1>4. ~(Inode \subseteq fds \cup {x})
  <2> HIDE DEF fds, x
  <2> SUFFICES ASSUME Inode \subseteq fds \cup {x}
               PROVE  FALSE
    OBVIOUS
  <2>1. /\ IsFiniteSet(Inode)
        /\ Cardinality(Inode) <= Cardinality(fds \cup {x})
    BY <1>2, FS_Subset
  <2>2. /\ Cardinality(Inode) \in Nat /\ Cardinality(fds \cup {x}) \in Nat
        /\ Cardinality(Thread) \in Nat
    BY <1>2, <2>1, FilesAssumption, FS_CardinalityType
  <2> QED BY <1>2, <2>1, <2>2, FilesAssumption
<1>5. \E i \in Inode : i \notin InUse
  BY <1>3, <1>4
<1> QED BY <1>5 DEF Fresh

\* Calls that count one at most are of one thread.
LEMMA OneCall ==
  ASSUME NEW S \in SUBSET Thread, Cardinality(S) <= 1, NEW t \in S, NEW u \in S
  PROVE  t = u
<1>1. IsFiniteSet(S) /\ Cardinality(S) \in Nat
  BY FilesAssumption, FS_Subset, FS_CardinalityType
<1>2. Cardinality(S) = 0 \/ Cardinality(S) = 1
  BY <1>1
<1> QED BY <1>1, <1>2, FS_EmptySet, FS_Singleton

\* What a step of a call has to keep: its own place, and the log when it returns.  The
\* other threads are idle as long as calls have come one after the other.
LEMMA AloneStep ==
  ASSUME IInv, NEW t \in Thread, NEW f, Goto(t, f), at[t] # Idle \/ f # Idle,
         apart' = (apart /\ Cardinality(Calls') <= 1),
         apart /\ Sound(t) /\ (at[t] = Idle => Kept) => Sound(t)' /\ (f = Idle => Kept')
  PROVE  Alone'
<1> SUFFICES ASSUME apart'
             PROVE  /\ Single'
                    /\ (\A u \in Thread : at'[u] = Idle) => Kept'
                    /\ \A u \in Thread : Sound(u)'
  BY DEF Alone
<1>1. apart /\ Cardinality(Calls') <= 1
  OBVIOUS
<1>2. /\ DOMAIN at = Thread /\ Single /\ Sound(t)
      /\ (\A u \in Thread : at[u] = Idle) => Kept
  BY <1>1 DEF IInv, TypeOK, Alone
<1>3. at'[t] = f /\ \A u \in Thread \ {t} : at'[u] = at[u]
  BY <1>2 DEF Goto
<1>4. Single'
  <2>1. Calls' \in SUBSET Thread
    BY DEF Calls
  <2> QED BY <1>1, <2>1, OneCall DEF Single, Calls
<1>5. \A u \in Thread \ {t} : at'[u] = Idle /\ at[u] = Idle
  BY <1>2, <1>3, <1>4 DEF Single
<1>6. Sound(t)' /\ (f = Idle => Kept')
  BY <1>1, <1>2, <1>5
<1>7. \A u \in Thread \ {t} : Sound(u)'
  BY <1>5 DEF Sound, Idle
<1> QED BY <1>3, <1>4, <1>6, <1>7

-----------------------------------------------------------------------------
(* The steps                                                               *)

\* The constructor has created an empty log, and nothing is stored.
LEMMA InitIInv == Init => IInv
<1> SUFFICES ASSUME Init PROVE IInv
  OBVIOUS
<1>1. Inode # {}
  <2>1. Cardinality(Thread) \in Nat
    BY FilesAssumption, FS_CardinalityType
  <2> QED BY <2>1, FilesAssumption, FS_EmptySet
<1>2. log \in Inode /\ stream_ = log /\ temp = NoInode
  BY <1>1 DEF Init
<1>3. \A t \in Thread : at[t] = Idle
  BY DEF Init
<1>4. TypeOK
  BY <1>2, <1>3 DEF Init, TypeOK, FrameOK, Idle, Data
<1>5. Names
  BY <1>2, FilesAssumption DEF Names
<1>6. Kept
  <2>1. replay(<< >>) = [k \in Key |-> NoValue]
    BY DEF replay
  <2> QED BY <1>2, <2>1, FilesAssumption DEF Init, Kept
<1>7. Alone
  BY <1>3, <1>6 DEF Alone, Single, Sound, Idle
<1> QED BY <1>4, <1>5, <1>7 DEF IInv

\* What StorageHooks does to the table is in the line it is about to append.
LEMMA TableWrite ==
  ASSUME IInv, NEW t \in Thread, at[t] = Idle, NEW k \in Key, NEW v \in Data,
         mem' = [mem EXCEPT ![k] = v],
         Goto(t, [pc |-> "append", line |-> <<k, v>>]),
         UNCHANGED <<file, log, temp, stream_, mutex_>>,
         apart' = (apart /\ Cardinality(Calls') <= 1)
  PROVE  IInv'
<1> DEFINE f == [pc |-> "append", line |-> <<k, v>>]
<1>1. TypeOK /\ Names
  BY DEF IInv
<1>2. FrameOK(f) /\ f # Idle
  BY DEF FrameOK, Idle, Line
<1> HIDE DEF f
<1>3. at' = [at EXCEPT ![t] = f]
  BY DEF Goto, f
<1>4. TypeOK'
  BY <1>1, <1>2, <1>3 DEF TypeOK
<1>5. Names'
  BY <1>1 DEF Names
<1>6. ASSUME Kept PROVE Sound(t)'
  <2>1. at'[t] = f /\ f.pc = "append" /\ f.line = <<k, v>>
    BY <1>1, <1>3 DEF TypeOK, f
  <2>2. log \in Inode /\ file[log] \in Seq(Line)
    BY <1>1, <1>6 DEF TypeOK, Kept
  <2>3. replay(Append(file[log], <<k, v>>)) = mem'
    BY <1>6, <2>2, ReplayAppend DEF Kept
  <2> QED BY <1>6, <2>1, <2>3 DEF Sound, Kept
<1>7. Alone'
  BY <1>2, <1>3, <1>6, AloneStep DEF Goto
<1> QED BY <1>4, <1>5, <1>7 DEF IInv

\* write_line appends to the file the stream is on, which is the log; a closed stream is
\* opened on the log again, or on a new one.
LEMMA write_lineStep ==
  ASSUME IInv, NEW t \in Thread, write_line(t),
         apart' = (apart /\ Cardinality(Calls') <= 1)
  PROVE  IInv'
<1> DEFINE i == IF stream_ # NoInode THEN stream_ ELSE Opened
           lines == IF stream_ # NoInode THEN file[stream_] ELSE Found
<1>1. TypeOK /\ Names /\ at[t].pc = "append"
  BY DEF IInv, write_line
<1>2. i \in Inode /\ i # temp /\ (log # NoInode => i = log)
  BY <1>1, FreshIsFree, FilesAssumption DEF TypeOK, Names, Opened, InUse
<1>3. lines \in Seq(Line) /\ (log # NoInode => lines = file[log])
  BY <1>1, EmptySeq DEF TypeOK, Names, Found
<1>4. /\ file' = [file EXCEPT ![i] = Append(lines, at[t].line)]
      /\ stream_' = i /\ log' = i /\ temp' = temp /\ mem' = mem
      /\ at' = [at EXCEPT ![t] = Idle]
  BY <1>1 DEF write_line, Goto, Names
<1> HIDE DEF i, lines
<1>5. at[t].line \in Line
  BY <1>1 DEF TypeOK, FrameOK
<1>6. TypeOK'
  <2>1. Append(lines, at[t].line) \in Seq(Line)
    BY <1>3, <1>5, AppendProperties
  <2>2. FrameOK(Idle)
    BY DEF FrameOK, Idle
  <2> QED BY <1>1, <1>2, <1>4, <2>1, <2>2 DEF TypeOK
<1>7. Names'
  BY <1>1, <1>2, <1>4 DEF Names
<1>8. ASSUME Sound(t) PROVE Sound(t)' /\ Kept'
  <2>1. log # NoInode /\ replay(Append(file[log], at[t].line)) = mem
    BY <1>1, <1>8 DEF Sound
  <2>2. file'[log'] = Append(file[log], at[t].line)
    BY <1>1, <1>2, <1>3, <1>4, <2>1 DEF TypeOK
  <2>3. Kept'
    BY <1>2, <1>4, <2>1, <2>2, FilesAssumption DEF Kept
  <2>4. at'[t] = Idle
    BY <1>1, <1>4 DEF TypeOK
  <2> QED BY <2>3, <2>4 DEF Sound, Idle
<1>9. Alone'
  <2>1. at[t] # Idle
    BY <1>1 DEF Idle
  <2> QED BY <1>4, <1>8, <2>1, AloneStep DEF Goto
<1> QED BY <1>6, <1>7, <1>9 DEF IInv

\* rewrite_from takes a dump of what is in memory, and of what the log holds.
LEMMA DumpStep ==
  ASSUME IInv, NEW t \in Thread, Dump(t),
         apart' = (apart /\ Cardinality(Calls') <= 1)
  PROVE  IInv'
<1>1. TypeOK /\ Names /\ at[t] = Idle
  BY DEF IInv, Dump
<1>2. PICK d \in dump_entries(mem) : Goto(t, [pc |-> "open_temp", entries |-> d])
  BY DEF Dump
<1> DEFINE f == [pc |-> "open_temp", entries |-> d]
<1>3. d \in Seq(Line) /\ replay(d) = mem
  BY <1>1, ReplayDump DEF TypeOK
<1>4. FrameOK(f) /\ f # Idle /\ f.pc = "open_temp" /\ f.entries = d
  BY <1>3 DEF FrameOK, Idle
<1> HIDE DEF f
<1>5. at' = [at EXCEPT ![t] = f] /\ UNCHANGED <<mem, file, log, temp, stream_>>
  BY <1>2 DEF Goto, Dump, f
<1>6. TypeOK' /\ Names'
  BY <1>1, <1>4, <1>5 DEF TypeOK, Names
<1>7. ASSUME Kept PROVE Sound(t)'
  <2>1. at'[t] = f
    BY <1>1, <1>5 DEF TypeOK
  <2>2. Kept'
    BY <1>5, <1>7 DEF Kept
  <2> QED BY <1>3, <1>4, <1>5, <2>1, <2>2 DEF Sound
<1>8. Alone'
  BY <1>1, <1>4, <1>5, <1>7, AloneStep DEF Goto
<1> QED BY <1>6, <1>8 DEF IInv

\* The temporary file, new or truncated, is not the log.
LEMMA OpenTempStep ==
  ASSUME IInv, NEW t \in Thread, OpenTemp(t),
         apart' = (apart /\ Cardinality(Calls') <= 1)
  PROVE  IInv'
<1> DEFINE i == IF temp # NoInode THEN temp ELSE Fresh
           f == [pc |-> "write_temp", entries |-> at[t].entries, fd |-> i]
<1>1. TypeOK /\ Names /\ at[t].pc = "open_temp"
  BY DEF IInv, OpenTemp
<1>2. i \in Inode /\ i # log
  BY <1>1, FreshIsFree DEF TypeOK, Names, InUse
<1>3. at' = [at EXCEPT ![t] = f] /\ UNCHANGED <<mem, log, stream_>>
  BY DEF OpenTemp, Goto
<1>4. temp' = i /\ file' = [file EXCEPT ![i] = << >>]
  BY DEF OpenTemp
<1> HIDE DEF i
<1>5. /\ FrameOK(f) /\ f # Idle
      /\ f.pc = "write_temp" /\ f.entries = at[t].entries /\ f.fd = i
  BY <1>1, <1>2 DEF TypeOK, FrameOK, Idle
<1> HIDE DEF f
<1>6. TypeOK'
  <2>1. << >> \in Seq(Line)
    BY EmptySeq
  <2>2. file' \in [Inode -> Seq(Line)]
    BY <1>1, <1>4, <2>1 DEF TypeOK
  <2> QED BY <1>1, <1>2, <1>3, <1>4, <1>5, <2>2 DEF TypeOK
<1>7. Names'
  BY <1>1, <1>2, <1>3, <1>4 DEF Names
<1>8. ASSUME Sound(t) PROVE Sound(t)'
  <2>1. Kept /\ replay(at[t].entries) = mem
    BY <1>1, <1>8 DEF Sound
  <2>2. Kept'
    BY <1>1, <1>2, <1>3, <1>4, <2>1 DEF Kept, TypeOK
  <2>3. at'[t] = f /\ file'[temp'] = << >>
    BY <1>1, <1>2, <1>3, <1>4 DEF TypeOK
  <2> QED BY <1>3, <1>4, <1>5, <2>1, <2>2, <2>3 DEF Sound
<1>9. Alone'
  BY <1>3, <1>5, <1>8, AloneStep DEF Goto
<1> QED BY <1>6, <1>7, <1>9 DEF IInv

\* A rewrite that cannot open its file has changed nothing.
LEMMA OpenTempFailsStep ==
  ASSUME IInv, NEW t \in Thread, OpenTempFails(t),
         apart' = (apart /\ Cardinality(Calls') <= 1)
  PROVE  IInv'
<1>1. TypeOK /\ Names /\ at[t].pc = "open_temp"
  BY DEF IInv, OpenTempFails
<1>2. at' = [at EXCEPT ![t] = Idle] /\ UNCHANGED <<mem, file, log, temp, stream_>>
  BY DEF OpenTempFails, Goto
<1>3. FrameOK(Idle) /\ at[t] # Idle
  BY <1>1 DEF FrameOK, Idle
<1>4. TypeOK' /\ Names'
  BY <1>1, <1>2, <1>3 DEF TypeOK, Names
<1>5. ASSUME Sound(t) PROVE Sound(t)' /\ Kept'
  <2>1. Kept'
    BY <1>1, <1>2, <1>5 DEF Sound, Kept
  <2>2. at'[t] = Idle
    BY <1>1, <1>2 DEF TypeOK
  <2> QED BY <2>1, <2>2 DEF Sound, Idle
<1>6. Alone'
  BY <1>2, <1>3, <1>5, AloneStep DEF Goto
<1> QED BY <1>4, <1>6 DEF IInv

\* Files that are in use keep their lines.
LEMMA ReclaimType ==
  ASSUME NEW g \in [Inode -> Seq(Line)], file' = Reclaim(g)
  PROVE  /\ file' \in [Inode -> Seq(Line)]
         /\ \A i \in Inode : i = log' \/ i = temp' => file'[i] = g[i]
<1>1. << >> \in Seq(Line)
  BY EmptySeq
<1> QED BY <1>1 DEF Reclaim, InUse

\* The dumped entries are in the temporary file before anything happens to the log.
LEMMA WriteTempStep ==
  ASSUME IInv, NEW t \in Thread, WriteTemp(t),
         apart' = (apart /\ Cardinality(Calls') <= 1)
  PROVE  IInv'
<1> DEFINE fd == at[t].fd
           old == file[fd]
           entries == at[t].entries
           lines == entries \o SubSeq(old, Len(entries) + 1, Len(old))
           g == [file EXCEPT ![fd] = lines]
           f == [pc |-> "swap"]
<1>1. TypeOK /\ Names /\ at[t].pc = "write_temp"
  BY DEF IInv, WriteTemp
<1>2. fd \in Inode /\ old \in Seq(Line) /\ entries \in Seq(Line)
  BY <1>1 DEF TypeOK, FrameOK
<1>3. lines \in Seq(Line) /\ (old = << >> => lines = entries)
  <2>1. Len(old) \in Nat /\ Len(entries) \in Nat
    BY <1>2, LenProperties
  <2>2. SubSeq(old, Len(entries) + 1, Len(old)) \in Seq(Line)
    BY <1>2, <2>1, SubSeqProperties
  <2>3. old = << >> => SubSeq(old, Len(entries) + 1, Len(old)) = << >>
    BY <1>2, <2>1, SubSeqEmpty
  <2> QED BY <1>2, <2>2, <2>3, ConcatProperties, ConcatEmptySeq
<1>4. /\ at' = [at EXCEPT ![t] = f] /\ UNCHANGED <<mem, log, temp, stream_>>
      /\ file' = Reclaim(g)
  BY DEF WriteTemp, Goto
<1> HIDE DEF fd, old, entries, lines
<1>5. FrameOK(f) /\ f # Idle
  BY DEF FrameOK, Idle
<1>6. g \in [Inode -> Seq(Line)]
  BY <1>1, <1>2, <1>3 DEF TypeOK
<1>7. /\ file' \in [Inode -> Seq(Line)]
      /\ \A i \in Inode : i = log' \/ i = temp' => file'[i] = g[i]
  <2> HIDE DEF g
  <2> QED BY <1>4, <1>6, ReclaimType
<1>8. TypeOK' /\ Names'
  BY <1>1, <1>4, <1>5, <1>7 DEF TypeOK, Names
<1>9. ASSUME Sound(t) PROVE Sound(t)'
  <2>1. Kept /\ replay(entries) = mem /\ fd = temp /\ old = << >>
    BY <1>1, <1>9 DEF Sound, fd, old, entries
  <2>2. temp \in Inode /\ temp # log /\ log \in Inode /\ temp # NoInode
    BY <1>1, <1>2, <2>1, FilesAssumption DEF TypeOK, Names, Kept
  <2>3. file'[temp] = entries /\ file'[log] = file[log]
    BY <1>1, <1>3, <1>4, <1>7, <2>1, <2>2 DEF TypeOK
  <2>4. Kept'
    BY <1>4, <2>1, <2>3 DEF Kept
  <2>5. at'[t] = f
    BY <1>1, <1>4 DEF TypeOK
  <2> QED BY <1>4, <2>1, <2>2, <2>3, <2>4, <2>5 DEF Sound
<1>10. Alone'
  BY <1>4, <1>5, <1>9, AloneStep DEF Goto
<1> QED BY <1>8, <1>10 DEF IInv

\* The stream is closed and the log gives way to the temporary file, which has it all.
LEMMA RemoveLogStep ==
  ASSUME IInv, NEW t \in Thread, RemoveLog(t),
         apart' = (apart /\ Cardinality(Calls') <= 1)
  PROVE  IInv'
<1> DEFINE f == [pc |-> "rename"]
<1>1. TypeOK /\ Names /\ at[t].pc = "swap"
  BY DEF IInv, RemoveLog
<1>2. /\ at' = [at EXCEPT ![t] = f] /\ UNCHANGED <<mem, temp>>
      /\ log' = NoInode /\ stream_' = NoInode /\ file' = Reclaim(file)
  BY DEF RemoveLog, Goto
<1>3. FrameOK(f) /\ f # Idle
  BY DEF FrameOK, Idle
<1>4. /\ file' \in [Inode -> Seq(Line)]
      /\ \A i \in Inode : i = temp' => file'[i] = file[i]
  BY <1>1, <1>2, ReclaimType DEF TypeOK
<1>5. TypeOK' /\ Names'
  BY <1>1, <1>2, <1>3, <1>4 DEF TypeOK, Names
<1>6. ASSUME Sound(t) PROVE Sound(t)'
  <2>1. temp # NoInode /\ replay(file[temp]) = mem
    BY <1>1, <1>6 DEF Sound
  <2>2. file'[temp] = file[temp]
    BY <1>1, <1>2, <1>4, <2>1 DEF TypeOK
  <2>3. at'[t] = f
    BY <1>1, <1>2 DEF TypeOK
  <2> QED BY <1>2, <2>1, <2>2, <2>3 DEF Sound
<1>7. Alone'
  BY <1>2, <1>3, <1>6, AloneStep DEF Goto
<1> QED BY <1>5, <1>7 DEF IInv

\* The temporary file becomes the log, and the stream is opened on it.
LEMMA RenameStep ==
  ASSUME IInv, NEW t \in Thread, Rename(t),
         apart' = (apart /\ Cardinality(Calls') <= 1)
  PROVE  IInv'
<1>1. TypeOK /\ Names /\ at[t].pc = "rename"
  BY DEF IInv, Rename
<1>2. /\ at' = [at EXCEPT ![t] = Idle] /\ UNCHANGED <<mem, file>>
      /\ \/ temp # NoInode /\ log' = temp /\ stream_' = temp /\ temp' = NoInode
         \/ temp = NoInode /\ UNCHANGED <<log, stream_, temp>>
  BY DEF Rename, Goto
<1>3. FrameOK(Idle) /\ at[t] # Idle
  BY <1>1 DEF FrameOK, Idle
<1>4. TypeOK'
  BY <1>1, <1>2, <1>3 DEF TypeOK
<1>5. Names'
  BY <1>1, <1>2 DEF Names
<1>6. ASSUME Sound(t) PROVE Sound(t)' /\ Kept'
  <2>1. Kept'
    BY <1>1, <1>2, <1>6 DEF Sound, Kept
  <2>2. at'[t] = Idle
    BY <1>1, <1>2 DEF TypeOK
  <2> QED BY <2>1, <2>2 DEF Sound, Idle
<1>7. Alone'
  BY <1>2, <1>3, <1>6, AloneStep DEF Goto
<1> QED BY <1>4, <1>5, <1>7 DEF IInv

\* A new process starts from what it finds in the log, or from nothing.
LEMMA RestartStep ==
  ASSUME IInv, Restart
  PROVE  IInv'
<1> DEFINE g == [file EXCEPT ![log'] = Found]
<1>1. TypeOK /\ Names
  BY DEF IInv
<1>2. /\ log' = Opened /\ stream_' = log' /\ temp' = temp /\ mem' = replay(Found)
      /\ at' = [t \in Thread |-> Idle] /\ file' = Reclaim(g)
  BY DEF Restart
<1>3. log' \in Inode /\ log' # temp
  BY <1>1, <1>2, FreshIsFree DEF TypeOK, Names, Opened, InUse
<1>4. Found \in Seq(Line)
  BY <1>1, EmptySeq DEF TypeOK, Found
<1>5. g \in [Inode -> Seq(Line)] /\ g[log'] = Found
  BY <1>1, <1>3, <1>4 DEF TypeOK
<1> HIDE DEF g
<1>6. file' \in [Inode -> Seq(Line)] /\ file'[log'] = Found
  BY <1>2, <1>3, <1>5, ReclaimType
<1>7. \A t \in Thread : at'[t] = Idle
  BY <1>2
<1>8. TypeOK'
  <2>1. mem' \in [Key -> Data]
    BY <1>2, <1>4, ReplayType
  <2>2. FrameOK(Idle)
    BY DEF FrameOK, Idle
  <2> QED BY <1>1, <1>2, <1>3, <1>6, <1>7, <2>1, <2>2 DEF TypeOK
<1>9. Names'
  BY <1>2, <1>3 DEF Names
<1>10. Alone'
  <2>1. Kept'
    BY <1>2, <1>3, <1>6, FilesAssumption DEF Kept
  <2> QED BY <1>7, <2>1 DEF Alone, Single, Sound, Idle
<1> QED BY <1>8, <1>9, <1>10 DEF IInv

\* The invariant of the files, and of the log as long as calls do not overlap.
THEOREM IInvHolds == Spec => []IInv
<1>1. IInv /\ [Next]_vars => IInv'
  <2> SUFFICES ASSUME IInv, [Next]_vars PROVE IInv'
    OBVIOUS
  <2>1. CASE Restart
    BY <2>1, RestartStep
  <2>2. ASSUME NEW t \in Thread, StorageHooks(t),
               apart' = (apart /\ Cardinality(Calls') <= 1)
        PROVE  IInv'
    <3>1. ASSUME NEW k \in Key, NEW v \in Value, set(t, k, v)
          PROVE  IInv'
      BY <2>2, <3>1, TableWrite DEF set, Data
    <3>2. ASSUME NEW k \in Key, remove(t, k)
          PROVE  IInv'
      BY <2>2, <3>2, TableWrite DEF remove, Data
    <3> QED BY <2>2, <3>1, <3>2, write_lineStep DEF StorageHooks
  <2>3. ASSUME NEW t \in Thread, rewrite_from(t),
               apart' = (apart /\ Cardinality(Calls') <= 1)
        PROVE  IInv'
    BY <2>3, DumpStep, OpenTempStep, OpenTempFailsStep, WriteTempStep, RemoveLogStep,
       RenameStep DEF rewrite_from
  <2>4. CASE UNCHANGED vars
    BY <2>4 DEF vars, IInv, TypeOK, Names, Alone, Single, Kept, Sound
  <2> QED BY <2>1, <2>2, <2>3, <2>4 DEF Next
<1> QED BY <1>1, InitIInv, PTL DEF Spec

-----------------------------------------------------------------------------
(* The properties                                                          *)

\* Whatever the threads and the crashes do, an open stream writes to the file that
\* replay will read.
THEOREM StreamOnLog == Spec => []StreamIsLog
<1>1. IInv => StreamIsLog
  BY DEF IInv, Names, StreamIsLog
<1> QED BY <1>1, IInvHolds, PTL

\* What the invariant says of the log, put together over the places a call can be in
LEMMA LogInOrder == IInv => LogMatches
<1> SUFFICES ASSUME IInv, apart, ~Swapping
             PROVE  log # NoInode /\ replay(file[log] \o Pending) = mem
  BY DEF LogMatches
<1> DEFINE appending == {t \in Thread : at[t].pc = "append"}
<1>1. TypeOK /\ Single /\ \A t \in Thread : Sound(t)
  BY DEF IInv, Alone
<1>2. CASE appending = {}
  <2>1. Pending = << >>
    BY <1>2 DEF Pending
  <2>2. Kept
    <3>1. CASE \A t \in Thread : at[t] = Idle
      BY <3>1 DEF IInv, Alone
    <3>2. ASSUME NEW t \in Thread, at[t] # Idle PROVE Kept
      BY <1>1, <1>2, <3>2 DEF Sound, TypeOK, FrameOK, Swapping
    <3> QED BY <3>1, <3>2
  <2>3. file[log] \o << >> = file[log]
    BY <1>1, <2>2, ConcatEmptySeq DEF TypeOK, Kept
  <2> QED BY <2>1, <2>2, <2>3 DEF Kept
<1>3. CASE appending # {}
  <2> DEFINE t == CHOOSE u \in appending : TRUE
  <2>1. t \in Thread /\ at[t].pc = "append"
    BY <1>3
  <2>2. Pending = <<at[t].line>>
    BY <1>3 DEF Pending
  <2> HIDE DEF t
  <2>3. log # NoInode /\ replay(Append(file[log], at[t].line)) = mem
    BY <1>1, <2>1 DEF Sound
  <2>4. Append(file[log], at[t].line) = file[log] \o <<at[t].line>>
    BY <1>1, <2>1, <2>3, AppendIsConcat DEF TypeOK, FrameOK
  <2> QED BY <2>2, <2>3, <2>4
<1> QED BY <1>2, <1>3

\* As long as calls do not overlap, the log is in order except between the remove and
\* the rename: with the line of the call under way it replays to the data in memory.
THEOREM LogInStep == Spec => []LogMatches
BY LogInOrder, IInvHolds, PTL

\* A crash loses at most the call in progress, as long as calls do not overlap and the
\* log is not being replaced.
THEOREM CrashRecovers == Spec => RestartRecovers
<1> DEFINE Recovered ==
      Restart /\ apart /\ ~Swapping =>
        \A k \in Key : mem'[k] = mem[k] \/ \E t \in Thread :
                         at[t].pc = "append" /\ at[t].line[1] = k
<1>1. ASSUME IInv
      PROVE  Recovered
  <2> SUFFICES ASSUME Restart, apart, ~Swapping, NEW k \in Key,
                      ~\E t \in Thread : at[t].pc = "append" /\ at[t].line[1] = k
               PROVE  mem'[k] = mem[k]
    OBVIOUS
  <2>1. log # NoInode /\ replay(file[log] \o Pending) = mem
    BY <1>1, LogInOrder DEF LogMatches
  <2>2. mem' = replay(file[log]) /\ file[log] \in Seq(Line)
    BY <1>1, <2>1 DEF Restart, Found, IInv, TypeOK
  <2>3. CASE Pending = << >>
    BY <2>1, <2>2, <2>3, ConcatEmptySeq
  <2>4. CASE Pending # << >>
    <3>1. PICK t \in Thread : at[t].pc = "append" /\ Pending = <<at[t].line>>
      BY <2>4 DEF Pending
    <3>2. at[t].line \in Line
      BY <1>1, <3>1 DEF IInv, TypeOK, FrameOK
    <3>3. PICK j \in Key, v \in Data : at[t].line = <<j, v>>
      BY <3>2 DEF Line
    <3>4. j # k
      BY <3>1, <3>3
    <3>5. file[log] \o Pending = Append(file[log], <<j, v>>)
      BY <2>2, <3>1, <3>2, <3>3, AppendIsConcat
    <3>6. mem = [mem' EXCEPT ![j] = v]
      <4>1. replay(Append(file[log], <<j, v>>)) = [replay(file[log]) EXCEPT ![j] = v]
        BY <2>2, ReplayAppend
      <4> QED BY <2>1, <2>2, <3>5, <4>1
    <3>7. mem' \in [Key -> Data]
      BY <2>2, ReplayType
    <3> QED BY <3>4, <3>6, <3>7
  <2> QED BY <2>3, <2>4
<1>2. IInv => [Recovered]_vars
  BY <1>1
<1>3. [][Recovered]_vars => RestartRecovers
  BY DEF RestartRecovers
<1> QED BY <1>2, <1>3, IInvHolds, PTL

=============================================================================
