--------------------------- MODULE StorageEngine ---------------------------
(***************************************************************************)
(* The storage engine under concurrent workers and the TTL sweep           *)
(* (storage/storage_engine.cpp, storage/counter_store.cpp,                 *)
(* storage/batch_ops.cpp, ttl/scheduler.cpp and the handlers that call     *)
(* them).                                                                  *)
(*                                                                         *)
(* The hash table is the map that HashTable implements, and a call of one  *)
(* of its operations is a step.  The engine takes no lock, so every engine *)
(* operation that makes several table calls takes several steps, between   *)
(* which the other workers and the sweep run.  MGET, MSET and EXISTS with  *)
(* several keys repeat the steps of one key and have no steps of their own.*)
(*                                                                         *)
(* Time is relative: an entry carries what is left of its TTL, and Tick    *)
(* shortens all of them.  left = 0 means now >= expires_at.                *)
(***************************************************************************)
EXTENDS Integers, FiniteSets

CONSTANTS Key, Worker,
          NoEntry,      \* std::nullopt from the table
          Nil,          \* the null reply
          Never,        \* no expires_at
          Text,         \* a value that std::stoll rejects
          IntMax,       \* the largest long long
          SizeMax,      \* the largest std::size_t
          SetArgs,      \* values clients SET
          Ttls,         \* seconds clients EXPIRE with; 0 for all that are <= 0
          Deltas        \* what INCR, DECR and INCRBY add

ASSUME NumbersAssumption == /\ IntMax \in Nat /\ SizeMax \in Nat
                            /\ Never \notin Nat
                            /\ Ttls \subseteq Nat
                            /\ Deltas \subseteq (-IntMax - 1) .. IntMax

Number == (-IntMax - 1) .. IntMax

Value == Number \cup {Text}

Left == UNION {0 .. t : t \in Ttls} \cup {Never}

Entry == [value : Value, left : Left]

VARIABLES table,    \* the hash table
          worker,   \* where each worker is inside an engine operation
          answers,  \* live values of the key since get or increment was called
          sweep,    \* where the sweep is
          overdue,  \* the keys that were expired at some time during the sweep
          alive     \* the process has not been ended by an exception

vars == <<table, worker, answers, sweep, overdue, alive>>

-----------------------------------------------------------------------------
Idle == [pc |-> "idle"]

Asleep == [pc |-> "asleep"]

Expired(k) == table[k] # NoEntry /\ table[k].left = 0

\* What a client should be told about k now.
LiveValue(k) == IF table[k] = NoEntry \/ Expired(k) THEN Nil
                                                    ELSE table[k].value

entry_count == Cardinality({k \in Key : table[k] # NoEntry})

\* long long addition, which wraps in the builds at hand
Wrap(n) == IF n > IntMax THEN n - 2 * (IntMax + 1)
           ELSE IF n < -IntMax - 1 THEN n + 2 * (IntMax + 1)
           ELSE n

\* Fault: every value counts as none.
parse_valueNone(v) == 0

parse_value(v) == IF v = Nil THEN 0 ELSE v

Goto(w, frame) == worker' = [worker EXCEPT ![w] = frame]

insert(k, v, l) == table' = [table EXCEPT ![k] = [value |-> v, left |-> l]]

erase(k) == table' = [table EXCEPT ![k] = NoEntry]

Init ==
  /\ table = [k \in Key |-> NoEntry]
  /\ worker = [w \in Worker |-> Idle]
  /\ answers = [w \in Worker |-> {}]
  /\ sweep = Asleep
  /\ overdue = {}
  /\ alive = TRUE

-----------------------------------------------------------------------------
(* Engine operations that make one table call.                             *)

set(w, k, v) ==
  /\ worker[w] = Idle
  /\ insert(k, v, Never)
  /\ UNCHANGED <<worker, sweep, alive>>

remove(w, k) ==
  /\ worker[w] = Idle
  /\ erase(k)
  /\ UNCHANGED <<worker, sweep, alive>>

clear_all(w) ==
  /\ worker[w] = Idle
  /\ table' = [k \in Key |-> NoEntry]
  /\ UNCHANGED <<worker, sweep, alive>>

-----------------------------------------------------------------------------
(* get, alone and as the first half of CounterStore::increment: is_expired *)
(* looks the key up, and then get looks it up again.                       *)

Call(w, k, op, delta) ==
  /\ worker[w] = Idle
  /\ Goto(w, [pc |-> "check", key |-> k, op |-> op, delta |-> delta])
  /\ UNCHANGED <<table, sweep, alive>>

\* get returns v: to the client, or to increment, which ends the process when
\* std::stoll throws.
Got(w, v) ==
  LET f == worker[w]
  IN  \/ /\ f.op = "get"
         /\ Goto(w, [pc |-> "reply", key |-> f.key, value |-> v])
         /\ UNCHANGED alive
      \/ /\ f.op = "incr" /\ v # Text
         /\ Goto(w, [pc |-> "write", key |-> f.key, delta |-> f.delta,
                     next |-> Wrap(parse_value(v) + f.delta)])
         /\ UNCHANGED alive
      \/ /\ f.op = "incr" /\ v = Text
         /\ alive' = FALSE
         /\ UNCHANGED worker

\* On to the second lookup
Second(f) == [pc |-> "find", key |-> f.key, op |-> f.op, delta |-> f.delta]

\* Fault: is_expired always answers false.
is_expiredNever(w) ==
  /\ worker[w].pc = "check"
  /\ Goto(w, Second(worker[w]))
  /\ UNCHANGED <<table, sweep, alive>>

is_expired(w) ==
  /\ worker[w].pc = "check"
  /\ \/ Expired(worker[w].key) /\ Got(w, Nil)
     \/ /\ ~Expired(worker[w].key)
        /\ Goto(w, Second(worker[w]))
        /\ UNCHANGED alive
  /\ UNCHANGED <<table, sweep>>

get(w) ==
  LET found == table[worker[w].key]
  IN  /\ worker[w].pc = "find"
      /\ Got(w, IF found = NoEntry THEN Nil ELSE found.value)
      /\ UNCHANGED <<table, sweep>>

\* the handler formats the value and the session sends it
Reply(w) ==
  /\ worker[w].pc = "reply"
  /\ Goto(w, Idle)
  /\ UNCHANGED <<table, sweep, alive>>

\* the second half of increment: set, which takes the TTL away
increment(w) ==
  /\ worker[w].pc = "write"
  /\ insert(worker[w].key, worker[w].next, Never)
  /\ Goto(w, Idle)
  /\ UNCHANGED <<sweep, alive>>

-----------------------------------------------------------------------------
(* set_ttl: look up, read the clock, put the copied entry back.            *)

set_ttl(w, k, ttl) ==
  /\ worker[w] = Idle
  /\ table[k] # NoEntry
  /\ Goto(w, [pc |-> "clock", key |-> k, value |-> table[k].value, ttl |-> ttl])
  /\ UNCHANGED <<table, sweep, alive>>

ReadClock(w) ==
  /\ worker[w].pc = "clock"
  /\ Goto(w, [pc |-> "put", key |-> worker[w].key, value |-> worker[w].value,
              left |-> worker[w].ttl])
  /\ UNCHANGED <<table, sweep, alive>>

PutBack(w) ==
  /\ worker[w].pc = "put"
  /\ insert(worker[w].key, worker[w].value, worker[w].left)
  /\ Goto(w, Idle)
  /\ UNCHANGED <<sweep, alive>>

-----------------------------------------------------------------------------
(* The scheduler's loop around purge_expired.  removed counts the entries  *)
(* its erase calls really took out.                                        *)

SweepBegins ==
  /\ sweep.pc = "asleep"
  /\ sweep' = [pc |-> "collect", before |-> entry_count]
  /\ UNCHANGED <<table, worker, alive>>

\* Fault: every entry with an expires_at is collected.
CollectEarly ==
  /\ sweep.pc = "collect"
  /\ sweep' = [pc |-> "erase", before |-> sweep.before, removed |-> 0,
               expired |-> {k \in Key : table[k] # NoEntry /\ table[k].left # Never}]
  /\ UNCHANGED <<table, worker, alive>>

\* Fault: the comparison with expires_at is never true.
CollectNothing ==
  /\ sweep.pc = "collect"
  /\ sweep' = [pc |-> "erase", before |-> sweep.before, removed |-> 0,
               expired |-> {}]
  /\ UNCHANGED <<table, worker, alive>>

Collect ==
  /\ sweep.pc = "collect"
  /\ sweep' = [pc |-> "erase", before |-> sweep.before, removed |-> 0,
               expired |-> {k \in Key : Expired(k)}]
  /\ UNCHANGED <<table, worker, alive>>

SweepErases ==
  /\ sweep.pc = "erase"
  /\ \E k \in sweep.expired :
       /\ erase(k)
       /\ sweep' = [pc |-> "erase", before |-> sweep.before, expired |-> sweep.expired \ {k},
                    removed |-> sweep.removed + IF table[k] # NoEntry THEN 1 ELSE 0]
  /\ UNCHANGED <<worker, alive>>

\* before - after, a subtraction of std::size_t
Logged == (sweep.before - entry_count) % (SizeMax + 1)

\* The second count; a line is logged when the two differ.
SweepLogs ==
  /\ sweep.pc = "erase" /\ sweep.expired = {}
  /\ sweep' = Asleep
  /\ UNCHANGED <<table, worker, alive>>

-----------------------------------------------------------------------------
Less(l) == IF l = Never \/ l = 0 THEN l ELSE l - 1

\* A second passes, for the stored entries and for the one set_ttl has stamped
\* and not yet put back.
Tick ==
  /\ table' = [k \in Key |-> IF table[k] = NoEntry THEN NoEntry
                             ELSE [value |-> table[k].value, left |-> Less(table[k].left)]]
  /\ worker' = [w \in Worker |-> IF worker[w].pc # "put" THEN worker[w]
                                 ELSE [pc |-> "put", key |-> worker[w].key,
                                       value |-> worker[w].value, left |-> Less(worker[w].left)]]
  /\ UNCHANGED <<sweep, alive>>

-----------------------------------------------------------------------------
Reading(w) == worker[w].pc \in {"check", "find"}

\* The value of k that an EXPIRE is putting back, which may have expired since
\* it was stamped.
PuttingBack(k) ==
  {worker[w].value : w \in {u \in Worker : /\ worker[u].pc = "put"
                                           /\ worker[u].key = k
                                           /\ worker'[u] = Idle}}

\* Inside get or increment
Following(w) == Reading(w) \/ worker[w].pc = "write"

\* The two history variables: answers collects the live values of the key that
\* a worker's get or increment works on, and what is put back under it.
Observe ==
  /\ answers' = [w \in Worker |->
       IF Following(w)'
       THEN (IF Following(w) THEN answers[w] ELSE {})
              \cup {LiveValue(worker[w].key)'} \cup PuttingBack(worker'[w].key)
       ELSE {}]
  /\ overdue' = IF sweep'.pc = "asleep" THEN {}
                ELSE overdue \cup {k \in Key : Expired(k)'}

OneCall(w) == \E k \in Key :
  \/ \E v \in SetArgs : set(w, k, v)
  \/ remove(w, k)
  \/ clear_all(w)

Begin(w) == \E k \in Key :
  \/ Call(w, k, "get", 0)
  \/ \E d \in Deltas : Call(w, k, "incr", d)
  \/ \E t \in Ttls : set_ttl(w, k, t)

Proceed(w) == \/ is_expired(w) \/ get(w) \/ Reply(w) \/ increment(w)
              \/ ReadClock(w) \/ PutBack(w)

Sweep == SweepBegins \/ Collect \/ SweepErases \/ SweepLogs

SweepStep == alive /\ Sweep /\ Observe

WorkerStep(w) == alive /\ Proceed(w) /\ Observe

ClientStep(w) == alive /\ (OneCall(w) \/ Begin(w)) /\ Observe

TimeStep == alive /\ Tick /\ Observe

Next == \/ \E w \in Worker : ClientStep(w) \/ WorkerStep(w)
        \/ SweepStep
        \/ TimeStep

\* The sweep's thread runs for ever, and so does a worker inside a command.
Spec == /\ Init /\ [][Next]_vars
        /\ WF_vars(SweepStep)
        /\ \A w \in Worker : WF_vars(WorkerStep(w))

-----------------------------------------------------------------------------
\* get is linearizable, whatever the clock, the sweep and other clients do in
\* between its two lookups: its answer, and the number increment adds to, was
\* the live value of the key at some moment of the call.  The one exception is
\* an entry that set_ttl inserts between the two lookups: it can be expired
\* already, and get returns it all the same.
GetAnswerWasTrue ==
  [][\A w \in Worker : Reading(w) =>
       /\ worker'[w].pc = "reply" => worker'[w].value \in answers[w]
       /\ worker'[w].pc = "write" =>
            \E a \in answers[w] \ {Text} :
              worker'[w].next = Wrap(parse_value(a) + worker[w].delta)]_vars

\* INCR, DECR and INCRBY count: when the key's live value was the same all through
\* the call, whatever expired, was swept or was given a TTL meanwhile, the value
\* stored is that number plus the delta, wrapped at the end of long long.  An
\* increment is lost only to a write between its own read and write.
IncrementCounts ==
  [][\A w \in Worker, v \in Number \cup {Nil} :
       worker[w].pc = "write" /\ worker'[w] = Idle /\ answers[w] = {v} =>
         \E n \in Number :
           /\ table'[worker[w].key] = [value |-> n, left |-> Never]
           /\ (n - (IF v = Nil THEN 0 ELSE v) - worker[w].delta) % (2 * (IntMax + 1)) = 0]_vars

\* purge_expired takes nothing away that was not expired at some moment since
\* the sweep began, whatever the clients store meanwhile.
SweepTakesOverdue ==
  [][\A k \in Key : table[k] # NoEntry /\ table'[k] = NoEntry /\ sweep' # sweep
       => k \in overdue]_vars

\* A TTL that has run out is acted on: an expired entry is removed or replaced.
\* Nothing but the sweep does it when no client touches the key again.
ExpiredLeaves ==
  \A k \in Key : Expired(k) ~> (~Expired(k) \/ ~alive)

\* "ttl sweep removed N keys" (ttl/scheduler.cpp): N is the number of keys the
\* sweep removed.  N is the difference of two counts, which clients change too.
SweepCountIsTrue ==
  [][SweepLogs /\ sweep.before # entry_count => Logged = sweep.removed]_vars
=============================================================================
