------------------------------ MODULE Commands ------------------------------
(***************************************************************************)
(* A session seen from its client: lines are parsed, dispatched and        *)
(* answered, and the client takes the replies apart again                  *)
(* (protocol/*.cpp, config/runtime_config.cpp, storage/batch_ops.cpp,      *)
(* server/command_handler.cpp, ClientSession::write_line).                 *)
(*                                                                         *)
(* Text is a sequence of pieces: a token that is a number or not, a blank, *)
(* the end of a line, or the head of a reply.  A piece counts as one byte. *)
(* The handlers run alone here (StorageEngine has their interleavings);    *)
(* between two lines keys expire and are swept.                            *)
(***************************************************************************)
EXTENDS Integers, Sequences, SequencesExt, FiniteSets

CONSTANTS Key,          \* tokens used as keys
          environment,  \* the environment variables that are set, and their texts
          arguments,    \* main's arguments, a piece each
          Lines,        \* what the client sends
          IntMax,       \* the largest long long
          Capacity,     \* pieces the socket holds for a client that does not read
          MaxOwed       \* bound: replies the client has not read

Token(s) == <<"token", s>>

Number(n) == <<"number", n>>

Blank == <<"blank">>

NewLine == <<"newline">>

-----------------------------------------------------------------------------
(* The configuration main gives to DatabaseServer                          *)

IsNumber(p) == p[1] = "number"

\* std::stoll and std::atoi read a number at the start and ignore what follows it.
StartsWithNumber(text) == text # << >> /\ IsNumber(Head(text))

Settings == <<Token("host"), Token("port"), Token("max_clients"), Token("data_dir"),
              Token("snapshot_interval_sec"), Token("requirepass")>>

Setting == Range(Settings)

ServerConfig ==
  [s \in Setting |-> CASE s = Token("host") -> <<Token("127.0.0.1")>>
                       [] s = Token("port") -> <<Number(6379)>>
                       [] s = Token("max_clients") -> <<Number(1024)>>
                       [] s = Token("data_dir") -> <<Token("./data")>>
                       [] s = Token("snapshot_interval_sec") -> <<Number(300)>>
                       [] s = Token("requirepass") -> << >>]

Numeric == {Token("port"), Token("max_clients"), Token("snapshot_interval_sec")}

\* std::atoi and the cast, printed again: 0 when it is no number, and a port is what is
\* left in 16 bits
Cast(s, text) ==
  LET n == IF StartsWithNumber(text) THEN Head(text)[2] ELSE 0
  IN  IF s \notin Numeric THEN text
      ELSE <<Number(IF s = Token("port") THEN n % 65536 ELSE n)>>

\* A text that is set but empty counts as unset; a number that is empty counts as 0.
load_config_from_env ==
  [s \in Setting |-> IF s \in DOMAIN environment /\ (environment[s] # << >> \/ s \in Numeric)
                     THEN Cast(s, environment[s]) ELSE ServerConfig[s]]

\* main's loop: an option without a value, and any other word, is skipped (--health and
\* --help end the process before there is a server).
Options == (Token("--host") :> Token("host")) @@ (Token("--port") :> Token("port"))
             @@ (Token("--data-dir") :> Token("data_dir"))
             @@ (Token("--max-clients") :> Token("max_clients"))

RECURSIVE ParseArguments(_, _)
ParseArguments(cfg, i) ==
  LET arg == arguments[i]
  IN  IF i > Len(arguments) THEN cfg
      ELSE IF arg \in DOMAIN Options /\ i < Len(arguments)
      THEN ParseArguments([cfg EXCEPT ![Options[arg]] = Cast(Options[arg], <<arguments[i + 1]>>)],
                          i + 2)
      ELSE ParseArguments(cfg, i + 1)

defaults_ == ParseArguments(load_config_from_env, 1)

password_ == defaults_[Token("requirepass")]

VARIABLES storage_,   \* the entries
          runtime_,   \* RuntimeConfig: the override of every setting, or its default
          channels,   \* the channels with a subscriber
          out,        \* pieces in the socket
          owed,       \* the replies written and not yet read
          inStep,     \* each of them is in the socket, framed as a client expects
          open,       \* ClientSession::alive_
          alive       \* no handler has thrown

data == <<storage_, runtime_, channels>>

vars == <<data, out, owed, inStep, open, alive>>

Absent == [text |-> << >>, ttl |-> "absent"]

Init ==
  /\ storage_ = [k \in Key |-> Absent]
  /\ runtime_ = defaults_
  /\ channels = {}
  /\ out = << >> /\ owed = << >>
  /\ inStep = TRUE /\ open = TRUE /\ alive = TRUE

-----------------------------------------------------------------------------
(* parse_line                                                              *)

\* trim, and the words between blanks
tokenize(line) == SelectSeq(line, LAMBDA p : p # Blank)

\* std::toupper for the spellings in use
upper(name) == CASE name = "get" -> "GET" [] name = "Del" -> "DEL" [] OTHER -> name

command_type_from_name(name) ==
  LET key == upper(name)
  IN  CASE key \in {"DEL", "DELETE"} -> "DELETE"
        [] key \in {"PING", "GET", "SET", "EXISTS", "EXPIRE", "SUBSCRIBE", "PUBLISH",
                    "INFO", "MGET", "MSET", "INCR", "DECR", "INCRBY", "SCAN", "AUTH",
                    "CONFIG", "FLUSHDB", "DBSIZE", "BGREWRITEAOF"} -> key
        [] OTHER -> "Unknown"

-----------------------------------------------------------------------------
(* The replies                                                             *)

Status == <<<<"+">>>>

err_response == <<<<"-">>>>

integer_response(n) == <<<<":", n>>>>

bulk_string_response(text) == <<<<"$", Len(text)>>, NewLine>> \o text

null_bulk_response == <<<<"$", -1>>>>

\* The array head, and the items with a line end each.
ArrayOf(items) ==
  <<<<"*", Len(items)>>, NewLine>>
    \o FlattenSeq([i \in 1 .. Len(items) |-> Append(items[i], NewLine)])

\* "+INFO voltdbx" and five lines of metrics
render_info == FlattenSeq([i \in 1 .. 6 |-> <<IF i = 1 THEN <<"+">> ELSE Token("metric"),
                                             NewLine>>])

-----------------------------------------------------------------------------
(* What a handler does: the reply and the data after it, or an exception   *)

Reply(r) == [throws |-> FALSE, reply |-> r, storage |-> storage_,
             runtime |-> runtime_, channels |-> channels]

Store(r, s) == [Reply(r) EXCEPT !.storage = s]

Throw == [Reply(<< >>) EXCEPT !.throws = TRUE]

Wrap(n) == IF n > IntMax THEN n - 2 * (IntMax + 1)
           ELSE IF n < -IntMax - 1 THEN n + 2 * (IntMax + 1)
           ELSE n

Present == {k \in Key : storage_[k] # Absent}

Live(k) == storage_[k].ttl \in {"never", "later"}

Entry(text) == [text |-> text, ttl |-> "never"]

\* The arguments from the second on, joined with one blank each.
Joined(a) == [i \in 1 .. 2 * Len(a) - 3 |-> IF i % 2 = 1 THEN a[(i + 3) \div 2] ELSE Blank]

BulkOrNull(k) == IF Live(k) THEN bulk_string_response(storage_[k].text)
                            ELSE null_bulk_response

Get(a) == IF Len(a) # 1 THEN Reply(err_response) ELSE Reply(BulkOrNull(a[1]))

Set(a) == IF Len(a) < 2 THEN Reply(err_response)
          ELSE Store(Status, [storage_ EXCEPT ![a[1]] = Entry(Joined(a))])

Delete(a) == IF Len(a) # 1 THEN Reply(err_response)
             ELSE Store(integer_response(IF a[1] \in Present THEN 1 ELSE 0),
                        [storage_ EXCEPT ![a[1]] = Absent])

Exists(a) == IF a = << >> THEN Reply(err_response)
             ELSE Reply(integer_response(Len(SelectSeq(a, LAMBDA k : k \in Present))))

\* set_ttl, which does not ask whether the entry has expired
Expire(a) ==
  IF Len(a) # 2 THEN Reply(err_response)
  ELSE IF ~IsNumber(a[2]) THEN Throw
  ELSE IF a[1] \notin Present THEN Reply(integer_response(0))
  ELSE Store(integer_response(1),
             [storage_ EXCEPT ![a[1]].ttl = IF a[2][2] > 0 THEN "later" ELSE "over"])

Mget(a) == IF a = << >> THEN Reply(err_response)
           ELSE Reply(ArrayOf([i \in 1 .. Len(a) |-> BulkOrNull(a[i])]))

\* mset stores one pair after the other: the last value of a key stays.
MsetPairs(a) ==
  LET at(k) == {i \in 1 .. Len(a) : i % 2 = 1 /\ a[i] = k}
  IN  [k \in Key |-> IF at(k) = {} THEN storage_[k] ELSE Entry(<<a[Max(at(k)) + 1]>>)]

\* Fault: the pairs are stored before the arguments are counted.
MsetThenCheck(a) ==
  LET pairs == SubSeq(a, 1, Len(a) - (Len(a) % 2))
  IN  Store(IF Len(a) < 2 \/ Len(a) % 2 # 0 THEN err_response ELSE Status, MsetPairs(pairs))

Mset(a) == IF Len(a) < 2 \/ Len(a) % 2 # 0 THEN Reply(err_response)
           ELSE Store(Status, MsetPairs(a))

increment(k, delta) ==
  LET text == storage_[k].text
      parsed == Live(k) /\ text # << >>
      next == Wrap((IF parsed THEN Head(text)[2] ELSE 0) + delta)
  IN  IF parsed /\ ~StartsWithNumber(text) THEN Throw
      ELSE Store(integer_response(next), [storage_ EXCEPT ![k] = Entry(<<Number(next)>>)])

IncrDecr(a, delta) == IF Len(a) # 1 THEN Reply(err_response) ELSE increment(a[1], delta)

Incrby(a) == IF Len(a) # 2 THEN Reply(err_response)
             ELSE IF ~IsNumber(a[2]) THEN Throw
             ELSE increment(a[1], a[2][2])

\* broker_.publish counts the subscribers; every session subscribes as number 1.
Publish(a) == IF Len(a) < 2 THEN Reply(err_response)
              ELSE Reply(integer_response(IF a[1] \in channels THEN 1 ELSE 0))

Subscribe(a) == IF Len(a) # 1 THEN Reply(err_response)
                ELSE [Reply(Status) EXCEPT !.channels = channels \cup {a[1]}]

authenticate(password) == password_ = << >> \/ <<password>> = password_

Auth(a) == IF Len(a) # 1 THEN Reply(err_response)
           ELSE Reply(IF authenticate(a[1]) THEN Status ELSE err_response)

\* A line "name=value" for every setting
dump == FlattenSeq([i \in 1 .. Len(Settings) |->
                      <<Settings[i]>> \o runtime_[Settings[i]] \o <<NewLine>>])

Config(a) ==
  CASE a = << >> -> Reply(bulk_string_response(dump))
    [] Len(a) = 2 /\ a[1] = Token("GET") /\ a[2] \in Setting ->
         Reply(bulk_string_response(runtime_[a[2]]))
    [] Len(a) = 3 /\ a[1] = Token("SET") /\ a[2] \in Setting ->
         [Reply(Status) EXCEPT !.runtime[a[2]] = <<a[3]>>]
    [] OTHER -> Reply(err_response)

\* The options of SCAN from the i-th argument on; one that lacks its value is skipped.
RECURSIVE ScanOptions(_, _, _)
ScanOptions(a, i, o) ==
  CASE i > Len(a) -> o
    [] i < Len(a) /\ a[i] = Token("COUNT") -> ScanOptions(a, i + 2, [o EXCEPT !.count = a[i + 1]])
    [] i < Len(a) /\ a[i] = Token("MATCH") -> ScanOptions(a, i + 2, [o EXCEPT !.match = a[i + 1]])
    [] OTHER -> ScanOptions(a, i + 1, o)

\* A page is some of the keys that match, as KeyScanner shows; its cursor is one piece.
Scan(a) ==
  LET o == ScanOptions(a, 2, [count |-> Number(10), match |-> Token("*")])
      matching == {k \in Present : o.match \in {Token("*"), k}}
      page(keys) == LET s == SetToSeq(keys)
                        bulks == [i \in 1 .. Len(s) |-> bulk_string_response(<<s[i]>>)]
                    IN  ArrayOf(<<bulk_string_response(<<Number(0)>>), Front(ArrayOf(bulks))>>)
  IN  IF a = << >> THEN {Reply(err_response)}
      ELSE IF ~IsNumber(a[1]) \/ ~IsNumber(o.count) THEN {Throw}
      ELSE {Reply(page(keys)) : keys \in {m \in SUBSET matching : Cardinality(m) <= o.count[2]}}

\* dispatch: the outcomes of a command; Bgrewriteaof may fail on its files.
dispatch(type, a) ==
  CASE type = "PING" -> {Reply(Status)}
    [] type = "INFO" -> {Reply(render_info)}
    [] type = "GET" -> {Get(a)}
    [] type = "SET" -> {Set(a)}
    [] type = "DELETE" -> {Delete(a)}
    [] type = "EXISTS" -> {Exists(a)}
    [] type = "EXPIRE" -> {Expire(a)}
    [] type = "SUBSCRIBE" -> {Subscribe(a)}
    [] type = "PUBLISH" -> {Publish(a)}
    [] type = "MGET" -> {Mget(a)}
    [] type = "MSET" -> {Mset(a)}
    [] type = "INCR" -> {IncrDecr(a, 1)}
    [] type = "DECR" -> {IncrDecr(a, -1)}
    [] type = "INCRBY" -> {Incrby(a)}
    [] type = "SCAN" -> Scan(a)
    [] type = "AUTH" -> {Auth(a)}
    [] type = "CONFIG" -> {Config(a)}
    [] type = "FLUSHDB" -> {Store(Status, [k \in Key |-> Absent])}
    [] type = "DBSIZE" -> {Reply(integer_response(Cardinality(Present)))}
    [] type = "BGREWRITEAOF" -> {Reply(Status), Reply(err_response)}
    [] OTHER -> {Reply(err_response)}

\* A turn of handle_session: a line of blanks only is no command.
Outcomes(line) ==
  LET tokens == tokenize(line)
  IN  IF tokens = << >> THEN {Reply(err_response)}
      ELSE dispatch(command_type_from_name(Head(tokens)[2]), Tail(tokens))

-----------------------------------------------------------------------------
(* The session                                                             *)

\* Fault: a line end after every reply.
AlwaysTerminated(payload) == Append(payload, NewLine)

\* write_line ends a reply that does not end its last line.
Terminated(payload) ==
  IF payload = << >> \/ Last(payload) # NewLine THEN Append(payload, NewLine) ELSE payload

\* Replies no client can take apart by their heads: INFO's further lines, and a bulk
\* string that ends in a line end of its own or is empty, which gets no other.
Unframed(payload) ==
  \/ payload = render_info
  \/ Head(payload)[1] = "$" /\ Last(payload) = NewLine

\* One ::write.  What does not fit is cut off and forgotten, or the socket refuses all.
\* A stream that is out of step is followed no further.
write_line(payload) ==
  LET line == Terminated(payload)
      room == Capacity - Len(out)
      lost == inStep' = FALSE /\ out' = << >> /\ owed' = << >> /\ UNCHANGED open
  IN  \/ /\ Len(line) <= room /\ ~Unframed(payload)
         /\ out' = out \o line /\ owed' = Append(owed, payload)
         /\ UNCHANGED <<inStep, open>>
      \/ Len(line) <= room /\ Unframed(payload) /\ lost
      \/ Len(line) > room /\ room > 0 /\ lost
      \/ Len(line) > room /\ open' = FALSE /\ UNCHANGED <<out, owed, inStep>>

Serve(line) ==
  /\ alive /\ open /\ inStep
  /\ Len(owed) < MaxOwed
  /\ \E r \in Outcomes(line) :
       IF r.throws
       THEN alive' = FALSE /\ UNCHANGED <<data, out, owed, inStep, open>>
       ELSE /\ storage_' = r.storage
            /\ runtime_' = r.runtime
            /\ channels' = r.channels
            /\ write_line(r.reply)
            /\ UNCHANGED alive

\* Where the reply at the i-th piece ends, as a client finds it from the heads; 0 if
\* a line end it counts on is missing.
RECURSIVE End(_, _), EndOf(_, _, _)
End(s, i) ==
  LET head == s[i]
      after(n) == IF n <= Len(s) /\ s[n] = NewLine THEN n + 1 ELSE 0
  IN  CASE i > Len(s) -> 0
        [] head[1] = "*" -> EndOf(s, after(i + 1), head[2])
        [] head[1] = "$" /\ head[2] >= 0 ->
             IF after(i + 1) = 0 THEN 0 ELSE after(i + 2 + head[2])
        [] head[1] \in {"+", "-", ":", "$"} -> after(i + 1)
        [] OTHER -> 0

EndOf(s, i, n) == IF n = 0 \/ i = 0 THEN i ELSE EndOf(s, End(s, i), n - 1)

\* External: a client reads one reply.
Read ==
  /\ inStep /\ owed # << >> /\ End(out, 1) # 0
  /\ out' = SubSeq(out, End(out, 1), Len(out))
  /\ owed' = Tail(owed)
  /\ UNCHANGED <<data, inStep, open, alive>>

\* External: a client whose connection is of no more use opens another.
Reconnect ==
  /\ alive /\ (~inStep \/ ~open)
  /\ out' = << >> /\ owed' = << >>
  /\ inStep' = TRUE /\ open' = TRUE
  /\ UNCHANGED <<data, alive>>

\* External: time passes for a key.
Lapse(k) ==
  /\ alive /\ storage_[k].ttl = "later"
  /\ storage_' = [storage_ EXCEPT ![k].ttl = "over"]
  /\ UNCHANGED <<runtime_, channels, out, owed, inStep, open, alive>>

purge_expired ==
  /\ alive /\ \E k \in Key : storage_[k].ttl = "over"
  /\ storage_' = [k \in Key |-> IF storage_[k].ttl = "over" THEN Absent ELSE storage_[k]]
  /\ UNCHANGED <<runtime_, channels, out, owed, inStep, open, alive>>

Next ==
  \/ \E line \in Lines : Serve(line)
  \/ Read
  \/ Reconnect
  \/ \E k \in Key : Lapse(k)
  \/ purge_expired

Spec == Init /\ [][Next]_vars

-----------------------------------------------------------------------------
(* The entries as text in the files, and read back                         *)

\* What std::getline makes of a file whose last line is ended.
RECURSIVE GetLines(_)
GetLines(file) ==
  LET n == SelectInSeq(file, LAMBDA p : p = NewLine)
  IN  IF n = 0 THEN << >>
      ELSE <<SubSeq(file, 1, n - 1)>> \o GetLines(SubSeq(file, n + 1, Len(file)))

\* SnapshotWriter::write, for the keys in the order dump_entries has them
write(keys) ==
  <<Token("VOLTDBX_SNAPSHOT_V1"), NewLine, Number(Len(keys)), NewLine>>
    \o FlattenSeq([i \in 1 .. Len(keys) |->
                     <<keys[i], NewLine>> \o storage_[keys[i]].text \o <<NewLine>>])

\* The texts that SnapshotLoader::load_into sets
load_into(file) ==
  LET lines == GetLines(file)
      at(k) == {i \in 1 .. lines[2][1][2] : lines[2 * i + 1] = <<k>>}
  IN  [k \in Key |-> IF lines[1] = <<Token("VOLTDBX_SNAPSHOT_V1")>> /\ at(k) # {}
                     THEN lines[2 * Max(at(k)) + 2] ELSE << >>]

append_set(k, text) == <<Token("SET"), Blank, k, Blank>> \o text \o <<NewLine>>

append_del(k) == <<Token("DEL"), Blank, k, NewLine>>

rewrite_from(keys) ==
  <<Token("AOFREWRITE_V1"), NewLine>>
    \o FlattenSeq([i \in 1 .. Len(keys) |-> append_set(keys[i], storage_[keys[i]].text)])

\* Fault: the key ends at the last blank of the line.
ReplayLastBlank(texts, line) ==
  LET space == Max({i \in 1 .. Len(line) : line[i] = Blank} \cup {0})
      key == SubSeq(line, 3, space - 1)
  IN  CASE line[1] = Token("SET") /\ space > 2 ->
             [k \in Key |-> IF key = <<k>> THEN SubSeq(line, space + 1, Len(line)) ELSE texts[k]]
        [] line[1] = Token("DEL") -> [k \in Key |-> IF line[3] = k THEN << >> ELSE texts[k]]
        [] OTHER -> texts

\* A line of AofLog::replay: the key ends at the first blank after "SET ".
ReplayLine(texts, line) ==
  LET blanks == {i \in 3 .. Len(line) : line[i] = Blank}
      key == SubSeq(line, 3, Min(blanks) - 1)
  IN  CASE line[1] = Token("SET") /\ blanks # {} ->
             [k \in Key |-> IF key = <<k>> THEN SubSeq(line, Min(blanks) + 1, Len(line))
                                           ELSE texts[k]]
        [] line[1] = Token("DEL") -> [k \in Key |-> IF line[3] = k THEN << >> ELSE texts[k]]
        [] OTHER -> texts

replay(file) == FoldLeft(ReplayLine, [k \in Key |-> << >>], GetLines(file))

-----------------------------------------------------------------------------
(* Properties                                                              *)

\* A client that takes the stream apart by the heads of the replies finds at its front
\* the reply to the oldest line it has not got one for, whole and no more: what
\* write_line and the handlers add or leave out of line ends does not bring the stream
\* out of step, for any order of commands and any reading speed, as long as no reply
\* was cut off and none of the three replies without a frame was asked for.
RepliesInStep ==
  inStep /\ owed # << >> =>
    LET reply == SubSeq(out, 1, End(out, 1) - 1)
    IN  reply = Terminated(Head(owed))

\* A command that is answered with an error, and one whose handler throws, has stored,
\* removed, configured and subscribed nothing.
ErrorsChangeNothing ==
  [][~alive' \/ (Len(owed') > Len(owed) /\ Last(owed') = err_response) => UNCHANGED data]_vars

\* The entries come back with their texts, blanks included, from a snapshot and from a
\* rewritten log to which a DEL was appended, whatever the commands that made the texts
\* and in whatever order the table lists the keys.
StoredRoundTrips ==
  \A keys \in SetToSeqs(Present) :
    LET texts == [k \in Key |-> storage_[k].text]
    IN  /\ load_into(write(keys)) = texts
        /\ \A k \in Key : replay(rewrite_from(keys) \o append_del(k)) = [texts EXCEPT ![k] = << >>]

=============================================================================
