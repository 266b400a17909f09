----------------------------- MODULE KeyScanner -----------------------------
(***************************************************************************)
(* A client's SCAN loop over a table that other clients change between its *)
(* calls (storage/key_scanner.cpp, protocol/scan_handler.cpp).             *)
(*                                                                         *)
(* The loop starts with the cursor token "0", sends every token back that  *)
(* it is given and ends when it is given "0" again.  A token is the        *)
(* sequence of the numbers in it: <<0>> for "0", <<b, c>> for "b:c".  Keys *)
(* and patterns are sequences of characters.  Each call of SCAN runs when  *)
(* no insert is inside its rehash.                                         *)
(***************************************************************************)
EXTENDS HashTable

CONSTANTS Counts,    \* the COUNT arguments of the client
          Patterns   \* the MATCH arguments, with stars at their ends only

ASSUME ScanAssumption == Counts \subseteq Nat

ASSUME TextAssumption ==
  /\ Key \subseteq Seq(STRING)
  /\ \A p \in Patterns : /\ p \in Seq(STRING)
                        /\ p \notin {<< >>, <<"*", "*">>}
                        /\ \A j \in 2 .. (Len(p) - 1) : p[j] # "*"

VARIABLES token,     \* the client's cursor token
          scanning,  \* the loop is running
          pattern,   \* its MATCH argument
          seen,      \* how often each key was returned: 0, 1, or 2 for more
          stable,    \* the keys stored all the time since the loop began
          quiet,     \* no node was added or removed since the loop began
          excused    \* something happened after which a key may be missed

client == <<token, scanning, pattern, seen, stable, quiet, excused>>

scanVars == <<vars, client>>

-----------------------------------------------------------------------------
(* One call.  Cursors and positions are pairs <<bucket, chain index>>,     *)
(* counted from 0 as in the code.                                          *)

decode_scan_cursor(t) == IF Len(t) = 1 THEN <<t[1], 0>> ELSE t

encode_scan_cursor(c) == IF c = <<0, 0>> THEN <<0>> ELSE c

AtOrAfter(p, q) == p[1] > q[1] \/ (p[1] = q[1] /\ p[2] >= q[2])

\* for_each_bucket over all buckets: the positions of the table's nodes
Positions == UNION {{<<b - 1, i - 1>> : i \in 1 .. Len(buckets_[b])} :
                      b \in 1 .. Len(buckets_)}

KeyAt(p) == buckets_[p[1] + 1][p[2] + 1].key

\* key.compare(at, s.size(), s) == 0
compare(key, at, s) ==
  at + Len(s) <= Len(key) /\ SubSeq(key, at + 1, at + Len(s)) = s

\* Fault: the needle between two stars is one character short.
MatchesShort(key, p) ==
  LET n == Len(p)
  IN  IF p \in {<< >>, <<"*">>} THEN TRUE
      ELSE IF p[1] = "*" /\ p[n] = "*" /\ n > 2
      THEN \E at \in 0 .. Len(key) : compare(key, at, SubSeq(p, 2, n - 2))
      ELSE IF p[1] = "*" THEN n - 1 <= Len(key) /\ compare(key, Len(key) - (n - 1), Tail(p))
      ELSE IF p[n] = "*" THEN compare(key, 0, SubSeq(p, 1, n - 1))
      ELSE key = p

\* Any key, a key with this inside, at its end, at its start, or this key
matches(key, p) ==
  LET n == Len(p)
  IN  IF p \in {<< >>, <<"*">>} THEN TRUE
      ELSE IF p[1] = "*" /\ p[n] = "*" /\ n > 2
      THEN \E at \in 0 .. Len(key) : compare(key, at, SubSeq(p, 2, n - 1))
      ELSE IF p[1] = "*" THEN n - 1 <= Len(key) /\ compare(key, Len(key) - (n - 1), Tail(p))
      ELSE IF p[n] = "*" THEN compare(key, 0, SubSeq(p, 1, n - 1))
      ELSE key = p

\* The keys for which matches answers true
Matching == [p \in Patterns |-> {k \in Key : matches(k, p)}]

\* The nodes the loop of scan could still return.
Ahead(cursor) == {p \in Positions : AtOrAfter(p, cursor) /\ KeyAt(p) \in Matching[pattern]}

\* Fault: the cursor skips the rest of the bucket.
BehindBucket(p) == <<p[1] + 1, 0>>

\* chain = index + 1
Behind(p) == <<p[1], p[2] + 1>>

\* Fault: next.bucket > buckets.
PastTable(next) == next[1] > Len(buckets_)

\* next.bucket >= buckets
AtEnd(next) == next[1] >= Len(buckets_)

\* The page: the first count of them, in table order, and the position behind
\* the last one; or all that are left, and the end of the table.
scan(cursor, count) ==
  LET ahead == Ahead(cursor)
      Rank(p) == Cardinality({q \in ahead : AtOrAfter(p, q)})
      full == Cardinality(ahead) >= count
      next == IF count = 0 THEN cursor
              ELSE IF full THEN Behind(CHOOSE p \in ahead : Rank(p) = count)
              ELSE <<Len(buckets_), 0>>
  IN  [keys     |-> {KeyAt(p) : p \in {q \in ahead : Rank(q) <= count}},
       next     |-> next,
       finished |-> count = 0 \/ AtEnd(next)]

\* What a glob means: a star stands for any characters.  The first j characters
\* of the pattern account for the first cut[j] of the key.
Glob(key, p) ==
  \E cut \in [0 .. Len(p) -> 0 .. Len(key)] :
    /\ cut[0] = 0 /\ cut[Len(p)] = Len(key)
    /\ \A j \in 1 .. Len(p) : IF p[j] = "*" THEN cut[j] >= cut[j - 1]
                              ELSE cut[j] = cut[j - 1] + 1 /\ key[cut[j]] = p[j]

Meant == [p \in Patterns |-> {k \in Key : Glob(k, p)}]

-----------------------------------------------------------------------------
ScanInit ==
  /\ Init
  /\ token = <<0>>
  /\ scanning = FALSE
  /\ pattern = << >>
  /\ seen = [k \in Key |-> 0]
  /\ stable = {}
  /\ quiet = TRUE
  /\ excused = FALSE

StartScan ==
  /\ ~scanning
  /\ old = << >>
  /\ scanning' = TRUE
  /\ token' = <<0>>
  /\ pattern' \in Patterns
  /\ seen' = [k \in Key |-> 0]
  /\ stable' = KeysOf(buckets_)
  /\ quiet' = TRUE
  /\ excused' = FALSE
  /\ UNCHANGED vars

\* handle_scan, and the client's reaction to the reply.
handle_scan(count) ==
  LET page == scan(decode_scan_cursor(token), count)
  IN  /\ scanning
      /\ old = << >>
      /\ token' = IF page.finished THEN <<0>> ELSE encode_scan_cursor(page.next)
      /\ scanning' = (token' # <<0>>)
      /\ seen' = [k \in Key |-> IF k \in page.keys /\ seen[k] < 2
                                THEN seen[k] + 1 ELSE seen[k]]
      /\ excused' = (excused \/ count = 0)
      /\ UNCHANGED <<vars, pattern, stable, quiet>>

\* The other clients.  A node taken out in front of the cursor, in the bucket
\* where it stands, moves the next one under it; a rehash reorders the chain
\* the cursor stands in.
OtherInsert ==
  \E k \in Key, e \in Entry :
    \/ InsertExisting(k, e) /\ UNCHANGED client
    \/ /\ InsertNew(k, e)
       /\ quiet' = FALSE
       /\ excused' = (\/ excused
                      \/ old' # << >> /\ decode_scan_cursor(token)[2] > 0)
       /\ UNCHANGED <<token, scanning, pattern, seen, stable>>

OtherErase ==
  \E k \in Key :
    /\ Erase(k)
    /\ quiet' = FALSE
    /\ stable' = stable \ {k}
    /\ LET b == Slot(buckets_, k)
           c == decode_scan_cursor(token)
       IN  excused' = (\/ excused
                       \/ b = c[1] + 1 /\ FirstAt(buckets_[b], k) <= c[2])
    /\ UNCHANGED <<token, scanning, pattern, seen>>

OtherClear ==
  /\ Clear
  /\ quiet' = FALSE
  /\ stable' = {}
  /\ UNCHANGED <<token, scanning, pattern, seen, excused>>

OtherRehash == Rehash /\ UNCHANGED client

ScanStep == \E count \in Counts : handle_scan(count)

ScanNext == \/ StartScan \/ ScanStep
            \/ OtherInsert \/ OtherErase \/ OtherClear \/ OtherRehash

\* The scanning client keeps calling, not only with COUNT 0, and an insert that
\* has begun its rehash goes on with it.
ScanSpec == /\ ScanInit /\ [][ScanNext]_scanVars
            /\ WF_scanVars(\E count \in Counts \ {0} : handle_scan(count))
            /\ WF_scanVars(OtherRehash)

-----------------------------------------------------------------------------
\* A key that matches and is stored from the first call of SCAN to the last is
\* returned, however much the other clients insert, overwrite and erase in
\* between, and even when the table is rehashed under the cursor; the only
\* exceptions are an erase in front of the cursor in its own bucket, a rehash
\* while the cursor stands inside a chain, and a call with COUNT 0, which
\* key_scanner.cpp answers with the final cursor.
ScanComplete ==
  ~scanning /\ ~excused =>
    \A k \in stable : k \in Matching[pattern] => seen[k] > 0

\* On a table whose nodes nobody adds or removes, a finished loop has returned
\* every key that the pattern stands for exactly once and no other: pages neither
\* overlap nor leave a gap at a bucket boundary, and the string comparisons of
\* matches agree with the meaning of a glob.
QuietScanExact ==
  ~scanning /\ quiet /\ ~excused =>
    \A k \in Key : seen[k] = IF k \in stable /\ k \in Meant[pattern] THEN 1 ELSE 0

\* Every loop ends: no traffic of other clients keeps the cursor away from the
\* end of the table for ever.
ScanEnds == scanning ~> ~scanning
=============================================================================
