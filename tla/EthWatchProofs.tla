--------------------------- MODULE EthWatchProofs ---------------------------
(***************************************************************************)
(* The invariants of EthWatch, for every number of blocks, operations and  *)
(* upgrades, and for every limit of the provider.                          *)
(***************************************************************************)
EXTENDS EthWatch, SequenceTheorems, NatSetLemmas

Log == [number : Nat, block : Nat]

\* The number of the first log of a topic.
First(topic) == IF topic = "op" THEN 0 ELSE 1

\* s is the list of the logs of a topic in the blocks 1..h: numbered without gaps,
\* block after block.
Listed(s, topic, h) ==
    /\ s \in Seq(Log)
    /\ \A i \in 1..Len(s) : s[i].number = i - 1 + First(topic) /\ s[i].block \in 1..h
    /\ \A i, j \in 1..Len(s) : i <= j => s[i].block <= s[j].block

-----------------------------------------------------------------------------
(* The inductive invariant.                                                *)

\* L1: the logs of each topic are numbered in the order of their blocks.
L1OK ==
    /\ head \in 0..MaxBlocks
    /\ l1 \in [Topics -> Seq(Log)]
    /\ \A t \in Topics : Listed(l1[t], t, head)
    /\ Len(l1["op"]) <= MaxOps /\ Len(l1["upgrade"]) <= MaxUpgrades

\* Postgres: the operations are the first ones of L1, and the versions some of L1's.
StoredOK ==
    /\ ops \in Seq(Nat) /\ Len(ops) <= Len(l1["op"])
    /\ \A i \in 1..Len(ops) : l1["op"][i].block = ops[i]
    /\ versions \subseteq 0..Len(l1["upgrade"]) /\ 0 \in versions

\* Within an iteration the logs at work are those of the blocks from the last
\* processed one to to_block, also if L1 has grown meanwhile.
WorkOK ==
    /\ pc \in {"idle", "ops", "calls", "upgrades"}
    /\ cursor \in 0..head
    /\ pc # "idle" => /\ events.to \in cursor..head
                      /\ events.logs = FilterLogs(cursor, events.to)

\* The next expected id is that of the first operation not in Postgres, but while
\* the first processor is inserting: then the operations inserted are some of the
\* new ones, and these follow those known before.
NextIdOK ==
    /\ nextId \in 0..Len(ops)
    /\ pc # "ops" => nextId = Len(ops)
    /\ nextId < Len(ops) => Len(ops) <= LogsUpTo("op", events.to)
    /\ pc = "ops" => \/ LogsUpTo("op", cursor - 1) <= nextId
                     \/ nextId = Len(ops) /\ LogsUpTo("op", events.to) <= LogsUpTo("op", cursor - 1)

\* The last seen version is the latest of Postgres, but while the second processor
\* is saving new ones.
SeenOK ==
    /\ seen \in versions
    /\ pc # "upgrades" => seen = Latest
    /\ seen # Latest => /\ LogsUpTo("upgrade", cursor - 1) < Latest
                        /\ Latest <= LogsUpTo("upgrade", events.to)

IInv == L1OK /\ StoredOK /\ WorkOK /\ NextIdOK /\ SeenOK

\* No operation of a processed block is missing, and once the first processor is
\* done none of the blocks up to to_block.
ReachOK ==
    /\ LogsUpTo("op", cursor) <= Len(ops)
    /\ pc \in {"calls", "upgrades"} => LogsUpTo("op", events.to) <= Len(ops)

\* The blocks scanned when no operation is known begin before the first operation:
\* that operation is found before it is PRIORITY_EXPIRATION blocks old.
FirstOpInReach ==
    l1["op"] = <<>> \/ ops # <<>> \/ head - l1["op"][1].block < PRIORITY_EXPIRATION

-----------------------------------------------------------------------------
(* Lists of logs.                                                          *)

\* How many logs of a list the blocks up to b have.
CountTo(s, b) == Cardinality({i \in 1..Len(s) : s[i].block <= b})

\* The logs of the blocks up to b are the first ones of a list.
LEMMA CountToFacts ==
    ASSUME NEW s, NEW t, NEW h \in Nat, Listed(s, t, h), NEW b \in Int
    PROVE  /\ Len(s) \in Nat /\ CountTo(s, b) \in 0..Len(s)
           /\ \A i \in 1..Len(s) : i <= CountTo(s, b) <=> s[i].block <= b
<1> DEFINE S == {i \in 1..Len(s) : s[i].block <= b}
<1>1. s \in Seq(Log) /\ Len(s) \in Nat
  BY DEF Listed
<1>2. \A i \in 1..Len(s) : s[i].block \in Int
  BY <1>1 DEF Listed
<1>3. \A k \in S : 1..k \subseteq S
  <2> TAKE k \in S
  <2> SUFFICES ASSUME NEW i \in 1..k PROVE i \in S
    OBVIOUS
  <2>1. i \in 1..Len(s) /\ k \in 1..Len(s) /\ i <= k
    BY <1>1
  <2>2. s[i].block <= s[k].block
    BY <2>1 DEF Listed
  <2> QED BY <1>2, <2>1, <2>2
<1>4. S \in SUBSET (1..Len(s))
  OBVIOUS
<1>5. Cardinality(S) \in 0..Len(s) /\ S = 1..Cardinality(S)
  <2> HIDE DEF S
  <2> QED BY <1>1, <1>3, <1>4, InitialSegment
<1>6. CountTo(s, b) = Cardinality(S)
  BY DEF CountTo
<1>7. PICK c : c = Cardinality(S)
  OBVIOUS
<1>8. ASSUME NEW i \in 1..Len(s) PROVE i <= c <=> s[i].block <= b
  <2>1. c \in 0..Len(s) /\ S = 1..c
    BY <1>5, <1>7
  <2>2. i <= c <=> i \in S
    <3> HIDE DEF S
    <3> QED BY <1>1, <2>1
  <2> QED BY <2>2
<1> QED BY <1>1, <1>5, <1>6, <1>7, <1>8

\* A later block has no fewer logs up to it.
LEMMA CountToMonotone ==
    ASSUME NEW s, NEW t, NEW h \in Nat, Listed(s, t, h), NEW b \in Int, NEW c \in Int, b <= c
    PROVE  CountTo(s, b) <= CountTo(s, c)
<1>1. PICK m, n : m = CountTo(s, b) /\ n = CountTo(s, c)
  OBVIOUS
<1>2. Len(s) \in Nat /\ m \in 0..Len(s) /\ n \in 0..Len(s)
  BY <1>1, CountToFacts
<1>3. ASSUME m > n PROVE FALSE
  <2>1. m \in 1..Len(s) /\ m <= m /\ ~(m <= n)
    BY <1>2, <1>3
  <2>2. s[m].block <= b /\ ~(s[m].block <= c)
    BY <1>1, <2>1, CountToFacts
  <2>3. s[m].block \in Int
    BY <2>1 DEF Listed
  <2> QED BY <2>2, <2>3
<1> QED BY <1>1, <1>2, <1>3

\* The part of a list from one count to another.
LEMMA Window ==
    ASSUME NEW s \in Seq(Log), NEW lo \in Nat, NEW hi \in 0..Len(s)
    PROVE  /\ SubSeq(s, lo + 1, hi) \in Seq(Log)
           /\ Len(SubSeq(s, lo + 1, hi)) = IF lo <= hi THEN hi - lo ELSE 0
           /\ \A i \in 1..(hi - lo) : SubSeq(s, lo + 1, hi)[i] = s[lo + i]
           /\ SubSeq(s, lo + 1, hi) = <<>> <=> hi <= lo
<1>1. \A i \in (lo + 1)..hi : s[i] \in Log
  OBVIOUS
<1>2. lo + 1 \in Int /\ hi \in Int
  OBVIOUS
<1>3. PICK w : w = SubSeq(s, lo + 1, hi)
  OBVIOUS
<1>4. /\ w \in Seq(Log)
      /\ Len(w) = IF lo + 1 <= hi THEN hi - (lo + 1) + 1 ELSE 0
      /\ \A i \in 1..(hi - (lo + 1) + 1) : w[i] = s[(lo + 1) + i - 1]
  BY <1>1, <1>2, <1>3, SubSeqProperties
<1>5. hi - (lo + 1) + 1 = hi - lo /\ \A i \in 1..(hi - lo) : (lo + 1) + i - 1 = lo + i
  OBVIOUS
<1>6. w = <<>> <=> Len(w) = 0
  BY <1>4
<1>7. Len(w) = IF lo <= hi THEN hi - lo ELSE 0
  BY <1>4
<1>8. Len(w) = 0 <=> hi <= lo
  BY <1>7
<1> QED BY <1>3, <1>4, <1>5, <1>6, <1>7, <1>8

\* Two adjacent parts of a list make one.
LEMMA WindowsJoin ==
    ASSUME NEW s \in Seq(Log), NEW a \in Nat, NEW b \in 0..Len(s), NEW c \in 0..Len(s), a <= b, b <= c
    PROVE  SubSeq(s, a + 1, b) \o SubSeq(s, b + 1, c) = SubSeq(s, a + 1, c)
<1>1. PICK u, v, w : u = SubSeq(s, a + 1, b) /\ v = SubSeq(s, b + 1, c) /\ w = SubSeq(s, a + 1, c)
  OBVIOUS
<1>2. a \in Nat /\ b \in Nat /\ c \in Nat
  OBVIOUS
<1>3. u \in Seq(Log) /\ Len(u) = b - a /\ \A i \in 1..(b - a) : u[i] = s[a + i]
  BY <1>1, <1>2, Window
<1>4. v \in Seq(Log) /\ Len(v) = c - b /\ \A i \in 1..(c - b) : v[i] = s[b + i]
  BY <1>1, <1>2, Window
<1>5. w \in Seq(Log) /\ Len(w) = c - a /\ \A i \in 1..(c - a) : w[i] = s[a + i]
  BY <1>1, <1>2, Window
<1>6. u \o v \in Seq(Log) /\ Len(u \o v) = Len(u) + Len(v)
      /\ \A i \in 1..Len(u) + Len(v) : (u \o v)[i] = IF i <= Len(u) THEN u[i] ELSE v[i - Len(u)]
  BY <1>3, <1>4, ConcatProperties
<1>7. Len(u) + Len(v) = c - a
  BY <1>2, <1>3, <1>4
<1>8. ASSUME NEW i \in 1..(c - a) PROVE (u \o v)[i] = w[i]
  <2>1. CASE i <= b - a
    <3>1. i \in 1..(b - a) /\ i <= Len(u)
      BY <1>2, <1>3, <2>1
    <3> QED BY <1>3, <1>5, <1>6, <1>7, <3>1
  <2>2. CASE ~(i <= b - a)
    <3>1. i - (b - a) \in 1..(c - b) /\ ~(i <= Len(u)) /\ b + (i - (b - a)) = a + i
      BY <1>2, <1>3, <2>2
    <3>2. (u \o v)[i] = v[i - (b - a)]
      BY <1>3, <1>6, <1>7, <3>1
    <3>3. v[i - (b - a)] = s[b + (i - (b - a))]
      BY <1>4, <3>1
    <3> QED BY <1>5, <3>1, <3>2, <3>3
  <2> QED BY <2>1, <2>2
<1>9. u \o v = w
  BY <1>5, <1>6, <1>7, <1>8, SeqEqual
<1> QED BY <1>1, <1>9

\* skip_while, on a part of the numbered list of a topic: the part begins later.
LEMMA SkipWindow ==
    ASSUME NEW t, NEW h \in Nat, NEW s, Listed(s, t, h),
           NEW lo \in Nat, NEW hi \in 0..Len(s), NEW n \in Int
    PROVE  SkipBelow(SubSeq(s, lo + 1, hi), n) =
                SubSeq(s, (IF n - First(t) <= lo THEN lo ELSE n - First(t)) + 1, hi)
<1> DEFINE w == SubSeq(s, lo + 1, hi)
           d == n - First(t)
           S == {i \in 1..Len(w) : \A j \in 1..i : w[j].number < n}
           m == IF d <= lo THEN lo ELSE d
<1>1. s \in Seq(Log) /\ First(t) \in Int /\ d \in Int /\ m \in Nat
  BY DEF Listed, First
<1>2. /\ w \in Seq(Log) /\ Len(w) = IF lo <= hi THEN hi - lo ELSE 0
      /\ \A i \in 1..(hi - lo) : w[i] = s[lo + i]
  BY <1>1, Window
<1>3. PICK k \in Nat : k = Len(w)
  BY <1>2
<1>4. k = (IF lo <= hi THEN hi - lo ELSE 0) /\ k <= Len(s)
  BY <1>1, <1>2, <1>3
<1>5. ASSUME NEW i \in 1..k PROVE w[i] = s[lo + i] /\ (w[i].number < n <=> i <= d - lo)
  <2>1. i \in 1..(hi - lo) /\ lo + i \in 1..Len(s)
    BY <1>1, <1>4
  <2>2. w[i] = s[lo + i] /\ s[lo + i].number = (lo + i) - 1 + First(t)
    BY <1>2, <2>1 DEF Listed
  <2>3. (lo + i) - 1 + First(t) < n <=> i <= d - lo
    BY <1>1, <2>1
  <2> QED BY <2>2, <2>3
<1>6. S = {i \in 1..k : i <= d - lo}
  <2>1. ASSUME NEW i \in 1..k PROVE (\A j \in 1..i : w[j].number < n) <=> i <= d - lo
    <3>1. \A j \in 1..i : j \in 1..k /\ (i <= d - lo => j <= d - lo)
      BY <1>1, <1>3
    <3>2. i \in 1..i
      OBVIOUS
    <3> HIDE DEF w, d
    <3> QED BY <1>5, <3>1, <3>2
  <2> HIDE DEF w, d
  <2> QED BY <1>3, <2>1
<1>7. PICK c \in Nat : c = IF d - lo <= 0 THEN 0 ELSE IF k <= d - lo THEN k ELSE d - lo
  BY <1>1, <1>3
<1>8. S = 1..c
  <2>1. \A i \in 1..k : i <= d - lo <=> i <= c
    <3> HIDE DEF d
    <3> QED BY <1>1, <1>3, <1>7
  <2>2. c <= k
    <3> HIDE DEF d
    <3> QED BY <1>1, <1>3, <1>7
  <2>3. {i \in 1..k : i <= c} = 1..c
    BY <1>3, <1>7, <2>2
  <2> HIDE DEF S, d
  <2> QED BY <1>6, <2>1, <2>3
<1>9. Cardinality(S) = c
  <2>1. Cardinality(1..c) = c
    BY FS_Interval
  <2> HIDE DEF S
  <2> QED BY <1>8, <2>1
<1>10. SkipBelow(w, n) = SubSeq(w, c + 1, k)
  BY <1>3, <1>9 DEF SkipBelow
<1>11. PICK u, v : u = SubSeq(w, c + 1, k) /\ v = SubSeq(s, m + 1, hi)
  OBVIOUS
<1>12. c <= k /\ k \in 0..Len(w)
  BY <1>1, <1>3, <1>7
<1>13. u \in Seq(Log) /\ Len(u) = k - c /\ \A i \in 1..(k - c) : u[i] = w[c + i]
  <2> HIDE DEF w
  <2> QED BY <1>2, <1>11, <1>12, Window
<1>14. v \in Seq(Log) /\ Len(v) = (IF m <= hi THEN hi - m ELSE 0) /\ \A i \in 1..(hi - m) : v[i] = s[m + i]
  <2> HIDE DEF m
  <2>1. s \in Seq(Log) /\ m \in Nat /\ v = SubSeq(s, m + 1, hi)
    BY <1>1, <1>11
  <2> HIDE DEF w, d, S
  <2> QED BY <2>1, Window
<1>15. k - c = IF m <= hi THEN hi - m ELSE 0
  <2> HIDE DEF d
  <2>1. CASE d <= lo
    <3>1. m = lo /\ c = 0
      BY <1>1, <1>7, <2>1
    <3> QED BY <1>4, <3>1
  <2>2. CASE ~(d <= lo)
    <3>1. m = d /\ c = IF k <= d - lo THEN k ELSE d - lo
      BY <1>1, <1>7, <2>2
    <3> HIDE DEF m
    <3>2. CASE k <= d - lo
      BY <1>1, <1>4, <2>2, <3>1, <3>2
    <3>3. CASE ~(k <= d - lo)
      BY <1>1, <1>4, <2>2, <3>1, <3>3
    <3> QED BY <3>2, <3>3
  <2> QED BY <2>1, <2>2
<1>16. ASSUME NEW i \in 1..(k - c) PROVE u[i] = v[i]
  <2>1. i \in 1..(hi - m) /\ c + i \in 1..k
    BY <1>1, <1>3, <1>12, <1>15
  <2>2. lo + (c + i) = m + i
    <3> HIDE DEF d
    <3> QED BY <1>1, <1>3, <1>4, <1>7, <2>1
  <2>3. w[c + i] = s[lo + (c + i)]
    <3> HIDE DEF w
    <3> QED BY <1>5, <2>1
  <2> HIDE DEF w, m
  <2> QED BY <1>13, <1>14, <2>1, <2>2, <2>3
<1>17. u = v
  <2> HIDE DEF w, m
  <2> QED BY <1>13, <1>14, <1>15, <1>16, SeqEqual
<1> HIDE DEF w, m
<1>18. SkipBelow(w, n) = SubSeq(s, m + 1, hi)
  BY <1>10, <1>11, <1>17
<1> QED BY <1>18 DEF w, m

\* The logs of a list after the first lo, up to the hi-th.
Part(s, lo, hi) == SubSeq(s, lo + 1, hi)

\* Its first and its last log.
PartEnds(s, t, lo, hi) ==
    /\ Part(s, lo, hi) = <<>> <=> hi <= lo
    /\ lo < hi => /\ Part(s, lo, hi)[1] = s[lo + 1] /\ Last(Part(s, lo, hi)) = s[hi]
                  /\ s[lo + 1].number = lo + First(t) /\ s[hi].number = hi - 1 + First(t)

\* Window, of a list of numbered logs.
LEMMA PartFacts ==
    ASSUME NEW t, NEW h \in Nat, NEW s, Listed(s, t, h), NEW lo \in Nat, NEW hi \in 0..Len(s)
    PROVE  PartEnds(s, t, lo, hi)
<1>1. s \in Seq(Log) /\ First(t) \in Int /\ Len(s) \in Nat
  BY DEF Listed, First
<1>2. PICK w : w = SubSeq(s, lo + 1, hi)
  OBVIOUS
<1>3. /\ w \in Seq(Log) /\ Len(w) = (IF lo <= hi THEN hi - lo ELSE 0)
      /\ \A i \in 1..(hi - lo) : w[i] = s[lo + i]
  BY SMTT(30), <1>1, <1>2, Window
<1>5. w = <<>> <=> hi <= lo
  BY <1>3
<1>4. ASSUME lo < hi
      PROVE  w[1] = s[lo + 1] /\ Last(w) = s[hi] /\ s[lo + 1].number = lo + First(t) /\ s[hi].number = hi - 1 + First(t)
  <2>1. 1 \in 1..(hi - lo) /\ hi - lo \in 1..(hi - lo) /\ lo + (hi - lo) = hi /\ lo + 1 \in 1..Len(s)
        /\ hi \in 1..Len(s) /\ (lo + 1) - 1 = lo /\ lo <= hi
    BY <1>1, <1>4
  <2>2. w[1] = s[lo + 1] /\ w[hi - lo] = s[hi]
    BY <1>3, <2>1
  <2>3. Last(w) = w[hi - lo]
    BY <1>3, <2>1 DEF Last
  <2>4. s[lo + 1].number = (lo + 1) - 1 + First(t) /\ s[hi].number = hi - 1 + First(t)
    BY <2>1 DEF Listed
  <2> QED BY <2>1, <2>2, <2>3, <2>4
<1> QED BY <1>2, <1>4, <1>5 DEF Part, PartEnds

\* SkipWindow, of such a part.
LEMMA SkipPart ==
    ASSUME NEW t, NEW h \in Nat, NEW s, Listed(s, t, h),
           NEW lo \in Nat, NEW hi \in 0..Len(s), NEW d \in Nat
    PROVE  SkipBelow(Part(s, lo, hi), d + First(t)) = Part(s, IF d <= lo THEN lo ELSE d, hi)
<1>1. PICK n \in Int : n = d + First(t) /\ n - First(t) = d
  BY DEF First
<1>2. SkipBelow(SubSeq(s, lo + 1, hi), n) =
            SubSeq(s, (IF n - First(t) <= lo THEN lo ELSE n - First(t)) + 1, hi)
  BY SkipWindow
<1> QED BY <1>1, <1>2 DEF Part

-----------------------------------------------------------------------------
(* get_events.                                                             *)

\* One level of the recursion of get_events, f standing for the recursive calls.
Mid(r) == (r[1] + r[2]) \div 2

Split(f, r) ==
    IF Size(FilterLogs(r[1], r[2])) <= LogLimit THEN FilterLogs(r[1], r[2])
    ELSE IF r[1] >= Mid(r) THEN TooManyResults
    ELSE Joined(f[<<r[1], Mid(r)>>], f[<<Mid(r) + 1, r[2]>>])

\* The ranges within 0..n whose ends are at most m apart.
Ranges(n, m) == {r \in (0..n) \X (0..n) : r[2] - r[1] <= m}

\* The two halves of a range are shorter than the range.
LEMMA HalvesAreShorter ==
    ASSUME NEW n \in Nat, NEW m \in Int, NEW r \in Ranges(n, m + 1), ~(r[1] >= Mid(r))
    PROVE  <<r[1], Mid(r)>> \in Ranges(n, m) /\ <<Mid(r) + 1, r[2]>> \in Ranges(n, m)
<1>1. PICK x \in 0..n, y \in 0..n : r = <<x, y>> /\ y - x <= m + 1
  BY DEF Ranges
<1>2. PICK c : c = Mid(r)
  OBVIOUS
<1>3. c = (x + y) \div 2 /\ ~(x >= c) /\ r[1] = x /\ r[2] = y
  BY <1>1, <1>2 DEF Mid
<1>4. c \in Int /\ x < c /\ c < y
  BY <1>3
<1>5. c \in 0..n /\ c + 1 \in 0..n /\ c - x <= m /\ y - (c + 1) <= m
  BY <1>1, <1>4
<1>6. <<x, c>> \in Ranges(n, m) /\ <<c + 1, y>> \in Ranges(n, m)
  BY <1>5 DEF Ranges
<1> QED BY <1>2, <1>3, <1>6

\* So a level of the recursion only looks at shorter ranges.
LEMMA SplitLooksAtShorter ==
    ASSUME NEW n \in Nat, NEW m \in Int, NEW r \in Ranges(n, m + 1),
           NEW f, NEW g, \A q \in Ranges(n, m) : f[q] = g[q]
    PROVE  Split(f, r) = Split(g, r)
<1>1. CASE r[1] >= Mid(r)
  BY <1>1 DEF Split
<1>2. CASE ~(r[1] >= Mid(r))
  <2>1. f[<<r[1], Mid(r)>>] = g[<<r[1], Mid(r)>>] /\ f[<<Mid(r) + 1, r[2]>>] = g[<<Mid(r) + 1, r[2]>>]
    BY <1>2, HalvesAreShorter
  <2> QED BY <2>1 DEF Split
<1> QED BY <1>1, <1>2

\* The recursion of get_events ends: there is a function of the ranges within 0..n
\* in which each answer is made from those of the halves.
LEMMA RecursionEnds ==
    ASSUME NEW n \in Nat
    PROVE  \E f : f = [r \in (0..n) \X (0..n) |-> Split(f, r)]
<1> DEFINE Sol(m, f) == f = [r \in Ranges(n, m) |-> Split(f, r)]
           S == {k \in Nat : \E f : Sol(k - n - 1, f)}
<1>1. 0 \in S
  <2>1. Ranges(n, 0 - n - 1) = {}
    BY DEF Ranges
  <2> DEFINE f == [r \in {} |-> r]
  <2>2. f = [r \in Ranges(n, 0 - n - 1) |-> Split(f, r)]
    <3>1. f = [r \in {} |-> Split(f, r)]
      OBVIOUS
    <3> HIDE DEF f
    <3> QED BY <2>1, <3>1
  <2> HIDE DEF f
  <2> QED BY <2>2
<1>2. ASSUME NEW k \in S PROVE k + 1 \in S
  <2>1. PICK m \in Int : m = k - n - 1 /\ m + 1 = (k + 1) - n - 1
    OBVIOUS
  <2>2. PICK f : Sol(m, f)
    <3> HIDE DEF Sol
    <3> QED BY <2>1
  <2> DEFINE g == [r \in Ranges(n, m + 1) |-> Split(f, r)]
  <2>3. Ranges(n, m) \subseteq Ranges(n, m + 1)
    BY DEF Ranges
  <2>4. \A q \in Ranges(n, m) : f[q] = g[q]
    BY <2>2, <2>3
  <2>5. \A r \in Ranges(n, m + 1) : Split(f, r) = Split(g, r)
    <3> HIDE DEF g
    <3> QED BY <2>4, SplitLooksAtShorter
  <2>6. Sol(m + 1, g)
    <3>1. g = [r \in Ranges(n, m + 1) |-> Split(g, r)]
      <4>1. g = [r \in Ranges(n, m + 1) |-> Split(f, r)]
        OBVIOUS
      <4> HIDE DEF g
      <4> QED BY <2>5, <4>1
    <3> HIDE DEF g
    <3> QED BY <3>1
  <2>7. k + 1 \in Nat
    OBVIOUS
  <2> HIDE DEF Sol, g
  <2> QED BY <2>1, <2>6, <2>7
<1>3. S = Nat
  <2>1. S \in SUBSET Nat
    OBVIOUS
  <2> HIDE DEF S
  <2> QED BY <1>1, <1>2, <2>1, NatSetInduction
<1>4. PICK k \in Nat : k - n - 1 = n
  <2>1. n + n + 1 \in Nat /\ (n + n + 1) - n - 1 = n
    OBVIOUS
  <2> QED BY <2>1
<1>5. PICK f : Sol(n, f)
  <2>1. k \in S
    BY <1>3
  <2> HIDE DEF Sol
  <2> QED BY <1>4, <2>1
<1>6. Ranges(n, n) = (0..n) \X (0..n)
  BY DEF Ranges
<1> QED BY <1>5, <1>6

\* What get_events computes.
LEMMA GetEventsUnfold ==
    ASSUME NEW from, NEW upTo \in Nat
    PROVE  \E f : /\ f = [r \in (0..upTo) \X (0..upTo) |-> Split(f, r)]
                  /\ get_events(from, upTo) = f[<<from, upTo>>]
<1> DEFINE F == CHOOSE f : f = [r \in (0..upTo) \X (0..upTo) |-> Split(f, r)]
<1>1. F = [r \in (0..upTo) \X (0..upTo) |-> Split(F, r)]
  BY RecursionEnds
<1>2. get_events(from, upTo) = F[<<from, upTo>>]
  BY DEF get_events, Split, Mid
<1> HIDE DEF F
<1> QED BY <1>1, <1>2

\* The counts of the logs of L1.
LEMMA LogsUpToFacts ==
    ASSUME L1OK, NEW t \in Topics, NEW b \in Int
    PROVE  /\ l1[t] \in Seq(Log) /\ Len(l1[t]) \in Nat
           /\ LogsUpTo(t, b) \in 0..Len(l1[t])
           /\ \A i \in 1..Len(l1[t]) : i <= LogsUpTo(t, b) <=> l1[t][i].block <= b
           /\ \A c \in Int : b <= c => LogsUpTo(t, b) <= LogsUpTo(t, c)
<1>1. head \in Nat /\ Listed(l1[t], t, head) /\ l1[t] \in Seq(Log)
  BY BoundsAreNaturals DEF L1OK
<1>2. \A c : LogsUpTo(t, c) = CountTo(l1[t], c)
  BY DEF LogsUpTo, CountTo
<1>3. /\ Len(l1[t]) \in Nat /\ CountTo(l1[t], b) \in 0..Len(l1[t])
      /\ \A i \in 1..Len(l1[t]) : i <= CountTo(l1[t], b) <=> l1[t][i].block <= b
  BY <1>1, CountToFacts
<1>4. \A c \in Int : b <= c => CountTo(l1[t], b) <= CountTo(l1[t], c)
  BY <1>1, CountToMonotone
<1> QED BY <1>1, <1>2, <1>3, <1>4

\* The logs of two adjacent ranges of blocks, one after the other, are those of both.
LEMMA FilterLogsJoin ==
    ASSUME L1OK, NEW a \in Int, NEW b \in Int, NEW c \in Int, a - 1 <= b, b <= c
    PROVE  [t \in Topics |-> FilterLogs(a, b)[t] \o FilterLogs(b + 1, c)[t]] = FilterLogs(a, c)
<1>1. ASSUME NEW t \in Topics
      PROVE  FilterLogs(a, b)[t] \o FilterLogs(b + 1, c)[t] =
                SubSeq(l1[t], LogsUpTo(t, a - 1) + 1, LogsUpTo(t, c))
  <2>1. PICK x, y, z : x = LogsUpTo(t, a - 1) /\ y = LogsUpTo(t, b) /\ z = LogsUpTo(t, c)
    OBVIOUS
  <2>2. a - 1 \in Int /\ (b + 1) - 1 = b
    OBVIOUS
  <2>3. l1[t] \in Seq(Log) /\ x \in 0..Len(l1[t]) /\ y \in 0..Len(l1[t]) /\ z \in 0..Len(l1[t])
    BY <2>1, <2>2, LogsUpToFacts
  <2>4. x <= y /\ y <= z
    BY <2>1, <2>2, LogsUpToFacts
  <2>5. x \in Nat
    BY <2>3
  <2>6. SubSeq(l1[t], x + 1, y) \o SubSeq(l1[t], y + 1, z) = SubSeq(l1[t], x + 1, z)
    BY <2>3, <2>4, <2>5, WindowsJoin
  <2>7. FilterLogs(a, b)[t] = SubSeq(l1[t], x + 1, y) /\ FilterLogs(b + 1, c)[t] = SubSeq(l1[t], y + 1, z)
    BY <2>1, <2>2 DEF FilterLogs
  <2> QED BY <2>1, <2>6, <2>7
<1>2. FilterLogs(a, c) = [t \in Topics |-> SubSeq(l1[t], LogsUpTo(t, a - 1) + 1, LogsUpTo(t, c))]
  BY DEF FilterLogs
<1> QED BY <1>1, <1>2

\* get_events returns the logs of the range, or the provider's error.
LEMMA GetEventsIsExact ==
    ASSUME L1OK, NEW upTo \in Nat, NEW from \in 0..upTo
    PROVE  get_events(from, upTo) \in {FilterLogs(from, upTo), TooManyResults}
<1>1. PICK f : f = [r \in (0..upTo) \X (0..upTo) |-> Split(f, r)] /\ get_events(from, upTo) = f[<<from, upTo>>]
  BY GetEventsUnfold
<1> DEFINE Exact(r) == r[1] <= r[2] => f[r] \in {FilterLogs(r[1], r[2]), TooManyResults}
           S == {m \in Nat : \A r \in Ranges(upTo, m - 1) : Exact(r)}
<1>2. 0 \in S
  <2>1. \A r \in Ranges(upTo, 0 - 1) : ~(r[1] <= r[2])
    BY DEF Ranges
  <2> QED BY <2>1
<1>3. ASSUME NEW m \in S PROVE m + 1 \in S
  <2>1. PICK k \in Int : k = m - 1 /\ k + 1 = (m + 1) - 1
    OBVIOUS
  <2>2. ASSUME NEW r \in Ranges(upTo, k + 1), r[1] <= r[2]
        PROVE  f[r] \in {FilterLogs(r[1], r[2]), TooManyResults}
    <3>1. r \in (0..upTo) \X (0..upTo) /\ r[1] \in Int /\ r[2] \in Int
      BY DEF Ranges
    <3>2. f[r] = Split(f, r)
      BY <1>1, <3>1
    <3>3. CASE r[1] >= Mid(r)
      BY <3>2, <3>3 DEF Split
    <3>4. CASE ~(r[1] >= Mid(r))
      <4>1. PICK a, b, c : a = r[1] /\ b = Mid(r) /\ c = r[2]
        OBVIOUS
      <4>2. a \in Int /\ b \in Int /\ c \in Int /\ a - 1 <= b /\ b <= c /\ a <= b /\ b + 1 <= c
        BY <2>2, <3>1, <3>4, <4>1 DEF Mid
      <4>3. <<a, b>> \in Ranges(upTo, k) /\ <<b + 1, c>> \in Ranges(upTo, k)
        BY <3>4, <4>1, HalvesAreShorter
      <4>4. Exact(<<a, b>>) /\ Exact(<<b + 1, c>>)
        <5> HIDE DEF Exact
        <5> QED BY <2>1, <4>3
      <4>5. /\ f[<<a, b>>] \in {FilterLogs(a, b), TooManyResults}
            /\ f[<<b + 1, c>>] \in {FilterLogs(b + 1, c), TooManyResults}
        BY <4>2, <4>4
      <4>6. Joined(f[<<a, b>>], f[<<b + 1, c>>]) \in {FilterLogs(a, c), TooManyResults}
        <5>1. PICK u, v : u = f[<<a, b>>] /\ v = f[<<b + 1, c>>]
          OBVIOUS
        <5>2. CASE TooManyResults \in {u, v}
          BY <5>1, <5>2 DEF Joined
        <5>3. CASE TooManyResults \notin {u, v}
          <6>1. u = FilterLogs(a, b) /\ v = FilterLogs(b + 1, c)
            BY <4>5, <5>1, <5>3
          <6>2. Joined(u, v) = [t \in Topics |-> u[t] \o v[t]]
            BY <5>3 DEF Joined
          <6>3. [t \in Topics |-> FilterLogs(a, b)[t] \o FilterLogs(b + 1, c)[t]] = FilterLogs(a, c)
            BY <4>2, FilterLogsJoin
          <6> QED BY <5>1, <6>1, <6>2, <6>3
        <5> QED BY <5>2, <5>3
      <4> QED BY <3>2, <3>4, <4>1, <4>6 DEF Split
    <3> QED BY <3>3, <3>4
  <2>3. \A r \in Ranges(upTo, (m + 1) - 1) : Exact(r)
    BY <2>1, <2>2
  <2> HIDE DEF Exact
  <2> QED BY <2>3
<1>4. S = Nat
  <2>1. S \in SUBSET Nat
    OBVIOUS
  <2> HIDE DEF S
  <2> QED BY <1>2, <1>3, <2>1, NatSetInduction
<1>5. <<from, upTo>> \in Ranges(upTo, (upTo + 1) - 1)
  BY DEF Ranges
<1>6. Exact(<<from, upTo>>)
  <2>1. upTo + 1 \in S
    <3>1. upTo + 1 \in Nat
      OBVIOUS
    <3> HIDE DEF S
    <3> QED BY <1>4, <3>1
  <2> HIDE DEF Exact
  <2> QED BY <1>5, <2>1
<1> QED BY <1>1, <1>6

-----------------------------------------------------------------------------
(* Steps of L1.                                                            *)

\* A list with k logs of block h + 1 more.
Grown(s, t, h, k) == s \o [i \in 1..k |-> NthLog(t, Len(s) + i, h + 1)]

\* e extends s, the list of the blocks up to h, by k logs of the next block.
Extended(s, e, t, h, k) ==
    /\ Listed(e, t, h + 1) /\ Len(e) = Len(s) + k
    /\ \A i \in 1..Len(s) : e[i] = s[i]
    /\ \A b \in Int : b <= h => CountTo(e, b) = CountTo(s, b)

\* The logs of a new block are put at the end of a list; what is counted in the
\* blocks before stays the same.
LEMMA ListGrows ==
    ASSUME NEW t \in Topics, NEW h \in Nat, NEW s, Listed(s, t, h), NEW k \in Nat,
           NEW e, e = Grown(s, t, h, k)
    PROVE  Extended(s, e, t, h, k)
<1> DEFINE new == [i \in 1..k |-> NthLog(t, Len(s) + i, h + 1)]
<1>1. s \in Seq(Log)
  BY DEF Listed
<1>2. PICK n \in Nat : n = Len(s)
  BY <1>1
<1>3. ASSUME NEW i \in 1..k
      PROVE  /\ NthLog(t, n + i, h + 1) \in Log
             /\ NthLog(t, n + i, h + 1).number = (n + i) - 1 + First(t)
             /\ NthLog(t, n + i, h + 1).block = h + 1
  <2>1. t = "op" \/ t # "op"
    OBVIOUS
  <2>2. (n + i) - 1 \in Nat /\ n + i \in Nat /\ h + 1 \in Nat /\ (n + i) - 1 + 1 = n + i
    BY <1>2
  <2> QED BY <2>1, <2>2 DEF NthLog, Op, Upgrade, Log, First
<1>4. new \in Seq(Log) /\ Len(new) = k
  <2>1. new \in [1..k -> Log]
    BY <1>2, <1>3
  <2> HIDE DEF new
  <2> QED BY <2>1
<1>5. /\ e \in Seq(Log) /\ Len(e) = n + k
      /\ \A i \in 1..(n + k) : e[i] = IF i <= n THEN s[i] ELSE new[i - n]
  <2> HIDE DEF new
  <2>1. e = s \o new
    BY DEF new, Grown
  <2>2. /\ s \o new \in Seq(Log) /\ Len(s \o new) = Len(s) + Len(new)
        /\ \A i \in 1..Len(s) + Len(new) : (s \o new)[i] = IF i <= Len(s) THEN s[i] ELSE new[i - Len(s)]
    BY <1>1, <1>4, ConcatProperties
  <2> QED BY <1>2, <1>4, <2>1, <2>2
<1>6. \A i \in 1..n : e[i] = s[i]
  <2>1. \A i \in 1..n : i \in 1..(n + k) /\ i <= n
    OBVIOUS
  <2> HIDE DEF new
  <2> QED BY <1>5, <2>1
<1>7. ASSUME NEW i \in 1..(n + k), i > n
      PROVE  e[i].number = i - 1 + First(t) /\ e[i].block = h + 1
  <2>1. i - n \in 1..k /\ n + (i - n) = i /\ ~(i <= n)
    BY <1>2, <1>7
  <2>2. e[i] = NthLog(t, i, h + 1)
    BY <1>2, <1>5, <2>1
  <2> QED BY <1>3, <2>1, <2>2
<1>8. \A i \in 1..n : s[i].number = i - 1 + First(t) /\ s[i].block \in 1..h
  BY <1>2 DEF Listed
<1>9. \A i \in 1..(n + k) : e[i].number = i - 1 + First(t) /\ e[i].block \in 1..(h + 1)
  <2> TAKE i \in 1..(n + k)
  <2>1. CASE i <= n
    <3>1. i \in 1..n
      BY <1>2, <2>1
    <3> QED BY <1>6, <1>8, <3>1
  <2>2. CASE i > n
    BY <1>7, <2>2
  <2> QED BY <1>2, <2>1, <2>2
<1>10. \A i, j \in 1..(n + k) : i <= j => e[i].block <= e[j].block
  <2> SUFFICES ASSUME NEW i \in 1..(n + k), NEW j \in 1..(n + k), i <= j PROVE e[i].block <= e[j].block
    OBVIOUS
  <2>1. CASE j <= n
    <3>1. i \in 1..n /\ j \in 1..n
      BY <1>2, <2>1
    <3>2. s[i].block <= s[j].block
      BY <1>2, <3>1 DEF Listed
    <3> QED BY <1>6, <3>1, <3>2
  <2>2. CASE j > n
    <3>1. e[j].block = h + 1 /\ e[i].block \in 1..(h + 1)
      BY <1>7, <1>9, <2>2
    <3> QED BY <3>1
  <2> QED BY <1>2, <2>1, <2>2
<1>11. Listed(e, t, h + 1)
  BY <1>5, <1>9, <1>10 DEF Listed
<1>12. ASSUME NEW b \in Int, b <= h PROVE CountTo(e, b) = CountTo(s, b)
  <2>1. PICK m, p : m = CountTo(s, b) /\ p = CountTo(e, b)
    OBVIOUS
  <2>2. m \in 0..n /\ \A i \in 1..n : i <= m <=> s[i].block <= b
    BY <1>2, <2>1, CountToFacts
  <2>3. p \in 0..(n + k) /\ \A i \in 1..(n + k) : i <= p <=> e[i].block <= b
    <3>1. h + 1 \in Nat
      OBVIOUS
    <3>2. p \in 0..Len(e) /\ \A i \in 1..Len(e) : i <= p <=> e[i].block <= b
      BY <1>11, <2>1, <3>1, CountToFacts
    <3> QED BY <1>5, <3>2
  <2>4. p <= n
    <3> SUFFICES ASSUME p > n PROVE FALSE
      BY <1>2, <2>3
    <3>1. p \in 1..(n + k) /\ p <= p
      BY <1>2, <2>3
    <3>2. e[p].block <= b /\ e[p].block = h + 1
      BY <1>7, <2>3, <3>1
    <3> QED BY <1>12, <3>2
  <2>5. \A i \in 1..n : i <= m <=> i <= p
    <3> TAKE i \in 1..n
    <3>1. i \in 1..(n + k) /\ e[i] = s[i]
      BY <1>2, <1>6
    <3> QED BY <2>2, <2>3, <3>1
  <2>6. m = p
    <3>1. m \in Int /\ p \in Int /\ (m > p => m \in 1..n) /\ (p > m => p \in 1..n) /\ m <= m /\ p <= p
      BY <1>2, <2>2, <2>3, <2>4
    <3>2. ~(m > p)
      BY <2>5, <3>1
    <3>3. ~(p > m)
      BY <2>5, <3>1
    <3> QED BY <3>1, <3>2, <3>3
  <2> QED BY <2>1, <2>6
<1> QED BY <1>2, <1>5, <1>6, <1>11, <1>12 DEF Extended

\* A finalized block extends L1, and changes nothing in the blocks before.
LEMMA L1BlockStep ==
    ASSUME L1OK, L1Block
    PROVE  /\ L1OK' /\ head' = head + 1
           /\ \A t \in Topics : Len(l1[t]) <= Len(l1[t])' /\ \A i \in 1..Len(l1[t]) : l1'[t][i] = l1[t][i]
           /\ \A t \in Topics, b \in Int : b <= head => LogsUpTo(t, b)' = LogsUpTo(t, b)
           /\ \A a, b \in Int : a - 1 <= head /\ b <= head => FilterLogs(a, b)' = FilterLogs(a, b)
<1>1. PICK n \in [Topics -> 0..LogLimit] :
        /\ Len(l1["op"]) + n["op"] <= MaxOps
        /\ Len(l1["upgrade"]) + n["upgrade"] <= MaxUpgrades
        /\ l1' = [t \in Topics |->
                    l1[t] \o [i \in 1..n[t] |-> NthLog(t, Len(l1[t]) + i, head + 1)]]
  BY DEF L1Block
<1>2. head \in Nat /\ head < MaxBlocks /\ head' = head + 1 /\ head' \in 0..MaxBlocks /\ head' \in Nat
  BY BoundsAreNaturals DEF L1OK, L1Block
<1>3. ASSUME NEW t \in Topics
      PROVE  /\ Listed(l1'[t], t, head + 1) /\ Len(l1'[t]) = Len(l1[t]) + n[t]
             /\ n[t] \in Nat /\ Len(l1[t]) \in Nat /\ l1[t] \in Seq(Log) /\ l1'[t] \in Seq(Log)
             /\ \A i \in 1..Len(l1[t]) : l1'[t][i] = l1[t][i]
             /\ \A b \in Int : b <= head => CountTo(l1'[t], b) = CountTo(l1[t], b)
  <2>1. Listed(l1[t], t, head) /\ l1[t] \in Seq(Log)
    BY DEF L1OK
  <2>2. n[t] \in Nat
    BY BoundsAreNaturals
  <2>3. PICK k \in Nat : k = n[t]
    BY <2>2
  <2>4. l1'[t] = Grown(l1[t], t, head, k)
    BY <1>1, <2>3 DEF Grown
  <2>5. /\ Listed(l1'[t], t, head + 1) /\ Len(l1'[t]) = Len(l1[t]) + k
        /\ \A i \in 1..Len(l1[t]) : l1'[t][i] = l1[t][i]
        /\ \A b \in Int : b <= head => CountTo(l1'[t], b) = CountTo(l1[t], b)
    <3>1. PICK s, e, h : s = l1[t] /\ e = l1'[t] /\ h = head
      OBVIOUS
    <3>2. Listed(s, t, h) /\ e = Grown(s, t, h, k) /\ h \in Nat
      BY <1>2, <2>1, <2>4, <3>1
    <3>3. Extended(s, e, t, h, k)
      BY <3>2, ListGrows
    <3> QED BY <3>1, <3>3 DEF Extended
  <2>6. l1'[t] \in Seq(Log) /\ Len(l1[t]) \in Nat
    BY <2>1, <2>5 DEF Listed
  <2> QED BY <2>1, <2>2, <2>3, <2>5, <2>6
<1>4. "op" \in Topics /\ "upgrade" \in Topics
  BY DEF Topics
<1>5. L1OK'
  <2>1. l1' \in [Topics -> Seq(Log)]
    <3>1. l1' = [t \in Topics |-> l1'[t]]
      BY <1>1
    <3> QED BY <1>3, <3>1
  <2>2. Len(l1'["op"]) <= MaxOps /\ Len(l1'["upgrade"]) <= MaxUpgrades
    BY <1>1, <1>3, <1>4
  <2> QED BY <1>2, <1>3, <2>1, <2>2 DEF L1OK
<1>6. \A t \in Topics, b \in Int : b <= head => LogsUpTo(t, b)' = LogsUpTo(t, b)
  <2>1. \A t, b : LogsUpTo(t, b) = CountTo(l1[t], b) /\ LogsUpTo(t, b)' = CountTo(l1'[t], b)
    BY DEF LogsUpTo, CountTo
  <2> QED BY <1>3, <2>1
<1>7. ASSUME NEW a \in Int, NEW b \in Int, a - 1 <= head, b <= head
      PROVE  FilterLogs(a, b)' = FilterLogs(a, b)
  <2>1. ASSUME NEW t \in Topics
        PROVE  SubSeq(l1'[t], LogsUpTo(t, a - 1)' + 1, LogsUpTo(t, b)') =
                   SubSeq(l1[t], LogsUpTo(t, a - 1) + 1, LogsUpTo(t, b))
    <3>1. PICK lo, hi : lo = LogsUpTo(t, a - 1) /\ hi = LogsUpTo(t, b)
      OBVIOUS
    <3>2. a - 1 \in Int
      OBVIOUS
    <3>3. LogsUpTo(t, a - 1)' = lo /\ LogsUpTo(t, b)' = hi
      BY <1>6, <1>7, <3>1, <3>2
    <3>4. lo \in Nat /\ hi \in 0..Len(l1[t]) /\ hi \in 0..Len(l1'[t])
      <4>1. lo \in 0..Len(l1[t]) /\ hi \in 0..Len(l1[t])
        BY <3>1, <3>2, LogsUpToFacts
      <4> QED BY <1>3, <4>1
    <3>5. PICK u, v : u = SubSeq(l1[t], lo + 1, hi) /\ v = SubSeq(l1'[t], lo + 1, hi)
      OBVIOUS
    <3>6. u \in Seq(Log) /\ Len(u) = (IF lo <= hi THEN hi - lo ELSE 0) /\ \A i \in 1..(hi - lo) : u[i] = l1[t][lo + i]
      BY <1>3, <3>4, <3>5, Window
    <3>7. v \in Seq(Log) /\ Len(v) = (IF lo <= hi THEN hi - lo ELSE 0) /\ \A i \in 1..(hi - lo) : v[i] = l1'[t][lo + i]
      BY <1>3, <3>4, <3>5, Window
    <3>8. \A i \in 1..(hi - lo) : lo + i \in 1..Len(l1[t])
      BY <1>3, <3>4
    <3>9. \A i \in 1..Len(u) : u[i] = v[i] /\ Len(u) = Len(v)
      <4> TAKE i \in 1..Len(u)
      <4>1. i \in 1..(hi - lo)
        BY <3>4, <3>6
      <4> QED BY <1>3, <3>6, <3>7, <3>8, <4>1
    <3>10. u = v
      BY <3>6, <3>7, <3>9, SeqEqual
    <3> QED BY <3>1, <3>3, <3>5, <3>10
  <2> QED BY <2>1 DEF FilterLogs
<1> QED BY <1>2, <1>3, <1>5, <1>6, <1>7

-----------------------------------------------------------------------------
(* Steps of the watcher.                                                   *)

\* The greatest of some numbers.
LEMMA MaxFacts ==
    ASSUME NEW n \in Nat, NEW V \in SUBSET (0..n), V # {}
    PROVE  Max(V) \in V /\ \A v \in V : v <= Max(V)
<1>1. PICK x \in V : \A y \in V : y <= x
  BY NatMax
<1>2. \A y \in V : x >= y
  BY <1>1
<1>3. Max(V) \in V /\ \A y \in V : Max(V) >= y
  BY <1>2 DEF Max
<1> QED BY <1>3

\* The latest version is one of those stored, and a version of L1.
LEMMA LatestFacts ==
    ASSUME L1OK, StoredOK
    PROVE  /\ Latest \in versions /\ \A v \in versions : v \in Nat /\ v <= Latest
           /\ Latest \in 0..Len(l1["upgrade"]) /\ Len(l1["upgrade"]) \in Nat
<1>1. "upgrade" \in Topics
  BY DEF Topics
<1>2. Len(l1["upgrade"]) \in Nat
  BY <1>1 DEF L1OK
<1>3. versions \in SUBSET (0..Len(l1["upgrade"])) /\ versions # {}
  BY DEF StoredOK
<1>4. Latest \in versions /\ \A v \in versions : v <= Latest
  BY <1>2, <1>3, MaxFacts DEF Latest
<1> QED BY <1>2, <1>3, <1>4

\* While L1 stands still, so do its logs.
LEMMA SameL1 ==
    ASSUME UNCHANGED chainL1
    PROVE  /\ head' = head /\ l1' = l1 /\ (L1OK => L1OK')
           /\ \A t, b : LogsUpTo(t, b)' = LogsUpTo(t, b)
           /\ \A a, b : FilterLogs(a, b)' = FilterLogs(a, b)
<1>1. head' = head /\ l1' = l1
  BY DEF chainL1
<1>2. L1OK => L1OK'
  BY <1>1 DEF L1OK
<1>3. \A t, b : LogsUpTo(t, b)' = LogsUpTo(t, b)
  BY <1>1 DEF LogsUpTo
<1>4. \A a, b : FilterLogs(a, b)' = FilterLogs(a, b)
  BY <1>1, <1>3 DEF FilterLogs
<1> QED BY <1>1, <1>2, <1>3, <1>4

\* What is stored stays right while neither L1 nor Postgres changes.
LEMMA SameStored ==
    ASSUME StoredOK, UNCHANGED <<chainL1, ops, versions>>
    PROVE  StoredOK' /\ Latest' = Latest
BY DEF StoredOK, Latest, chainL1

\* The block to start from is one of L1, and no operation up to it is missing if
\* the first one is in reach.
LEMMA StartBlock ==
    ASSUME L1OK, StoredOK, NEW number \in 0..head
    PROVE  /\ LastProcessedBlock(number) \in 0..head
           /\ FirstOpInReach => LogsUpTo("op", LastProcessedBlock(number)) <= Len(ops)
<1>1. "op" \in Topics /\ head \in Nat /\ PRIORITY_EXPIRATION \in Nat
  BY BoundsAreNaturals DEF Topics, L1OK
<1>2. l1["op"] \in Seq(Log) /\ Len(l1["op"]) \in Nat /\ ops \in Seq(Nat) /\ Len(ops) <= Len(l1["op"])
  BY <1>1 DEF L1OK, StoredOK
<1>3. /\ \A i \in 1..Len(l1["op"]) : l1["op"][i].block \in 1..head
      /\ \A i, j \in 1..Len(l1["op"]) : i <= j => l1["op"][i].block <= l1["op"][j].block
  BY <1>1 DEF L1OK, Listed
<1>4. CASE ops = <<>>
  <2> DEFINE c == Max({0, number - PRIORITY_EXPIRATION})
  <2>1. c \in 0..head /\ (c = 0 \/ c = number - PRIORITY_EXPIRATION)
    <3>1. \E x \in {0, number - PRIORITY_EXPIRATION} : \A y \in {0, number - PRIORITY_EXPIRATION} : x >= y
      BY <1>1
    <3>2. c \in {0, number - PRIORITY_EXPIRATION} /\ \A y \in {0, number - PRIORITY_EXPIRATION} : c >= y
      BY <3>1 DEF Max
    <3> HIDE DEF c
    <3> QED BY <1>1, <3>2
  <2> HIDE DEF c
  <2>2. LastProcessedBlock(number) = c
    BY <1>4 DEF LastProcessedBlock, c
  <2>3. ASSUME FirstOpInReach PROVE LogsUpTo("op", c) <= Len(ops)
    <3>1. PICK k : k = LogsUpTo("op", c)
      OBVIOUS
    <3>2. c \in Int
      BY <1>1, <2>1
    <3>3. k \in 0..Len(l1["op"]) /\ \A i \in 1..Len(l1["op"]) : i <= k <=> l1["op"][i].block <= c
      BY <1>1, <3>1, <3>2, LogsUpToFacts
    <3>4. k = 0
      <4> SUFFICES ASSUME k # 0 PROVE FALSE
        OBVIOUS
      <4>1. 1 \in 1..Len(l1["op"]) /\ 1 <= k
        BY <1>2, <3>3
      <4>2. l1["op"][1].block <= c /\ l1["op"][1].block \in 1..head
        BY <1>3, <3>3, <4>1
      <4>3. l1["op"] # <<>>
        BY <1>2, <4>1
      <4>4. head - l1["op"][1].block < PRIORITY_EXPIRATION
        BY <1>4, <2>3, <4>3 DEF FirstOpInReach
      <4> QED BY <1>1, <2>1, <4>2, <4>4
    <3> QED BY <1>2, <3>1, <3>4
  <2> QED BY <2>1, <2>2, <2>3
<1>5. CASE ops # <<>>
  <2>1. PICK n \in Nat : n = Len(ops)
    BY <1>2
  <2>2. n \in 1..n /\ n \in 1..Len(l1["op"])
    BY <1>2, <1>5, <2>1
  <2>3. PICK c : c = LastProcessedBlock(number)
    OBVIOUS
  <2>4. c = ops[n] - 1
    BY <1>5, <2>1, <2>3 DEF LastProcessedBlock, Last
  <2>5. l1["op"][n].block = ops[n] /\ ops[n] \in 1..head
    BY <1>3, <2>1, <2>2 DEF StoredOK
  <2>6. c \in 0..head
    BY <1>1, <2>4, <2>5
  <2>7. LogsUpTo("op", c) <= n
    <3>1. PICK k : k = LogsUpTo("op", c)
      OBVIOUS
    <3>2. c \in Int
      BY <1>1, <2>6
    <3>3. k \in 0..Len(l1["op"]) /\ \A i \in 1..Len(l1["op"]) : i <= k <=> l1["op"][i].block <= c
      BY <1>1, <3>1, <3>2, LogsUpToFacts
    <3>4. ~(n <= k)
      BY <2>2, <2>4, <2>5, <3>3
    <3> QED BY <1>2, <3>1, <3>3, <3>4
  <2> QED BY <2>1, <2>3, <2>6, <2>7
<1> QED BY <1>4, <1>5

\* Starting, or starting over, restores the invariant.
LEMMA StartStep ==
    ASSUME L1OK, StoredOK, UNCHANGED <<chainL1, ops, versions>>,
           \E number \in 0..head : cursor' = LastProcessedBlock(number),
           pc' = "idle", nextId' = Len(ops), seen' = Latest
    PROVE  IInv' /\ (FirstOpInReach => ReachOK')
<1>1. UNCHANGED chainL1 /\ ops' = ops /\ versions' = versions
  OBVIOUS
<1>2. head' = head /\ l1' = l1 /\ L1OK' /\ \A t, b : LogsUpTo(t, b)' = LogsUpTo(t, b)
  BY <1>1, SameL1
<1>3. StoredOK' /\ Latest' = Latest
  BY SameStored
<1>4. cursor' \in 0..head /\ (FirstOpInReach => LogsUpTo("op", cursor') <= Len(ops))
  BY StartBlock
<1>5. WorkOK'
  BY <1>2, <1>4 DEF WorkOK
<1>6. NextIdOK'
  <2>1. Len(ops) \in Nat
    BY DEF StoredOK
  <2>2. nextId' = Len(ops)' /\ nextId' \in 0..Len(ops)' /\ ~(nextId' < Len(ops)') /\ pc' # "ops"
    BY <1>1, <2>1
  <2> QED BY <2>2 DEF NextIdOK
<1>7. SeenOK'
  <2>1. Latest \in versions
    BY LatestFacts
  <2>2. seen' \in versions' /\ seen' = Latest'
    BY <1>1, <1>3, <2>1
  <2> QED BY <2>2 DEF SeenOK
<1>8. FirstOpInReach => ReachOK'
  BY <1>1, <1>2, <1>4 DEF ReachOK
<1> QED BY <1>2, <1>3, <1>5, <1>6, <1>7, <1>8 DEF IInv

\* EthWatch::new.
LEMMA RestartStep ==
    ASSUME IInv, Restart, UNCHANGED <<chainL1, ops, versions>>
    PROVE  IInv' /\ (FirstOpInReach => ReachOK')
BY StartStep DEF IInv, Restart

\* run, after an error at a point where the processors' ids are up to date.
LEMMA StartOverStep ==
    ASSUME IInv, StartOver, pc \notin {"ops", "upgrades"}
    PROVE  IInv' /\ (FirstOpInReach => ReachOK')
<1>1. nextId' = Len(ops)
  BY DEF IInv, NextIdOK, StartOver
<1>2. seen' = Latest
  BY DEF IInv, SeenOK, StartOver
<1> QED BY <1>1, <1>2, StartStep DEF IInv, StartOver

\* A finalized block disturbs nothing.
LEMMA L1BlockInv ==
    ASSUME IInv, L1Block
    PROVE  IInv' /\ (ReachOK => ReachOK')
<1>1. L1OK /\ StoredOK /\ WorkOK /\ NextIdOK /\ SeenOK
  BY DEF IInv
<1>2. /\ L1OK' /\ head' = head + 1
      /\ \A t \in Topics : Len(l1[t]) <= Len(l1[t])' /\ \A i \in 1..Len(l1[t]) : l1'[t][i] = l1[t][i]
      /\ \A t \in Topics, b \in Int : b <= head => LogsUpTo(t, b)' = LogsUpTo(t, b)
      /\ \A a, b \in Int : a - 1 <= head /\ b <= head => FilterLogs(a, b)' = FilterLogs(a, b)
  BY <1>1, L1BlockStep
<1>3. /\ ops' = ops /\ versions' = versions /\ cursor' = cursor /\ nextId' = nextId
      /\ seen' = seen /\ pc' = pc /\ events' = events
  BY DEF L1Block
<1>4. "op" \in Topics /\ "upgrade" \in Topics
  BY DEF Topics
<1>5. head \in Nat /\ Len(l1["op"]) \in Nat /\ Len(l1["upgrade"]) \in Nat
      /\ Len(l1["op"])' \in Nat /\ Len(l1["upgrade"])' \in Nat
  BY <1>1, <1>2, <1>4, BoundsAreNaturals DEF L1OK
<1>6. cursor \in Int /\ cursor - 1 \in Int /\ cursor <= head /\ cursor - 1 <= head
  BY <1>1, <1>5 DEF WorkOK
<1>7. LogsUpTo("op", cursor)' = LogsUpTo("op", cursor)
      /\ \A t \in Topics : LogsUpTo(t, cursor - 1)' = LogsUpTo(t, cursor - 1)
  BY <1>2, <1>3, <1>4, <1>6
<1>8. ASSUME pc # "idle"
      PROVE  /\ \A t \in Topics : LogsUpTo(t, events.to)' = LogsUpTo(t, events.to)
             /\ events.to \in cursor..head
             /\ FilterLogs(cursor, events.to)' = FilterLogs(cursor, events.to)
  <2>1. events.to \in cursor..head
    BY <1>1, <1>8 DEF WorkOK
  <2>2. events.to \in Int /\ events.to <= head
    BY <1>5, <1>6, <2>1
  <2> QED BY <1>2, <1>3, <1>6, <2>1, <2>2
<1>9. StoredOK' /\ Latest' = Latest
  <2>1. Len(l1["op"]) <= Len(l1["op"])' /\ Len(l1["upgrade"]) <= Len(l1["upgrade"])'
    BY <1>2, <1>4
  <2>2. Len(ops)' = Len(ops) /\ Len(ops) \in Nat /\ Len(ops) <= Len(l1["op"])
    BY <1>1, <1>3 DEF StoredOK
  <2>3. \A i \in 1..Len(ops) : l1'["op"][i].block = ops[i]
    <3> TAKE i \in 1..Len(ops)
    <3>1. i \in 1..Len(l1["op"])
      BY <1>5, <2>2
    <3>2. l1'["op"][i] = l1["op"][i]
      BY <1>2, <1>4, <3>1
    <3> QED BY <1>1, <3>2 DEF StoredOK
  <2>4. versions \subseteq 0..Len(l1["upgrade"])'
    BY <1>1, <1>5, <2>1 DEF StoredOK
  <2>5. Len(ops) <= Len(l1["op"])'
    BY <1>5, <2>1, <2>2
  <2> QED BY <1>1, <1>3, <2>2, <2>3, <2>4, <2>5 DEF StoredOK, Latest
<1>10. WorkOK'
  <2>1. cursor \in 0..head' /\ (pc # "idle" => events.to \in cursor..head')
    BY <1>1, <1>2, <1>5, <1>6, <1>8 DEF WorkOK
  <2> QED BY <1>1, <1>3, <1>8, <2>1 DEF WorkOK
<1>11. NextIdOK'
  <2>1. nextId < Len(ops) => pc = "ops"
    BY <1>1 DEF NextIdOK, StoredOK
  <2> QED BY <1>1, <1>3, <1>4, <1>7, <1>8, <2>1 DEF NextIdOK
<1>12. SeenOK'
  BY <1>1, <1>3, <1>4, <1>7, <1>8, <1>9 DEF SeenOK
<1>13. ReachOK => ReachOK'
  BY <1>3, <1>4, <1>7, <1>8 DEF ReachOK
<1> QED BY <1>2, <1>9, <1>10, <1>11, <1>12, <1>13 DEF IInv

\* The logs at work, by topic.
LEMMA AtWork ==
    ASSUME L1OK, WorkOK, NEW t \in Topics
    PROVE  /\ LogsUpTo(t, cursor - 1) \in Nat /\ LogsUpTo(t, cursor) \in Nat
           /\ LogsUpTo(t, cursor - 1) <= LogsUpTo(t, cursor)
           /\ pc # "idle" => /\ LogsUpTo(t, events.to) \in 0..Len(l1[t])
                             /\ events.logs[t] = Part(l1[t], LogsUpTo(t, cursor - 1), LogsUpTo(t, events.to))
<1>1. cursor \in Int /\ cursor - 1 \in Int /\ cursor - 1 <= cursor /\ head \in Nat
  BY BoundsAreNaturals DEF L1OK, WorkOK
<1>2. LogsUpTo(t, cursor - 1) \in Nat /\ LogsUpTo(t, cursor) \in Nat
      /\ LogsUpTo(t, cursor - 1) <= LogsUpTo(t, cursor)
  <2>1. /\ LogsUpTo(t, cursor - 1) \in 0..Len(l1[t]) /\ LogsUpTo(t, cursor) \in 0..Len(l1[t])
        /\ Len(l1[t]) \in Nat /\ LogsUpTo(t, cursor - 1) <= LogsUpTo(t, cursor)
    BY <1>1, LogsUpToFacts
  <2> QED BY <2>1
<1>3. ASSUME pc # "idle"
      PROVE  /\ LogsUpTo(t, events.to) \in 0..Len(l1[t])
             /\ events.logs[t] = Part(l1[t], LogsUpTo(t, cursor - 1), LogsUpTo(t, events.to))
  <2>1. events.to \in cursor..head /\ events.logs = FilterLogs(cursor, events.to)
    BY <1>3 DEF WorkOK
  <2>2. events.to \in Int
    BY <1>1, <2>1
  <2>3. LogsUpTo(t, events.to) \in 0..Len(l1[t])
    BY <2>2, LogsUpToFacts
  <2> QED BY <2>1, <2>3 DEF FilterLogs, Part
<1> QED BY <1>2, <1>3

\* The new operations of the logs at work, and the ones still to insert.
LEMMA NewOpsFacts ==
    ASSUME L1OK, StoredOK, NextIdOK, NEW lo \in Nat, NEW hi \in 0..Len(l1["op"]), NEW logs,
           logs["op"] = Part(l1["op"], lo, hi)
    PROVE  \E m \in Nat :
             /\ m = (IF nextId <= lo THEN lo ELSE nextId)
             /\ NewOps(logs) = <<>> <=> hi <= m
             /\ m < hi => NewOps(logs)[1].number = m /\ Last(NewOps(logs)).number = hi - 1
             /\ SkipBelow(NewOps(logs), Len(ops)) = Part(l1["op"], IF Len(ops) <= m THEN m ELSE Len(ops), hi)
<1>1. "op" \in Topics /\ head \in Nat /\ nextId \in Nat /\ Len(ops) \in Nat
  BY BoundsAreNaturals DEF Topics, L1OK, StoredOK, NextIdOK
<1>2. PICK s : s = l1["op"]
  OBVIOUS
<1>3. Listed(s, "op", head) /\ hi \in 0..Len(s)
  BY <1>1, <1>2 DEF L1OK
<1>4. First("op") = 0 /\ \A n \in Nat : n + 0 = n
  BY DEF First
<1>5. PICK m \in Nat : m = IF nextId <= lo THEN lo ELSE nextId
  BY <1>1
<1>6. PICK n \in Nat : n = Len(ops)
  BY <1>1
<1>7. NewOps(logs) = Part(s, m, hi)
  <2>1. SkipBelow(Part(s, lo, hi), nextId + First("op")) = Part(s, IF nextId <= lo THEN lo ELSE nextId, hi)
    BY <1>1, <1>3, SkipPart
  <2>2. nextId + First("op") = nextId
    BY <1>1, <1>4
  <2> QED BY <1>2, <1>5, <2>1, <2>2 DEF NewOps
<1>8. SkipBelow(Part(s, m, hi), n) = Part(s, IF n <= m THEN m ELSE n, hi)
  <2>1. SkipBelow(Part(s, m, hi), n + First("op")) = Part(s, IF n <= m THEN m ELSE n, hi)
    BY <1>1, <1>3, SkipPart
  <2>2. n + First("op") = n
    BY <1>4
  <2> QED BY <2>1, <2>2
<1>9. PartEnds(s, "op", m, hi)
  BY <1>1, <1>3, PartFacts
<1>10. m + First("op") = m /\ hi - 1 + First("op") = hi - 1
  BY <1>4
<1>11. /\ NewOps(logs) = <<>> <=> hi <= m
       /\ m < hi => NewOps(logs)[1].number = m /\ Last(NewOps(logs)).number = hi - 1
  BY <1>7, <1>9, <1>10 DEF PartEnds
<1> QED BY <1>2, <1>5, <1>6, <1>7, <1>8, <1>11

\* A poll that passes the assertions begins with the logs of the blocks asked for.
LEMMA PollStep ==
    ASSUME IInv, Poll
    PROVE  IInv' /\ (FirstOpInReach /\ ReachOK => ReachOK')
<1>1. PICK to_block \in 0..head : PollTo(to_block)
  BY DEF Poll
<1>2. L1OK /\ StoredOK /\ WorkOK /\ NextIdOK /\ SeenOK
  BY DEF IInv
<1>3. pc = "idle" /\ to_block > cursor
  BY <1>1 DEF PollTo
<1>4. head \in Nat /\ cursor \in 0..to_block /\ to_block \in Nat /\ to_block \in cursor..head
  BY <1>2, <1>3, BoundsAreNaturals DEF L1OK, WorkOK
<1>5. PICK logs : logs = get_events(cursor, to_block)
  OBVIOUS
<1>6. logs \in {FilterLogs(cursor, to_block), TooManyResults}
  BY <1>2, <1>4, <1>5, GetEventsIsExact
<1>7. CASE logs = TooManyResults
  <2>1. StartOver
    BY <1>1, <1>5, <1>7 DEF PollTo
  <2> QED BY <1>3, <2>1, StartOverStep
<1>8. CASE logs # TooManyResults /\ Gap(logs)
  <2>1. Restart /\ UNCHANGED <<chainL1, ops, versions>>
    BY <1>1, <1>5, <1>8 DEF PollTo
  <2> QED BY <2>1, RestartStep
<1>9. CASE logs # TooManyResults /\ ~Gap(logs)
  <2>1. /\ events' = [logs |-> logs, to |-> to_block] /\ pc' = "ops"
        /\ UNCHANGED <<chainL1, ops, versions, cursor, nextId, seen>>
    BY <1>1, <1>5, <1>9 DEF PollTo
  <2>2. UNCHANGED chainL1 /\ ops' = ops /\ versions' = versions /\ cursor' = cursor
        /\ nextId' = nextId /\ seen' = seen
    BY <2>1
  <2>3. events'.logs = logs /\ events'.to = to_block /\ logs = FilterLogs(cursor, to_block)
    BY <1>6, <1>9, <2>1
  <2>4. /\ head' = head /\ l1' = l1 /\ L1OK'
        /\ \A t, b : LogsUpTo(t, b)' = LogsUpTo(t, b)
        /\ \A a, b : FilterLogs(a, b)' = FilterLogs(a, b)
    BY <1>2, <2>2, SameL1
  <2>5. StoredOK' /\ Latest' = Latest
    BY <1>2, <2>2, SameStored
  <2>6. WorkOK'
    <3>1. events'.logs = FilterLogs(cursor, events.to)'
      BY <2>2, <2>3, <2>4
    <3> QED BY <1>2, <1>4, <2>1, <2>2, <2>3, <2>4, <3>1 DEF WorkOK
  <2>7. NextIdOK'
    <3>1. PICK lo, hi : lo = LogsUpTo("op", cursor - 1) /\ hi = LogsUpTo("op", to_block)
      OBVIOUS
    <3>2. "op" \in Topics /\ cursor - 1 \in Int /\ to_block \in Int
      BY <1>2, <1>4 DEF Topics, WorkOK
    <3>3. lo \in 0..Len(l1["op"]) /\ hi \in 0..Len(l1["op"]) /\ Len(l1["op"]) \in Nat
      BY <1>2, <3>1, <3>2, LogsUpToFacts
    <3>4. lo \in Nat /\ logs["op"] = Part(l1["op"], lo, hi)
      <4>1. lo \in Nat
        BY <3>3
      <4>2. logs["op"] = SubSeq(l1["op"], LogsUpTo("op", cursor - 1) + 1, LogsUpTo("op", to_block))
        BY <2>3, <3>2 DEF FilterLogs
      <4> QED BY <3>1, <4>1, <4>2 DEF Part
    <3>5. PICK m \in Nat :
             /\ m = (IF nextId <= lo THEN lo ELSE nextId)
             /\ NewOps(logs) = <<>> <=> hi <= m
             /\ m < hi => NewOps(logs)[1].number = m
      BY <1>2, <3>3, <3>4, NewOpsFacts
    <3>6. NewOps(logs) = <<>> \/ NewOps(logs)[1].number = nextId
      BY <1>9 DEF Gap
    <3>7. nextId = Len(ops) /\ nextId \in Nat
      BY <1>2, <1>3 DEF NextIdOK, StoredOK
    <3>8. lo <= nextId \/ hi <= lo
      BY <3>3, <3>4, <3>5, <3>6, <3>7
    <3>9. LogsUpTo("op", cursor - 1)' = lo /\ LogsUpTo("op", events.to)' = hi
      BY <2>2, <2>3, <2>4, <3>1
    <3> QED BY <1>2, <2>1, <2>2, <3>7, <3>8, <3>9 DEF NextIdOK
  <2>8. SeenOK'
    BY <1>2, <1>3, <2>1, <2>2, <2>5 DEF SeenOK
  <2>9. ReachOK => ReachOK'
    BY <2>1, <2>2, <2>4 DEF ReachOK
  <2> QED BY <2>4, <2>5, <2>6, <2>7, <2>8, <2>9 DEF IInv
<1> QED BY <1>7, <1>8, <1>9

\* The first processor inserts the operation that follows those in Postgres, until
\* all new ones are there.
LEMMA InsertStep ==
    ASSUME IInv, insert_transaction_l1
    PROVE  IInv' /\ (ReachOK => ReachOK')
<1>1. L1OK /\ StoredOK /\ WorkOK /\ NextIdOK /\ SeenOK
  BY DEF IInv
<1>2. /\ pc = "ops" /\ UNCHANGED chainL1 /\ versions' = versions /\ cursor' = cursor
      /\ seen' = seen /\ events' = events
  BY DEF insert_transaction_l1
<1>3. /\ head' = head /\ l1' = l1 /\ L1OK'
      /\ \A t, b : LogsUpTo(t, b)' = LogsUpTo(t, b)
      /\ \A a, b : FilterLogs(a, b)' = FilterLogs(a, b)
  BY <1>1, <1>2, SameL1
<1>4. PICK lo, hi : lo = LogsUpTo("op", cursor - 1) /\ hi = LogsUpTo("op", events.to)
  OBVIOUS
<1>5. "op" \in Topics /\ ops \in Seq(Nat) /\ Len(ops) \in Nat /\ Len(l1["op"]) \in Nat
  BY <1>1 DEF Topics, StoredOK, L1OK
<1>6. /\ lo \in Nat /\ hi \in 0..Len(l1["op"]) /\ events.logs["op"] = Part(l1["op"], lo, hi)
      /\ LogsUpTo("op", cursor) \in Nat /\ lo <= LogsUpTo("op", cursor)
  BY <1>1, <1>2, <1>4, <1>5, AtWork
<1>7. PICK m \in Nat :
             /\ m = (IF nextId <= lo THEN lo ELSE nextId)
             /\ NewOps(events.logs) = <<>> <=> hi <= m
             /\ m < hi => NewOps(events.logs)[1].number = m /\ Last(NewOps(events.logs)).number = hi - 1
             /\ SkipBelow(NewOps(events.logs), Len(ops)) =
                    Part(l1["op"], IF Len(ops) <= m THEN m ELSE Len(ops), hi)
  BY <1>1, <1>6, NewOpsFacts
<1>8. PICK n \in Nat : n = Len(ops)
  BY <1>5
<1>9. PICK q \in Nat : q = IF n <= m THEN m ELSE n
  OBVIOUS
<1>10. ToInsert = Part(l1["op"], q, hi)
  BY <1>7, <1>8, <1>9 DEF ToInsert
<1>11. Listed(l1["op"], "op", head) /\ head \in Nat
  BY <1>1, <1>5, BoundsAreNaturals DEF L1OK
<1>12. PartEnds(l1["op"], "op", q, hi)
  BY <1>6, <1>11, PartFacts
<1>13. ToInsert = <<>> <=> hi <= q
  BY <1>10, <1>12 DEF PartEnds
<1>14. /\ nextId \in 0..n
       /\ nextId < n => n <= hi
       /\ lo <= nextId \/ (nextId = n /\ hi <= lo)
  BY <1>1, <1>2, <1>4, <1>8 DEF NextIdOK
<1>15. CASE AllInserted
  <2>1. /\ hi <= q /\ pc' = "calls" /\ ops' = ops
        /\ nextId' = IF NewOps(events.logs) = <<>> THEN nextId ELSE Last(NewOps(events.logs)).number + 1
    BY <1>13, <1>15 DEF AllInserted
  <2>2. nextId' = n
    <3>1. CASE hi <= m
      BY <1>6, <1>7, <1>9, <1>14, <2>1, <3>1
    <3>2. CASE m < hi
      <4>1. nextId' = (hi - 1) + 1
        BY <1>6, <1>7, <2>1, <3>2
      <4> QED BY <1>6, <1>7, <1>9, <1>14, <2>1, <3>2, <4>1
    <3> QED BY <1>6, <3>1, <3>2
  <2>3. StoredOK' /\ Latest' = Latest
    BY <1>1, <1>2, <2>1, SameStored
  <2>4. WorkOK'
    BY <1>1, <1>2, <1>3, <2>1 DEF WorkOK
  <2>5. NextIdOK'
    <3>1. Len(ops)' = n /\ nextId' = n /\ pc' = "calls"
      BY <1>8, <2>1, <2>2
    <3> QED BY <3>1 DEF NextIdOK
  <2>6. SeenOK'
    BY <1>1, <1>2, <2>1, <2>3 DEF SeenOK
  <2>7. ReachOK => ReachOK'
    <3> SUFFICES ASSUME ReachOK PROVE ReachOK'
      OBVIOUS
    <3>1. LogsUpTo("op", cursor) <= n
      BY <1>8 DEF ReachOK
    <3>2. hi <= n
      BY <1>6, <1>7, <1>9, <1>14, <2>1, <3>1
    <3>3. LogsUpTo("op", cursor)' = LogsUpTo("op", cursor) /\ LogsUpTo("op", events.to)' = hi
      BY <1>2, <1>3, <1>4
    <3> QED BY <1>8, <2>1, <3>1, <3>2, <3>3 DEF ReachOK
  <2> QED BY <1>3, <2>3, <2>4, <2>5, <2>6, <2>7 DEF IInv
<1>16. CASE ToInsert # <<>> /\ ops' = Append(ops, ToInsert[1].block) /\ UNCHANGED <<nextId, pc>>
  <2>1. q < hi
    BY <1>6, <1>13, <1>16
  <2>2. q = n /\ lo <= nextId
    BY <1>6, <1>7, <1>9, <1>14, <2>1
  <2>3. ToInsert[1] = l1["op"][n + 1]
    BY <1>10, <1>12, <2>1, <2>2 DEF PartEnds
  <2>4. n + 1 \in 1..Len(l1["op"]) /\ n + 1 <= hi
    BY <1>5, <1>6, <2>1, <2>2
  <2>5. PICK b \in Nat : b = l1["op"][n + 1].block
    BY <1>11, <2>4 DEF Listed
  <2>6. ops' = Append(ops, b)
    BY <1>16, <2>3, <2>5
  <2>7. ops' \in Seq(Nat) /\ Len(ops') = n + 1 /\ ops'[n + 1] = b /\ \A i \in 1..n : ops'[i] = ops[i]
    BY <1>5, <1>8, <2>5, <2>6
  <2>8. StoredOK'
    <3>1. \A i \in 1..(n + 1) : l1["op"][i].block = ops'[i]
      <4> TAKE i \in 1..(n + 1)
      <4>1. CASE i = n + 1
        BY <2>5, <2>7, <4>1
      <4>2. CASE i # n + 1
        <5>1. i \in 1..n
          BY <4>2
        <5> QED BY <1>1, <1>8, <2>7, <5>1 DEF StoredOK
      <4> QED BY <4>1, <4>2
    <3>2. n + 1 <= Len(l1["op"])
      BY <2>4
    <3> QED BY <1>1, <1>2, <1>3, <2>7, <3>1, <3>2 DEF StoredOK
  <2>9. Latest' = Latest
    BY <1>2 DEF Latest
  <2>10. WorkOK'
    BY <1>1, <1>2, <1>3, <1>16 DEF WorkOK
  <2>11. NextIdOK'
    <3>1. nextId' \in 0..(n + 1) /\ nextId' = nextId /\ pc' = "ops"
      BY <1>2, <1>14, <1>16
    <3>2. LogsUpTo("op", cursor - 1)' = lo /\ LogsUpTo("op", events.to)' = hi
      BY <1>2, <1>3, <1>4
    <3> QED BY <2>2, <2>4, <2>7, <3>1, <3>2 DEF NextIdOK
  <2>12. SeenOK'
    BY <1>1, <1>2, <1>16, <2>9 DEF SeenOK
  <2>13. ReachOK => ReachOK'
    <3> SUFFICES ASSUME ReachOK PROVE ReachOK'
      OBVIOUS
    <3>1. LogsUpTo("op", cursor)' <= n
      BY <1>2, <1>3, <1>8 DEF ReachOK
    <3>2. LogsUpTo("op", cursor)' <= n + 1 /\ pc' = "ops"
      BY <1>2, <1>3, <1>6, <1>16, <3>1
    <3> QED BY <2>7, <3>2 DEF ReachOK
  <2> QED BY <1>3, <2>8, <2>10, <2>11, <2>12, <2>13 DEF IInv
<1> QED BY <1>15, <1>16 DEF insert_transaction_l1

\* The calls of the second processor are answered.
LEMMA VkHashStep ==
    ASSUME IInv, SchedulerVkHash
    PROVE  IInv' /\ (ReachOK => ReachOK')
<1>1. L1OK /\ StoredOK /\ WorkOK /\ NextIdOK /\ SeenOK
  BY DEF IInv
<1>2. /\ pc = "calls" /\ pc' = "upgrades" /\ UNCHANGED chainL1 /\ ops' = ops /\ versions' = versions
      /\ cursor' = cursor /\ nextId' = nextId /\ seen' = seen /\ events' = events
  BY DEF SchedulerVkHash
<1>3. /\ head' = head /\ l1' = l1 /\ L1OK'
      /\ \A t, b : LogsUpTo(t, b)' = LogsUpTo(t, b)
      /\ \A a, b : FilterLogs(a, b)' = FilterLogs(a, b)
  BY <1>1, <1>2, SameL1
<1>4. StoredOK' /\ Latest' = Latest
  BY <1>1, <1>2, SameStored
<1>5. WorkOK'
  BY <1>1, <1>2, <1>3 DEF WorkOK
<1>6. NextIdOK'
  <2>1. nextId = Len(ops) /\ nextId \in 0..Len(ops) /\ Len(ops) \in Nat
    BY <1>1, <1>2 DEF NextIdOK, StoredOK
  <2>2. nextId' = Len(ops)' /\ nextId' \in 0..Len(ops)' /\ ~(nextId' < Len(ops)') /\ pc' # "ops"
    BY <1>2, <2>1
  <2> QED BY <2>2 DEF NextIdOK
<1>7. SeenOK'
  BY <1>1, <1>2, <1>4 DEF SeenOK
<1>8. ReachOK => ReachOK'
  BY <1>2, <1>3 DEF ReachOK
<1> QED BY <1>3, <1>4, <1>5, <1>6, <1>7, <1>8 DEF IInv

\* The second processor saves the version that follows the latest one seen or in
\* Postgres, until all new ones are there; then the iteration ends.
LEMMA SaveStep ==
    ASSUME IInv, save_protocol_version_with_tx
    PROVE  IInv' /\ (ReachOK => ReachOK')
<1>1. L1OK /\ StoredOK /\ WorkOK /\ NextIdOK /\ SeenOK
  BY DEF IInv
<1>2. pc = "upgrades" /\ UNCHANGED chainL1 /\ ops' = ops /\ nextId' = nextId
  BY DEF save_protocol_version_with_tx
<1>3. /\ head' = head /\ l1' = l1 /\ L1OK'
      /\ \A t, b : LogsUpTo(t, b)' = LogsUpTo(t, b)
      /\ \A a, b : FilterLogs(a, b)' = FilterLogs(a, b)
  BY <1>1, <1>2, SameL1
<1>4. "upgrade" \in Topics /\ First("upgrade") = 1
  BY DEF Topics, First
<1>5. PICK s : s = l1["upgrade"]
  OBVIOUS
<1>6. Listed(s, "upgrade", head) /\ head \in Nat /\ Len(s) \in Nat
  BY <1>1, <1>4, <1>5, BoundsAreNaturals DEF L1OK
<1>7. PICK lo, hi : lo = LogsUpTo("upgrade", cursor - 1) /\ hi = LogsUpTo("upgrade", events.to)
  OBVIOUS
<1>8. lo \in Nat /\ hi \in 0..Len(s) /\ events.logs["upgrade"] = Part(s, lo, hi)
  BY <1>1, <1>2, <1>4, <1>5, <1>7, AtWork
<1>9. PICK last : last = Latest
  OBVIOUS
<1>10. last \in versions /\ last \in Nat /\ last <= Len(s) /\ \A v \in versions : v \in Nat /\ v <= last
  BY <1>1, <1>5, <1>6, <1>9, LatestFacts
<1>11. seen \in versions /\ seen \in Nat /\ seen <= last /\ (seen # last => lo < last /\ last <= hi)
  BY <1>1, <1>7, <1>9, <1>10 DEF SeenOK
<1>12. PICK m \in Nat : m = IF seen <= lo THEN lo ELSE seen
  BY <1>8, <1>11
<1>13. PICK q \in Nat : q = IF last <= m THEN m ELSE last
  BY <1>10
<1> DEFINE new == SkipBelow(events.logs["upgrade"], seen + 1)
           newer == SkipBelow(new, Latest + 1)
<1>14. new = Part(s, m, hi)
  <2>1. SkipBelow(Part(s, lo, hi), seen + First("upgrade")) = Part(s, IF seen <= lo THEN lo ELSE seen, hi)
    BY <1>6, <1>8, <1>11, SkipPart
  <2> QED BY <1>4, <1>8, <1>12, <2>1
<1>15. newer = Part(s, q, hi)
  <2>1. SkipBelow(Part(s, m, hi), last + First("upgrade")) = Part(s, IF last <= m THEN m ELSE last, hi)
    BY <1>6, <1>8, <1>10, SkipPart
  <2> HIDE DEF new
  <2> QED BY <1>4, <1>9, <1>13, <1>14, <2>1
<1>16. PartEnds(s, "upgrade", m, hi) /\ PartEnds(s, "upgrade", q, hi)
  BY <1>6, <1>8, PartFacts
<1>17. \/ /\ newer = <<>>
          /\ seen' = IF new = <<>> THEN seen ELSE Last(new).number
          /\ cursor' = events.to
          /\ pc' = "idle"
          /\ versions' = versions
       \/ /\ newer # <<>>
          /\ versions' = versions \cup {newer[1].number}
          /\ UNCHANGED <<seen, cursor, events, pc>>
  BY DEF save_protocol_version_with_tx
<1> HIDE DEF new, newer
<1>18. /\ (new = <<>> <=> hi <= m) /\ (newer = <<>> <=> hi <= q)
       /\ m < hi => Last(new).number = hi
       /\ q < hi => newer[1].number = q + 1
  <2>1. hi - 1 + First("upgrade") = hi /\ q + First("upgrade") = q + 1
    BY <1>4, <1>8
  <2> QED BY <1>14, <1>15, <1>16, <2>1 DEF PartEnds
<1>19. nextId = Len(ops) /\ nextId \in 0..Len(ops) /\ Len(ops) \in Nat
  BY <1>1, <1>2 DEF NextIdOK, StoredOK
<1>20. CASE newer = <<>>
  <2>1. /\ seen' = (IF new = <<>> THEN seen ELSE Last(new).number)
        /\ cursor' = events.to /\ pc' = "idle" /\ versions' = versions
    BY <1>17, <1>20
  <2>2. hi <= q
    BY <1>18, <1>20
  <2>3. seen' = last
    <3>1. CASE hi <= m
      <4>1. seen' = seen
        BY <1>18, <2>1, <3>1
      <4> QED BY <1>8, <1>10, <1>11, <1>12, <3>1, <4>1
    <3>2. CASE m < hi
      <4>1. seen' = hi
        BY <1>8, <1>18, <2>1, <3>2
      <4> QED BY <1>8, <1>10, <1>11, <1>12, <1>13, <2>2, <3>2, <4>1
    <3> QED BY <1>8, <3>1, <3>2
  <2>4. StoredOK' /\ Latest' = Latest
    BY <1>1, <1>2, <2>1, SameStored
  <2>5. events.to \in 0..head
    <3>1. events.to \in cursor..head /\ cursor \in 0..head
      BY <1>1, <1>2 DEF WorkOK
    <3> QED BY <1>6, <3>1
  <2>6. WorkOK'
    BY <1>3, <2>1, <2>5 DEF WorkOK
  <2>7. NextIdOK'
    <3>1. nextId' = Len(ops)' /\ nextId' \in 0..Len(ops)' /\ ~(nextId' < Len(ops)') /\ pc' # "ops"
      BY <1>2, <1>19, <2>1
    <3> QED BY <3>1 DEF NextIdOK
  <2>8. SeenOK'
    BY <1>9, <1>10, <2>1, <2>3, <2>4 DEF SeenOK
  <2>9. ReachOK => ReachOK'
    <3>1. LogsUpTo("op", cursor)' = LogsUpTo("op", events.to)
      BY <1>3, <2>1
    <3> QED BY <1>2, <2>1, <3>1 DEF ReachOK
  <2> QED BY <1>3, <2>4, <2>6, <2>7, <2>8, <2>9 DEF IInv
<1>21. CASE newer # <<>>
  <2>1. /\ versions' = versions \cup {newer[1].number} /\ seen' = seen /\ cursor' = cursor
        /\ events' = events /\ pc' = pc
    BY <1>17, <1>21
  <2>2. q < hi /\ q + 1 <= hi /\ q + 1 \in 0..Len(s)
    BY <1>6, <1>8, <1>18, <1>21
  <2>3. versions' = versions \cup {q + 1}
    BY <1>18, <2>1, <2>2
  <2>4. versions' \subseteq 0..Len(s) /\ 0 \in versions'
    BY <1>1, <1>5, <2>2, <2>3 DEF StoredOK
  <2>5. StoredOK'
    BY <1>1, <1>2, <1>3, <1>5, <2>4 DEF StoredOK
  <2>6. Latest' = q + 1
    <3>1. versions' # {} /\ versions' \in SUBSET (0..Len(s)) /\ q + 1 \in versions'
      BY <2>3, <2>4
    <3>2. PICK x : x = Max(versions')
      OBVIOUS
    <3>3. x \in versions' /\ q + 1 <= x
      BY <1>6, <3>1, <3>2, MaxFacts
    <3>4. x \in versions => x <= last /\ x \in Nat
      BY <1>10
    <3>5. x = q + 1
      BY <1>10, <1>13, <2>3, <3>3, <3>4
    <3> QED BY <3>2, <3>5 DEF Latest
  <2>7. WorkOK'
    BY <1>1, <1>3, <2>1 DEF WorkOK
  <2>8. NextIdOK'
    <3>1. nextId' = Len(ops)' /\ nextId' \in 0..Len(ops)' /\ ~(nextId' < Len(ops)') /\ pc' # "ops"
      BY <1>2, <1>19, <2>1
    <3> QED BY <3>1 DEF NextIdOK
  <2>9. SeenOK'
    <3>1. LogsUpTo("upgrade", cursor - 1)' = lo /\ LogsUpTo("upgrade", events.to)' = hi
      BY <1>3, <1>7, <2>1
    <3>2. seen' \in versions' /\ pc' = "upgrades"
      BY <1>2, <1>11, <2>1, <2>3
    <3>3. lo < q + 1
      BY <1>8, <1>10, <1>11, <1>12, <1>13
    <3> QED BY <2>2, <2>6, <3>1, <3>2, <3>3 DEF SeenOK
  <2>10. ReachOK => ReachOK'
    BY <1>2, <1>3, <2>1 DEF ReachOK
  <2> QED BY <1>3, <2>5, <2>7, <2>8, <2>9, <2>10 DEF IInv
<1> QED BY <1>20, <1>21

-----------------------------------------------------------------------------
(* The invariant.                                                          *)

\* The first state satisfies it.
LEMMA InitInv ==
    ASSUME Init
    PROVE  IInv /\ ReachOK
<1>1. /\ head = 0 /\ l1 = [t \in Topics |-> <<>>] /\ ops = <<>> /\ versions = {0}
      /\ cursor = 0 /\ nextId = 0 /\ seen = 0 /\ pc = "idle"
  BY DEF Init
<1>2. "op" \in Topics /\ "upgrade" \in Topics
  BY DEF Topics
<1>3. l1["op"] = <<>> /\ l1["upgrade"] = <<>> /\ Len(<<>>) = 0 /\ <<>> \in Seq(Log) /\ <<>> \in Seq(Nat) /\ 1..0 = {}
  BY <1>1, <1>2
<1>4. \A t : Listed(<<>>, t, 0)
  BY <1>3 DEF Listed
<1>5. L1OK
  <2>1. \A t \in Topics : l1[t] = <<>>
    BY <1>1
  <2>2. l1 \in [Topics -> Seq(Log)] /\ \A t \in Topics : Listed(l1[t], t, head)
    BY <1>1, <1>3, <1>4, <2>1
  <2> QED BY <1>1, <1>3, <2>2, BoundsAreNaturals DEF L1OK
<1>6. StoredOK
  BY <1>1, <1>3 DEF StoredOK
<1>7. WorkOK
  BY <1>1 DEF WorkOK
<1>8. NextIdOK
  BY <1>1, <1>3 DEF NextIdOK
<1>9. Latest = 0
  <2>1. Latest \in versions
    BY <1>5, <1>6, LatestFacts
  <2> QED BY <1>1, <2>1
<1>10. SeenOK
  BY <1>1, <1>9 DEF SeenOK
<1>11. ReachOK
  <2>1. LogsUpTo("op", 0) \in 0..Len(l1["op"])
    BY <1>2, <1>5, LogsUpToFacts
  <2> QED BY <1>1, <1>3, <2>1 DEF ReachOK
<1> QED BY <1>5, <1>6, <1>7, <1>8, <1>10, <1>11 DEF IInv

\* Every step preserves it, and keeps every operation in reach if the first one is.
LEMMA NextInv ==
    ASSUME IInv, [Next]_vars
    PROVE  IInv' /\ (FirstOpInReach /\ ReachOK => ReachOK')
<1>1. CASE UNCHANGED vars
  <2>1. /\ UNCHANGED chainL1 /\ UNCHANGED <<chainL1, ops, versions>> /\ ops' = ops /\ versions' = versions
        /\ cursor' = cursor /\ nextId' = nextId /\ seen' = seen /\ pc' = pc /\ events' = events
    BY <1>1 DEF vars, chainL1
  <2>2. L1OK /\ StoredOK /\ WorkOK /\ NextIdOK /\ SeenOK
    BY DEF IInv
  <2>3. /\ head' = head /\ l1' = l1 /\ L1OK'
        /\ \A t, b : LogsUpTo(t, b)' = LogsUpTo(t, b)
        /\ \A a, b : FilterLogs(a, b)' = FilterLogs(a, b)
    BY <2>1, <2>2, SameL1
  <2>4. StoredOK' /\ Latest' = Latest
    BY <2>1, <2>2, SameStored
  <2>5. WorkOK'
    BY <2>1, <2>2, <2>3 DEF WorkOK
  <2>6. NextIdOK' /\ SeenOK'
    BY <2>1, <2>2, <2>3, <2>4 DEF NextIdOK, SeenOK
  <2>7. ReachOK => ReachOK'
    BY <2>1, <2>3 DEF ReachOK
  <2> QED BY <2>3, <2>4, <2>5, <2>6, <2>7 DEF IInv
<1>2. CASE L1Block
  BY <1>2, L1BlockInv
<1>3. CASE Crash
  BY <1>3, RestartStep DEF Crash
<1>4. CASE Poll
  BY <1>4, PollStep
<1>5. CASE PollFails
  BY <1>5, StartOverStep DEF PollFails
<1>6. CASE insert_transaction_l1
  BY <1>6, InsertStep
<1>7. CASE SchedulerVkHash
  BY <1>7, VkHashStep
<1>8. CASE VkHashFails
  BY <1>8, StartOverStep DEF VkHashFails
<1>9. CASE save_protocol_version_with_tx
  BY <1>9, SaveStep
<1> QED BY <1>1, <1>2, <1>3, <1>4, <1>5, <1>6, <1>7, <1>8, <1>9 DEF Next

\* The inductive invariant holds in every behaviour.
THEOREM InvariantHolds == Spec => []IInv
<1>1. Init => IInv
  BY InitInv
<1>2. IInv /\ [Next]_vars => IInv'
  BY NextInv
<1> QED BY <1>1, <1>2, PTL DEF Spec

\* Types and bounds, and the operations in Postgres are the first ones of L1, each
\* with the block of its log (priority_ops.rs process_events, governance_upgrades.rs
\* process_events): whatever fails, and wherever the process stops, an insertion
\* never leaves an operation out.
THEOREM TypeCorrect == Spec => []TypeOK
<1>1. IInv => TypeOK
  <2> SUFFICES ASSUME IInv PROVE TypeOK
    OBVIOUS
  <2>1. L1OK /\ StoredOK /\ WorkOK /\ NextIdOK /\ SeenOK
    BY DEF IInv
  <2>2. "op" \in Topics /\ "upgrade" \in Topics
    BY DEF Topics
  <2>3. head \in 0..MaxBlocks /\ Len(l1["op"]) \in Nat /\ Len(l1["op"]) <= MaxOps
        /\ Len(l1["upgrade"]) \in Nat /\ Len(l1["upgrade"]) <= MaxUpgrades
    BY <2>1, <2>2 DEF L1OK
  <2>4. /\ Len(ops) \in Nat /\ Len(ops) <= Len(l1["op"])
        /\ versions \subseteq 0..Len(l1["upgrade"]) /\ 0 \in versions
        /\ \A i \in 1..Len(ops) : l1["op"][i].block = ops[i]
    BY <2>1 DEF StoredOK
  <2>5. pc \in {"idle", "ops", "calls", "upgrades"} /\ cursor \in 0..head
        /\ nextId \in 0..Len(ops) /\ seen \in versions
    BY <2>1 DEF WorkOK, NextIdOK, SeenOK
  <2>6. \A i \in 1..Len(ops) : i <= Len(l1["op"])
    BY <2>3, <2>4
  <2>7. MaxUpgrades \in Nat /\ MaxBlocks \in Nat /\ MaxOps \in Nat
    BY BoundsAreNaturals
  <2>8. versions \subseteq 0..MaxUpgrades
    <3>1. 0..Len(l1["upgrade"]) \subseteq 0..MaxUpgrades
      BY <2>3, <2>7
    <3> QED BY <2>4, <3>1
  <2>9. head <= MaxBlocks /\ cursor \in 0..MaxBlocks
    BY <2>3, <2>5, <2>7
  <2>10. nextId \in 0..MaxOps
    BY <2>3, <2>4, <2>5, <2>7
  <2> QED BY <2>4, <2>5, <2>6, <2>8, <2>9, <2>10 DEF TypeOK
<1> QED BY <1>1, InvariantHolds, PTL

\* Halving a range that has too many logs yields exactly the logs of the range, in
\* order (client.rs get_events), whatever L1 holds and whatever the limit.
THEOREM HalvingIsExact == Spec => []SplitIsExact
<1>1. IInv => SplitIsExact
  <2> SUFFICES ASSUME IInv, NEW upTo \in 1..head, NEW from \in 0..upTo
               PROVE  get_events(from, upTo) \in {FilterLogs(from, upTo), TooManyResults}
    BY DEF SplitIsExact
  <2>1. L1OK /\ head \in Nat
    BY BoundsAreNaturals DEF IInv, L1OK
  <2>2. upTo \in Nat
    BY <2>1
  <2> QED BY <2>1, <2>2, GetEventsIsExact
<1> QED BY <1>1, InvariantHolds, PTL

\* As long as the first operation is found before it is PRIORITY_EXPIRATION blocks
\* old, no operation is left behind: between two iterations, every operation of the
\* blocks taken for processed is in Postgres, wherever the process stopped before
\* and whatever failed (lib.rs initialize_state, run and loop_iteration).
THEOREM NoOpLeftBehind == Spec /\ []FirstOpInReach => []NoOpBehindCursor
<1>1. Init => ReachOK
  BY InitInv
<1>2. IInv /\ FirstOpInReach /\ ReachOK /\ [Next]_vars => ReachOK'
  BY NextInv
<1>3. IInv /\ ReachOK => NoOpBehindCursor
  <2> SUFFICES ASSUME IInv, ReachOK, NEW i \in 1..Len(l1["op"]), l1["op"][i].block <= cursor
               PROVE  i <= Len(ops)
    BY DEF NoOpBehindCursor
  <2>1. L1OK /\ "op" \in Topics /\ cursor \in Int /\ Len(ops) \in Nat
    BY DEF IInv, WorkOK, StoredOK, Topics
  <2>2. /\ LogsUpTo("op", cursor) \in 0..Len(l1["op"]) /\ i <= LogsUpTo("op", cursor)
        /\ Len(l1["op"]) \in Nat
    BY <2>1, LogsUpToFacts
  <2>3. LogsUpTo("op", cursor) <= Len(ops)
    BY DEF ReachOK
  <2> QED BY <2>1, <2>2, <2>3
<1> QED BY <1>1, <1>2, <1>3, InvariantHolds, PTL DEF Spec
=============================================================================
