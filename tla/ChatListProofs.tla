--------------------------- MODULE ChatListProofs ---------------------------
(* What holds of ChatList for every set of rooms and partners, any number of *)
(* writes and any number of launches.                                        *)
EXTENDS ChatList, FiniteSetTheorems, SequenceTheorems, WellFoundedInduction, TLAPS

(* The server's clock is behind nothing, and a room is written after it was  *)
(* created.                                                                  *)
ServerIsSound ==
  \A r \in Room : created[r] <= now /\ latest[r] <= now

(* The listener reports rooms that exist, in versions that the server had.   *)
SeenIsPast ==
  \A r \in Room : seen[r] <= latest[r] /\ (seen[r] # None => created[r] # None)

(* A fetch is for a version that the listener reported; nothing was fetched  *)
(* before its first snapshot.                                                *)
TasksWereReported ==
  /\ \A t \in tasks : t.latest <= seen[t.room]
  /\ listener = "waiting" => tasks = {} /\ chatRooms = <<>>

(* With Orderly changes a room has one fetch, for its last report, and one   *)
(* row; a fetch of an added room finds none.                                 *)
OneFetchOneRow ==
  Orderly =>
    /\ \A t \in tasks : t.latest = seen[t.room]
    /\ \A t, o \in tasks : t.room = o.room => t = o
    /\ \A i, j \in DOMAIN chatRooms : chatRooms[i].room = chatRooms[j].room => i = j
    /\ \A t \in tasks : t.type = "added" => RowsOf(t.room) = {}

(* What has been fetched is listed as it was last reported.                  *)
FetchedIsListed ==
  Orderly =>
    \A r \in Room : seen[r] # None /\ ~Pending(r) /\ r \notin lost =>
      \E i \in RowsOf(r) : chatRooms[i].latest = seen[r]

IInv ==
  /\ ListIsSound /\ ServerIsSound /\ SeenIsPast /\ TasksWereReported
  /\ OneFetchOneRow /\ FetchedIsListed /\ CrashOnlyAfterRace

-----------------------------------------------------------------------------
(* The removal loop.                                                         *)

(* Induction over the turns of a loop, for a set of turns.                   *)
LEMMA UpTo ==
  ASSUME NEW n \in Nat, NEW Good, 0 \in Good, \A i \in 1 .. n : i - 1 \in Good => i \in Good
  PROVE  n \in Good
<1> DEFINE Bad == {i \in 0 .. n : i \notin Good}
<1>1. SUFFICES ASSUME Bad # {} PROVE FALSE
  OBVIOUS
<1>2. PICK m \in Bad : \A k \in Bad : <<k, m>> \notin OpToRel(<, Nat)
  <2>1. Bad \in SUBSET Nat
    OBVIOUS
  <2> HIDE DEF Bad
  <2> QED BY <1>1, <2>1, WFMin, NatLessThanWellFounded
<1>3. m \in 1 .. n /\ m - 1 \in 0 .. n /\ m - 1 < m
  <2>1. m \in 0 .. n /\ m # 0
    BY <1>2
  <2> QED BY <2>1
<1>4. m - 1 \notin Bad
  <2>1. <<m - 1, m>> \in OpToRel(<, Nat)
    BY <1>3 DEF OpToRel
  <2> HIDE DEF Bad
  <2> QED BY <1>2, <2>1
<1> QED BY <1>2, <1>3, <1>4

(* What one turn of the loop does, and a loop of n turns.                    *)
Turn(acc, i, hits) == IF i \in hits THEN Removed(acc, i) ELSE acc
IsLoop(f, n, rows, hits) ==
  /\ DOMAIN f = 0 .. n /\ f[0] = Untouched(rows)
  /\ \A i \in 1 .. n : f[i] = Turn(f[i - 1], i, hits)

LEMMA LoopExists ==
  ASSUME NEW rows, NEW hits, NEW n \in Nat
  PROVE  \E f : IsLoop(f, n, rows, hits)
<1> DEFINE Good == {m \in Nat : \E f : IsLoop(f, m, rows, hits)}
<1>1. 0 \in Good
  <2> DEFINE g == [i \in 0 .. 0 |-> Untouched(rows)]
  <2>1. IsLoop(g, 0, rows, hits)
    BY DEF IsLoop
  <2> QED BY <2>1
<1>2. ASSUME NEW m \in 1 .. n, m - 1 \in Good PROVE m \in Good
  <2>1. m \in Nat /\ m # 0 /\ m - 1 \in Nat
    OBVIOUS
  <2>2. PICK f : IsLoop(f, m - 1, rows, hits)
    BY <1>2
  <2> DEFINE g == [i \in 0 .. m |-> IF i < m THEN f[i] ELSE Turn(f[m - 1], m, hits)]
  <2>3. IsLoop(g, m, rows, hits)
    <3>1. g[0] = f[0]
      BY <2>1
    <3>2. ASSUME NEW i \in 1 .. m - 1 PROVE g[i] = Turn(g[i - 1], i, hits)
      BY <2>1, <2>2 DEF IsLoop
    <3>3. g[m] = Turn(g[m - 1], m, hits)
      BY <2>1
    <3>4. \A i \in 1 .. m : i = m \/ i \in 1 .. m - 1
      BY <2>1
    <3> QED BY <2>2, <3>1, <3>2, <3>3, <3>4 DEF IsLoop
  <2> QED BY <2>1, <2>3
<1> HIDE DEF Good
<1>3. n \in Good
  BY <1>1, <1>2, UpTo
<1> QED BY <1>3 DEF Good

LEMMA LoopIs ==
  ASSUME NEW S, NEW rows \in Seq(S), NEW hits
  PROVE  \E f : IsLoop(f, Len(rows), rows, hits) /\ RemovedEach(rows, hits) = f[Len(rows)]
<1> DEFINE loop[i \in 0 .. Len(rows)] ==
             IF i = 0 THEN Untouched(rows)
             ELSE IF i \in hits THEN Removed(loop[i - 1], i) ELSE loop[i - 1]
<1>1. Len(rows) \in Nat
  OBVIOUS
<1>2. RemovedEach(rows, hits) = loop[Len(rows)]
  BY DEF RemovedEach
<1>3. PICK f : IsLoop(f, Len(rows), rows, hits)
  BY <1>1, LoopExists
<1>4. f = [i \in 0 .. Len(rows) |->
            IF i = 0 THEN Untouched(rows)
            ELSE IF i \in hits THEN Removed(f[i - 1], i) ELSE f[i - 1]]
  BY <1>1, <1>3 DEF IsLoop, Turn
<1>5. loop = [i \in 0 .. Len(rows) |->
               IF i = 0 THEN Untouched(rows)
               ELSE IF i \in hits THEN Removed(loop[i - 1], i) ELSE loop[i - 1]]
  BY <1>4
<1> HIDE DEF loop
<1>6. IsLoop(loop, Len(rows), rows, hits)
  <2>1. DOMAIN loop = 0 .. Len(rows) /\ loop[0] = Untouched(rows)
    BY <1>1, <1>5
  <2>2. ASSUME NEW i \in 1 .. Len(rows) PROVE loop[i] = Turn(loop[i - 1], i, hits)
    <3>1. i \in 0 .. Len(rows) /\ i # 0
      BY <1>1
    <3> QED BY <1>5, <3>1 DEF Turn
  <2> QED BY <2>1, <2>2 DEF IsLoop
<1> QED BY <1>2, <1>6

LEMMA RemoveAtType ==
  ASSUME NEW S, NEW s \in Seq(S), NEW i \in 1 .. Len(s)
  PROVE  /\ RemoveAt(s, i) \in Seq(S) /\ Len(RemoveAt(s, i)) = Len(s) - 1
         /\ \A j \in 1 .. Len(s) - 1 : RemoveAt(s, i)[j] = IF j < i THEN s[j] ELSE s[j + 1]
<1>1. Len(s) \in Nat /\ i \in Nat /\ 1 <= i /\ i <= Len(s) /\ \A j \in 1 .. Len(s) : s[j] \in S
  OBVIOUS
<1> DEFINE a == SubSeq(s, 1, i - 1)
           b == SubSeq(s, i + 1, Len(s))
<1>2. /\ a \in Seq(S) /\ Len(a) = i - 1
      /\ \A j \in 1 .. i - 1 : a[j] = s[j]
  <2> DEFINE n == i - 1
  <2>1. n \in Int /\ n >= 0 /\ \A j \in 1 .. n : s[j] \in S
    BY <1>1
  <2> HIDE DEF n
  <2>2. /\ SubSeq(s, 1, n) \in Seq(S)
        /\ Len(SubSeq(s, 1, n)) = IF 1 <= n THEN n - 1 + 1 ELSE 0
        /\ \A j \in 1 .. n - 1 + 1 : SubSeq(s, 1, n)[j] = s[1 + j - 1]
    BY <2>1, SubSeqProperties
  <2>3. Len(SubSeq(s, 1, n)) = n /\ \A j \in 1 .. n : SubSeq(s, 1, n)[j] = s[j]
    BY <2>1, <2>2
  <2> QED BY <2>2, <2>3 DEF n
<1>3. /\ b \in Seq(S) /\ Len(b) = Len(s) - i
      /\ \A j \in 1 .. Len(s) - i : b[j] = s[i + j]
  <2> DEFINE m == i + 1
             n == Len(s)
  <2>1. m \in Int /\ n \in Int /\ m <= n + 1 /\ \A j \in m .. n : s[j] \in S
    BY <1>1
  <2>2. n - m + 1 = Len(s) - i /\ \A j \in 1 .. Len(s) - i : m + j - 1 = i + j
    BY <1>1
  <2> HIDE DEF m, n
  <2>3. /\ SubSeq(s, m, n) \in Seq(S)
        /\ Len(SubSeq(s, m, n)) = IF m <= n THEN n - m + 1 ELSE 0
        /\ \A j \in 1 .. n - m + 1 : SubSeq(s, m, n)[j] = s[m + j - 1]
    BY <2>1, SubSeqProperties
  <2>4. Len(SubSeq(s, m, n)) = n - m + 1
    BY <2>1, <2>3
  <2> QED BY <2>2, <2>3, <2>4 DEF m, n
<1>4. RemoveAt(s, i) = a \o b
  BY DEF RemoveAt
<1> HIDE DEF a, b
<1>5. /\ a \o b \in Seq(S) /\ Len(a \o b) = Len(a) + Len(b)
      /\ \A j \in 1 .. Len(a) + Len(b) : (a \o b)[j] = IF j <= Len(a) THEN a[j] ELSE b[j - Len(a)]
  BY <1>2, <1>3, ConcatProperties
<1>6. ASSUME NEW j \in 1 .. Len(s) - 1
      PROVE  (a \o b)[j] = IF j < i THEN s[j] ELSE s[j + 1]
  <2>1. CASE j < i
    BY <1>1, <1>2, <1>3, <1>5, <2>1
  <2>2. CASE ~(j < i)
    <3>1. j - (i - 1) \in 1 .. Len(s) - i /\ i + (j - (i - 1)) = j + 1
      BY <1>1, <2>2
    <3>2. (a \o b)[j] = b[j - (i - 1)]
      BY <1>1, <1>2, <1>3, <1>5, <2>2
    <3> QED BY <1>1, <1>3, <2>2, <3>1, <3>2
  <2> QED BY <2>1, <2>2
<1> QED BY <1>1, <1>2, <1>3, <1>4, <1>5, <1>6

(* s has rows of t only, in t's order.                                       *)
Embeds(e, s, t) ==
  /\ e \in [DOMAIN s -> DOMAIN t]
  /\ \A i, j \in DOMAIN s : i < j => e[i] < e[j]
  /\ \A i \in DOMAIN s : s[i] = t[e[i]]
LeftOf(s, t) == \E e \in [DOMAIN s -> DOMAIN t] : Embeds(e, s, t)

LEMMA LeftAll ==
  ASSUME NEW S, NEW s \in Seq(S)
  PROVE  LeftOf(s, s)
<1> DEFINE e == [i \in DOMAIN s |-> i]
<1>1. Embeds(e, s, s)
  BY DEF Embeds
<1> QED BY <1>1 DEF LeftOf

LEMMA LeftFewer ==
  ASSUME NEW S, NEW s \in Seq(S), NEW t \in Seq(S), LeftOf(s, t), NEW i \in 1 .. Len(s)
  PROVE  LeftOf(RemoveAt(s, i), t)
<1> DEFINE r == RemoveAt(s, i)
           old(j) == IF j < i THEN j ELSE j + 1
<1>1. /\ r \in Seq(S) /\ DOMAIN r = 1 .. Len(s) - 1 /\ DOMAIN s = 1 .. Len(s) /\ Len(s) \in Nat
      /\ \A j \in DOMAIN r : r[j] = IF j < i THEN s[j] ELSE s[j + 1]
  BY RemoveAtType, LenProperties
<1> HIDE DEF r
<1>2. /\ \A j \in DOMAIN r : old(j) \in DOMAIN s /\ r[j] = s[old(j)]
      /\ \A j, k \in DOMAIN r : j < k => old(j) < old(k)
  BY <1>1
<1>3. PICK e \in [DOMAIN s -> DOMAIN t] : Embeds(e, s, t)
  BY DEF LeftOf
<1> DEFINE d == [j \in DOMAIN r |-> e[old(j)]]
<1> HIDE DEF old
<1>4. d \in [DOMAIN r -> DOMAIN t]
  BY <1>2
<1>5. Embeds(d, r, t)
  BY <1>2, <1>3, <1>4 DEF Embeds
<1> QED BY <1>4, <1>5 DEF LeftOf, r

(* Whatever the loop does: it leaves an array of rows that it was given, in  *)
(* their order.                                                              *)
Outcome(acc, rows, S) ==
  /\ acc = [rows |-> acc.rows, trapped |-> acc.trapped]
  /\ acc.rows \in Seq(S) /\ acc.trapped \in BOOLEAN
  /\ LeftOf(acc.rows, rows)

LEMMA TurnOutcome ==
  ASSUME NEW S, NEW rows \in Seq(S), NEW acc, Outcome(acc, rows, S), NEW i \in Nat \ {0}, NEW hits
  PROVE  Outcome(Turn(acc, i, hits), rows, S)
<1>0. /\ acc = [rows |-> acc.rows, trapped |-> acc.trapped]
      /\ acc.rows \in Seq(S) /\ Len(acc.rows) \in Nat /\ LeftOf(acc.rows, rows)
      /\ acc.trapped \in BOOLEAN
  BY DEF Outcome
<1>1. CASE i \notin hits
  BY <1>1 DEF Turn
<1>2. CASE i \in hits /\ (acc.trapped \/ i > Len(acc.rows))
  <2>1. Turn(acc, i, hits) = [rows |-> acc.rows, trapped |-> TRUE]
    BY <1>0, <1>2 DEF Turn, Removed
  <2> QED BY <1>0, <2>1 DEF Outcome
<1>3. CASE i \in hits /\ ~(acc.trapped \/ i > Len(acc.rows))
  <2>1. Turn(acc, i, hits) = [rows |-> RemoveAt(acc.rows, i), trapped |-> acc.trapped]
    <3>1. Turn(acc, i, hits) = [acc EXCEPT !.rows = RemoveAt(@, i)]
      BY <1>3 DEF Turn, Removed
    <3> QED BY <1>0, <3>1
  <2>2. i \in 1 .. Len(acc.rows)
    BY <1>0, <1>3
  <2>3. RemoveAt(acc.rows, i) \in Seq(S) /\ LeftOf(RemoveAt(acc.rows, i), rows)
    BY <1>0, <2>2, RemoveAtType, LeftFewer
  <2> QED BY <1>0, <2>1, <2>3 DEF Outcome
<1> QED BY <1>1, <1>2, <1>3

LEMMA LoopOutcome ==
  ASSUME NEW S, NEW rows \in Seq(S), NEW hits
  PROVE  Outcome(RemovedEach(rows, hits), rows, S)
<1>1. PICK f : IsLoop(f, Len(rows), rows, hits) /\ RemovedEach(rows, hits) = f[Len(rows)]
  BY LoopIs
<1>2. Len(rows) \in Nat
  OBVIOUS
<1> DEFINE Good == {m \in Nat : Outcome(f[m], rows, S)}
<1>3. 0 \in Good
  <2>1. Outcome(Untouched(rows), rows, S)
    BY LeftAll DEF Outcome, Untouched
  <2> QED BY <1>1, <2>1 DEF IsLoop
<1>4. ASSUME NEW m \in 1 .. Len(rows), m - 1 \in Good PROVE m \in Good
  <2>1. m \in Nat \ {0} /\ f[m] = Turn(f[m - 1], m, hits)
    BY <1>1, <1>2 DEF IsLoop
  <2>2. Outcome(f[m - 1], rows, S)
    BY <1>4
  <2> QED BY <2>1, <2>2, TurnOutcome
<1> HIDE DEF Good
<1>5. Len(rows) \in Good
  BY <1>2, <1>3, <1>4, UpTo
<1> QED BY <1>1, <1>5 DEF Good

(* Without a hit nothing happens; one hit is removed, as it is meant to be.  *)
LEMMA NoHit ==
  ASSUME NEW S, NEW rows \in Seq(S), NEW hits, \A i \in 1 .. Len(rows) : i \notin hits
  PROVE  RemovedEach(rows, hits) = Untouched(rows)
<1>1. PICK f : IsLoop(f, Len(rows), rows, hits) /\ RemovedEach(rows, hits) = f[Len(rows)]
  BY LoopIs
<1> DEFINE Good == {m \in Nat : f[m] = Untouched(rows)}
<1>2. 0 \in Good
  BY <1>1 DEF IsLoop
<1>3. ASSUME NEW m \in 1 .. Len(rows), m - 1 \in Good PROVE m \in Good
  <2>1. f[m] = Turn(f[m - 1], m, hits) /\ m \in Nat
    BY <1>1 DEF IsLoop
  <2> QED BY <1>3, <2>1 DEF Turn
<1> HIDE DEF Good
<1>4. Len(rows) \in Good
  BY <1>2, <1>3, UpTo
<1> QED BY <1>1, <1>4 DEF Good

LEMMA OneHit ==
  ASSUME NEW S, NEW rows \in Seq(S), NEW hits, NEW h \in 1 .. Len(rows),
         \A i \in 1 .. Len(rows) : i \in hits <=> i = h
  PROVE  RemovedEach(rows, hits) = [rows |-> RemoveAt(rows, h), trapped |-> FALSE]
<1>1. PICK f : IsLoop(f, Len(rows), rows, hits) /\ RemovedEach(rows, hits) = f[Len(rows)]
  BY LoopIs
<1> DEFINE After(m) == IF m < h THEN Untouched(rows)
                       ELSE [rows |-> RemoveAt(rows, h), trapped |-> FALSE]
           Good == {m \in Nat : f[m] = After(m)}
<1>2. 0 \in Good
  BY <1>1 DEF IsLoop
<1>3. ASSUME NEW m \in 1 .. Len(rows), m - 1 \in Good PROVE m \in Good
  <2>1. f[m] = Turn(f[m - 1], m, hits) /\ m \in Nat /\ f[m - 1] = After(m - 1)
    BY <1>1, <1>3 DEF IsLoop
  <2>2. CASE m < h
    BY <2>1, <2>2 DEF Turn
  <2>3. CASE m > h
    BY <2>1, <2>3 DEF Turn
  <2>4. CASE m = h
    <3>1. f[m - 1] = Untouched(rows)
      BY <2>1, <2>4
    <3>2. Removed(Untouched(rows), h) = [rows |-> RemoveAt(rows, h), trapped |-> FALSE]
      <4> DEFINE u == Untouched(rows)
      <4>1. u.trapped = FALSE /\ u.rows = rows /\ ~(h > Len(rows))
        BY DEF Untouched
      <4>2. Removed(u, h) = [u EXCEPT !.rows = RemoveAt(rows, h)]
        BY <4>1 DEF Removed
      <4> QED BY <4>2 DEF Untouched
    <3>3. f[m] = Removed(Untouched(rows), h)
      BY <2>1, <2>4, <3>1 DEF Turn
    <3>4. After(m) = [rows |-> RemoveAt(rows, h), trapped |-> FALSE]
      BY <2>4
    <3> QED BY <2>1, <3>2, <3>3, <3>4
  <2> QED BY <2>1, <2>2, <2>3, <2>4
<1> HIDE DEF Good
<1>4. Len(rows) \in Good
  BY <1>2, <1>3, UpTo
<1> QED BY <1>1, <1>4 DEF Good

-----------------------------------------------------------------------------
(* The sorted array.                                                         *)

Sorted(s) == \A i, j \in DOMAIN s : i < j => Date(s[i]) >= Date(s[j])
OneEach(s) == \A i, j \in DOMAIN s : s[i].room = s[j].room => i = j
Has(s, y) == \E i \in DOMAIN s : s[i] = y

LEMMA DateType == TypeOK => \A x \in Row : Date(x) \in Int
BY DEF TypeOK, Row, Date, Time, None, Empty

(* The rows that are not older than x come first.                            *)
LEMMA CutIsPrefix ==
  ASSUME NEW s \in Seq(Row), NEW x \in Row, Sorted(s), TypeOK
  PROVE  LET k == Cardinality({i \in DOMAIN s : Date(s[i]) >= Date(x)})
         IN  /\ k \in 0 .. Len(s)
             /\ \A i \in 1 .. Len(s) : i <= k <=> Date(s[i]) >= Date(x)
<1> DEFINE K == {i \in DOMAIN s : Date(s[i]) >= Date(x)}
           Good == {n \in Nat : n <= Len(s) =>
                      \E k \in 0 .. n : \A i \in 1 .. n : i \in K <=> i <= k}
<1>1. /\ Len(s) \in Nat /\ DOMAIN s = 1 .. Len(s) /\ K \subseteq 1 .. Len(s)
      /\ \A i \in DOMAIN s : Date(s[i]) \in Int /\ Date(x) \in Int
  BY DateType, LenProperties
<1>2. ASSUME NEW i \in K, NEW j \in 1 .. Len(s), j < i PROVE j \in K
  BY <1>1, <1>2 DEF Sorted
<1>3. 0 \in Good
  OBVIOUS
<1>4. ASSUME NEW n \in 1 .. Len(s), n - 1 \in Good PROVE n \in Good
  <2>1. PICK k \in 0 .. n - 1 : \A i \in 1 .. n - 1 : i \in K <=> i <= k
    BY <1>1, <1>4
  <2>2. n \in Nat /\ \A i \in 1 .. n : i = n \/ i \in 1 .. n - 1
    OBVIOUS
  <2>3. CASE n \in K
    <3>1. \A i \in 1 .. n : i \in K <=> i <= n
      BY <1>1, <1>2, <2>2, <2>3
    <3> QED BY <2>2, <3>1
  <2>4. CASE n \notin K
    <3>1. \A i \in 1 .. n : i \in K <=> i <= k
      BY <2>1, <2>2, <2>4
    <3>2. k \in 0 .. n
      BY <2>1, <2>2
    <3> QED BY <2>2, <3>1, <3>2
  <2> QED BY <2>3, <2>4
<1>5. PICK k \in 0 .. Len(s) : \A i \in 1 .. Len(s) : i \in K <=> i <= k
  <2> HIDE DEF Good
  <2>1. Len(s) \in Good
    BY <1>1, <1>3, <1>4, UpTo
  <2> QED BY <1>1, <2>1 DEF Good
<1>6. K = 1 .. k
  BY <1>1, <1>5
<1>7. Cardinality(K) = k
  <2>1. 1 \in Int /\ k \in Int /\ k >= 0
    BY <1>1, <1>5
  <2>2. Cardinality(1 .. k) = IF 1 > k THEN 0 ELSE k - 1 + 1
    BY <2>1, FS_Interval
  <2>3. Cardinality(1 .. k) = k
    BY <2>1, <2>2
  <2> HIDE DEF K
  <2> QED BY <1>6, <2>3
<1>8. \A i \in 1 .. Len(s) : i \in K <=> Date(s[i]) >= Date(x)
  BY <1>1
<1> HIDE DEF K
<1> QED BY <1>5, <1>7, <1>8 DEF K

(* A row joins the rows: the array has all of them, sorted.                  *)
LEMMA ListedIs ==
  ASSUME NEW s \in Seq(Row), NEW x \in Row, Sorted(s), TypeOK
  PROVE  /\ Listed(s, x) \in Seq(Row) /\ Sorted(Listed(s, x))
         /\ \A y : Has(Listed(s, x), y) <=> y = x \/ Has(s, y)
         /\ OneEach(s) /\ (\A i \in DOMAIN s : s[i].room # x.room) => OneEach(Listed(s, x))
<1> DEFINE k == Cardinality({i \in DOMAIN s : Date(s[i]) >= Date(x)})
           r == Listed(s, x)
           old(i) == IF i <= k THEN i ELSE i - 1
           new(i) == IF i <= k THEN i ELSE i + 1
<1>1. /\ Len(s) \in Nat /\ DOMAIN s = 1 .. Len(s)
      /\ k \in 0 .. Len(s)
      /\ \A i \in 1 .. Len(s) : i <= k <=> Date(s[i]) >= Date(x)
      /\ \A i \in DOMAIN s : s[i] \in Row /\ Date(s[i]) \in Int /\ Date(x) \in Int
  BY CutIsPrefix, DateType, LenProperties
<1>2. r = [i \in 1 .. Len(s) + 1 |-> IF i <= k THEN s[i]
                                     ELSE IF i = k + 1 THEN x ELSE s[i - 1]]
  BY DEF Listed
<1> HIDE DEF k, r
<1>3. DOMAIN r = 1 .. Len(s) + 1 /\ k + 1 \in DOMAIN r /\ r[k + 1] = x
  BY <1>1, <1>2
<1>4. \A i \in DOMAIN r : i # k + 1 => old(i) \in DOMAIN s /\ r[i] = s[old(i)]
  BY <1>1, <1>2, <1>3
<1>5. \A i \in DOMAIN s : new(i) \in DOMAIN r /\ r[new(i)] = s[i]
  BY <1>1, <1>2, <1>3
<1>6. \A i, j \in DOMAIN r : i # k + 1 /\ j # k + 1 /\ i < j => old(i) < old(j)
  BY <1>1, <1>3
<1>7. r \in Seq(Row)
  <2>1. \A i \in DOMAIN r : r[i] \in Row
    <3> HIDE DEF old
    <3> QED BY <1>1, <1>3, <1>4
  <2>2. r = [i \in 1 .. Len(s) + 1 |-> r[i]]
    BY <1>2
  <2> QED BY <1>1, <1>3, <2>1, <2>2
<1>8. ASSUME NEW i \in DOMAIN r, NEW j \in DOMAIN r, i < j
      PROVE  Date(r[i]) >= Date(r[j])
  <2>1. CASE i # k + 1 /\ j # k + 1
    <3>1. old(i) \in DOMAIN s /\ old(j) \in DOMAIN s /\ old(i) < old(j)
      BY <1>4, <1>6, <1>8, <2>1
    <3>2. r[i] = s[old(i)] /\ r[j] = s[old(j)]
      BY <1>4, <2>1
    <3> HIDE DEF old
    <3> QED BY <3>1, <3>2 DEF Sorted
  <2>2. CASE i = k + 1
    <3>1. j - 1 \in DOMAIN s /\ j - 1 > k /\ r[j] = s[j - 1]
      BY <1>1, <1>2, <1>3, <1>8, <2>2
    <3> QED BY <1>1, <1>3, <2>2, <3>1
  <2>3. CASE j = k + 1
    <3>1. i \in DOMAIN s /\ i <= k /\ r[i] = s[i]
      BY <1>1, <1>2, <1>3, <1>8, <2>3
    <3> QED BY <1>1, <1>3, <2>3, <3>1
  <2> QED BY <2>1, <2>2, <2>3
<1>9. \A y : Has(r, y) <=> y = x \/ Has(s, y)
  <2> HIDE DEF old, new
  <2> QED BY <1>3, <1>4, <1>5 DEF Has
<1>10. ASSUME OneEach(s), \A i \in DOMAIN s : s[i].room # x.room,
              NEW i \in DOMAIN r, NEW j \in DOMAIN r, r[i].room = r[j].room
       PROVE  i = j
  <2>1. CASE i # k + 1 /\ j # k + 1
    <3>1. old(i) \in DOMAIN s /\ old(j) \in DOMAIN s /\ s[old(i)].room = s[old(j)].room
      <4> HIDE DEF old
      <4> QED BY <1>4, <1>10, <2>1
    <3>2. old(i) = old(j)
      <4> HIDE DEF old
      <4> QED BY <1>10, <3>1 DEF OneEach
    <3>3. i \in Nat /\ j \in Nat
      BY <1>3
    <3> QED BY <1>1, <2>1, <3>2, <3>3
  <2> HIDE DEF old
  <2>2. CASE i = k + 1
    BY <1>3, <1>4, <1>10, <2>2
  <2>3. CASE j = k + 1
    BY <1>3, <1>4, <1>10, <2>3
  <2> QED BY <2>1, <2>2, <2>3
<1>11. Sorted(r)
  BY <1>8 DEF Sorted
<1>12. OneEach(s) /\ (\A i \in DOMAIN s : s[i].room # x.room) => OneEach(r)
  BY <1>10 DEF OneEach
<1> QED BY <1>7, <1>9, <1>11, <1>12 DEF r

(* What is left of a sorted array is sorted, and has no other rows.          *)
LEMMA LeftIs ==
  ASSUME NEW s \in Seq(Row), NEW t \in Seq(Row), LeftOf(s, t), Sorted(t)
  PROVE  /\ Sorted(s) /\ (OneEach(t) => OneEach(s))
         /\ \A y : Has(s, y) => Has(t, y)
<1>1. PICK e \in [DOMAIN s -> DOMAIN t] : Embeds(e, s, t)
  BY DEF LeftOf
<1>2. /\ DOMAIN s \subseteq Nat /\ \A i \in DOMAIN s : e[i] \in DOMAIN t /\ e[i] \in Nat
      /\ \A i, j \in DOMAIN s : i < j => e[i] < e[j]
      /\ \A i \in DOMAIN s : s[i] = t[e[i]]
  <2>1. DOMAIN s = 1 .. Len(s) /\ DOMAIN t = 1 .. Len(t) /\ Len(s) \in Nat /\ Len(t) \in Nat
    BY LenProperties
  <2> QED BY <1>1, <2>1 DEF Embeds
<1>3. Sorted(s)
  BY <1>2 DEF Sorted
<1>4. ASSUME OneEach(t), NEW i \in DOMAIN s, NEW j \in DOMAIN s, s[i].room = s[j].room
      PROVE  i = j
  <2>1. e[i] = e[j]
    BY <1>2, <1>4 DEF OneEach
  <2>2. i \in Nat /\ j \in Nat /\ ~(i < j) /\ ~(j < i)
    BY <1>2, <2>1
  <2> QED BY <2>2
<1>5. \A y : Has(s, y) => Has(t, y)
  BY <1>2 DEF Has
<1> QED BY <1>3, <1>4, <1>5 DEF OneEach

(* The loop of a modified room, whatever it hits.                            *)
LEMMA ByPartner ==
  ASSUME NEW rows \in Seq(Row), Sorted(rows), NEW u
  PROVE  LET kept == RemovedByPartner(rows, u)
         IN  /\ kept.rows \in Seq(Row) /\ kept.trapped \in BOOLEAN /\ Sorted(kept.rows)
             /\ \A y : Has(kept.rows, y) => Has(rows, y)
<1> DEFINE kept == RemovedByPartner(rows, u)
<1>1. Outcome(kept, rows, Row)
  BY LoopOutcome DEF RemovedByPartner
<1> HIDE DEF kept
<1>2. kept.rows \in Seq(Row) /\ kept.trapped \in BOOLEAN /\ LeftOf(kept.rows, rows)
  BY <1>1 DEF Outcome
<1> QED BY <1>2, LeftIs DEF kept

(* The rows without that of one index.                                       *)
LEMMA RowsWithout ==
  ASSUME NEW s \in Seq(Row), OneEach(s), NEW h \in 1 .. Len(s), NEW y,
         Has(s, y), y.room # s[h].room
  PROVE  Has(RemoveAt(s, h), y)
<1>1. PICK i \in DOMAIN s : s[i] = y
  BY DEF Has
<1>2. /\ DOMAIN s = 1 .. Len(s) /\ Len(s) \in Nat /\ i # h
      /\ DOMAIN RemoveAt(s, h) = 1 .. Len(s) - 1
      /\ \A j \in 1 .. Len(s) - 1 : RemoveAt(s, h)[j] = IF j < h THEN s[j] ELSE s[j + 1]
  BY <1>1, RemoveAtType, LenProperties
<1>3. CASE i < h
  BY <1>1, <1>2, <1>3 DEF Has
<1>4. CASE i > h
  <2>1. i - 1 \in 1 .. Len(s) - 1 /\ ~(i - 1 < h) /\ (i - 1) + 1 = i
    BY <1>2, <1>4
  <2> QED BY <1>1, <1>2, <2>1 DEF Has
<1> QED BY <1>2, <1>3, <1>4

LEMMA RowGone ==
  ASSUME NEW s \in Seq(Row), OneEach(s), NEW h \in 1 .. Len(s)
  PROVE  \A i \in DOMAIN RemoveAt(s, h) : RemoveAt(s, h)[i].room # s[h].room
<1> SUFFICES ASSUME NEW i \in DOMAIN RemoveAt(s, h)
             PROVE  RemoveAt(s, h)[i].room # s[h].room
  OBVIOUS
<1>1. /\ DOMAIN s = 1 .. Len(s) /\ Len(s) \in Nat
      /\ DOMAIN RemoveAt(s, h) = 1 .. Len(s) - 1
      /\ \A j \in 1 .. Len(s) - 1 : RemoveAt(s, h)[j] = IF j < h THEN s[j] ELSE s[j + 1]
  BY RemoveAtType, LenProperties
<1>2. CASE i < h
  <2>1. i \in DOMAIN s /\ i # h /\ RemoveAt(s, h)[i] = s[i]
    BY <1>1, <1>2
  <2> QED BY <1>1, <2>1 DEF OneEach
<1>3. CASE ~(i < h)
  <2>1. i + 1 \in DOMAIN s /\ i + 1 # h /\ RemoveAt(s, h)[i] = s[i + 1]
    BY <1>1, <1>3
  <2> QED BY <1>1, <2>1 DEF OneEach
<1> QED BY <1>2, <1>3

(* With Orderly changes it removes the rows of the modified room.            *)
LEMMA ByOwnPartner ==
  ASSUME NEW rows \in Seq(Row), Sorted(rows), OneEach(rows), Injective(Partner), NEW r \in Room
  PROVE  LET kept == RemovedByPartner(rows, Partner[r])
         IN  /\ kept.trapped = FALSE /\ OneEach(kept.rows)
             /\ \A i \in DOMAIN kept.rows : kept.rows[i].room # r
             /\ \A y : Has(rows, y) /\ y.room # r => Has(kept.rows, y)
<1> DEFINE kept == RemovedByPartner(rows, Partner[r])
           hits == RowsWith(rows, Partner[r])
<1>1. DOMAIN rows = 1 .. Len(rows) /\ \A i \in DOMAIN rows : rows[i] \in Row
  BY LenProperties
<1>2. \A i \in 1 .. Len(rows) : i \in hits <=> rows[i].room = r
  BY <1>1, PartnerAssumption DEF RowsWith, Injective, Row
<1>3. kept = RemovedEach(rows, hits)
  BY DEF RemovedByPartner
<1> HIDE DEF kept, hits
<1>4. CASE \A i \in 1 .. Len(rows) : i \notin hits
  <2>1. kept = Untouched(rows)
    BY <1>3, <1>4, NoHit
  <2>2. kept.rows = rows /\ kept.trapped = FALSE
    BY <2>1 DEF Untouched
  <2>3. \A i \in DOMAIN rows : rows[i].room # r
    BY <1>1, <1>2, <1>4
  <2> QED BY <2>2, <2>3 DEF kept
<1>5. ASSUME NEW h \in 1 .. Len(rows), h \in hits
      PROVE  /\ kept.trapped = FALSE /\ OneEach(kept.rows)
             /\ \A i \in DOMAIN kept.rows : kept.rows[i].room # r
             /\ \A y : Has(rows, y) /\ y.room # r => Has(kept.rows, y)
  <2>1. \A i \in 1 .. Len(rows) : i \in hits <=> i = h
    BY <1>1, <1>2, <1>5 DEF OneEach
  <2>2. kept = [rows |-> RemoveAt(rows, h), trapped |-> FALSE]
    BY <1>3, <2>1, OneHit
  <2>3. kept.rows = RemoveAt(rows, h) /\ kept.trapped = FALSE /\ rows[h].room = r
    BY <1>2, <1>5, <2>2
  <2>4. OneEach(RemoveAt(rows, h))
    <3>1. RemoveAt(rows, h) \in Seq(Row) /\ LeftOf(RemoveAt(rows, h), rows)
      BY LeftAll, LeftFewer, RemoveAtType
    <3> QED BY <3>1, LeftIs
  <2> QED BY <2>3, <2>4, RowsWithout, RowGone
<1> QED BY <1>4, <1>5 DEF kept

-----------------------------------------------------------------------------
(* What a completion does to the array.                                      *)

Completes(t) == UserFetchedEmpty(t) \/ MessageFetched(t)

LEMMA TaskType ==
  ASSUME TypeOK, NEW t \in tasks
  PROVE  /\ t \in Task /\ t.room \in Room /\ t.latest \in {Empty} \cup Time
         /\ RowOf(t) \in Row /\ RowOf(t).room = t.room /\ RowOf(t).latest = t.latest
BY DEF TypeOK, Task, RowOf, Row

LEMMA ArrayAfter ==
  ASSUME TypeOK, NewestFirst, NEW t \in tasks, Completes(t)
  PROVE  /\ chatRooms' \in Seq(Row) /\ trapped' \in BOOLEAN /\ Sorted(chatRooms')
         /\ \A y : Has(chatRooms', y) => y = RowOf(t) \/ Has(chatRooms, y)
<1>1. chatRooms \in Seq(Row) /\ Sorted(chatRooms) /\ RowOf(t) \in Row /\ trapped \in BOOLEAN
  BY TaskType DEF TypeOK, NewestFirst, Sorted
<1>2. CASE UserFetchedEmpty(t)
  <2>1. trapped' = trapped /\ chatRooms' \in {chatRooms, Listed(chatRooms, RowOf(t))}
    BY <1>2 DEF UserFetchedEmpty
  <2> QED BY <1>1, <2>1, ListedIs
<1>3. CASE MessageFetched(t)
  <2> DEFINE kept == IF t.type = "modified"
                     THEN RemovedByPartner(chatRooms, Partner[t.room])
                     ELSE Untouched(chatRooms)
  <2>1. /\ trapped' = kept.trapped
        /\ chatRooms' = IF kept.trapped THEN <<>> ELSE Listed(kept.rows, RowOf(t))
    BY <1>3 DEF MessageFetched
  <2>2. /\ kept.rows \in Seq(Row) /\ kept.trapped \in BOOLEAN /\ Sorted(kept.rows)
        /\ \A y : Has(kept.rows, y) => Has(chatRooms, y)
    <3>1. CASE t.type = "modified"
      BY <1>1, <3>1, ByPartner
    <3>2. CASE t.type # "modified"
      BY <1>1, <3>2 DEF Untouched
    <3> QED BY <3>1, <3>2
  <2> HIDE DEF kept
  <2>3. CASE kept.trapped
    BY <2>1, <2>2, <2>3 DEF Sorted, Has
  <2>4. CASE ~kept.trapped
    <3>1. chatRooms' = Listed(kept.rows, RowOf(t))
      BY <2>1, <2>4
    <3>2. /\ Listed(kept.rows, RowOf(t)) \in Seq(Row) /\ Sorted(Listed(kept.rows, RowOf(t)))
          /\ \A y : Has(Listed(kept.rows, RowOf(t)), y) => y = RowOf(t) \/ Has(kept.rows, y)
      BY <1>1, <2>2, ListedIs
    <3> QED BY <2>1, <2>2, <3>1, <3>2
  <2> QED BY <2>3, <2>4
<1> QED BY <1>2, <1>3 DEF Completes

LEMMA OrderlyArrayAfter ==
  ASSUME TypeOK, NewestFirst, RowsWereReported, OneFetchOneRow, Orderly,
         NEW t \in tasks, Completes(t)
  PROVE  /\ trapped' = FALSE /\ OneEach(chatRooms')
         /\ Has(chatRooms', RowOf(t))
         /\ \A y : Has(chatRooms, y) /\ y.room # t.room => Has(chatRooms', y)
<1>1. /\ chatRooms \in Seq(Row) /\ Sorted(chatRooms) /\ OneEach(chatRooms)
      /\ RowOf(t) \in Row /\ RowOf(t).room = t.room /\ RowOf(t).latest = t.latest
      /\ t.room \in Room /\ t.latest = seen[t.room] /\ Injective(Partner)
  BY TaskType DEF TypeOK, NewestFirst, Sorted, OneEach, OneFetchOneRow, Orderly
<1>2. CASE UserFetchedEmpty(t) /\ HasRow(t)
  <2>1. trapped' = FALSE /\ chatRooms' = chatRooms /\ t.latest = Empty
    BY <1>2 DEF UserFetchedEmpty, TypeOK
  <2>2. PICK i \in DOMAIN chatRooms : chatRooms[i].room = t.room
    BY <1>2 DEF HasRow
  <2>3. chatRooms[i] \in Row /\ chatRooms[i].latest <= seen[t.room]
    BY <1>1, <2>2, LenProperties DEF RowsWereReported
  <2>4. chatRooms[i].latest = Empty
    BY <1>1, <2>1, <2>3, BoundAssumption DEF Row, Empty, Time
  <2>5. chatRooms[i] = RowOf(t)
    BY <2>1, <2>2, <2>3, <2>4 DEF Row, RowOf
  <2> QED BY <1>1, <2>1, <2>5 DEF Has
<1>3. CASE UserFetchedEmpty(t) /\ ~HasRow(t)
  <2>1. trapped' = FALSE /\ chatRooms' = Listed(chatRooms, RowOf(t))
    BY <1>3 DEF UserFetchedEmpty, TypeOK
  <2>2. \A i \in DOMAIN chatRooms : chatRooms[i].room # RowOf(t).room
    BY <1>1, <1>3 DEF HasRow
  <2> QED BY <1>1, <2>1, <2>2, ListedIs
<1>4. CASE MessageFetched(t)
  <2> DEFINE kept == IF t.type = "modified"
                     THEN RemovedByPartner(chatRooms, Partner[t.room])
                     ELSE Untouched(chatRooms)
  <2>1. /\ trapped' = kept.trapped
        /\ chatRooms' = IF kept.trapped THEN <<>> ELSE Listed(kept.rows, RowOf(t))
    BY <1>4 DEF MessageFetched
  <2>2. /\ kept.trapped = FALSE /\ kept.rows \in Seq(Row) /\ Sorted(kept.rows)
        /\ OneEach(kept.rows)
        /\ \A i \in DOMAIN kept.rows : kept.rows[i].room # t.room
        /\ \A y : Has(chatRooms, y) /\ y.room # t.room => Has(kept.rows, y)
    <3>1. CASE t.type = "modified"
      BY <1>1, <3>1, ByPartner, ByOwnPartner
    <3>2. CASE t.type # "modified"
      <4>1. t.type = "added"
        BY <3>2, TaskType DEF Task
      <4>2. \A i \in DOMAIN chatRooms : chatRooms[i].room # t.room
        BY <4>1 DEF OneFetchOneRow, RowsOf
      <4> QED BY <1>1, <3>2, <4>2 DEF Untouched
    <3> QED BY <3>1, <3>2
  <2> HIDE DEF kept
  <2>3. chatRooms' = Listed(kept.rows, RowOf(t))
    BY <2>1, <2>2
  <2>4. \A i \in DOMAIN kept.rows : kept.rows[i].room # RowOf(t).room
    BY <1>1, <2>2
  <2>5. /\ OneEach(Listed(kept.rows, RowOf(t)))
        /\ \A y : Has(Listed(kept.rows, RowOf(t)), y) <=> y = RowOf(t) \/ Has(kept.rows, y)
    BY <1>1, <2>2, <2>4, ListedIs
  <2> QED BY <2>1, <2>2, <2>3, <2>5
<1> QED BY <1>2, <1>3, <1>4 DEF Completes

-----------------------------------------------------------------------------
(* The steps.                                                                *)

LEMMA TypeStep ==
  ASSUME TypeOK, NewestFirst, [Next]_vars
  PROVE  TypeOK'
<1> USE BoundAssumption DEF TypeOK, server, app, None, Empty, Time
<1>1. ASSUME NEW r \in Room, CreateRoom(r) PROVE TypeOK'
  BY <1>1 DEF CreateRoom
<1>2. ASSUME NEW r \in Room, SendMessage(r) PROVE TypeOK'
  BY <1>2 DEF SendMessage
<1>3. ASSUME NEW S \in SUBSET Room, Snapshot(S) PROVE TypeOK'
  <2> DEFINE new == {[room |-> r, latest |-> latest[r], step |-> "user",
                      type |-> IF seen[r] = None THEN "added" ELSE "modified"] : r \in S}
  <2>1. new \subseteq Task
    BY DEF Task
  <2>2. tasks' = tasks \cup new /\ raced' \in BOOLEAN
    BY <1>3 DEF Snapshot
  <2>3. seen' \in [Room -> {None, Empty} \cup Time] /\ prompt' \in BOOLEAN
    BY <1>3 DEF Snapshot, PromptFor
  <2> QED BY <1>3, <2>1, <2>2, <2>3 DEF Snapshot
<1>4. CASE ListenerFails
  BY <1>4 DEF ListenerFails
<1>5. CASE Relaunch
  <2>1. launches' \in 1 .. MaxLaunch
    BY <1>5 DEF Relaunch
  <2>2. chatRooms' \in Seq(Row) /\ seen' \in [Room -> {None, Empty} \cup Time]
    BY <1>5 DEF Relaunch
  <2> QED BY <1>5, <2>1, <2>2 DEF Relaunch
<1>6. ASSUME NEW t \in tasks, Completes(t) PROVE TypeOK'
  <2>1. chatRooms' \in Seq(Row) /\ trapped' \in BOOLEAN
    BY <1>6, ArrayAfter
  <2>2. /\ tasks' = tasks \ {t} /\ lost' \in {lost, lost \ {t.room}}
        /\ UNCHANGED <<server, seen, listener, prompt, launches, raced>>
    BY <1>6 DEF Completes, UserFetchedEmpty, MessageFetched, Healed
  <2> QED BY <2>1, <2>2
<1>7. ASSUME NEW t \in tasks, UserFetched(t) PROVE TypeOK'
  <2>1. [t EXCEPT !.step = "message"] \in Task
    BY TaskType DEF Task
  <2> QED BY <1>7, <2>1 DEF UserFetched
<1>8. ASSUME NEW t \in tasks, FetchFails(t) PROVE TypeOK'
  BY <1>8, TaskType DEF FetchFails
<1>9. CASE UNCHANGED vars
  BY <1>9 DEF vars
<1> QED BY <1>1, <1>2, <1>3, <1>4, <1>5, <1>6, <1>7, <1>8, <1>9 DEF Next, Fetched, Completes

LEMMA PastStep ==
  ASSUME TypeOK, ServerIsSound, SeenIsPast, [Next]_vars
  PROVE  ServerIsSound' /\ SeenIsPast'
<1> USE BoundAssumption DEF TypeOK, ServerIsSound, SeenIsPast, server, app, None, Empty, Time
<1>1. ASSUME NEW r \in Room, CreateRoom(r) PROVE ServerIsSound' /\ SeenIsPast'
  BY <1>1 DEF CreateRoom
<1>2. ASSUME NEW r \in Room, SendMessage(r) PROVE ServerIsSound' /\ SeenIsPast'
  BY <1>2 DEF SendMessage
<1>3. ASSUME NEW S \in SUBSET Room, Snapshot(S) PROVE ServerIsSound' /\ SeenIsPast'
  <2>1. /\ UNCHANGED <<now, created, latest>> /\ \A r \in S : created[r] # None
        /\ \A r \in Room : seen'[r] = IF r \in S THEN latest[r] ELSE seen[r]
    BY <1>3 DEF Snapshot, Changed
  <2> QED BY <2>1
<1>4. CASE Relaunch
  BY <1>4 DEF Relaunch
<1>5. CASE UNCHANGED <<now, created, latest, seen>>
  BY <1>5
<1>6. \/ ListenerFails \/ UNCHANGED vars
      \/ \E t \in tasks : Fetched(t) \/ FetchFails(t)
      => UNCHANGED <<now, created, latest, seen>>
  BY DEF ListenerFails, Fetched, UserFetchedEmpty, UserFetched, MessageFetched, FetchFails, vars
<1> QED BY <1>1, <1>2, <1>3, <1>4, <1>5, <1>6 DEF Next

(* Rows and fetches, by the rows and fetches that a step leaves or makes.    *)
Listening == NewestFirst /\ RowsWereReported /\ TasksWereReported /\ PromptOnlyWhenEmpty

LEMMA RowsInOrder ==
  ASSUME TypeOK, chatRooms' \in Seq(Row), Sorted(chatRooms'),
         \A y \in Row : Has(chatRooms', y) => created'[y.room] = created[y.room]
  PROVE  NewestFirst'
<1>1. \A i \in DOMAIN chatRooms' :
        created'[chatRooms'[i].room] = created[chatRooms'[i].room]
  BY LenProperties DEF Has
<1> QED BY <1>1 DEF Sorted, NewestFirst, Date

LEMMA ListeningStep ==
  ASSUME TypeOK, TypeOK', ServerIsSound, SeenIsPast, Listening, [Next]_vars
  PROVE  Listening'
<1> USE DEF Listening, server, app
<1>0. /\ chatRooms \in Seq(Row) /\ chatRooms' \in Seq(Row) /\ Sorted(chatRooms)
      /\ \A i \in DOMAIN chatRooms : chatRooms[i] \in Row
      /\ \A i \in DOMAIN chatRooms' : chatRooms'[i] \in Row
      /\ \A t \in tasks : t \in Task /\ t.room \in Room
  BY LenProperties, TaskType DEF TypeOK, NewestFirst, Sorted
<1>1. ASSUME NEW r \in Room, CreateRoom(r) \/ SendMessage(r) PROVE Listening'
  <2>1. /\ UNCHANGED <<chatRooms, tasks, seen, listener, prompt>>
        /\ \A q \in Room : created[q] # None => created'[q] = created[q]
    BY <1>1 DEF CreateRoom, SendMessage, TypeOK
  <2>2. ASSUME NEW y \in Row, Has(chatRooms', y) PROVE created'[y.room] = created[y.room]
    <3>1. PICK i \in DOMAIN chatRooms : chatRooms[i] = y
      BY <2>1, <2>2 DEF Has
    <3>2. y.room \in Room /\ y.latest \in {Empty} \cup Time /\ y.latest <= seen[y.room]
      BY <3>1 DEF Row, RowsWereReported
    <3>3. seen[y.room] # None
      BY <3>2, BoundAssumption DEF None, Empty, Time
    <3> QED BY <2>1, <3>2, <3>3 DEF SeenIsPast
  <2>3. NewestFirst'
    BY <1>0, <2>1, <2>2, RowsInOrder
  <2> QED BY <2>1, <2>3 DEF RowsWereReported, TasksWereReported, PromptOnlyWhenEmpty
<1>2. ASSUME NEW S \in SUBSET Room, Snapshot(S) PROVE Listening'
  <2>1. /\ UNCHANGED <<chatRooms, created, latest>>
        /\ \A r \in Room : seen'[r] = IF r \in S THEN latest[r] ELSE seen[r]
        /\ \A r \in Room : seen[r] <= seen'[r]
    <3>1. /\ UNCHANGED <<chatRooms, created, latest>>
          /\ \A r \in Room : seen'[r] = IF r \in S THEN latest[r] ELSE seen[r]
      BY <1>2 DEF Snapshot
    <3>2. ASSUME NEW r \in Room PROVE seen[r] <= seen'[r]
      <4>1. seen[r] \in Int /\ seen[r] <= latest[r]
        BY BoundAssumption DEF SeenIsPast, TypeOK, None, Empty, Time
      <4> QED BY <3>1, <4>1
    <3> QED BY <3>1, <3>2
  <2>2. NewestFirst'
    BY <1>0, <2>1, RowsInOrder
  <2>3. RowsWereReported'
    <3>1. ASSUME NEW i \in DOMAIN chatRooms PROVE chatRooms[i].latest <= seen'[chatRooms[i].room]
      <4>1. /\ chatRooms[i].room \in Room /\ chatRooms[i].latest \in Int
            /\ chatRooms[i].latest <= seen[chatRooms[i].room]
            /\ seen[chatRooms[i].room] \in Int /\ seen'[chatRooms[i].room] \in Int
        BY <1>0, BoundAssumption DEF RowsWereReported, Row, TypeOK, None, Empty, Time
      <4> QED BY <2>1, <4>1
    <3> QED BY <2>1, <3>1 DEF RowsWereReported
  <2>4. \A t \in tasks' : t \in tasks \/ (t.room \in S /\ t.latest = latest[t.room])
    <3> DEFINE new == {[room |-> r, latest |-> latest[r], step |-> "user",
                        type |-> IF seen[r] = None THEN "added" ELSE "modified"] : r \in S}
    <3>1. tasks' = tasks \cup new
      BY <1>2 DEF Snapshot
    <3>2. \A t \in new : t.room \in S /\ t.latest = latest[t.room]
      OBVIOUS
    <3> HIDE DEF new
    <3> QED BY <3>1, <3>2
  <2>5. \A t \in tasks' : t.latest <= seen'[t.room]
    <3>1. ASSUME NEW t \in tasks PROVE t.latest <= seen'[t.room]
      <4>1. t.room \in Room /\ t.latest <= seen[t.room]
        BY TaskType DEF TasksWereReported
      <4>2. t.latest \in Int
        BY TaskType, BoundAssumption DEF Empty, Time
      <4>3. seen[t.room] \in Int /\ seen'[t.room] \in Int
        BY <4>1, BoundAssumption DEF TypeOK, None, Empty, Time
      <4> QED BY <2>1, <4>1, <4>2, <4>3
    <3>2. ASSUME NEW t \in tasks', t.room \in S, t.latest = latest[t.room]
          PROVE  t.latest <= seen'[t.room]
      <4>1. t.room \in Room /\ seen'[t.room] = t.latest /\ t.latest \in Int
        BY <2>1, <3>2, BoundAssumption DEF TypeOK, Empty, Time
      <4> QED BY <4>1
    <3> QED BY <2>4, <3>1, <3>2
  <2>6. listener' = "live" /\ (S # {} \/ (listener = "waiting" /\ tasks' = tasks))
    BY <1>2 DEF Snapshot
  <2>7. PromptOnlyWhenEmpty'
    BY <1>2, <2>1, <2>6 DEF Snapshot, PromptFor, PromptOnlyWhenEmpty, TasksWereReported
  <2> QED BY <2>2, <2>3, <2>5, <2>6, <2>7 DEF TasksWereReported
<1>3. ASSUME NEW t \in tasks, Completes(t) PROVE Listening'
  <2>1. /\ tasks' = tasks \ {t} /\ UNCHANGED <<seen, listener, prompt, created>>
    BY <1>3 DEF Completes, UserFetchedEmpty, MessageFetched
  <2>2. /\ Sorted(chatRooms')
        /\ \A y : Has(chatRooms', y) => y = RowOf(t) \/ Has(chatRooms, y)
    BY <1>3, ArrayAfter
  <2>3. NewestFirst'
    BY <1>0, <2>1, <2>2, RowsInOrder
  <2>4. RowsWereReported'
    <3>1. ASSUME NEW i \in DOMAIN chatRooms'
          PROVE  chatRooms'[i].latest <= seen[chatRooms'[i].room]
      <4>1. chatRooms'[i] = RowOf(t) \/ Has(chatRooms, chatRooms'[i])
        BY <2>2 DEF Has
      <4> QED BY <4>1, TaskType DEF TasksWereReported, RowsWereReported, Has
    <3> QED BY <2>1, <3>1 DEF RowsWereReported
  <2>5. ~prompt /\ listener # "waiting"
    BY <1>3 DEF PromptOnlyWhenEmpty, TasksWereReported
  <2> QED BY <2>1, <2>3, <2>4, <2>5 DEF TasksWereReported, PromptOnlyWhenEmpty
<1>4. ASSUME NEW t \in tasks, UserFetched(t) \/ FetchFails(t) PROVE Listening'
  <2>1. /\ UNCHANGED <<seen, listener, prompt, created, chatRooms>>
        /\ tasks' \in {tasks \ {t}, (tasks \ {t}) \cup {[t EXCEPT !.step = "message"]}}
    BY <1>4 DEF UserFetched, FetchFails
  <2>2. /\ [t EXCEPT !.step = "message"].room = t.room
        /\ [t EXCEPT !.step = "message"].latest = t.latest
    BY TaskType DEF Task
  <2>3. NewestFirst'
    BY <1>0, <2>1, RowsInOrder
  <2>4. ~prompt /\ listener # "waiting"
    BY <1>4 DEF PromptOnlyWhenEmpty, TasksWereReported
  <2> QED BY <2>1, <2>2, <2>3, <2>4
          DEF RowsWereReported, TasksWereReported, PromptOnlyWhenEmpty
<1>5. CASE Relaunch
  BY <1>5 DEF Relaunch, NewestFirst, RowsWereReported, TasksWereReported, PromptOnlyWhenEmpty
<1>6. CASE ListenerFails \/ UNCHANGED vars
  <2>1. /\ UNCHANGED <<seen, prompt, created, chatRooms, tasks>>
        /\ listener' = "failed" \/ listener' = listener
    BY <1>6 DEF ListenerFails, vars
  <2>2. NewestFirst'
    BY <1>0, <2>1, RowsInOrder
  <2> QED BY <2>1, <2>2 DEF RowsWereReported, TasksWereReported, PromptOnlyWhenEmpty
<1> QED BY <1>1, <1>2, <1>3, <1>4, <1>5, <1>6 DEF Next, Fetched, Completes

(* With Orderly changes.                                                     *)

OneFetch ==
  /\ \A t \in tasks : t.latest = seen[t.room]
  /\ \A t, o \in tasks : t.room = o.room => t = o
AddedIsNew == \A t \in tasks : t.type = "added" => RowsOf(t.room) = {}
Fetched1 ==
  \A r \in Room : seen[r] # None /\ ~Pending(r) /\ r \notin lost =>
    \E i \in RowsOf(r) : chatRooms[i].latest = seen[r]

OrderlyInv == OneFetchOneRow /\ FetchedIsListed /\ CrashOnlyAfterRace

LEMMA OrderlyParts ==
  /\ OrderlyInv <=>
       (Orderly => OneFetch /\ OneEach(chatRooms) /\ AddedIsNew /\ Fetched1 /\ ~trapped)
  /\ OrderlyInv' <=>
       (Orderly' => OneFetch' /\ OneEach(chatRooms') /\ AddedIsNew' /\ Fetched1' /\ ~trapped')
<1>1. OrderlyInv <=>
       (Orderly => OneFetch /\ OneEach(chatRooms) /\ AddedIsNew /\ Fetched1 /\ ~trapped)
  BY Zenon DEF OrderlyInv, OneFetchOneRow, FetchedIsListed, CrashOnlyAfterRace, OneFetch, OneEach,
         AddedIsNew, Fetched1
<1>2. OrderlyInv' <=>
       (Orderly' => OneFetch' /\ OneEach(chatRooms') /\ AddedIsNew' /\ Fetched1' /\ ~trapped')
  BY Zenon DEF OrderlyInv, OneFetchOneRow, FetchedIsListed, CrashOnlyAfterRace, OneFetch, OneEach,
         AddedIsNew, Fetched1
<1> QED BY <1>1, <1>2

(* No room that was never reported has a row.                                *)
LEMMA RowWasSeen ==
  ASSUME TypeOK, RowsWereReported, NEW i \in DOMAIN chatRooms
  PROVE  chatRooms[i].room \in Room /\ seen[chatRooms[i].room] # None
<1>1. chatRooms[i] \in Row
  BY LenProperties DEF TypeOK
<1>2. chatRooms[i].room \in Room
  BY <1>1 DEF Row
<1>3. chatRooms[i].latest \in Nat
  BY <1>1, BoundAssumption DEF Row, Empty, Time
<1>4. seen[chatRooms[i].room] \in Int
  BY <1>2, BoundAssumption DEF TypeOK, None, Empty, Time
<1>5. chatRooms[i].latest <= seen[chatRooms[i].room]
  BY DEF RowsWereReported
<1>6. ~(chatRooms[i].latest <= -1)
  BY <1>3
<1> QED BY <1>2, <1>5, <1>6 DEF None

LEMMA OrderlySnapshot ==
  ASSUME TypeOK, RowsWereReported, OrderlyInv, NEW S \in SUBSET Room, Snapshot(S)
  PROVE  OrderlyInv'
<1> SUFFICES ASSUME Orderly'
             PROVE  OneFetch' /\ OneEach(chatRooms') /\ AddedIsNew' /\ Fetched1' /\ ~trapped'
  BY OrderlyParts
<1> DEFINE Task1(r) == [room |-> r, latest |-> latest[r], step |-> "user",
                        type |-> IF seen[r] = None THEN "added" ELSE "modified"]
           new == {Task1(r) : r \in S}
<1>1. /\ UNCHANGED <<chatRooms, trapped, lost>> /\ ~trapped
      /\ \A r \in Room : seen'[r] = IF r \in S THEN latest[r] ELSE seen[r]
      /\ tasks' = tasks \cup new
      /\ raced' = (raced \/ \E n \in new, o \in tasks' : o # n /\ Partner[o.room] = Partner[n.room])
  BY DEF Snapshot
<1>2. ~raced /\ \A n \in new, o \in tasks' : Partner[o.room] = Partner[n.room] => o = n
  BY <1>1 DEF Orderly
<1>3. \A r \in S : /\ Task1(r) \in new /\ Task1(r).room = r /\ Task1(r).latest = latest[r]
                   /\ Task1(r).type = "added" => seen[r] = None
  OBVIOUS
<1>4. \A n \in new : \E r \in S : n = Task1(r)
  OBVIOUS
<1> HIDE DEF new, Task1
<1>5. Orderly /\ OneFetch /\ OneEach(chatRooms) /\ AddedIsNew /\ Fetched1
  BY <1>2, OrderlyParts DEF Orderly
<1>6. \A t \in tasks' : t.room \in S => t = Task1(t.room)
  BY <1>1, <1>2, <1>3
<1>7. \A t \in tasks' : t.room \notin S => t \in tasks /\ t.room \in Room
  BY <1>1, <1>3, <1>4, TaskType
<1>8. OneFetch'
  <2>1. \A t \in tasks' : t.latest = seen'[t.room]
    <3> SUFFICES ASSUME NEW t \in tasks' PROVE t.latest = seen'[t.room]
      OBVIOUS
    <3>1. CASE t.room \in S
      BY <1>1, <1>3, <1>6, <3>1
    <3>2. CASE t.room \notin S
      BY <1>1, <1>5, <1>7, <3>2 DEF OneFetch
    <3> QED BY <3>1, <3>2
  <2>2. \A t, o \in tasks' : t.room = o.room => t = o
    <3> SUFFICES ASSUME NEW t \in tasks', NEW o \in tasks', t.room = o.room PROVE t = o
      OBVIOUS
    <3>1. CASE t.room \in S
      BY <1>6, <3>1
    <3>2. CASE t.room \notin S
      BY <1>5, <1>7, <3>2 DEF OneFetch
    <3> QED BY <3>1, <3>2
  <2> QED BY <2>1, <2>2 DEF OneFetch
<1>9. AddedIsNew'
  <2> SUFFICES ASSUME NEW t \in tasks', t.type = "added", NEW i \in DOMAIN chatRooms,
                      chatRooms[i].room = t.room
               PROVE  FALSE
    BY <1>1 DEF AddedIsNew, RowsOf
  <2>1. CASE t.room \in S
    BY <1>3, <1>6, <2>1, RowWasSeen
  <2>2. CASE t.room \notin S
    BY <1>5, <1>7, <2>2 DEF AddedIsNew, RowsOf
  <2> QED BY <2>1, <2>2
<1>10. Fetched1'
  <2> SUFFICES ASSUME NEW r \in Room, seen'[r] # None, ~Pending(r)', r \notin lost
               PROVE  \E i \in RowsOf(r) : chatRooms[i].latest = seen'[r]
    BY <1>1 DEF Fetched1, RowsOf
  <2>1. r \notin S /\ ~Pending(r)
    BY <1>1, <1>3 DEF Pending
  <2>2. seen'[r] = seen[r]
    BY <1>1, <2>1
  <2> QED BY <1>5, <2>1, <2>2 DEF Fetched1
<1> QED BY <1>1, <1>5, <1>8, <1>9, <1>10

LEMMA OrderlyCompletion ==
  ASSUME TypeOK, NewestFirst, RowsWereReported, OrderlyInv, NEW t \in tasks, Completes(t)
  PROVE  OrderlyInv'
<1> SUFFICES ASSUME Orderly'
             PROVE  OneFetch' /\ OneEach(chatRooms') /\ AddedIsNew' /\ Fetched1' /\ ~trapped'
  BY OrderlyParts
<1>1. /\ tasks' = tasks \ {t} /\ UNCHANGED <<seen, raced>>
      /\ \A r \in Room \ {t.room} : r \in lost' <=> r \in lost
  BY DEF Completes, UserFetchedEmpty, MessageFetched, Healed
<1>2. Orderly /\ OneFetch /\ OneEach(chatRooms) /\ AddedIsNew /\ Fetched1 /\ OneFetchOneRow
  BY <1>1, OrderlyParts DEF Orderly, OrderlyInv
<1>3. /\ trapped' = FALSE /\ OneEach(chatRooms') /\ Has(chatRooms', RowOf(t))
      /\ \A y : Has(chatRooms, y) /\ y.room # t.room => Has(chatRooms', y)
      /\ \A y : Has(chatRooms', y) => y = RowOf(t) \/ Has(chatRooms, y)
  BY <1>2, ArrayAfter, OrderlyArrayAfter
<1>4. RowOf(t).room = t.room /\ RowOf(t).latest = seen[t.room]
  BY <1>2, TaskType DEF OneFetch
<1>5. OneFetch'
  BY <1>1, <1>2 DEF OneFetch
<1>6. AddedIsNew'
  <2> SUFFICES ASSUME NEW o \in tasks, o # t, o.type = "added", NEW i \in DOMAIN chatRooms',
                      chatRooms'[i].room = o.room
               PROVE  FALSE
    BY <1>1 DEF AddedIsNew, RowsOf
  <2>1. o.room # t.room
    BY <1>2 DEF OneFetch
  <2>2. Has(chatRooms, chatRooms'[i])
    BY <1>3, <1>4, <2>1 DEF Has
  <2> QED BY <1>2, <2>2 DEF AddedIsNew, RowsOf, Has
<1>7. Fetched1'
  <2> SUFFICES ASSUME NEW r \in Room, seen[r] # None, ~Pending(r)', r \notin lost'
               PROVE  \E i \in DOMAIN chatRooms' :
                         chatRooms'[i].room = r /\ chatRooms'[i].latest = seen[r]
    BY <1>1 DEF Fetched1, RowsOf
  <2>1. CASE r = t.room
    BY <1>3, <1>4, <2>1 DEF Has
  <2>2. CASE r # t.room
    <3>1. ~Pending(r) /\ r \notin lost
      BY <1>1, <2>2 DEF Pending
    <3>2. PICK i \in DOMAIN chatRooms : chatRooms[i].room = r /\ chatRooms[i].latest = seen[r]
      BY <1>2, <3>1 DEF Fetched1, RowsOf
    <3>3. Has(chatRooms', chatRooms[i])
      BY <1>3, <2>2, <3>2 DEF Has
    <3> QED BY <3>2, <3>3 DEF Has
  <2> QED BY <2>1, <2>2
<1> QED BY <1>3, <1>5, <1>6, <1>7

LEMMA OrderlyStep ==
  ASSUME TypeOK, Listening, OrderlyInv, [Next]_vars
  PROVE  OrderlyInv'
<1>0. NewestFirst /\ RowsWereReported
  BY DEF Listening
<1>1. ASSUME NEW S \in SUBSET Room, Snapshot(S) PROVE OrderlyInv'
  BY <1>0, <1>1, OrderlySnapshot
<1>2. ASSUME NEW t \in tasks, Completes(t) PROVE OrderlyInv'
  BY <1>0, <1>2, OrderlyCompletion
<1>3. ASSUME NEW t \in tasks, UserFetched(t) \/ FetchFails(t) PROVE OrderlyInv'
  <2> DEFINE m == [t EXCEPT !.step = "message"]
  <2>1. /\ UNCHANGED <<seen, raced, chatRooms, trapped>> /\ lost \subseteq lost'
        /\ \/ tasks' = tasks \ {t} /\ t.room \in lost'
           \/ tasks' = (tasks \ {t}) \cup {m}
    BY <1>3 DEF UserFetched, FetchFails
  <2>2. m.room = t.room /\ m.latest = t.latest /\ m.type = t.type
    BY TaskType DEF Task
  <2> HIDE DEF m
  <2> SUFFICES ASSUME Orderly'
               PROVE  OneFetch' /\ OneEach(chatRooms') /\ AddedIsNew' /\ Fetched1' /\ ~trapped'
    BY OrderlyParts
  <2>3. Orderly /\ OneFetch /\ OneEach(chatRooms) /\ AddedIsNew /\ Fetched1 /\ ~trapped
    BY <2>1, OrderlyParts DEF Orderly
  <2>4. OneFetch'
    BY <2>1, <2>2, <2>3 DEF OneFetch
  <2>5. AddedIsNew'
    BY <2>1, <2>2, <2>3 DEF AddedIsNew, RowsOf
  <2>6. \A r \in Room : Pending(r) /\ r \notin lost' => Pending(r)'
    BY <2>1, <2>2 DEF Pending
  <2>7. Fetched1'
    BY <2>1, <2>3, <2>6 DEF Fetched1, RowsOf
  <2> QED BY <2>1, <2>3, <2>4, <2>5, <2>7
<1>4. CASE Relaunch
  <2>1. /\ tasks' = {} /\ chatRooms' = <<>> /\ trapped' = FALSE
        /\ \A r \in Room : seen'[r] = None
    BY <1>4 DEF Relaunch
  <2>2. OneFetch' /\ OneEach(chatRooms') /\ AddedIsNew' /\ Fetched1'
    BY <2>1 DEF OneFetch, OneEach, AddedIsNew, Fetched1
  <2> QED BY <2>1, <2>2, OrderlyParts
<1>5. CASE UNCHANGED <<seen, tasks, chatRooms, trapped, raced, lost>>
  BY <1>5 DEF OrderlyInv, OneFetchOneRow, FetchedIsListed, CrashOnlyAfterRace, Orderly,
              RowsOf, Pending
<1>6. (\/ ListenerFails \/ UNCHANGED vars
       \/ \E r \in Room : CreateRoom(r) \/ SendMessage(r))
      => UNCHANGED <<seen, tasks, chatRooms, trapped, raced, lost>>
  BY DEF ListenerFails, CreateRoom, SendMessage, app, vars
<1> QED BY <1>1, <1>2, <1>3, <1>4, <1>5, <1>6 DEF Next, Fetched, Completes

-----------------------------------------------------------------------------
(* The theorems.                                                             *)

LEMMA InitIsSound == Init => IInv
<1> SUFFICES ASSUME Init PROVE IInv
  OBVIOUS
<1>1. TypeOK
  <2>1. now \in 0 .. MaxTime /\ launches \in 1 .. MaxLaunch
    BY BoundAssumption DEF Init
  <2>2. /\ created \in [Room -> {None} \cup Time]
        /\ latest \in [Room -> {Empty} \cup Time]
        /\ seen \in [Room -> {None, Empty} \cup Time]
    BY DEF Init
  <2>3. chatRooms \in Seq(Row) /\ tasks \subseteq Task /\ lost \subseteq Room
    BY DEF Init
  <2>4. /\ listener \in {"waiting", "live", "failed"}
        /\ prompt \in BOOLEAN /\ trapped \in BOOLEAN /\ raced \in BOOLEAN
    BY DEF Init
  <2> QED BY <2>1, <2>2, <2>3, <2>4 DEF TypeOK
<1>2. NewestFirst /\ RowsWereReported /\ PromptOnlyWhenEmpty /\ TasksWereReported
  BY DEF Init, NewestFirst, RowsWereReported, PromptOnlyWhenEmpty, TasksWereReported
<1>3. ServerIsSound /\ SeenIsPast
  BY DEF Init, ServerIsSound, SeenIsPast, None, Empty
<1>4. OneFetchOneRow /\ FetchedIsListed /\ CrashOnlyAfterRace
  BY DEF Init, OneFetchOneRow, FetchedIsListed, CrashOnlyAfterRace, RowsOf
<1> QED BY <1>1, <1>2, <1>3, <1>4 DEF IInv, ListIsSound

THEOREM Invariant == Spec => []IInv
<1>1. ASSUME IInv, [Next]_vars PROVE IInv'
  <2>1. TypeOK /\ Listening /\ ServerIsSound /\ SeenIsPast /\ OrderlyInv
    BY <1>1 DEF IInv, ListIsSound, Listening, OrderlyInv
  <2>2. TypeOK' /\ ServerIsSound' /\ SeenIsPast'
    BY <1>1, <2>1, TypeStep, PastStep DEF Listening
  <2>3. Listening'
    BY <1>1, <2>1, <2>2, ListeningStep
  <2>4. OrderlyInv'
    BY <1>1, <2>1, OrderlyStep
  <2> QED BY <2>2, <2>3, <2>4 DEF IInv, ListIsSound, Listening, OrderlyInv
<1> QED BY <1>1, InitIsSound, PTL DEF Spec

(* In every state of the chat list screen the array behind its table is      *)
(* sorted, shows no version that the listener did not report, and the prompt *)
(* does not stand over rows, whatever order the fetches that addSnapshot     *)
(* started came back in (ChatListViewController, 68-190).                    *)
THEOREM ListStaysSound == Spec => []ListIsSound
<1>1. IInv => ListIsSound
  BY DEF IInv
<1> QED BY <1>1, Invariant, PTL

(* The removal loop of handleAddedDocumentChange's second fetch runs beyond  *)
(* the array only when a partner has two rooms or two changes of a room were *)
(* under way together: without either it removes at most one row.            *)
THEOREM NoCrashWhenOrderly == Spec => []CrashOnlyAfterRace
<1>1. IInv => CrashOnlyAfterRace
  BY DEF IInv
<1> QED BY <1>1, Invariant, PTL

(* With such changes a room whose fetches are done and did not fail has one  *)
(* row, and the row shows the version that the listener reported last.       *)
THEOREM SettledRoomIsListed == Spec => []SettledRoomHasItsRow
<1>1. IInv => SettledRoomHasItsRow
  <2> SUFFICES ASSUME IInv, NEW r \in Room,
                      Orderly, seen[r] # None, ~Pending(r), r \notin lost
               PROVE  \E i \in DOMAIN chatRooms :
                        RowsOf(r) = {i} /\ chatRooms[i].latest = seen[r]
    BY DEF SettledRoomHasItsRow
  <2>1. PICK i \in RowsOf(r) : chatRooms[i].latest = seen[r]
    BY DEF IInv, FetchedIsListed
  <2>2. \A j \in RowsOf(r) : j = i
    BY DEF IInv, OneFetchOneRow, RowsOf
  <2>3. RowsOf(r) = {i}
    BY <2>2
  <2> QED BY <2>1, <2>3 DEF RowsOf
<1> QED BY <1>1, Invariant, PTL

(* With such changes the row of a room is replaced and never lost: each room *)
(* listed before a completion is listed after it.                            *)
THEOREM RowsAreKept == Spec => ListedStaysListed
<1> DEFINE Kept == \A r \in Room : (RowsOf(r) # {} /\ Orderly' /\ launches' = launches)
                                     => RowsOf(r)' # {}
<1>1. ASSUME IInv, [Next]_vars PROVE Kept
  <2> SUFFICES ASSUME NEW r \in Room, RowsOf(r) # {}, Orderly', launches' = launches
               PROVE  RowsOf(r)' # {}
    OBVIOUS
  <2>1. ASSUME NEW t \in tasks, Completes(t) PROVE RowsOf(r)' # {}
    <3>1. TypeOK /\ NewestFirst /\ RowsWereReported /\ OneFetchOneRow
      BY <1>1 DEF IInv, ListIsSound
    <3>2. raced' = raced
      BY <2>1 DEF Completes, UserFetchedEmpty, MessageFetched
    <3>3. Orderly
      BY <3>2 DEF Orderly
    <3>4. /\ Has(chatRooms', RowOf(t)) /\ RowOf(t).room = t.room
          /\ \A y : Has(chatRooms, y) /\ y.room # t.room => Has(chatRooms', y)
      BY <2>1, <3>1, <3>3, OrderlyArrayAfter, TaskType
    <3>5. PICK i \in DOMAIN chatRooms : chatRooms[i].room = r
      BY DEF RowsOf
    <3>6. PICK y : Has(chatRooms', y) /\ y.room = r
      BY <3>4, <3>5 DEF Has
    <3>7. PICK j \in DOMAIN chatRooms' : chatRooms'[j] = y
      BY <3>6 DEF Has
    <3> QED BY <3>6, <3>7 DEF RowsOf
  <2>2. CASE Relaunch
    <3>1. launches \in Nat /\ launches' = launches + 1
      BY <1>1, <2>2, BoundAssumption DEF IInv, ListIsSound, TypeOK, Relaunch
    <3> QED BY <3>1
  <2>3. CASE chatRooms' = chatRooms
    BY <2>3 DEF RowsOf
  <2>4. chatRooms' = chatRooms \/ Relaunch \/ \E t \in tasks : Completes(t)
    BY <1>1 DEF Next, CreateRoom, SendMessage, Snapshot, Fetched, UserFetched, FetchFails,
                ListenerFails, Completes, app, vars
  <2> QED BY <2>1, <2>2, <2>3, <2>4
<1>2. Spec => [][Kept]_vars
  <2>1. IInv /\ [Next]_vars => [Kept]_vars
    BY <1>1
  <2> QED BY <2>1, Invariant, PTL DEF Spec
<1> QED BY <1>2 DEF ListedStaysListed
=============================================================================
