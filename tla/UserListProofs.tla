--------------------------- MODULE UserListProofs ---------------------------
(* What holds of UserList for any finite set of users, any number of writes, *)
(* appearances, listeners and snapshots.                                     *)
EXTENDS UserList, FiniteSetTheorems, SequenceTheorems, WellFoundedInduction, TLAPS

(* The shape of an array of rows: some row, order, one row per user, rows of *)
(* users who have signed up.                                                 *)
Has(s, y) == \E i \in DOMAIN s : s[i] = y
InOrder(s) == \A i, j \in DOMAIN s : i < j => joined[s[i].user] >= joined[s[j].user]
OneEach(s) == \A i, j \in DOMAIN s : s[i].user = s[j].user => i = j
HaveJoined(s) == \A i \in DOMAIN s : joined[s[i].user] # None

(* Users have a document once they have signed up; rooms are written in the  *)
(* past.                                                                     *)
ServerIsSound ==
  \A u \in User : (version[u] # None <=> joined[u] # None) /\ room[u] <= now

(* Listeners report what there was.                                          *)
SeenIsPast ==
  /\ \A l \in BagToSet(userListeners), u \in User : l.seen[u] # None => version[u] # None
  /\ \A l \in BagToSet(roomListeners), u \in User : l.seen[u] <= now

(* Both arrays are in order, of users whose place in it is settled.          *)
ArraysInOrder ==
  /\ InOrder(showAllUsers) /\ HaveJoined(showAllUsers)
  /\ InOrder(users) /\ HaveJoined(users)

(* Nothing has been reported yet.                                            *)
Fresh == roomRegs = 0 /\ roomListeners = EmptyBag /\ showAllUsers = <<>>

(* One appearance registers one users listener, before anything is reported. *)
OneListener ==
  /\ userRegs <= appears
  /\ appears = 0 => userListeners = EmptyBag /\ Fresh
  /\ Single => \/ userRegs = 0
               \/ userRegs = 1 /\ userListeners = EmptyBag /\ Fresh
  /\ Single => \/ userListeners = EmptyBag
               \/ \E l \in Listener : userListeners = SetToBag({l})

(* That listener's last snapshot says which rows there can be.               *)
RowsWereReported ==
  Single => \A l \in BagToSet(userListeners), i \in DOMAIN showAllUsers :
              showAllUsers[i].version = l.seen[showAllUsers[i].user]

(* So a user has one row, and the loops meet one row at most.                *)
RowsOnce == Single => OneEach(showAllUsers) /\ ~trapped

(* Who was reported is listed, but for a partner.                            *)
ReportedIsListed ==
  Single => \A l \in BagToSet(userListeners), u \in Other :
              l.seen[u] # None =>
                room[u] # None \/ Has(showAllUsers, [user |-> u, version |-> l.seen[u]])

(* Behind a row there is a rooms listener to come or registered; it has yet  *)
(* to report the room of a partner who is listed.                            *)
RoomsFollow ==
  (Single /\ ~failed) =>
    /\ showAllUsers # <<>> => roomRegs > 0 \/ BagToSet(roomListeners) # {}
    /\ \A i \in DOMAIN showAllUsers :
         LET u == showAllUsers[i].user
         IN  room[u] # None =>
               roomRegs > 0 \/ \E r \in BagToSet(roomListeners) : r.seen[u] # room[u]

(* A table that does not show the array waits for a rooms listener's first   *)
(* snapshot.                                                                 *)
TableFollows ==
  (Single /\ ~failed) =>
    \/ users = Found(showAllUsers, searchText)
    \/ roomRegs > 0 \/ \E r \in BagToSet(roomListeners) : r.first

OneAppearance ==
  /\ OneListener /\ RowsWereReported /\ RowsOnce /\ ReportedIsListed
  /\ RoomsFollow /\ TableFollows

IInv == TypeOK /\ ServerIsSound /\ SeenIsPast /\ ArraysInOrder /\ OneAppearance

-----------------------------------------------------------------------------
(* Loops.                                                                    *)

(* Induction over the turns of a loop, for a set of turns.                   *)
LEMMA UpTo ==
  ASSUME NEW n \in Nat, NEW Good, 0 \in Good, \A i \in 1 .. n : i - 1 \in Good => i \in Good
  PROVE  n \in Good
<1> DEFINE Bad == {i \in 0 .. n : i \notin Good}
<1>1. SUFFICES ASSUME Bad # {} PROVE FALSE
  OBVIOUS
<1> DEFINE Below == OpToRel(<, Nat)
<1>2. PICK m \in Bad : \A k \in Bad : <<k, m>> \notin Below
  <2>1. Bad \subseteq Nat
    OBVIOUS
  <2>2. IsWellFoundedOn(Below, Nat)
    BY NatLessThanWellFounded
  <2> HIDE DEF Bad, Below
  <2> QED BY <1>1, <2>1, <2>2, WFMin
<1>3. m \in 1 .. n /\ m - 1 \in 0 .. n /\ m - 1 < m
  <2>1. m \in 0 .. n /\ m # 0
    BY <1>2
  <2> QED BY <2>1
<1>4. m - 1 \notin Bad
  <2>1. <<m - 1, m>> \in OpToRel(<, Nat)
    BY <1>3 DEF OpToRel
  <2> HIDE DEF Bad
  <2> QED BY <1>2, <2>1
<1> QED BY <1>2, <1>3, <1>4

(* A loop whose turns stay within a set has a run.                           *)
IsRun(f, T, base, n, turn) ==
  /\ f \in [0 .. n -> T] /\ f[0] = base
  /\ \A i \in 1 .. n : f[i] = turn[i][f[i - 1]]

LEMMA LoopExists ==
  ASSUME NEW T, NEW base \in T, NEW n \in Nat, NEW turn \in [1 .. n -> [T -> T]]
  PROVE  \E f : IsRun(f, T, base, n, turn)
<1> DEFINE Run(f, m) ==
             /\ f \in [0 .. m -> T] /\ f[0] = base
             /\ \A i \in 1 .. m : f[i] = turn[i][f[i - 1]]
           Good == {m \in Nat : m <= n => \E f : Run(f, m)}
<1>1. 0 \in Good
  <2> DEFINE g == [i \in 0 .. 0 |-> base]
  <2>1. Run(g, 0)
    OBVIOUS
  <2> QED BY <2>1
<1>2. ASSUME NEW m \in 1 .. n, m - 1 \in Good PROVE m \in Good
  <2>1. m \in Nat /\ m # 0 /\ m - 1 \in Nat /\ m - 1 <= n
    OBVIOUS
  <2>2. PICK f : Run(f, m - 1)
    BY <1>2, <2>1
  <2> DEFINE g == [i \in 0 .. m |-> IF i < m THEN f[i] ELSE turn[m][f[m - 1]]]
  <2>3. f[m - 1] \in T /\ turn[m][f[m - 1]] \in T
    BY <2>1, <2>2
  <2>4. g \in [0 .. m -> T] /\ g[0] = base
    BY <2>1, <2>2, <2>3
  <2>5. ASSUME NEW i \in 1 .. m PROVE g[i] = turn[i][g[i - 1]]
    <3>1. CASE i = m
      BY <2>1, <3>1
    <3>2. CASE i # m
      <4>1. i \in 1 .. m - 1 /\ i < m /\ i - 1 < m /\ i \in 0 .. m /\ i - 1 \in 0 .. m
        BY <2>1, <3>2
      <4> QED BY <2>2, <4>1
    <3> QED BY <3>1, <3>2
  <2>6. Run(g, m)
    BY <2>4, <2>5
  <2> QED BY <2>1, <2>6
<1> HIDE DEF Good
<1>3. n \in Good
  BY <1>1, <1>2, UpTo
<1> QED BY <1>3 DEF Good, IsRun

LEMMA RemoveAtType ==
  ASSUME NEW S, NEW s \in Seq(S), NEW i \in 1 .. Len(s)
  PROVE  /\ RemoveAt(s, i) \in Seq(S) /\ Len(RemoveAt(s, i)) = Len(s) - 1
         /\ \A j \in 1 .. Len(s) - 1 : RemoveAt(s, i)[j] = IF j < i THEN s[j] ELSE s[j + 1]
<1>1. Len(s) \in Nat /\ i \in Nat /\ 1 <= i /\ i <= Len(s) /\ \A j \in 1 .. Len(s) : s[j] \in S
  OBVIOUS
<1> DEFINE a == SubSeq(s, 1, i - 1)
           b == SubSeq(s, i + 1, Len(s))
<1>2. /\ a \in Seq(S) /\ Len(a) = i - 1
      /\ \A j \in 1 .. i - 1 : a[j] = s[j]
  <2> DEFINE n == i - 1
  <2>1. n \in Int /\ n >= 0 /\ \A j \in 1 .. n : s[j] \in S
    BY <1>1
  <2> HIDE DEF n
  <2>2. /\ SubSeq(s, 1, n) \in Seq(S)
        /\ Len(SubSeq(s, 1, n)) = IF 1 <= n THEN n - 1 + 1 ELSE 0
        /\ \A j \in 1 .. n - 1 + 1 : SubSeq(s, 1, n)[j] = s[1 + j - 1]
    BY <2>1, SubSeqProperties
  <2>3. Len(SubSeq(s, 1, n)) = n /\ \A j \in 1 .. n : SubSeq(s, 1, n)[j] = s[j]
    BY <2>1, <2>2
  <2> QED BY <2>2, <2>3 DEF n
<1>3. /\ b \in Seq(S) /\ Len(b) = Len(s) - i
      /\ \A j \in 1 .. Len(s) - i : b[j] = s[i + j]
  <2> DEFINE m == i + 1
             n == Len(s)
  <2>1. m \in Int /\ n \in Int /\ m <= n + 1 /\ \A j \in m .. n : s[j] \in S
    BY <1>1
  <2>2. n - m + 1 = Len(s) - i /\ \A j \in 1 .. Len(s) - i : m + j - 1 = i + j
    BY <1>1
  <2> HIDE DEF m, n
  <2>3. /\ SubSeq(s, m, n) \in Seq(S)
        /\ Len(SubSeq(s, m, n)) = IF m <= n THEN n - m + 1 ELSE 0
        /\ \A j \in 1 .. n - m + 1 : SubSeq(s, m, n)[j] = s[m + j - 1]
    BY <2>1, SubSeqProperties
  <2>4. Len(SubSeq(s, m, n)) = n - m + 1
    BY <2>1, <2>3
  <2> QED BY <2>2, <2>3, <2>4 DEF m, n
<1>4. RemoveAt(s, i) = a \o b
  BY DEF RemoveAt
<1> HIDE DEF a, b
<1>5. /\ a \o b \in Seq(S) /\ Len(a \o b) = Len(a) + Len(b)
      /\ \A j \in 1 .. Len(a) + Len(b) : (a \o b)[j] = IF j <= Len(a) THEN a[j] ELSE b[j - Len(a)]
  BY <1>2, <1>3, ConcatProperties
<1>6. ASSUME NEW j \in 1 .. Len(s) - 1
      PROVE  (a \o b)[j] = IF j < i THEN s[j] ELSE s[j + 1]
  <2>1. CASE j < i
    BY <1>1, <1>2, <1>3, <1>5, <2>1
  <2>2. CASE ~(j < i)
    <3>1. j - (i - 1) \in 1 .. Len(s) - i /\ i + (j - (i - 1)) = j + 1
      BY <1>1, <2>2
    <3>2. (a \o b)[j] = b[j - (i - 1)]
      BY <1>1, <1>2, <1>3, <1>5, <2>2
    <3> QED BY <1>1, <1>3, <2>2, <3>1, <3>2
  <2> QED BY <2>1, <2>2
<1> QED BY <1>1, <1>2, <1>3, <1>4, <1>5, <1>6

(* The removal loop: rows are taken out, or the app crashes.                 *)
Loop(S) == [rows : Seq(S), trapped : BOOLEAN]

LEMMA RemovedType ==
  ASSUME NEW S, NEW acc \in Loop(S), NEW i \in Nat \ {0}
  PROVE  Removed(acc, i) \in Loop(S)
<1>1. CASE acc.trapped \/ i > Len(acc.rows)
  BY <1>1 DEF Removed, Loop
<1>2. CASE ~(acc.trapped \/ i > Len(acc.rows))
  <2>1. acc.rows \in Seq(S) /\ i \in 1 .. Len(acc.rows)
    BY <1>2 DEF Loop
  <2>2. RemoveAt(acc.rows, i) \in Seq(S)
    BY <2>1, RemoveAtType
  <2> QED BY <1>2, <2>2 DEF Removed, Loop
<1> QED BY <1>1, <1>2

(* The run of the loop: f[i] is the array after i turns.                     *)
Removes(f, rows, hits) ==
  /\ f[0] = Untouched(rows) /\ RemovedEach(rows, hits) = f[Len(rows)]
  /\ \A i \in 1 .. Len(rows) : f[i] = IF i \in hits THEN Removed(f[i - 1], i) ELSE f[i - 1]

LEMMA RemovalRuns ==
  ASSUME NEW S, NEW rows \in Seq(S), NEW hits
  PROVE  \E f \in [0 .. Len(rows) -> Loop(S)] : Removes(f, rows, hits)
<1> DEFINE n == Len(rows)
           turn == [i \in 1 .. n |-> [acc \in Loop(S) |->
                      IF i \in hits THEN Removed(acc, i) ELSE acc]]
           Turns(f) == [i \in 0 .. n |->
                         IF i = 0 THEN Untouched(rows)
                         ELSE IF i \in hits THEN Removed(f[i - 1], i) ELSE f[i - 1]]
           loop[i \in 0 .. Len(rows)] ==
             IF i = 0 THEN Untouched(rows)
             ELSE IF i \in hits THEN Removed(loop[i - 1], i) ELSE loop[i - 1]
<1>1. n \in Nat /\ Untouched(rows) \in Loop(S)
  BY DEF Untouched, Loop
<1>2. turn \in [1 .. n -> [Loop(S) -> Loop(S)]]
  BY RemovedType
<1>3. \E f : IsRun(f, Loop(S), Untouched(rows), n, turn)
  <2> HIDE DEF turn, n
  <2> QED BY <1>1, <1>2, LoopExists
<1>4. PICK f \in [0 .. n -> Loop(S)] :
        f[0] = Untouched(rows) /\ \A i \in 1 .. n : f[i] = turn[i][f[i - 1]]
  BY <1>3 DEF IsRun
<1>5. \A i \in 1 .. n : f[i] = IF i \in hits THEN Removed(f[i - 1], i) ELSE f[i - 1]
  BY <1>1, <1>4
<1>6. f = Turns(f)
  BY <1>1, <1>4, <1>5
<1>7. loop = Turns(loop)
  BY <1>6
<1>8. RemovedEach(rows, hits) = loop[n]
  BY DEF RemovedEach
<1> HIDE DEF loop
<1> DEFINE Same == {m \in Nat : m <= n => loop[m] = f[m]}
<1>9. 0 \in Same
  BY <1>1, <1>4, <1>7
<1>10. ASSUME NEW m \in 1 .. n, m - 1 \in Same PROVE m \in Same
  <2>1. m \in 0 .. n /\ m # 0 /\ m \in Nat /\ m - 1 <= n
    BY <1>1
  <2>2. loop[m] = IF m \in hits THEN Removed(loop[m - 1], m) ELSE loop[m - 1]
    BY <1>7, <2>1
  <2> QED BY <1>5, <1>10, <2>1, <2>2
<1> HIDE DEF Same, n
<1>11. n \in Same
  BY <1>1, <1>9, <1>10, UpTo
<1> QED BY <1>1, <1>4, <1>5, <1>8, <1>11 DEF Same, n, Removes

LEMMA NoHit ==
  ASSUME NEW S, NEW rows \in Seq(S), NEW hits, \A i \in 1 .. Len(rows) : i \notin hits
  PROVE  RemovedEach(rows, hits) = Untouched(rows)
<1>0. PICK f \in [0 .. Len(rows) -> Loop(S)] : Removes(f, rows, hits)
  BY RemovalRuns
<1>1. /\ f[0] = Untouched(rows) /\ RemovedEach(rows, hits) = f[Len(rows)]
      /\ \A i \in 1 .. Len(rows) : f[i] = IF i \in hits THEN Removed(f[i - 1], i) ELSE f[i - 1]
  BY <1>0 DEF Removes
<1> DEFINE Good == {m \in Nat : f[m] = Untouched(rows)}
<1>2. 0 \in Good
  BY <1>1
<1>3. ASSUME NEW m \in 1 .. Len(rows), m - 1 \in Good PROVE m \in Good
  BY <1>1, <1>3
<1>4. Len(rows) \in Nat
  OBVIOUS
<1> HIDE DEF Good
<1>5. Len(rows) \in Good
  BY <1>2, <1>3, <1>4, UpTo
<1> QED BY <1>1, <1>5 DEF Good

LEMMA OneHit ==
  ASSUME NEW S, NEW rows \in Seq(S), NEW hits, NEW h \in 1 .. Len(rows),
         \A i \in 1 .. Len(rows) : i \in hits <=> i = h
  PROVE  RemovedEach(rows, hits) = [rows |-> RemoveAt(rows, h), trapped |-> FALSE]
<1>0. PICK f \in [0 .. Len(rows) -> Loop(S)] : Removes(f, rows, hits)
  BY RemovalRuns
<1>1. /\ f[0] = Untouched(rows) /\ RemovedEach(rows, hits) = f[Len(rows)]
      /\ \A i \in 1 .. Len(rows) : f[i] = IF i \in hits THEN Removed(f[i - 1], i) ELSE f[i - 1]
  BY <1>0 DEF Removes
<1> DEFINE Gone == [rows |-> RemoveAt(rows, h), trapped |-> FALSE]
           Good == {m \in Nat : f[m] = IF m < h THEN Untouched(rows) ELSE Gone}
<1>2. 0 \in Good
  BY <1>1
<1>3. Removed(Untouched(rows), h) = Gone
  <2>1. ~(h > Len(rows))
    OBVIOUS
  <2> QED BY <2>1 DEF Removed, Untouched
<1> HIDE DEF Gone
<1>4. ASSUME NEW m \in 1 .. Len(rows), m - 1 \in Good PROVE m \in Good
  <2>1. m \in Nat /\ m - 1 \in Nat /\ h \in Nat
    OBVIOUS
  <2>2. f[m - 1] = IF m - 1 < h THEN Untouched(rows) ELSE Gone
    BY <1>4
  <2>3. f[m] = IF m = h THEN Removed(f[m - 1], m) ELSE f[m - 1]
    BY <1>1
  <2>4. CASE m < h
    BY <2>1, <2>2, <2>3, <2>4
  <2>5. CASE m = h
    BY <1>3, <2>1, <2>2, <2>3, <2>5
  <2>6. CASE m > h
    BY <2>1, <2>2, <2>3, <2>6
  <2> QED BY <2>1, <2>4, <2>5, <2>6
<1>5. Len(rows) \in Nat /\ ~(Len(rows) < h)
  OBVIOUS
<1> HIDE DEF Good
<1>6. Len(rows) \in Good
  BY <1>2, <1>4, <1>5, UpTo
<1> QED BY <1>1, <1>5, <1>6 DEF Good, Gone

(* A row is taken out of an array: the others stay in their order.           *)
LEMMA RowsWithout ==
  ASSUME NEW rows \in Seq(Row), NEW h \in 1 .. Len(rows)
  PROVE  LET left == RemoveAt(rows, h)
         IN  /\ left \in Seq(Row)
             /\ InOrder(rows) => InOrder(left)
             /\ \A y : Has(left, y) => Has(rows, y)
<1> DEFINE left == RemoveAt(rows, h)
           old(j) == IF j < h THEN j ELSE j + 1
<1>1. /\ left \in Seq(Row) /\ DOMAIN left = 1 .. Len(rows) - 1
      /\ DOMAIN rows = 1 .. Len(rows) /\ Len(rows) \in Nat
      /\ \A j \in DOMAIN left : left[j] = IF j < h THEN rows[j] ELSE rows[j + 1]
  <2>1. /\ left \in Seq(Row) /\ Len(left) = Len(rows) - 1
        /\ \A j \in 1 .. Len(rows) - 1 : left[j] = IF j < h THEN rows[j] ELSE rows[j + 1]
    BY RemoveAtType
  <2>2. DOMAIN rows = 1 .. Len(rows) /\ Len(rows) \in Nat
    BY LenProperties
  <2> HIDE DEF left
  <2>3. DOMAIN left = 1 .. Len(left)
    BY <2>1, LenProperties
  <2> QED BY <2>1, <2>2, <2>3
<1> HIDE DEF left
<1>2. /\ \A j \in DOMAIN left : old(j) \in DOMAIN rows /\ left[j] = rows[old(j)]
      /\ \A j, k \in DOMAIN left : j < k => old(j) < old(k)
  BY <1>1
<1> HIDE DEF old
<1>3. InOrder(rows) => InOrder(left)
  BY <1>2 DEF InOrder
<1>4. \A y : Has(left, y) => Has(rows, y)
  BY <1>2 DEF Has
<1> QED BY <1>1, <1>3, <1>4 DEF left

(* Of an array with one row for each user only that row is missing.          *)
LEMMA RowGone ==
  ASSUME NEW rows \in Seq(Row), OneEach(rows), NEW h \in 1 .. Len(rows)
  PROVE  LET left == RemoveAt(rows, h)
         IN  /\ OneEach(left)
             /\ \A y : Has(left, y) <=> Has(rows, y) /\ y.user # rows[h].user
<1> DEFINE left == RemoveAt(rows, h)
<1>1. /\ left \in Seq(Row) /\ DOMAIN left = 1 .. Len(rows) - 1
      /\ DOMAIN rows = 1 .. Len(rows) /\ Len(rows) \in Nat
      /\ \A j \in DOMAIN left : left[j] = IF j < h THEN rows[j] ELSE rows[j + 1]
  <2>1. /\ left \in Seq(Row) /\ Len(left) = Len(rows) - 1
        /\ \A j \in 1 .. Len(rows) - 1 : left[j] = IF j < h THEN rows[j] ELSE rows[j + 1]
    BY RemoveAtType
  <2>2. DOMAIN rows = 1 .. Len(rows) /\ Len(rows) \in Nat
    BY LenProperties
  <2> HIDE DEF left
  <2>3. DOMAIN left = 1 .. Len(left)
    BY <2>1, LenProperties
  <2> QED BY <2>1, <2>2, <2>3
<1> HIDE DEF left
<1>2. OneEach(left)
  <2> SUFFICES ASSUME NEW i \in DOMAIN left, NEW j \in DOMAIN left, left[i].user = left[j].user
               PROVE  i = j
    BY DEF OneEach
  <2> DEFINE a == IF i < h THEN i ELSE i + 1
             b == IF j < h THEN j ELSE j + 1
  <2>1. a \in DOMAIN rows /\ b \in DOMAIN rows /\ left[i] = rows[a] /\ left[j] = rows[b]
    BY <1>1
  <2> HIDE DEF a, b
  <2>2. a = b
    BY <2>1 DEF OneEach
  <2> QED BY <1>1, <2>2 DEF a, b
<1>3. ASSUME NEW y, Has(left, y) PROVE Has(rows, y) /\ y.user # rows[h].user
  <2>1. PICK i \in DOMAIN left : left[i] = y
    BY <1>3 DEF Has
  <2> DEFINE a == IF i < h THEN i ELSE i + 1
  <2>2. a \in DOMAIN rows /\ rows[a] = y /\ a # h
    BY <1>1, <2>1
  <2> HIDE DEF a
  <2> QED BY <1>1, <2>2 DEF Has, OneEach
<1>4. ASSUME NEW y, Has(rows, y), y.user # rows[h].user PROVE Has(left, y)
  <2>1. PICK a \in DOMAIN rows : rows[a] = y
    BY <1>4 DEF Has
  <2>2. a # h
    BY <1>4, <2>1
  <2> DEFINE i == IF a < h THEN a ELSE a - 1
  <2>3. i \in DOMAIN left /\ left[i] = y
    BY <1>1, <2>1, <2>2
  <2> HIDE DEF i
  <2> QED BY <2>3 DEF Has
<1> QED BY <1>2, <1>3, <1>4 DEF left

(* Whatever the loop meets, it leaves rows of the array, in their order.     *)
LEMMA RemovalKeepsOrder ==
  ASSUME NEW rows \in Seq(Row), NEW hits
  PROVE  LET left == RemovedEach(rows, hits)
         IN  /\ left \in Loop(Row)
             /\ InOrder(rows) => InOrder(left.rows)
             /\ \A y : Has(left.rows, y) => Has(rows, y)
<1>0. PICK f \in [0 .. Len(rows) -> Loop(Row)] : Removes(f, rows, hits)
  BY RemovalRuns
<1>1. /\ f[0] = Untouched(rows) /\ RemovedEach(rows, hits) = f[Len(rows)]
      /\ \A i \in 1 .. Len(rows) : f[i] = IF i \in hits THEN Removed(f[i - 1], i) ELSE f[i - 1]
  BY <1>0 DEF Removes
<1> DEFINE Fine(acc) == /\ InOrder(rows) => InOrder(acc.rows)
                        /\ \A y : Has(acc.rows, y) => Has(rows, y)
           Good == {m \in Nat : m <= Len(rows) => Fine(f[m])}
<1>2. 0 \in Good
  BY <1>1 DEF Untouched
<1>3. ASSUME NEW acc \in Loop(Row), NEW i \in Nat \ {0}, Fine(acc) PROVE Fine(Removed(acc, i))
  <2>1. acc.rows \in Seq(Row) /\ Len(acc.rows) \in Nat
    BY DEF Loop
  <2>2. CASE acc.trapped \/ i > Len(acc.rows)
    <3>1. Removed(acc, i).rows = acc.rows
      BY <2>2 DEF Removed, Loop
    <3> QED BY <1>3, <3>1
  <2>3. CASE ~(acc.trapped \/ i > Len(acc.rows))
    <3>1. Removed(acc, i).rows = RemoveAt(acc.rows, i)
      BY <2>3 DEF Removed, Loop
    <3>2. i \in 1 .. Len(acc.rows)
      BY <2>1, <2>3
    <3>3. /\ InOrder(acc.rows) => InOrder(RemoveAt(acc.rows, i))
          /\ \A y : Has(RemoveAt(acc.rows, i), y) => Has(acc.rows, y)
      BY <2>1, <3>2, RowsWithout
    <3> QED BY <1>3, <3>1, <3>3
  <2> QED BY <2>2, <2>3
<1> HIDE DEF Fine
<1>4. ASSUME NEW m \in 1 .. Len(rows), m - 1 \in Good PROVE m \in Good
  <2>1. m \in Nat \ {0} /\ m - 1 \in 0 .. Len(rows) /\ m - 1 <= Len(rows)
    OBVIOUS
  <2>2. Fine(f[m - 1]) /\ f[m - 1] \in Loop(Row)
    BY <1>1, <1>4, <2>1
  <2> QED BY <1>1, <1>3, <2>1, <2>2
<1>5. Len(rows) \in Nat
  OBVIOUS
<1> HIDE DEF Good
<1>6. Len(rows) \in Good
  BY <1>2, <1>4, <1>5, UpTo
<1> QED BY <1>1, <1>5, <1>6 DEF Good, Fine

-----------------------------------------------------------------------------
(* The changes of a snapshot.                                                *)

LEMMA AppendIs ==
  ASSUME NEW rows \in Seq(Row), NEW x \in Row
  PROVE  /\ Append(rows, x) \in Seq(Row)
         /\ \A y : Has(Append(rows, x), y) <=> Has(rows, y) \/ y = x
         /\ OneEach(rows) /\ (\A i \in DOMAIN rows : rows[i].user # x.user)
              => OneEach(Append(rows, x))
<1> DEFINE s == Append(rows, x)
           n == Len(rows)
<1>1. /\ s \in Seq(Row) /\ n \in Nat /\ DOMAIN rows = 1 .. n /\ DOMAIN s = 1 .. n + 1
      /\ s[n + 1] = x /\ \A i \in 1 .. n : s[i] = rows[i]
  BY AppendProperties, LenProperties
<1> HIDE DEF s, n
<1>2. \A i \in DOMAIN s : i \in DOMAIN rows \/ i = n + 1
  BY <1>1
<1>3. \A y : Has(s, y) <=> Has(rows, y) \/ y = x
  <2>1. \A y : Has(s, y) => Has(rows, y) \/ y = x
    BY <1>1, <1>2 DEF Has
  <2>2. \A y : Has(rows, y) => Has(s, y)
    <3>1. \A i \in DOMAIN rows : i \in DOMAIN s /\ s[i] = rows[i]
      BY <1>1
    <3> QED BY <3>1 DEF Has
  <2>3. n + 1 \in DOMAIN s /\ s[n + 1] = x
    BY <1>1
  <2>4. Has(s, x)
    BY <2>3 DEF Has
  <2> QED BY <2>1, <2>2, <2>4
<1>4. ASSUME OneEach(rows), \A i \in DOMAIN rows : rows[i].user # x.user PROVE OneEach(s)
  BY <1>1, <1>2, <1>4 DEF OneEach
<1> QED BY <1>1, <1>3, <1>4 DEF s

LEMMA WithoutType ==
  ASSUME NEW acc \in Loop(Row), NEW u
  PROVE  LET left == Without(acc, u)
         IN  /\ left \in Loop(Row)
             /\ InOrder(acc.rows) => InOrder(left.rows)
             /\ \A y : Has(left.rows, y) => Has(acc.rows, y)
<1>1. acc.rows \in Seq(Row)
  BY DEF Loop
<1>2. CASE acc.trapped
  BY <1>2 DEF Without
<1>3. CASE ~acc.trapped
  <2>1. Without(acc, u) = RemovedEach(acc.rows, RowsOf(acc.rows, u))
    BY <1>3 DEF Without
  <2> QED BY <1>1, <2>1, RemovalKeepsOrder
<1> QED BY <1>2, <1>3

LEMMA WithChangeType ==
  ASSUME NEW acc \in Loop(Row), NEW u, NEW new, NEW appended,
         u \in appended => RowOf(u) \in Row
  PROVE  LET next == WithChange(acc, u, new, appended)
         IN  /\ next \in Loop(Row)
             /\ u \notin appended /\ InOrder(acc.rows) => InOrder(next.rows)
             /\ \A y : Has(next.rows, y) =>
                         Has(acc.rows, y) \/ (u \in appended /\ y = RowOf(u))
<1> DEFINE kept == IF u \in new THEN acc ELSE Without(acc, u)
<1>1. /\ kept \in Loop(Row)
      /\ InOrder(acc.rows) => InOrder(kept.rows)
      /\ \A y : Has(kept.rows, y) => Has(acc.rows, y)
  BY WithoutType
<1>2. WithChange(acc, u, new, appended) =
        IF u \notin appended \/ kept.trapped THEN kept
        ELSE [kept EXCEPT !.rows = Append(@, RowOf(u))]
  BY DEF WithChange
<1> HIDE DEF kept
<1>3. CASE u \notin appended \/ kept.trapped
  BY <1>1, <1>2, <1>3
<1>4. CASE ~(u \notin appended \/ kept.trapped)
  <2>1. kept.rows \in Seq(Row) /\ RowOf(u) \in Row
    BY <1>1, <1>4 DEF Loop
  <2>2. /\ Append(kept.rows, RowOf(u)) \in Seq(Row)
        /\ \A y : Has(Append(kept.rows, RowOf(u)), y) <=> Has(kept.rows, y) \/ y = RowOf(u)
    BY <2>1, AppendIs
  <2> DEFINE next == WithChange(acc, u, new, appended)
  <2>3. next = [kept EXCEPT !.rows = Append(kept.rows, RowOf(u))]
    BY <1>2, <1>4
  <2>4. next \in Loop(Row) /\ next.rows = Append(kept.rows, RowOf(u))
    BY <1>1, <2>2, <2>3 DEF Loop
  <2> HIDE DEF next
  <2>5. \A y : Has(next.rows, y) => Has(acc.rows, y) \/ (u \in appended /\ y = RowOf(u))
    BY <1>1, <1>4, <2>2, <2>4
  <2> QED BY <1>4, <2>4, <2>5 DEF next
<1> QED BY <1>3, <1>4

(* Where a user has one row at most the change is what it is meant to be.    *)
LEMMA OneWithout ==
  ASSUME NEW acc \in Loop(Row), ~acc.trapped, OneEach(acc.rows), NEW u
  PROVE  LET left == Without(acc, u)
         IN  /\ left \in Loop(Row) /\ ~left.trapped /\ OneEach(left.rows)
             /\ \A y : Has(left.rows, y) <=> Has(acc.rows, y) /\ y.user # u
<1> DEFINE rows == acc.rows
           hits == RowsOf(rows, u)
<1>1. rows \in Seq(Row) /\ DOMAIN rows = 1 .. Len(rows) /\ OneEach(rows)
  BY LenProperties DEF Loop
<1>2. Without(acc, u) = RemovedEach(rows, hits)
  BY DEF Without
<1>3. \A i \in 1 .. Len(rows) : i \in hits <=> rows[i].user = u
  BY <1>1 DEF RowsOf
<1>4. Without(acc, u) \in Loop(Row)
  BY WithoutType
<1> HIDE DEF rows, hits
<1>5. CASE \A i \in 1 .. Len(rows) : i \notin hits
  <2>1. RemovedEach(rows, hits) = Untouched(rows)
    BY <1>1, <1>5, NoHit
  <2>2. \A y : Has(rows, y) => y.user # u
    BY <1>1, <1>3, <1>5 DEF Has
  <2>3. Untouched(rows).rows = rows /\ Untouched(rows).trapped = FALSE
    BY DEF Untouched
  <2> QED BY <1>1, <1>2, <1>4, <2>1, <2>2, <2>3 DEF rows
<1>6. ASSUME NEW h \in 1 .. Len(rows), h \in hits
      PROVE  /\ ~Without(acc, u).trapped /\ OneEach(Without(acc, u).rows)
             /\ \A y : Has(Without(acc, u).rows, y) <=> Has(rows, y) /\ y.user # u
  <2>1. rows[h].user = u /\ \A i \in 1 .. Len(rows) : i \in hits <=> i = h
    BY <1>1, <1>3, <1>6 DEF OneEach
  <2>2. RemovedEach(rows, hits) = [rows |-> RemoveAt(rows, h), trapped |-> FALSE]
    BY <1>1, <2>1, OneHit
  <2>3. Without(acc, u).rows = RemoveAt(rows, h) /\ Without(acc, u).trapped = FALSE
    BY <1>2, <2>2
  <2> QED BY <1>1, <2>1, <2>3, RowGone
<1> QED BY <1>4, <1>5, <1>6 DEF rows

LEMMA OneChange ==
  ASSUME NEW acc \in Loop(Row), ~acc.trapped, OneEach(acc.rows),
         NEW u, NEW new, NEW appended,
         u \in new => \A y : Has(acc.rows, y) => y.user # u,
         u \in appended => RowOf(u) \in Row
  PROVE  LET next == WithChange(acc, u, new, appended)
         IN  /\ ~next.trapped /\ OneEach(next.rows)
             /\ \A y : Has(next.rows, y) <=>
                         \/ Has(acc.rows, y) /\ y.user # u
                         \/ u \in appended /\ y = RowOf(u)
<1> DEFINE kept == IF u \in new THEN acc ELSE Without(acc, u)
           next == WithChange(acc, u, new, appended)
<1>1. /\ kept \in Loop(Row) /\ ~kept.trapped /\ OneEach(kept.rows)
      /\ \A y : Has(kept.rows, y) <=> Has(acc.rows, y) /\ y.user # u
  <2>1. CASE u \in new
    BY <2>1
  <2>2. CASE u \notin new
    BY <2>2, OneWithout
  <2> QED BY <2>1, <2>2
<1>2. next = IF u \notin appended \/ kept.trapped THEN kept
             ELSE [kept EXCEPT !.rows = Append(@, RowOf(u))]
  BY DEF WithChange
<1> HIDE DEF kept, next
<1>3. CASE u \notin appended
  BY <1>1, <1>2, <1>3 DEF next
<1>4. CASE u \in appended
  <2>1. kept.rows \in Seq(Row) /\ RowOf(u) \in Row /\ RowOf(u).user = u
    BY <1>1, <1>4 DEF Loop, RowOf
  <2>2. \A i \in DOMAIN kept.rows : kept.rows[i].user # RowOf(u).user
    BY <1>1, <2>1 DEF Has
  <2>3. /\ OneEach(Append(kept.rows, RowOf(u)))
        /\ \A y : Has(Append(kept.rows, RowOf(u)), y) <=> Has(kept.rows, y) \/ y = RowOf(u)
    BY <1>1, <2>1, <2>2, AppendIs
  <2>4. next.rows = Append(kept.rows, RowOf(u)) /\ next.trapped = kept.trapped
    BY <1>1, <1>2, <1>4 DEF Loop
  <2> QED BY <1>1, <1>4, <2>3, <2>4 DEF next
<1> QED BY <1>3, <1>4

LEMMA OrderIs ==
  ASSUME NEW S, S \subseteq User, NEW order \in Orders(S)
  PROVE  /\ order \in Seq(S) /\ Len(order) \in Nat /\ DOMAIN order = 1 .. Len(order)
         /\ \A i, j \in 1 .. Len(order) : order[i] = order[j] => i = j
         /\ \A u \in S : \E i \in 1 .. Len(order) : order[i] = u
<1> DEFINE n == Cardinality(S)
<1>1. n \in Nat
  BY UserAssumption, FS_Subset, FS_CardinalityType
<1>2. order \in Bijection(1 .. n, S)
  BY DEF Orders
<1>3. /\ order \in [1 .. n -> S]
      /\ \A i, j \in 1 .. n : order[i] = order[j] => i = j
      /\ \A u \in S : \E i \in 1 .. n : order[i] = u
  BY <1>2 DEF Bijection, Injection, Surjection, IsInjective
<1> HIDE DEF n
<1>4. order \in Seq(S) /\ Len(order) = n
  BY <1>1, <1>3
<1> QED BY <1>1, <1>3, <1>4

(* The run of a callback: f[i] is the array after i changes.                 *)
Edits(f, order, new, appended) ==
  /\ f[0] = Untouched(showAllUsers) /\ Edited(order, new, appended) = f[Len(order)]
  /\ \A i \in 1 .. Len(order) : f[i] = WithChange(f[i - 1], order[i], new, appended)

LEMMA EditRuns ==
  ASSUME showAllUsers \in Seq(Row), NEW order, Len(order) \in Nat, NEW new, NEW appended,
         \A i \in 1 .. Len(order) : order[i] \in appended => RowOf(order[i]) \in Row
  PROVE  \E f \in [0 .. Len(order) -> Loop(Row)] : Edits(f, order, new, appended)
<1> DEFINE n == Len(order)
           turn == [i \in 1 .. n |-> [acc \in Loop(Row) |->
                      WithChange(acc, order[i], new, appended)]]
           Turns(f) == [i \in 0 .. n |->
                         IF i = 0 THEN Untouched(showAllUsers)
                         ELSE WithChange(f[i - 1], order[i], new, appended)]
           loop[i \in 0 .. Len(order)] ==
             IF i = 0 THEN Untouched(showAllUsers)
             ELSE WithChange(loop[i - 1], order[i], new, appended)
<1>1. n \in Nat /\ Untouched(showAllUsers) \in Loop(Row)
  BY DEF Untouched, Loop
<1>2. turn \in [1 .. n -> [Loop(Row) -> Loop(Row)]]
  BY WithChangeType
<1>3. \E f : IsRun(f, Loop(Row), Untouched(showAllUsers), n, turn)
  <2> HIDE DEF turn, n
  <2> QED BY <1>1, <1>2, LoopExists
<1>4. PICK f \in [0 .. n -> Loop(Row)] :
        f[0] = Untouched(showAllUsers) /\ \A i \in 1 .. n : f[i] = turn[i][f[i - 1]]
  BY <1>3 DEF IsRun
<1>5. ASSUME NEW i \in 1 .. n PROVE f[i] = WithChange(f[i - 1], order[i], new, appended)
  <2>1. i - 1 \in 0 .. n
    BY <1>1
  <2>2. f[i - 1] \in Loop(Row) /\ f[i] = turn[i][f[i - 1]]
    BY <1>4, <2>1
  <2> QED BY <2>2
<1>6. f = Turns(f)
  BY <1>1, <1>4, <1>5
<1>7. loop = Turns(loop)
  BY <1>6
<1>8. Edited(order, new, appended) = loop[n]
  BY DEF Edited
<1> HIDE DEF loop
<1> DEFINE Same == {m \in Nat : m <= n => loop[m] = f[m]}
<1>9. 0 \in Same
  BY <1>1, <1>4, <1>7
<1>10. ASSUME NEW m \in 1 .. n, m - 1 \in Same PROVE m \in Same
  <2>1. m \in 0 .. n /\ m # 0 /\ m \in Nat /\ m - 1 <= n
    BY <1>1
  <2>2. loop[m] = WithChange(loop[m - 1], order[m], new, appended)
    BY <1>7, <2>1
  <2> QED BY <1>5, <1>10, <2>1, <2>2
<1> HIDE DEF Same, n
<1>11. n \in Same
  BY <1>1, <1>9, <1>10, UpTo
<1> QED BY <1>1, <1>4, <1>5, <1>8, <1>11 DEF Same, n, Edits

(* What a callback leaves is made of what it found and what it appends.      *)
LEMMA EditKeepsOrder ==
  ASSUME showAllUsers \in Seq(Row), NEW order, Len(order) \in Nat, NEW new, NEW appended,
         \A i \in 1 .. Len(order) : order[i] \in appended => RowOf(order[i]) \in Row
  PROVE  LET edited == Edited(order, new, appended)
         IN  /\ edited \in Loop(Row)
             /\ appended = {} /\ InOrder(showAllUsers) => InOrder(edited.rows)
             /\ \A y : Has(edited.rows, y) =>
                  \/ Has(showAllUsers, y)
                  \/ \E k \in 1 .. Len(order) : order[k] \in appended /\ y = RowOf(order[k])
<1> DEFINE n == Len(order)
           Appended(y) == \E k \in 1 .. n : order[k] \in appended /\ y = RowOf(order[k])
           Fine(acc) == /\ appended = {} /\ InOrder(showAllUsers) => InOrder(acc.rows)
                        /\ \A y : Has(acc.rows, y) => Has(showAllUsers, y) \/ Appended(y)
<1>0. PICK f \in [0 .. n -> Loop(Row)] : Edits(f, order, new, appended)
  BY EditRuns
<1>1. /\ f[0] = Untouched(showAllUsers) /\ Edited(order, new, appended) = f[n]
      /\ \A i \in 1 .. n : f[i] = WithChange(f[i - 1], order[i], new, appended)
  BY <1>0 DEF Edits
<1> DEFINE Good == {m \in Nat : m <= n => Fine(f[m])}
<1>2. 0 \in Good
  <2>1. f[0].rows = showAllUsers
    BY <1>1 DEF Untouched
  <2> DEFINE acc == f[0]
  <2> HIDE DEF acc
  <2>2. Fine(acc)
    BY <2>1 DEF acc
  <2> USE DEF acc
  <2> HIDE DEF Fine
  <2> QED BY <2>2
<1>3. ASSUME NEW m \in 1 .. n, m - 1 \in Good PROVE m \in Good
  <2>1. m \in Nat \ {0} /\ m - 1 \in 0 .. n /\ m - 1 <= n
    OBVIOUS
  <2>2. f[m - 1] \in Loop(Row) /\ Fine(f[m - 1])
    BY <1>3, <2>1
  <2>3. f[m] = WithChange(f[m - 1], order[m], new, appended)
    BY <1>1
  <2>4. order[m] \in appended => RowOf(order[m]) \in Row
    OBVIOUS
  <2>5. /\ order[m] \notin appended /\ InOrder(f[m - 1].rows) => InOrder(f[m].rows)
        /\ \A y : Has(f[m].rows, y) =>
                    Has(f[m - 1].rows, y) \/ (order[m] \in appended /\ y = RowOf(order[m]))
    <3> DEFINE u == order[m]
               acc == f[m - 1]
               next == f[m]
    <3>1. acc \in Loop(Row) /\ next = WithChange(acc, u, new, appended)
      BY <2>2, <2>3
    <3>2. u \in appended => RowOf(u) \in Row
      BY <2>4
    <3> HIDE DEF u, acc, next
    <3>3. /\ u \notin appended /\ InOrder(acc.rows) => InOrder(next.rows)
          /\ \A y : Has(next.rows, y) => Has(acc.rows, y) \/ (u \in appended /\ y = RowOf(u))
      BY <3>1, <3>2, WithChangeType
    <3> QED BY <3>3 DEF u, acc, next
  <2>6. \A y : Has(f[m].rows, y) => Has(showAllUsers, y) \/ Appended(y)
    BY <2>2, <2>5
  <2> QED BY <2>1, <2>2, <2>5, <2>6
<1>4. n \in Nat
  OBVIOUS
<1> HIDE DEF Good
<1>5. n \in Good
  BY <1>2, <1>3, <1>4, UpTo
<1>6. Fine(f[n]) /\ f[n] \in Loop(Row)
  BY <1>4, <1>5 DEF Good
<1> QED BY <1>1, <1>6

(* Where users have one row each the callback replaces and appends users.    *)
LEMMA OneEdit ==
  ASSUME showAllUsers \in Seq(Row), OneEach(showAllUsers),
         NEW S, S \subseteq User, NEW order \in Orders(S), NEW new, NEW appended,
         \A u \in S : u \in appended => RowOf(u) \in Row,
         \A u \in S : u \in new => \A y : Has(showAllUsers, y) => y.user # u
  PROVE  LET edited == Edited(order, new, appended)
         IN  /\ edited \in Loop(Row) /\ ~edited.trapped /\ OneEach(edited.rows)
             /\ \A y : Has(edited.rows, y) <=>
                  \/ Has(showAllUsers, y) /\ y.user \notin S
                  \/ \E u \in S \cap appended : y = RowOf(u)
<1> DEFINE n == Len(order)
           Done(m) == {order[k] : k \in 1 .. m}
           Fine(acc, m) ==
             /\ ~acc.trapped /\ OneEach(acc.rows)
             /\ \A y : Has(acc.rows, y) <=>
                  \/ Has(showAllUsers, y) /\ y.user \notin Done(m)
                  \/ \E u \in Done(m) \cap appended : y = RowOf(u)
<1>1. /\ n \in Nat /\ \A i \in 1 .. n : order[i] \in S
      /\ \A i, j \in 1 .. n : order[i] = order[j] => i = j
      /\ \A u \in S : \E i \in 1 .. n : order[i] = u
  <2>1. /\ order \in Seq(S) /\ Len(order) \in Nat
        /\ \A i, j \in 1 .. Len(order) : order[i] = order[j] => i = j
        /\ \A u \in S : \E i \in 1 .. Len(order) : order[i] = u
    BY OrderIs
  <2>2. \A i \in 1 .. Len(order) : order[i] \in S
    BY <2>1
  <2> QED BY <2>1, <2>2
<1>2. PICK f \in [0 .. n -> Loop(Row)] : Edits(f, order, new, appended)
  BY <1>1, EditRuns
<1>3. /\ f[0] = Untouched(showAllUsers) /\ Edited(order, new, appended) = f[n]
      /\ \A i \in 1 .. n : f[i] = WithChange(f[i - 1], order[i], new, appended)
  BY <1>2 DEF Edits
<1> DEFINE Good == {m \in Nat : m <= n => Fine(f[m], m)}
<1> HIDE DEF n
<1>4. 0 \in Good
  <2>1. f[0].rows = showAllUsers /\ f[0].trapped = FALSE
    BY <1>3 DEF Untouched
  <2>2. Done(0) = {}
    OBVIOUS
  <2> HIDE DEF Done
  <2>3. Fine(f[0], 0)
    BY <2>1, <2>2
  <2> QED BY <2>3
<1>5. ASSUME NEW m \in 1 .. n, m - 1 \in Good PROVE m \in Good
  <2> DEFINE u == order[m]
             acc == f[m - 1]
  <2>1. m \in Nat \ {0} /\ m - 1 \in 0 .. n /\ m - 1 <= n
    BY <1>1
  <2>2. acc \in Loop(Row) /\ Fine(acc, m - 1)
    BY <1>5, <2>1
  <2>3. f[m] = WithChange(acc, u, new, appended) /\ u \in S
    BY <1>1, <1>3
  <2>4. Done(m) = Done(m - 1) \cup {u} /\ u \notin Done(m - 1)
    <3>1. \A k \in 1 .. m - 1 : k \in 1 .. n /\ k # m
      BY <1>1
    <3>2. \A k \in 1 .. m : k = m \/ k \in 1 .. m - 1
      BY <1>1
    <3>3. m \in 1 .. m /\ \A k \in 1 .. m - 1 : k \in 1 .. m
      BY <1>1
    <3>4. u \notin Done(m - 1)
      BY <1>1, <3>1
    <3>5. Done(m) = Done(m - 1) \cup {u}
      BY <3>2, <3>3
    <3> QED BY <3>4, <3>5
  <2> HIDE DEF Done, acc, u
  <2>5. u \in new => \A y : Has(acc.rows, y) => y.user # u
    <3> SUFFICES ASSUME u \in new, NEW y, Has(acc.rows, y) PROVE y.user # u
      OBVIOUS
    <3>1. CASE Has(showAllUsers, y)
      BY <2>3, <3>1
    <3>2. CASE \E v \in Done(m - 1) \cap appended : y = RowOf(v)
      BY <2>4, <3>2 DEF RowOf
    <3> QED BY <2>2, <3>1, <3>2
  <2>6. u \in appended => RowOf(u) \in Row
    BY <2>3
  <2>7. /\ ~f[m].trapped /\ OneEach(f[m].rows)
        /\ \A y : Has(f[m].rows, y) <=>
                    \/ Has(acc.rows, y) /\ y.user # u
                    \/ u \in appended /\ y = RowOf(u)
    BY <2>2, <2>3, <2>5, <2>6, OneChange
  <2>8. \A y : Has(f[m].rows, y) <=>
          \/ Has(showAllUsers, y) /\ y.user \notin Done(m)
          \/ \E v \in Done(m) \cap appended : y = RowOf(v)
    <3> SUFFICES ASSUME NEW y
                 PROVE  Has(f[m].rows, y) <=>
                          \/ Has(showAllUsers, y) /\ y.user \notin Done(m)
                          \/ \E v \in Done(m) \cap appended : y = RowOf(v)
      OBVIOUS
    <3>1. Has(acc.rows, y) <=>
            \/ Has(showAllUsers, y) /\ y.user \notin Done(m - 1)
            \/ \E v \in Done(m - 1) \cap appended : y = RowOf(v)
      BY <2>2
    <3>2. Has(f[m].rows, y) <=>
            \/ Has(acc.rows, y) /\ y.user # u
            \/ u \in appended /\ y = RowOf(u)
      BY <2>7
    <3>3. (\E v \in Done(m) \cap appended : y = RowOf(v)) <=>
            \/ \E v \in Done(m - 1) \cap appended : y = RowOf(v)
            \/ u \in appended /\ y = RowOf(u)
      BY <2>4
    <3>4. \A v \in Done(m - 1) : y = RowOf(v) => y.user # u
      BY <2>4 DEF RowOf
    <3>5. y.user \notin Done(m) <=> y.user \notin Done(m - 1) /\ y.user # u
      BY <2>4
    <3> QED BY <3>1, <3>2, <3>3, <3>4, <3>5
  <2> QED BY <2>1, <2>7, <2>8
<1> HIDE DEF Good
<1>6. n \in Good
  BY <1>1, <1>4, <1>5, UpTo
<1>7. Fine(f[n], n) /\ f[n] \in Loop(Row)
  BY <1>1, <1>6 DEF Good
<1>8. Done(n) = S
  BY <1>1
<1> QED BY <1>3, <1>7, <1>8

-----------------------------------------------------------------------------
(* The sort and the search.                                                  *)

LEMMA SortedIs ==
  ASSUME joined \in [User -> Int], NEW rows \in Seq(Row)
  PROVE  /\ Sorted(rows) \in Seq(Row) /\ InOrder(Sorted(rows))
         /\ \A y : Has(Sorted(rows), y) <=> Has(rows, y)
         /\ OneEach(rows) => OneEach(Sorted(rows))
<1> DEFINE D == DOMAIN rows
           n == Len(rows)
           key(i) == joined[rows[i].user]
           Before(i, j) == key(i) > key(j) \/ (key(i) = key(j) /\ i <= j)
           Upto(j) == {i \in D : Before(i, j)}
           Place(j) == Cardinality(Upto(j))
           at(k) == CHOOSE j \in D : Place(j) = k
           s == [k \in D |-> rows[at(k)]]
<1>1. Sorted(rows) = s
  BY DEF Sorted
<1>2. /\ n \in Nat /\ D = 1 .. n /\ IsFiniteSet(D)
      /\ \A i \in D : key(i) \in Int /\ rows[i] \in Row
  <2>1. n \in Nat /\ D = 1 .. n
    BY LenProperties
  <2>2. IsFiniteSet(1 .. n)
    BY <2>1, FS_Interval
  <2>3. ASSUME NEW i \in D PROVE key(i) \in Int /\ rows[i] \in Row
    <3>1. rows[i] \in Row
      BY <2>1
    <3>2. rows[i].user \in User
      BY <3>1 DEF Row, Other
    <3> QED BY <3>1, <3>2
  <2> QED BY <2>1, <2>2, <2>3
<1> HIDE DEF n, D, key
<1>3. \A i \in D : Before(i, i)
  BY <1>2
<1>4. \A i, j \in D : Before(i, j) \/ Before(j, i)
  BY <1>2
<1>5. \A i, j, k \in D : Before(i, j) /\ Before(j, k) => Before(i, k)
  BY <1>2
<1>6. \A i, j \in D : Before(i, j) /\ Before(j, i) => i = j
  BY <1>2
<1>7. \A i, j \in D : Before(i, j) => key(i) >= key(j)
  BY <1>2
<1> HIDE DEF Before
<1>8. \A j \in D : Upto(j) \subseteq D /\ j \in Upto(j)
  BY <1>3
<1>9. \A j \in D : IsFiniteSet(Upto(j)) /\ Place(j) \in Nat /\ Place(j) <= Cardinality(D)
  BY <1>2, <1>8, FS_Subset, FS_CardinalityType
<1>10. ASSUME NEW i \in D, NEW j \in D, Before(i, j), i # j PROVE Place(i) < Place(j)
  <2>1. Upto(i) \subseteq Upto(j)
    BY <1>5, <1>10
  <2>2. j \in Upto(j) /\ j \notin Upto(i)
    BY <1>6, <1>8, <1>10
  <2> HIDE DEF Upto
  <2>3. /\ Cardinality(Upto(i)) <= Cardinality(Upto(j))
        /\ Cardinality(Upto(i)) = Cardinality(Upto(j)) => Upto(i) = Upto(j)
    BY <1>9, <2>1, FS_Subset
  <2> QED BY <1>9, <2>2, <2>3
<1>11. \A j \in D : Place(j) \in D
  <2> SUFFICES ASSUME NEW j \in D PROVE Place(j) \in D
    OBVIOUS
  <2>1. Cardinality(D) = n
    BY <1>2, FS_Interval
  <2>2. Upto(j) # {}
    BY <1>8
  <2> HIDE DEF Upto
  <2>3. Place(j) # 0
    BY <1>9, <2>2, FS_EmptySet
  <2> QED BY <1>2, <1>9, <2>1, <2>3
<1>12. \A i \in D : Place(i) \in Nat
  BY <1>9
<1> HIDE DEF Place
<1>13. \A i, j \in D : Place(i) = Place(j) => i = j
  <2> SUFFICES ASSUME NEW i \in D, NEW j \in D, Place(i) = Place(j), i # j PROVE FALSE
    OBVIOUS
  <2>1. Place(i) < Place(j) \/ Place(j) < Place(i)
    BY <1>4, <1>10
  <2> QED BY <1>12, <2>1
<1>14. \A k \in D : at(k) \in D /\ Place(at(k)) = k
  <2> DEFINE place == [j \in D |-> Place(j)]
  <2>1. place \in Injection(D, D)
    BY <1>11, <1>13 DEF Injection, IsInjective
  <2>2. place \in Surjection(D, D)
    BY <1>2, <2>1, FS_Injection
  <2>3. \A k \in D : \E j \in D : Place(j) = k
    BY <2>2 DEF Surjection
  <2> QED BY <2>3
<1> HIDE DEF at
<1>15. s \in Seq(Row) /\ DOMAIN s = D
  <2>1. s \in [1 .. n -> Row]
    BY <1>2, <1>14
  <2> HIDE DEF s
  <2> QED BY <1>2, <2>1
<1>16. \A k \in D : s[k] = rows[at(k)]
  OBVIOUS
<1> HIDE DEF s
<1>17. InOrder(s)
  <2> SUFFICES ASSUME NEW i \in D, NEW j \in D, i < j
               PROVE  key(at(i)) >= key(at(j))
    BY <1>15, <1>16 DEF InOrder, key
  <2>1. /\ at(i) \in D /\ at(j) \in D /\ Place(at(i)) = i /\ Place(at(j)) = j
        /\ i \in Int /\ j \in Int
    BY <1>2, <1>14
  <2>2. ~Before(at(j), at(i))
    <3> SUFFICES ASSUME Before(at(j), at(i)) PROVE FALSE
      OBVIOUS
    <3>1. at(i) # at(j)
      BY <2>1
    <3>2. Place(at(j)) < Place(at(i))
      BY <1>10, <2>1, <3>1
    <3> QED BY <2>1, <3>2
  <2> QED BY <1>4, <1>7, <2>1, <2>2
<1>18. \A j \in D : \E k \in D : at(k) = j
  <2> SUFFICES ASSUME NEW j \in D PROVE at(Place(j)) = j
    BY <1>11
  <2> QED BY <1>11, <1>13, <1>14
<1>19. \A y : Has(s, y) <=> Has(rows, y)
  BY <1>14, <1>15, <1>16, <1>18 DEF Has, D
<1>20. OneEach(rows) => OneEach(s)
  <2>1. \A i, j \in D : at(i) = at(j) => i = j
    BY <1>14
  <2>2. \A i \in D : s[i] = rows[at(i)] /\ at(i) \in D
    BY <1>14, <1>16
  <2> QED BY <1>15, <2>1, <2>2 DEF OneEach, D
<1> QED BY <1>1, <1>15, <1>17, <1>19, <1>20

(* The run of the search: f[i] is what is found among the first i rows.      *)
Finds(f, rows, text) ==
  /\ f[0] = <<>> /\ Found(rows, text) = f[Len(rows)]
  /\ \A i \in 1 .. Len(rows) :
       f[i] = IF rows[i].user \in text THEN Append(f[i - 1], rows[i]) ELSE f[i - 1]

LEMMA SearchRuns ==
  ASSUME NEW rows \in Seq(Row), NEW text
  PROVE  \E f \in [0 .. Len(rows) -> Seq(Row)] : Finds(f, rows, text)
<1> DEFINE n == Len(rows)
           turn == [i \in 1 .. n |-> [acc \in Seq(Row) |->
                      IF rows[i].user \in text THEN Append(acc, rows[i]) ELSE acc]]
           Turns(f) == [i \in 0 .. n |->
                         IF i = 0 THEN <<>>
                         ELSE IF rows[i].user \in text THEN Append(f[i - 1], rows[i])
                         ELSE f[i - 1]]
           found[i \in 0 .. Len(rows)] ==
             IF i = 0 THEN <<>>
             ELSE IF rows[i].user \in text THEN Append(found[i - 1], rows[i])
             ELSE found[i - 1]
<1>1. n \in Nat /\ <<>> \in Seq(Row) /\ \A i \in 1 .. n : rows[i] \in Row
  OBVIOUS
<1>2. turn \in [1 .. n -> [Seq(Row) -> Seq(Row)]]
  BY <1>1
<1>3. \E f : IsRun(f, Seq(Row), <<>>, n, turn)
  <2> HIDE DEF turn, n
  <2> QED BY <1>1, <1>2, LoopExists
<1>4. PICK f \in [0 .. n -> Seq(Row)] : f[0] = <<>> /\ \A i \in 1 .. n : f[i] = turn[i][f[i - 1]]
  BY <1>3 DEF IsRun
<1>5. ASSUME NEW i \in 1 .. n
      PROVE f[i] = IF rows[i].user \in text THEN Append(f[i - 1], rows[i]) ELSE f[i - 1]
  <2>1. i - 1 \in 0 .. n
    BY <1>1
  <2>2. f[i - 1] \in Seq(Row) /\ f[i] = turn[i][f[i - 1]]
    BY <1>4, <2>1
  <2> QED BY <2>2
<1>6. f = Turns(f)
  <2>1. ASSUME NEW i \in 0 .. n PROVE f[i] = Turns(f)[i]
    <3>1. CASE i = 0
      BY <1>4, <3>1
    <3>2. CASE i # 0
      <4>1. i \in 1 .. n
        BY <1>1, <3>2
      <4> QED BY <1>5, <3>2, <4>1
    <3> QED BY <3>1, <3>2
  <2>2. f = [i \in 0 .. n |-> f[i]]
    BY <1>4
  <2>3. Turns(f) = [i \in 0 .. n |-> Turns(f)[i]]
    OBVIOUS
  <2> HIDE DEF Turns
  <2> QED BY <2>1, <2>2, <2>3
<1>7. found = Turns(found)
  BY <1>6
<1>8. Found(rows, text) = found[n]
  BY DEF Found
<1> HIDE DEF found
<1> DEFINE Same == {m \in Nat : m <= n => found[m] = f[m]}
<1>9. 0 \in Same
  BY <1>1, <1>4, <1>7
<1>10. ASSUME NEW m \in 1 .. n, m - 1 \in Same PROVE m \in Same
  <2>1. m \in 0 .. n /\ m # 0 /\ m \in Nat /\ m - 1 <= n
    BY <1>1
  <2>2. found[m] = IF rows[m].user \in text THEN Append(found[m - 1], rows[m]) ELSE found[m - 1]
    BY <1>7, <2>1
  <2> QED BY <1>5, <1>10, <2>1, <2>2
<1> HIDE DEF Same, n
<1>11. n \in Same
  BY <1>1, <1>9, <1>10, UpTo
<1> QED BY <1>1, <1>4, <1>5, <1>8, <1>11 DEF Same, n, Finds

(* A search leaves the rows that match, in their order.                      *)
LEMMA FoundIs ==
  ASSUME joined \in [User -> Int], NEW rows \in Seq(Row), NEW text
  PROVE  /\ Found(rows, text) \in Seq(Row)
         /\ InOrder(rows) => InOrder(Found(rows, text))
         /\ \A y : Has(Found(rows, text), y) <=> Has(rows, y) /\ y.user \in text
<1> DEFINE n == Len(rows)
           Above(s, m) == \A i \in DOMAIN s, j \in m + 1 .. n :
                            joined[s[i].user] >= joined[rows[j].user]
           Fine(s, m) ==
             /\ InOrder(rows) => InOrder(s) /\ Above(s, m)
             /\ \A y : Has(s, y) <=> \E i \in 1 .. m : rows[i] = y /\ y.user \in text
<1>1. PICK f \in [0 .. n -> Seq(Row)] : Finds(f, rows, text)
  BY SearchRuns
<1>2. /\ f[0] = <<>> /\ Found(rows, text) = f[n]
      /\ \A i \in 1 .. n :
           f[i] = IF rows[i].user \in text THEN Append(f[i - 1], rows[i]) ELSE f[i - 1]
  BY <1>1 DEF Finds
<1>3. n \in Nat /\ DOMAIN rows = 1 .. n /\ \A i \in 1 .. n : rows[i] \in Row
  BY LenProperties
<1> DEFINE Good == {m \in Nat : m <= n => Fine(f[m], m)}
<1> HIDE DEF n
<1>4. 0 \in Good
  <2> SUFFICES Fine(<<>>, 0)
    BY <1>2
  <2>1. DOMAIN <<>> = {}
    OBVIOUS
  <2> QED BY <2>1 DEF InOrder, Has
<1>5. ASSUME NEW m \in 1 .. n, m - 1 \in Good PROVE m \in Good
  <2> DEFINE s == f[m - 1]
             x == rows[m]
  <2>1. m \in Nat \ {0} /\ m - 1 \in 0 .. n /\ m - 1 <= n /\ m - 1 + 1 = m
    BY <1>3
  <2>2. s \in Seq(Row) /\ Fine(s, m - 1)
    BY <1>5, <2>1
  <2>3. f[m] = IF x.user \in text THEN Append(s, x) ELSE s
    BY <1>2
  <2>4. x \in Row
    BY <1>3
  <2>5. \A i \in 1 .. m : i = m \/ i \in 1 .. m - 1
    BY <2>1
  <2>6. m \in 1 .. m /\ \A i \in 1 .. m - 1 : i \in 1 .. m
    BY <2>1
  <2>7. InOrder(rows) => \A j \in m + 1 .. n : joined[x.user] >= joined[rows[j].user]
    <3> SUFFICES ASSUME InOrder(rows), NEW j \in m + 1 .. n
                 PROVE  joined[rows[m].user] >= joined[rows[j].user]
      OBVIOUS
    <3>1. m \in DOMAIN rows /\ j \in DOMAIN rows /\ m < j
      BY <1>3, <2>1
    <3> QED BY <3>1 DEF InOrder
  <2>8. \A j \in m + 1 .. n : j \in m .. n
    BY <2>1
  <2>9. m \in m .. n
    BY <1>3, <2>1
  <2> HIDE DEF s, x
  <2>10. CASE x.user \notin text
    <3>1. f[m] = s
      BY <2>3, <2>10
    <3>2. InOrder(rows) => InOrder(s) /\ Above(s, m)
      BY <2>1, <2>2, <2>8
    <3>3. \A y : Has(s, y) <=> \E i \in 1 .. m : rows[i] = y /\ y.user \in text
      BY <2>2, <2>5, <2>6, <2>10 DEF x
    <3> QED BY <2>1, <3>1, <3>2, <3>3
  <2>11. CASE x.user \in text
    <3> DEFINE t == Append(s, x)
               k == Len(s)
    <3>1. f[m] = t
      BY <2>3, <2>11
    <3>2. \A y : Has(t, y) <=> Has(s, y) \/ y = x
      BY <2>2, <2>4, AppendIs
    <3>3. /\ k \in Nat /\ DOMAIN s = 1 .. k /\ DOMAIN t = 1 .. k + 1
          /\ t[k + 1] = x /\ \A i \in 1 .. k : t[i] = s[i]
      BY <2>2, <2>4, AppendProperties, LenProperties
    <3> HIDE DEF t, k
    <3>4. \A y : Has(t, y) <=> \E i \in 1 .. m : rows[i] = y /\ y.user \in text
      BY <2>2, <2>5, <2>6, <2>11, <3>2 DEF x
    <3>5. ASSUME InOrder(rows) PROVE InOrder(t) /\ Above(t, m)
      <4>1. InOrder(s) /\ \A i \in DOMAIN s, j \in m .. n :
                            joined[s[i].user] >= joined[rows[j].user]
        BY <2>1, <2>2, <3>5
      <4>2. \A i \in DOMAIN t : i \in DOMAIN s \/ i = k + 1
        BY <3>3
      <4>3. Above(t, m)
        BY <2>7, <2>8, <3>3, <3>5, <4>1, <4>2
      <4>4. \A i \in DOMAIN s : joined[s[i].user] >= joined[x.user]
        BY <2>9, <4>1 DEF x
      <4>5. ASSUME NEW i \in DOMAIN t, NEW j \in DOMAIN t, i < j
            PROVE  joined[t[i].user] >= joined[t[j].user]
        <5>1. i \in DOMAIN s
          BY <3>3, <4>5
        <5>2. CASE j \in DOMAIN s
          BY <3>3, <4>1, <4>5, <5>1, <5>2 DEF InOrder
        <5>3. CASE j = k + 1
          BY <3>3, <4>4, <5>1, <5>3
        <5> QED BY <4>2, <5>2, <5>3
      <4> QED BY <4>3, <4>5 DEF InOrder
    <3> QED BY <2>1, <3>1, <3>4, <3>5
  <2> QED BY <2>10, <2>11
<1> HIDE DEF Good
<1>6. n \in Good
  BY <1>3, <1>4, <1>5, UpTo
<1>7. Fine(f[n], n) /\ f[n] \in Seq(Row)
  BY <1>3, <1>6 DEF Good
<1>8. \A y : (\E i \in 1 .. n : rows[i] = y /\ y.user \in text) <=> Has(rows, y) /\ y.user \in text
  BY <1>3 DEF Has
<1> QED BY <1>2, <1>7, <1>8

LEMMA FoundOfNone ==
  ASSUME NEW text
  PROVE  Found(<<>>, text) = <<>>
<1>1. <<>> \in Seq(Row) /\ Len(<<>>) = 0
  OBVIOUS
<1>2. PICK f \in [0 .. Len(<<>>) -> Seq(Row)] : Finds(f, <<>>, text)
  BY <1>1, SearchRuns
<1> QED BY <1>1, <1>2 DEF Finds

-----------------------------------------------------------------------------
(* Bags of listeners.                                                        *)

LEMMA RegisteredIs ==
  ASSUME NEW b, IsABag(b), NEW l
  PROVE  /\ IsABag(Registered(b, l))
         /\ BagToSet(Registered(b, l)) = BagToSet(b) \cup {l}
<1> DEFINE one == SetToBag({l})
           B == Registered(b, l)
<1>1. B = [e \in (DOMAIN b) \cup (DOMAIN one) |->
             (IF e \in DOMAIN b THEN b[e] ELSE 0) + (IF e \in DOMAIN one THEN one[e] ELSE 0)]
  BY DEF Registered, (+)
<1>2. DOMAIN one = {l} /\ one[l] = 1
  BY DEF SetToBag
<1>3. \A e \in DOMAIN b : b[e] \in Nat /\ b[e] > 0
  BY DEF IsABag
<1> HIDE DEF one, B
<1>4. DOMAIN B = DOMAIN b \cup {l}
  BY <1>1, <1>2
<1>5. ASSUME NEW e \in DOMAIN B PROVE B[e] \in Nat /\ B[e] > 0
  <2>1. B[e] = (IF e \in DOMAIN b THEN b[e] ELSE 0) + (IF e \in DOMAIN one THEN one[e] ELSE 0)
    BY <1>1, <1>2, <1>4
  <2>2. CASE e \in DOMAIN b /\ e = l
    BY <1>2, <1>3, <2>1, <2>2
  <2>3. CASE e \in DOMAIN b /\ e # l
    BY <1>2, <1>3, <2>1, <2>3
  <2>4. CASE e \notin DOMAIN b
    BY <1>2, <1>4, <2>1, <2>4
  <2> QED BY <2>2, <2>3, <2>4
<1>6. B = [e \in DOMAIN B |-> B[e]]
  BY <1>1, <1>4
<1>7. IsABag(B)
  BY <1>5, <1>6 DEF IsABag
<1> QED BY <1>4, <1>7 DEF B, BagToSet

LEMMA EndedIs ==
  ASSUME NEW b, IsABag(b), NEW l
  PROVE  /\ IsABag(Ended(b, l))
         /\ BagToSet(Ended(b, l)) \subseteq BagToSet(b)
         /\ \A r \in BagToSet(b) : r # l => r \in BagToSet(Ended(b, l))
<1> DEFINE one == SetToBag({l})
           C == [e \in DOMAIN b |-> IF e \in DOMAIN one THEN b[e] - one[e] ELSE b[e]]
           B == Ended(b, l)
<1>1. B = [e \in {d \in DOMAIN C : C[d] > 0} |-> C[e]]
  BY DEF Ended, (-)
<1>2. DOMAIN one = {l} /\ one[l] = 1
  BY DEF SetToBag
<1>3. \A e \in DOMAIN b : b[e] \in Nat /\ b[e] > 0
  BY DEF IsABag
<1>4. DOMAIN C = DOMAIN b
  OBVIOUS
<1>5. \A e \in DOMAIN b : C[e] \in Int /\ (e # l => C[e] = b[e])
  BY <1>2, <1>3
<1> HIDE DEF one, C, B
<1>6. DOMAIN B \subseteq DOMAIN b /\ \A e \in DOMAIN B : B[e] \in Nat /\ B[e] > 0
  BY <1>1, <1>4, <1>5
<1>7. \A r \in DOMAIN b : r # l => r \in DOMAIN B
  BY <1>1, <1>3, <1>4, <1>5
<1>8. B = [e \in DOMAIN B |-> B[e]]
  BY <1>1
<1>9. IsABag(B)
  BY <1>6, <1>8 DEF IsABag
<1> QED BY <1>6, <1>7, <1>9 DEF B, BagToSet

LEMMA OneInBag ==
  ASSUME NEW l
  PROVE  /\ Registered(EmptyBag, l) = SetToBag({l})
         /\ Ended(SetToBag({l}), l) = EmptyBag
         /\ BagToSet(SetToBag({l})) = {l} /\ IsABag(SetToBag({l}))
         /\ BagToSet(EmptyBag) = {} /\ IsABag(EmptyBag)
<1> DEFINE one == SetToBag({l})
           none == EmptyBag
<1>1. one = [e \in {l} |-> 1] /\ DOMAIN one = {l} /\ one[l] = 1
  BY DEF SetToBag
<1>2. none = [e \in {} |-> 1] /\ DOMAIN none = {}
  BY DEF EmptyBag, SetToBag
<1>3. Registered(none, l) =
        [e \in (DOMAIN none) \cup (DOMAIN one) |->
           (IF e \in DOMAIN none THEN none[e] ELSE 0) + (IF e \in DOMAIN one THEN one[e] ELSE 0)]
  BY DEF Registered, (+)
<1> DEFINE C == [e \in DOMAIN one |-> IF e \in DOMAIN one THEN one[e] - one[e] ELSE one[e]]
<1>4. Ended(one, l) = [e \in {d \in DOMAIN C : C[d] > 0} |-> C[e]]
  BY DEF Ended, (-)
<1>5. IsABag(one) /\ IsABag(none)
  <2> HIDE DEF one, none
  <2>1. one \in [DOMAIN one -> {n \in Nat : n > 0}]
    BY <1>1
  <2>2. none \in [DOMAIN none -> {n \in Nat : n > 0}]
    BY <1>2
  <2> QED BY <2>1, <2>2 DEF IsABag
<1> HIDE DEF one, none
<1>6. Registered(none, l) = one
  BY <1>1, <1>2, <1>3
<1>7. {d \in DOMAIN C : C[d] > 0} = {}
  BY <1>1
<1> HIDE DEF C
<1>8. Ended(one, l) = none
  BY <1>2, <1>4, <1>7
<1> QED BY <1>1, <1>2, <1>5, <1>6, <1>8 DEF one, none, BagToSet

-----------------------------------------------------------------------------
(* Types.                                                                    *)

(* What the types say of rows and of the server.                             *)
LEMMA TypesOfRows ==
  ASSUME TypeOK
  PROVE  /\ joined \in [User -> Int]
         /\ None \notin Time /\ \A t \in {None} \cup Time : t \in Int
         /\ \A y \in Row : y.user \in Other /\ y.user \in User /\ y.user # Me
                           /\ y.version \in Time /\ y.version # None
         /\ \A u \in Other : version[u] # None => RowOf(u) \in Row
<1>1. None \notin Time /\ \A t \in {None} \cup Time : t \in Int
  BY BoundAssumption DEF Time, None
<1>2. joined \in [User -> Int]
  BY <1>1 DEF TypeOK
<1>3. \A y \in Row : y.user \in Other /\ y.version \in Time
  BY DEF Row
<1>4. \A u \in Other : u \in User /\ u # Me
  BY DEF Other
<1>5. ASSUME NEW u \in Other, version[u] # None PROVE RowOf(u) \in Row
  <2>1. version[u] \in Time
    BY <1>4, <1>5 DEF TypeOK
  <2> QED BY <2>1 DEF RowOf, Row
<1>6. \A y \in Row : /\ y.user \in Other /\ y.user \in User /\ y.user # Me
                     /\ y.version \in Time /\ y.version # None
  BY <1>1, <1>3, <1>4
<1> QED BY <1>1, <1>2, <1>5, <1>6

LEMMA RowsOfArray ==
  ASSUME NEW s \in Seq(Row)
  PROVE  /\ \A i \in DOMAIN s : s[i] \in Row /\ Has(s, s[i])
         /\ \A y : Has(s, y) => y \in Row
  BY DEF Has

(* What the two callbacks leave, in any state.                               *)
LEMMA UsersEdit ==
  ASSUME TypeOK, NEW l, NEW order \in Orders(Changed(l, version)), NEW new
  PROVE  LET edited == Edited(order, new, Other)
         IN  /\ edited \in Loop(Row)
             /\ \A y : Has(edited.rows, y) =>
                  \/ Has(showAllUsers, y)
                  \/ version[y.user] # None
<1> DEFINE S == Changed(l, version)
           edited == Edited(order, new, Other)
<1>1. S \subseteq User /\ \A u \in S : version[u] # None
  BY DEF Changed
<1>2. /\ Len(order) \in Nat /\ \A i \in 1 .. Len(order) : order[i] \in S
  <2> HIDE DEF S
  <2>1. order \in Seq(S) /\ Len(order) \in Nat
    BY <1>1, OrderIs DEF S
  <2> QED BY <2>1
<1> HIDE DEF S
<1>3. \A i \in 1 .. Len(order) : order[i] \in Other => RowOf(order[i]) \in Row
  BY <1>1, <1>2, TypesOfRows
<1>4. showAllUsers \in Seq(Row)
  BY DEF TypeOK
<1>5. /\ edited \in Loop(Row)
      /\ \A y : Has(edited.rows, y) =>
           \/ Has(showAllUsers, y)
           \/ \E k \in 1 .. Len(order) : order[k] \in Other /\ y = RowOf(order[k])
  BY <1>2, <1>3, <1>4, EditKeepsOrder
<1>6. \A k \in 1 .. Len(order) : RowOf(order[k]).user = order[k] /\ version[order[k]] # None
  BY <1>1, <1>2 DEF RowOf
<1> HIDE DEF edited
<1> QED BY <1>5, <1>6 DEF edited

LEMMA RoomsEdit ==
  ASSUME TypeOK, NEW l, NEW order \in Orders(Changed(l, room))
  PROVE  LET edited == Edited(order, {}, {})
         IN  /\ edited \in Loop(Row)
             /\ InOrder(showAllUsers) => InOrder(edited.rows)
             /\ \A y : Has(edited.rows, y) => Has(showAllUsers, y)
<1> DEFINE S == Changed(l, room)
<1>1. S \subseteq User
  BY DEF Changed
<1>2. Len(order) \in Nat
  BY <1>1, OrderIs
<1>3. showAllUsers \in Seq(Row)
  BY DEF TypeOK
<1>4. \A i \in 1 .. Len(order) : order[i] \in {} => RowOf(order[i]) \in Row
  OBVIOUS
<1> QED BY <1>2, <1>3, <1>4, EditKeepsOrder

LEMMA ListenersAre ==
  ASSUME TypeOK
  PROVE  /\ NewListener \in Listener /\ After(version) \in Listener /\ After(room) \in Listener
         /\ NewListener.first /\ \A u \in User : NewListener.seen[u] = None
         /\ ~After(version).first /\ ~After(room).first
         /\ After(version).seen = version /\ After(room).seen = room
  BY DEF TypeOK, NewListener, After, Listener

LEMMA TypeStep ==
  ASSUME TypeOK, userRegs <= appears, [Next]_vars
  PROVE  TypeOK'
<1>1. /\ MaxTime \in Nat /\ MaxAppear \in Nat /\ now \in 0 .. MaxTime /\ roomRegs \in Nat
      /\ appears \in 0 .. MaxAppear /\ userRegs \in 0 .. MaxAppear
  BY BoundAssumption DEF TypeOK, Time
<1>2. ASSUME Tick PROVE now' \in Time
  BY <1>1, <1>2 DEF Tick, Time
<1>3. ASSUME NEW u \in User, SignUp(u) PROVE TypeOK'
  <2>1. /\ joined' \in [User -> {None} \cup Time] /\ version' \in [User -> {None} \cup Time]
        /\ now' \in Time
    BY <1>2, <1>3 DEF SignUp, TypeOK
  <2> QED BY <1>3, <2>1 DEF SignUp, TypeOK, app, registry
<1>4. ASSUME NEW u \in User, EditProfile(u) PROVE TypeOK'
  <2>1. version' \in [User -> {None} \cup Time] /\ now' \in Time
    BY <1>2, <1>4 DEF EditProfile, TypeOK
  <2> QED BY <1>4, <2>1 DEF EditProfile, TypeOK, app, registry
<1>5. ASSUME NEW u \in User, WriteRoom(u) PROVE TypeOK'
  <2>1. room' \in [User -> {None} \cup Time] /\ now' \in Time
    BY <1>2, <1>5 DEF WriteRoom, TypeOK
  <2> QED BY <1>5, <2>1 DEF WriteRoom, TypeOK, app, registry
<1>6. CASE Appear
  <2>1. <<>> \in Seq(Row)
    OBVIOUS
  <2>2. appears' \in 0 .. MaxAppear /\ userRegs' \in 0 .. MaxAppear
    BY <1>1, <1>6 DEF Appear
  <2> QED BY <1>6, <2>1, <2>2 DEF Appear, TypeOK, server
<1>7. CASE RegisterUsers
  <2>1. userRegs' \in 0 .. MaxAppear /\ userListener' \in BOOLEAN
    BY <1>1, <1>7 DEF RegisterUsers
  <2>2. IsABag(userListeners') /\ BagToSet(userListeners') \subseteq Listener
    BY <1>7, RegisteredIs, ListenersAre DEF RegisterUsers, TypeOK
  <2> QED BY <1>7, <2>1, <2>2 DEF RegisterUsers, TypeOK, server
<1>8. CASE RegisterRooms
  <2>1. roomRegs' \in Nat
    BY <1>1, <1>8 DEF RegisterRooms
  <2>2. IsABag(roomListeners') /\ BagToSet(roomListeners') \subseteq Listener
    BY <1>8, RegisteredIs, ListenersAre DEF RegisterRooms, TypeOK
  <2> QED BY <1>8, <2>1, <2>2 DEF RegisterRooms, TypeOK, server
<1>9. ASSUME NEW l \in BagToSet(userListeners), UsersFail(l) PROVE TypeOK'
  <2>1. IsABag(userListeners') /\ BagToSet(userListeners') \subseteq Listener
    BY <1>9, EndedIs DEF UsersFail, TypeOK
  <2> QED BY <1>9, <2>1 DEF UsersFail, TypeOK, server
<1>10. ASSUME NEW l \in BagToSet(roomListeners), RoomsFail(l) PROVE TypeOK'
  <2>1. IsABag(roomListeners') /\ BagToSet(roomListeners') \subseteq Listener
    BY <1>10, EndedIs DEF RoomsFail, TypeOK
  <2> QED BY <1>10, <2>1 DEF RoomsFail, TypeOK, server
<1>11. ASSUME NEW l \in BagToSet(userListeners), UsersSnapshot(l) PROVE TypeOK'
  <2>1. PICK order \in Orders(Changed(l, version)) :
          LET edited == Edited(order, {u \in User : u = Me \/ l.seen[u] = None}, Other)
          IN  showAllUsers' = Sorted(edited.rows) /\ trapped' = edited.trapped
    BY <1>11 DEF UsersSnapshot
  <2> DEFINE new == {u \in User : u = Me \/ l.seen[u] = None}
             edited == Edited(order, new, Other)
  <2>2. edited \in Loop(Row)
    BY UsersEdit
  <2>3. showAllUsers' = Sorted(edited.rows) /\ trapped' = edited.trapped
    BY <2>1
  <2> HIDE DEF edited
  <2>4. showAllUsers' \in Seq(Row) /\ trapped' \in BOOLEAN
    BY <2>2, <2>3, SortedIs, TypesOfRows DEF Loop
  <2>5. roomRegs' \in Nat
    BY <1>1, <1>11 DEF UsersSnapshot, Nested
  <2>6. IsABag(userListeners') /\ BagToSet(userListeners') \subseteq Listener
    <3>1. userListeners' = Registered(Ended(userListeners, l), After(version))
      BY <1>11 DEF UsersSnapshot
    <3>2. IsABag(Ended(userListeners, l)) /\ BagToSet(Ended(userListeners, l)) \subseteq Listener
      BY EndedIs DEF TypeOK
    <3> QED BY <3>1, <3>2, RegisteredIs, ListenersAre
  <2> QED BY <1>11, <2>4, <2>5, <2>6 DEF UsersSnapshot, TypeOK, server
<1>12. ASSUME NEW l \in BagToSet(roomListeners), RoomsSnapshot(l) PROVE TypeOK'
  <2>1. PICK order \in Orders(Changed(l, room)) :
          LET edited == Edited(order, {}, {})
          IN  /\ showAllUsers' = edited.rows
              /\ trapped' = edited.trapped
              /\ users' = IF edited.trapped THEN users ELSE Found(edited.rows, searchText)
    BY <1>12 DEF RoomsSnapshot
  <2> DEFINE edited == Edited(order, {}, {})
  <2>2. edited \in Loop(Row)
    BY RoomsEdit
  <2>3. /\ showAllUsers' = edited.rows /\ trapped' = edited.trapped
        /\ users' = IF edited.trapped THEN users ELSE Found(edited.rows, searchText)
    BY <2>1
  <2> HIDE DEF edited
  <2>4. showAllUsers' \in Seq(Row) /\ trapped' \in BOOLEAN
    BY <2>2, <2>3 DEF Loop
  <2>5. users' \in Seq(Row)
    <3>1. edited.rows \in Seq(Row) /\ users \in Seq(Row)
      BY <2>2 DEF Loop, TypeOK
    <3>2. Found(edited.rows, searchText) \in Seq(Row)
      BY <3>1, FoundIs, TypesOfRows
    <3> QED BY <2>3, <3>1, <3>2
  <2>6. IsABag(roomListeners') /\ BagToSet(roomListeners') \subseteq Listener
    <3>1. roomListeners' = Registered(Ended(roomListeners, l), After(room))
      BY <1>12 DEF RoomsSnapshot
    <3>2. IsABag(Ended(roomListeners, l)) /\ BagToSet(Ended(roomListeners, l)) \subseteq Listener
      BY EndedIs DEF TypeOK
    <3> QED BY <3>1, <3>2, RegisteredIs, ListenersAre
  <2> QED BY <1>12, <2>4, <2>5, <2>6 DEF RoomsSnapshot, TypeOK, server
<1>13. ASSUME NEW text \in Texts, Search(text) PROVE TypeOK'
  <2>1. users' \in Seq(Row)
    BY <1>13, FoundIs, TypesOfRows DEF Search, TypeOK
  <2>2. searchText' \subseteq User
    BY <1>13 DEF Search, Texts, Other
  <2> QED BY <1>13, <2>1, <2>2 DEF Search, TypeOK, server, registry
<1>14. CASE UNCHANGED vars
  BY <1>14 DEF vars, server, registry, TypeOK
<1> QED BY <1>3, <1>4, <1>5, <1>6, <1>7, <1>8, <1>9, <1>10, <1>11, <1>12, <1>13, <1>14 DEF Next

-----------------------------------------------------------------------------
(* The server, the listeners' snapshots and the order of the arrays.         *)

LEMMA Clock ==
  ASSUME TypeOK
  PROVE  /\ now \in Nat /\ None < now /\ \A u \in User : room[u] \in Int
         /\ \A l \in Listener, u \in User : l.seen[u] \in Int
         /\ Tick => now' = now + 1 /\ now' > now /\ now' # None
<1>1. \A t \in {None} \cup Time : t \in Int
  BY TypesOfRows
<1>2. now \in Nat
  BY BoundAssumption DEF TypeOK, Time
<1>3. \A u \in User : room[u] \in Int
  BY <1>1 DEF TypeOK
<1>4. ASSUME NEW l \in Listener, NEW u \in User PROVE l.seen[u] \in Int
  <2>1. l.seen[u] \in {None} \cup Time
    BY DEF Listener
  <2> QED BY <1>1, <2>1
<1> QED BY <1>2, <1>3, <1>4 DEF Tick, None

LEMMA ServerStep ==
  ASSUME TypeOK, ServerIsSound, [Next]_vars
  PROVE  ServerIsSound'
<1>1. ASSUME NEW u \in User, SignUp(u) PROVE ServerIsSound'
  <2> SUFFICES ASSUME NEW v \in User
               PROVE  (version'[v] # None <=> joined'[v] # None) /\ room'[v] <= now'
    BY DEF ServerIsSound
  <2>1. now' # None /\ now' > now /\ now \in Int /\ room[v] \in Int /\ now' \in Int
    BY <1>1, Clock DEF SignUp
  <2>2. room'[v] <= now'
    BY <1>1, <2>1 DEF SignUp, ServerIsSound
  <2>3. CASE v = u
    BY <1>1, <2>1, <2>2, <2>3 DEF SignUp, TypeOK
  <2>4. CASE v # u
    BY <1>1, <2>2, <2>4 DEF SignUp, TypeOK, ServerIsSound
  <2> QED BY <2>3, <2>4
<1>2. ASSUME NEW u \in User, EditProfile(u) PROVE ServerIsSound'
  <2> SUFFICES ASSUME NEW v \in User
               PROVE  (version'[v] # None <=> joined'[v] # None) /\ room'[v] <= now'
    BY DEF ServerIsSound
  <2>1. now' # None /\ now' > now /\ now \in Int /\ room[v] \in Int /\ now' \in Int
    BY <1>2, Clock DEF EditProfile
  <2>2. room'[v] <= now'
    BY <1>2, <2>1 DEF EditProfile, ServerIsSound
  <2>3. CASE v = u
    BY <1>2, <2>1, <2>2, <2>3 DEF EditProfile, TypeOK
  <2>4. CASE v # u
    BY <1>2, <2>2, <2>4 DEF EditProfile, TypeOK, ServerIsSound
  <2> QED BY <2>3, <2>4
<1>3. ASSUME NEW u \in User, WriteRoom(u) PROVE ServerIsSound'
  <2> SUFFICES ASSUME NEW v \in User
               PROVE  (version'[v] # None <=> joined'[v] # None) /\ room'[v] <= now'
    BY DEF ServerIsSound
  <2>1. now' > now /\ now \in Int /\ room[v] \in Int /\ now' \in Int
    BY <1>3, Clock DEF WriteRoom
  <2>2. version'[v] # None <=> joined'[v] # None
    BY <1>3 DEF WriteRoom, ServerIsSound
  <2>3. CASE v = u
    BY <1>3, <2>1, <2>2, <2>3 DEF WriteRoom, TypeOK
  <2>4. CASE v # u
    BY <1>3, <2>1, <2>2, <2>4 DEF WriteRoom, TypeOK, ServerIsSound
  <2> QED BY <2>3, <2>4
<1>4. CASE UNCHANGED server
  BY <1>4 DEF server, ServerIsSound
<1> QED BY <1>1, <1>2, <1>3, <1>4 DEF Next, vars, Appear, RegisterUsers, RegisterRooms,
       UsersFail, UsersSnapshot, RoomsFail, RoomsSnapshot, Search

LEMMA SeenStep ==
  ASSUME TypeOK, ServerIsSound, SeenIsPast, [Next]_vars
  PROVE  SeenIsPast'
<1> DEFINE SeenUsers(b, doc) == \A l \in BagToSet(b), u \in User : l.seen[u] # None => doc[u] # None
           SeenRooms(b, t) == \A l \in BagToSet(b), u \in User : l.seen[u] <= t
<1>1. SeenUsers(userListeners, version) /\ SeenRooms(roomListeners, now)
  BY DEF SeenIsPast
<1>2. /\ IsABag(userListeners) /\ BagToSet(userListeners) \subseteq Listener
      /\ IsABag(roomListeners) /\ BagToSet(roomListeners) \subseteq Listener
  BY DEF TypeOK
<1>3. ASSUME Tick, UNCHANGED app, \A u \in User : version[u] # None => version'[u] # None
      PROVE SeenIsPast'
  <2>1. now' > now /\ now \in Int /\ now' \in Int
    BY <1>3, Clock
  <2>2. \A l \in BagToSet(roomListeners), u \in User : l.seen[u] <= now'
    BY <1>1, <1>2, <2>1, Clock
  <2> QED BY <1>1, <1>3, <2>2 DEF SeenIsPast, app, registry
<1>4. ASSUME NEW u \in User, SignUp(u) \/ EditProfile(u) PROVE SeenIsPast'
  <2>1. Tick /\ UNCHANGED app
    BY <1>4 DEF SignUp, EditProfile
  <2>2. version' = [version EXCEPT ![u] = now'] /\ now' # None
    BY <1>4, <2>1, Clock DEF SignUp, EditProfile
  <2>3. \A v \in User : version[v] # None => version'[v] # None
    BY <2>2 DEF TypeOK
  <2> QED BY <1>3, <2>1, <2>3
<1>5. ASSUME NEW u \in User, WriteRoom(u) PROVE SeenIsPast'
  BY <1>3, <1>5 DEF WriteRoom
<1>6. CASE RegisterUsers
  <2>1. BagToSet(userListeners') = BagToSet(userListeners) \cup {NewListener}
    BY <1>2, <1>6, RegisteredIs DEF RegisterUsers
  <2>2. SeenUsers(userListeners', version)
    BY <1>1, <2>1, ListenersAre
  <2> QED BY <1>1, <1>6, <2>2 DEF RegisterUsers, server, SeenIsPast
<1>7. CASE RegisterRooms
  <2>1. BagToSet(roomListeners') = BagToSet(roomListeners) \cup {NewListener}
    BY <1>2, <1>7, RegisteredIs DEF RegisterRooms
  <2>2. \A u \in User : NewListener.seen[u] <= now
    BY ListenersAre, Clock DEF None
  <2>3. SeenRooms(roomListeners', now)
    BY <1>1, <2>1, <2>2
  <2> QED BY <1>1, <1>7, <2>3 DEF RegisterRooms, server, SeenIsPast
<1>8. ASSUME NEW l \in BagToSet(userListeners), UsersFail(l) PROVE SeenIsPast'
  <2>1. BagToSet(userListeners') \subseteq BagToSet(userListeners)
    BY <1>2, <1>8, EndedIs DEF UsersFail
  <2> QED BY <1>1, <1>8, <2>1 DEF UsersFail, server, SeenIsPast
<1>9. ASSUME NEW l \in BagToSet(roomListeners), RoomsFail(l) PROVE SeenIsPast'
  <2>1. BagToSet(roomListeners') \subseteq BagToSet(roomListeners)
    BY <1>2, <1>9, EndedIs DEF RoomsFail
  <2> QED BY <1>1, <1>9, <2>1 DEF RoomsFail, server, SeenIsPast
<1>10. ASSUME NEW l \in BagToSet(userListeners), UsersSnapshot(l) PROVE SeenIsPast'
  <2>1. userListeners' = Registered(Ended(userListeners, l), After(version))
    BY <1>10 DEF UsersSnapshot
  <2>2. BagToSet(userListeners') \subseteq BagToSet(userListeners) \cup {After(version)}
    BY <1>2, <2>1, EndedIs, RegisteredIs
  <2>3. SeenUsers(userListeners', version)
    BY <1>1, <2>2, ListenersAre
  <2> QED BY <1>1, <1>10, <2>3 DEF UsersSnapshot, server, SeenIsPast
<1>11. ASSUME NEW l \in BagToSet(roomListeners), RoomsSnapshot(l) PROVE SeenIsPast'
  <2>1. roomListeners' = Registered(Ended(roomListeners, l), After(room))
    BY <1>11 DEF RoomsSnapshot
  <2>2. BagToSet(roomListeners') \subseteq BagToSet(roomListeners) \cup {After(room)}
    BY <1>2, <2>1, EndedIs, RegisteredIs
  <2>3. SeenRooms(roomListeners', now)
    BY <1>1, <2>2, ListenersAre DEF ServerIsSound
  <2> QED BY <1>1, <1>11, <2>3 DEF RoomsSnapshot, server, SeenIsPast
<1>12. CASE UNCHANGED <<server, userListeners, roomListeners>>
  BY <1>12 DEF server, SeenIsPast
<1> QED BY <1>4, <1>5, <1>6, <1>7, <1>8, <1>9, <1>10, <1>11, <1>12
       DEF Next, vars, registry, Appear, Search

(* Rows that are in an array of users who have signed up, in order.          *)
LEMMA ArraysStep ==
  ASSUME TypeOK, ServerIsSound, ArraysInOrder, [Next]_vars
  PROVE  ArraysInOrder'
<1> DEFINE Fine(s) == InOrder(s) /\ HaveJoined(s)
<1>1. Fine(showAllUsers) /\ Fine(users)
  BY DEF ArraysInOrder
<1>2. showAllUsers \in Seq(Row) /\ users \in Seq(Row)
  BY DEF TypeOK
<1>3. \A s : HaveJoined(s) <=> \A y : Has(s, y) => joined[y.user] # None
  BY DEF HaveJoined, Has
<1>4. ASSUME joined' = joined, Fine(showAllUsers'), Fine(users') PROVE ArraysInOrder'
  BY <1>4 DEF ArraysInOrder, InOrder, HaveJoined
<1>5. Fine(<<>>)
  <2>1. DOMAIN <<>> = {}
    OBVIOUS
  <2> QED BY <2>1 DEF InOrder, HaveJoined
<1>6. ASSUME NEW rows \in Seq(Row), NEW text, Fine(rows) PROVE Fine(Found(rows, text))
  BY <1>3, <1>6, FoundIs, TypesOfRows
<1>7. ASSUME NEW u \in User, SignUp(u) PROVE ArraysInOrder'
  <2>1. \A v \in User : joined[v] # None => joined'[v] = joined[v]
    BY <1>7 DEF SignUp, TypeOK
  <2>2. ASSUME NEW s \in Seq(Row), Fine(s)
        PROVE  \A i \in DOMAIN s : joined'[s[i].user] = joined[s[i].user]
    <3> SUFFICES ASSUME NEW i \in DOMAIN s PROVE joined'[s[i].user] = joined[s[i].user]
      OBVIOUS
    <3>1. s[i] \in Row /\ s[i].user \in User
      BY TypesOfRows, RowsOfArray
    <3> QED BY <2>1, <2>2, <3>1 DEF HaveJoined
  <2>3. showAllUsers' = showAllUsers /\ users' = users
    BY <1>7 DEF SignUp, app
  <2>4. /\ \A i \in DOMAIN showAllUsers :
             joined'[showAllUsers[i].user] = joined[showAllUsers[i].user]
        /\ \A i \in DOMAIN users : joined'[users[i].user] = joined[users[i].user]
    BY <1>1, <1>2, <2>2
  <2>5. InOrder(showAllUsers)' /\ HaveJoined(showAllUsers)'
    BY <1>1, <2>3, <2>4 DEF InOrder, HaveJoined
  <2>6. InOrder(users)' /\ HaveJoined(users)'
    BY <1>1, <2>3, <2>4 DEF InOrder, HaveJoined
  <2> QED BY <2>5, <2>6 DEF ArraysInOrder
<1>8. ASSUME NEW u \in User, EditProfile(u) \/ WriteRoom(u) PROVE ArraysInOrder'
  BY <1>1, <1>4, <1>8 DEF EditProfile, WriteRoom, app
<1>9. CASE Appear
  BY <1>4, <1>5, <1>9 DEF Appear, server
<1>10. CASE UNCHANGED <<server, showAllUsers, users>>
  BY <1>1, <1>4, <1>10 DEF server
<1>11. ASSUME NEW l \in BagToSet(userListeners), UsersSnapshot(l) PROVE ArraysInOrder'
  <2>1. PICK order \in Orders(Changed(l, version)) :
          LET edited == Edited(order, {u \in User : u = Me \/ l.seen[u] = None}, Other)
          IN  showAllUsers' = Sorted(edited.rows) /\ trapped' = edited.trapped
    BY <1>11 DEF UsersSnapshot
  <2> DEFINE edited == Edited(order, {u \in User : u = Me \/ l.seen[u] = None}, Other)
  <2>2. /\ edited \in Loop(Row)
        /\ \A y : Has(edited.rows, y) => Has(showAllUsers, y) \/ version[y.user] # None
    BY UsersEdit
  <2>3. showAllUsers' = Sorted(edited.rows)
    BY <2>1
  <2> HIDE DEF edited
  <2>4. edited.rows \in Seq(Row)
    BY <2>2 DEF Loop
  <2>5. InOrder(Sorted(edited.rows)) /\ \A y : Has(Sorted(edited.rows), y) <=> Has(edited.rows, y)
    BY <2>4, SortedIs, TypesOfRows
  <2>6. ASSUME NEW y, Has(edited.rows, y) PROVE joined[y.user] # None
    <3>1. y.user \in User
      BY <2>4, <2>6, RowsOfArray, TypesOfRows
    <3> QED BY <1>1, <1>3, <2>2, <2>6, <3>1 DEF ServerIsSound
  <2>7. Fine(Sorted(edited.rows))
    BY <1>3, <2>5, <2>6
  <2> QED BY <1>1, <1>4, <1>11, <2>3, <2>7 DEF UsersSnapshot, server
<1>12. ASSUME NEW l \in BagToSet(roomListeners), RoomsSnapshot(l) PROVE ArraysInOrder'
  <2>1. PICK order \in Orders(Changed(l, room)) :
          LET edited == Edited(order, {}, {})
          IN  /\ showAllUsers' = edited.rows
              /\ trapped' = edited.trapped
              /\ users' = IF edited.trapped THEN users ELSE Found(edited.rows, searchText)
    BY <1>12 DEF RoomsSnapshot
  <2> DEFINE edited == Edited(order, {}, {})
  <2>2. /\ edited \in Loop(Row)
        /\ InOrder(showAllUsers) => InOrder(edited.rows)
        /\ \A y : Has(edited.rows, y) => Has(showAllUsers, y)
    BY RoomsEdit
  <2>3. /\ showAllUsers' = edited.rows
        /\ users' = IF edited.trapped THEN users ELSE Found(edited.rows, searchText)
    BY <2>1
  <2> HIDE DEF edited
  <2>4. edited.rows \in Seq(Row) /\ Fine(edited.rows)
    <3>1. edited.rows \in Seq(Row)
      BY <2>2 DEF Loop
    <3>2. \A y : Has(edited.rows, y) => joined[y.user] # None
      BY <1>1, <1>3, <2>2
    <3>3. HaveJoined(edited.rows)
      BY <1>3, <3>2
    <3> QED BY <1>1, <2>2, <3>1, <3>3
  <2>5. Fine(users')
    BY <1>1, <1>6, <2>3, <2>4
  <2> QED BY <1>4, <1>12, <2>3, <2>4, <2>5 DEF RoomsSnapshot, server
<1>13. ASSUME NEW text \in Texts, Search(text) PROVE ArraysInOrder'
  BY <1>1, <1>2, <1>4, <1>6, <1>13 DEF Search, server
<1> QED BY <1>7, <1>8, <1>9, <1>10, <1>11, <1>12, <1>13
       DEF Next, vars, registry, RegisterUsers, RegisterRooms, UsersFail, RoomsFail

-----------------------------------------------------------------------------
(* One appearance of the screen, step by step.                               *)

(* A write to the server.                                                    *)
LEMMA OneAppearanceWrites ==
  ASSUME TypeOK, SeenIsPast, OneAppearance, NEW u \in User,
         SignUp(u) \/ EditProfile(u) \/ WriteRoom(u)
  PROVE  OneAppearance'
<1>1. UNCHANGED app /\ Tick
  BY DEF SignUp, EditProfile, WriteRoom
<1>2. room' = room \/ room' = [room EXCEPT ![u] = now']
  BY DEF SignUp, EditProfile, WriteRoom
<1>3. /\ OneListener /\ RowsWereReported /\ RowsOnce /\ ReportedIsListed
      /\ RoomsFollow /\ TableFollows
  BY DEF OneAppearance
<1>4. OneListener' /\ RowsWereReported' /\ RowsOnce' /\ TableFollows'
  BY <1>1, <1>3 DEF app, registry, OneListener, Single, Fresh, RowsWereReported, RowsOnce,
     TableFollows, OneEach
<1>5. \A v \in User : room[v] # None => room'[v] # None
  BY <1>1, <1>2, Clock DEF TypeOK
<1>6. ReportedIsListed'
  BY <1>1, <1>3, <1>5 DEF app, registry, ReportedIsListed, Single, Has, Other
<1>7. RoomsFollow'
  <2> SUFFICES ASSUME Single, ~failed, showAllUsers # <<>> \/ DOMAIN showAllUsers # {},
                      NEW i \in DOMAIN showAllUsers, room'[showAllUsers[i].user] # None
               PROVE  \/ roomRegs > 0
                      \/ \E r \in BagToSet(roomListeners) :
                           r.seen[showAllUsers[i].user] # room'[showAllUsers[i].user]
    BY <1>1, <1>3 DEF app, registry, RoomsFollow, Single
  <2> DEFINE v == showAllUsers[i].user
  <2>1. v \in User /\ showAllUsers # <<>>
    <3>1. showAllUsers[i] \in Row
      BY RowsOfArray DEF TypeOK
    <3>2. DOMAIN <<>> = {}
      OBVIOUS
    <3> QED BY <3>1, <3>2, TypesOfRows
  <2> HIDE DEF v
  <2>2. CASE room'[v] = room[v]
    BY <1>3, <2>2 DEF RoomsFollow, v
  <2>3. CASE room'[v] # room[v]
    <3>1. room'[v] = now' /\ now' > now /\ now \in Int /\ now' \in Int
      BY <1>1, <1>2, <2>1, <2>3, Clock DEF TypeOK
    <3>2. \A r \in BagToSet(roomListeners) : r.seen[v] # room'[v]
      <4> SUFFICES ASSUME NEW r \in BagToSet(roomListeners) PROVE r.seen[v] # room'[v]
        OBVIOUS
      <4>1. r.seen[v] <= now /\ r.seen[v] \in Int
        BY <2>1, Clock DEF SeenIsPast, TypeOK
      <4> QED BY <3>1, <4>1
    <3>3. roomRegs > 0 \/ BagToSet(roomListeners) # {}
      BY <1>3, <2>1 DEF RoomsFollow
    <3> QED BY <3>2, <3>3 DEF v
  <2> QED BY <2>2, <2>3 DEF v
<1> QED BY <1>4, <1>6, <1>7 DEF OneAppearance

(* What is known of the screen's first appearance.                           *)
LEMMA SingleIs ==
  ASSUME TypeOK, OneListener
  PROVE  /\ appears \in Nat /\ userRegs \in Nat /\ roomRegs \in Nat
         /\ BagToSet(userListeners) # {} =>
              /\ appears # 0
              /\ Single => /\ userRegs = 0
                           /\ \E l \in Listener : userListeners = SetToBag({l})
         /\ roomRegs # 0 \/ BagToSet(roomListeners) # {} =>
              appears # 0 /\ (Single => userRegs = 0)
<1>1. appears \in Nat /\ userRegs \in Nat /\ roomRegs \in Nat
  BY BoundAssumption DEF TypeOK
<1>2. BagToSet(userListeners) # {} => userListeners # EmptyBag
  BY OneInBag
<1>3. roomRegs # 0 \/ BagToSet(roomListeners) # {} => ~Fresh
  BY OneInBag DEF Fresh
<1> QED BY <1>1, <1>2, <1>3 DEF OneListener

LEMMA OneAppearanceAppear ==
  ASSUME TypeOK, OneAppearance, Appear
  PROVE  OneAppearance'
<1>1. OneListener /\ appears \in Nat /\ userRegs \in Nat /\ ~trapped
  BY SingleIs DEF OneAppearance, Appear
<1>2. /\ appears' = appears + 1 /\ userRegs' = userRegs + 1
      /\ showAllUsers' = <<>> /\ users' = <<>> /\ trapped' = trapped
      /\ userListeners' = userListeners /\ roomRegs' = roomRegs
      /\ roomListeners' = roomListeners /\ searchText' = searchText
  BY DEF Appear
<1>3. appears' # 0 /\ userRegs' <= appears'
  BY <1>1, <1>2 DEF OneListener
<1>4. ASSUME Single' PROVE userRegs' = 1 /\ userListeners = EmptyBag /\ Fresh
  <2>1. appears = 0
    BY <1>1, <1>2, <1>4 DEF Single
  <2> QED BY <1>1, <1>2, <2>1 DEF OneListener
<1>5. ASSUME Single' PROVE BagToSet(userListeners') = {} /\ Fresh'
  BY <1>2, <1>4, <1>5, OneInBag DEF Fresh
<1>6. DOMAIN <<>> = {}
  OBVIOUS
<1>7. OneListener'
  BY <1>2, <1>3, <1>4, <1>5 DEF OneListener
<1>8. RowsWereReported' /\ ReportedIsListed'
  BY <1>5 DEF RowsWereReported, ReportedIsListed
<1>9. RowsOnce' /\ RoomsFollow'
  BY <1>1, <1>2, <1>6 DEF RowsOnce, RoomsFollow, OneEach
<1>10. TableFollows'
  BY <1>2, FoundOfNone DEF TableFollows
<1> QED BY <1>7, <1>8, <1>9, <1>10 DEF OneAppearance

LEMMA OneAppearanceRegisterUsers ==
  ASSUME TypeOK, OneAppearance, RegisterUsers
  PROVE  OneAppearance'
<1>1. /\ OneListener /\ RowsWereReported /\ RowsOnce /\ ReportedIsListed
      /\ RoomsFollow /\ TableFollows /\ appears \in Nat /\ userRegs \in Nat
  BY SingleIs DEF OneAppearance
<1>2. /\ userRegs > 0 /\ userRegs' = userRegs - 1
      /\ userListeners' = Registered(userListeners, NewListener)
      /\ UNCHANGED <<server, appears, roomRegs, roomListeners, showAllUsers, users,
                     searchText, trapped, failed>>
  BY DEF RegisterUsers
<1>3. ASSUME Single
      PROVE  /\ userRegs' = 0 /\ Fresh
             /\ userListeners' = SetToBag({NewListener})
             /\ BagToSet(userListeners') = {NewListener}
  <2>1. userRegs = 1 /\ userListeners = EmptyBag /\ Fresh
    BY <1>1, <1>2, <1>3 DEF OneListener
  <2>2. userRegs' = 0
    BY <1>2, <2>1
  <2>3. userListeners' = Registered(EmptyBag, NewListener)
    BY <1>2, <2>1
  <2>4. userListeners' = SetToBag({NewListener})
    BY <2>3, OneInBag
  <2>5. BagToSet(userListeners') = {NewListener}
    BY <2>4, OneInBag
  <2> QED BY <2>1, <2>2, <2>4, <2>5
<1>4. Single' = Single
  BY <1>2 DEF Single
<1>5. NewListener \in Listener /\ \A u \in User : NewListener.seen[u] = None
  BY ListenersAre
<1>6. OneListener'
  <2>1. userRegs' <= appears' /\ appears' # 0
    BY <1>1, <1>2 DEF OneListener
  <2> QED BY <1>2, <1>3, <1>4, <1>5, <2>1 DEF OneListener
<1>7. RowsWereReported'
  <2>1. DOMAIN <<>> = {}
    OBVIOUS
  <2> QED BY <1>2, <1>3, <1>4, <2>1 DEF RowsWereReported, Fresh
<1>8. ReportedIsListed'
  BY <1>3, <1>4, <1>5 DEF ReportedIsListed, Other
<1>9. RowsOnce' /\ RoomsFollow' /\ TableFollows'
  BY <1>1, <1>2 DEF server, RowsOnce, OneEach, RoomsFollow, TableFollows, Single
<1> QED BY <1>6, <1>7, <1>8, <1>9 DEF OneAppearance

LEMMA OneAppearanceRegisterRooms ==
  ASSUME TypeOK, OneAppearance, RegisterRooms
  PROVE  OneAppearance'
<1>1. /\ OneListener /\ RowsWereReported /\ RowsOnce /\ ReportedIsListed
      /\ RoomsFollow /\ TableFollows
  BY DEF OneAppearance
<1>2. /\ roomRegs > 0 /\ roomRegs' = roomRegs - 1
      /\ roomListeners' = Registered(roomListeners, NewListener)
      /\ UNCHANGED <<server, appears, userRegs, userListener, userListeners,
                     showAllUsers, users, searchText, trapped, failed>>
  BY DEF RegisterRooms
<1>3. roomRegs \in Nat /\ appears # 0 /\ (Single => userRegs = 0)
  BY <1>1, <1>2, SingleIs
<1>4. BagToSet(roomListeners') = BagToSet(roomListeners) \cup {NewListener}
  BY <1>2, RegisteredIs DEF TypeOK
<1>5. NewListener \in BagToSet(roomListeners')
  BY <1>4
<1>6. OneListener'
  BY <1>1, <1>2, <1>3 DEF OneListener, Single
<1>7. RowsWereReported' /\ RowsOnce' /\ ReportedIsListed'
  BY <1>1, <1>2 DEF server, RowsWereReported, RowsOnce, ReportedIsListed, OneEach, Has, Single
<1>8. RoomsFollow'
  <2>1. \A i \in DOMAIN showAllUsers : NewListener.seen[showAllUsers[i].user] = None
    <3>1. \A i \in DOMAIN showAllUsers : showAllUsers[i].user \in User
      BY RowsOfArray, TypesOfRows DEF TypeOK
    <3> QED BY <3>1, ListenersAre
  <2> QED BY <1>2, <1>5, <2>1 DEF server, RoomsFollow
<1>9. TableFollows'
  BY <1>5, ListenersAre DEF TableFollows
<1> QED BY <1>6, <1>7, <1>8, <1>9 DEF OneAppearance

LEMMA OneAppearanceFails ==
  ASSUME TypeOK, OneAppearance,
         \/ \E l \in BagToSet(userListeners) : UsersFail(l)
         \/ \E l \in BagToSet(roomListeners) : RoomsFail(l)
  PROVE  OneAppearance'
<1>1. OneListener /\ RowsWereReported /\ RowsOnce /\ ReportedIsListed
  BY DEF OneAppearance
<1>2. RoomsFollow' /\ TableFollows'
  BY DEF UsersFail, RoomsFail, RoomsFollow, TableFollows
<1>3. ASSUME NEW l \in BagToSet(userListeners), UsersFail(l)
      PROVE  OneListener' /\ RowsWereReported' /\ RowsOnce' /\ ReportedIsListed'
  <2>1. /\ userListeners' = Ended(userListeners, l)
        /\ UNCHANGED <<server, appears, userRegs, userListener, roomRegs,
                       roomListeners, showAllUsers, users, searchText, trapped>>
    BY <1>3 DEF UsersFail
  <2>2. appears # 0 /\ (Single => /\ userRegs = 0
                                  /\ \E k \in Listener : userListeners = SetToBag({k}))
    BY <1>1, <1>3, SingleIs
  <2>3. ASSUME Single PROVE userListeners' = EmptyBag
    <3>1. PICK k \in Listener : userListeners = SetToBag({k})
      BY <2>2, <2>3
    <3>2. k = l
      BY <1>3, <3>1, OneInBag
    <3> QED BY <2>1, <3>1, <3>2, OneInBag
  <2>4. BagToSet(EmptyBag) = {}
    BY OneInBag
  <2>5. OneListener'
    BY <1>1, <2>1, <2>2, <2>3 DEF OneListener, Single
  <2>6. RowsWereReported' /\ ReportedIsListed'
    BY <2>1, <2>3, <2>4 DEF RowsWereReported, ReportedIsListed, Single
  <2>7. RowsOnce'
    BY <1>1, <2>1 DEF RowsOnce, OneEach, Single
  <2> QED BY <2>5, <2>6, <2>7
<1>4. ASSUME NEW l \in BagToSet(roomListeners), RoomsFail(l)
      PROVE  OneListener' /\ RowsWereReported' /\ RowsOnce' /\ ReportedIsListed'
  <2>1. UNCHANGED <<server, appears, userRegs, userListener, userListeners,
                    roomRegs, showAllUsers, users, searchText, trapped>>
    BY <1>4 DEF RoomsFail
  <2>2. appears # 0 /\ (Single => userRegs = 0)
    BY <1>1, <1>4, SingleIs
  <2>3. OneListener'
    BY <1>1, <2>1, <2>2 DEF OneListener, Single
  <2>4. RowsWereReported' /\ ReportedIsListed' /\ RowsOnce'
    BY <1>1, <2>1 DEF server, RowsWereReported, ReportedIsListed, RowsOnce, OneEach, Has, Single
  <2> QED BY <2>3, <2>4
<1> QED BY <1>2, <1>3, <1>4 DEF OneAppearance

LEMMA OneAppearanceSearch ==
  ASSUME OneAppearance, NEW text, Search(text)
  PROVE  OneAppearance'
<1>1. /\ OneListener /\ RowsWereReported /\ RowsOnce /\ ReportedIsListed /\ RoomsFollow
  BY DEF OneAppearance
<1>2. /\ searchText' = text /\ users' = Found(showAllUsers, text)
      /\ UNCHANGED <<server, registry, showAllUsers, trapped, failed>>
  BY DEF Search
<1>3. TableFollows'
  BY <1>2 DEF TableFollows
<1>4. OneListener' /\ RowsWereReported' /\ RowsOnce'
  BY <1>1, <1>2 DEF registry, OneListener, Fresh, RowsWereReported, RowsOnce, OneEach, Single
<1>5. ReportedIsListed' /\ RoomsFollow'
  BY <1>1, <1>2 DEF server, registry, ReportedIsListed, Has, RoomsFollow, Single
<1> QED BY <1>3, <1>4, <1>5 DEF OneAppearance

LEMMA OneAppearanceUsers ==
  ASSUME TypeOK, SeenIsPast, OneAppearance,
         NEW l \in BagToSet(userListeners), UsersSnapshot(l)
  PROVE  OneAppearance'
<1> DEFINE S == Changed(l, version)
           new == {u \in User : u = Me \/ l.seen[u] = None}
<1>1. /\ OneListener /\ RowsWereReported /\ RowsOnce /\ ReportedIsListed
  BY DEF OneAppearance
<1>2. /\ userListeners' = Registered(Ended(userListeners, l), After(version))
      /\ roomRegs' = roomRegs + 1
      /\ UNCHANGED <<server, appears, userRegs, userListener, roomListeners, users,
                     searchText, failed>>
  BY DEF UsersSnapshot, Nested
<1>3. /\ appears # 0 /\ roomRegs \in Nat
      /\ Single => userRegs = 0 /\ \E k \in Listener : userListeners = SetToBag({k})
  BY <1>1, SingleIs
<1>4. RoomsFollow' /\ TableFollows'
  BY <1>2, <1>3 DEF RoomsFollow, TableFollows
<1>5. ~Single => OneAppearance'
  BY <1>1, <1>2, <1>3, <1>4 DEF OneAppearance, OneListener, RowsWereReported, RowsOnce,
     ReportedIsListed, Single
<1> SUFFICES ASSUME Single PROVE OneAppearance'
  BY <1>5
<1>6. userListeners = SetToBag({l})
  <2>1. PICK k \in Listener : userListeners = SetToBag({k})
    BY <1>3
  <2>2. k = l
    BY <2>1, OneInBag
  <2> QED BY <2>1, <2>2
<1>7. userListeners' = SetToBag({After(version)}) /\ BagToSet(userListeners') = {After(version)}
  <2>1. Ended(userListeners, l) = EmptyBag
    BY <1>6, OneInBag
  <2>2. userListeners' = SetToBag({After(version)})
    BY <1>2, <2>1, OneInBag
  <2> QED BY <2>2, OneInBag
<1>8. OneListener'
  BY <1>1, <1>2, <1>3, <1>7, ListenersAre DEF OneListener
<1>9. After(version).seen = version
  BY ListenersAre
<1>10. showAllUsers \in Seq(Row)
  BY DEF TypeOK
<1>11. \A y : Has(showAllUsers, y) =>
         /\ y \in Row /\ y.user \in Other /\ y.user \in User /\ y.user # Me
         /\ y.version = l.seen[y.user] /\ l.seen[y.user] # None /\ version[y.user] # None
  <2> SUFFICES ASSUME NEW y, Has(showAllUsers, y)
               PROVE  /\ y \in Row /\ y.user \in Other /\ y.user \in User /\ y.user # Me
                      /\ y.version = l.seen[y.user] /\ l.seen[y.user] # None
                      /\ version[y.user] # None
    OBVIOUS
  <2>1. y \in Row
    BY <1>10, RowsOfArray
  <2>2. y.user \in Other /\ y.user \in User /\ y.user # Me /\ y.version # None
    BY <2>1, TypesOfRows
  <2>3. y.version = l.seen[y.user]
    BY <1>1 DEF Has, RowsWereReported
  <2> QED BY <2>1, <2>2, <2>3 DEF SeenIsPast
<1>12. S \subseteq User /\ \A u \in User : u \in S <=> version[u] # None /\ l.seen[u] # version[u]
  BY DEF Changed
<1>13. PICK order \in Orders(S) :
         LET edited == Edited(order, new, Other)
         IN  showAllUsers' = Sorted(edited.rows) /\ trapped' = edited.trapped
  BY DEF UsersSnapshot
<1> DEFINE edited == Edited(order, new, Other)
<1>14. /\ edited \in Loop(Row) /\ ~edited.trapped /\ OneEach(edited.rows)
       /\ \A y : Has(edited.rows, y) <=>
            \/ Has(showAllUsers, y) /\ y.user \notin S
            \/ \E u \in S \cap Other : y = RowOf(u)
  <2>1. OneEach(showAllUsers)
    BY <1>1 DEF RowsOnce
  <2>2. \A u \in S : u \in Other => RowOf(u) \in Row
    BY <1>12, TypesOfRows
  <2>3. \A u \in S : u \in new => \A y : Has(showAllUsers, y) => y.user # u
    BY <1>11
  <2> HIDE DEF S, new
  <2> QED BY <1>10, <1>12, <2>1, <2>2, <2>3, OneEdit
<1>15. showAllUsers' = Sorted(edited.rows) /\ trapped' = edited.trapped
  BY <1>13
<1> HIDE DEF edited, S, new
<1>16. /\ edited.rows \in Seq(Row) /\ showAllUsers' \in Seq(Row)
       /\ OneEach(showAllUsers') /\ ~trapped'
       /\ \A y : Has(showAllUsers', y) <=> Has(edited.rows, y)
  <2>1. edited.rows \in Seq(Row)
    BY <1>14 DEF Loop
  <2> QED BY <1>14, <1>15, <2>1, SortedIs, TypesOfRows
<1>17. RowsOnce'
  BY <1>16 DEF RowsOnce, OneEach
<1>18. RowsWereReported'
  <2> SUFFICES ASSUME NEW i \in DOMAIN showAllUsers'
               PROVE  showAllUsers'[i].version = version[showAllUsers'[i].user]
    BY <1>7, <1>9 DEF RowsWereReported
  <2> DEFINE y == showAllUsers'[i]
  <2>1. Has(edited.rows, y)
    BY <1>16 DEF Has
  <2> HIDE DEF y
  <2>2. CASE Has(showAllUsers, y) /\ y.user \notin S
    BY <1>11, <1>12, <2>2 DEF y
  <2>3. CASE \E u \in S \cap Other : y = RowOf(u)
    BY <2>3 DEF RowOf, y
  <2> QED BY <1>14, <2>1, <2>2, <2>3
<1>19. ReportedIsListed'
  <2> SUFFICES ASSUME NEW u \in Other, version[u] # None, room[u] = None
               PROVE  Has(showAllUsers', RowOf(u))
    BY <1>2, <1>7, <1>9 DEF ReportedIsListed, RowOf, server, Has
  <2>1. RowOf(u).user = u /\ u \in User
    BY DEF RowOf, Other
  <2>2. CASE u \in S
    BY <1>14, <1>16, <2>2
  <2>3. CASE u \notin S
    <3>1. l.seen[u] = version[u]
      BY <1>12, <2>1, <2>3
    <3>2. Has(showAllUsers, RowOf(u))
      BY <1>1, <3>1 DEF ReportedIsListed, RowOf
    <3> QED BY <1>14, <1>16, <2>1, <2>3, <3>2
  <2> QED BY <2>2, <2>3
<1> QED BY <1>4, <1>8, <1>17, <1>18, <1>19 DEF OneAppearance

LEMMA OneAppearanceRooms ==
  ASSUME TypeOK, OneAppearance, NEW l \in BagToSet(roomListeners), RoomsSnapshot(l)
  PROVE  OneAppearance'
<1> DEFINE S == Changed(l, room)
<1>1. /\ OneListener /\ RowsWereReported /\ RowsOnce /\ ReportedIsListed
      /\ RoomsFollow /\ TableFollows
  BY DEF OneAppearance
<1>2. /\ roomListeners' = Registered(Ended(roomListeners, l), After(room))
      /\ UNCHANGED <<server, appears, userRegs, userListener, userListeners,
                     roomRegs, searchText, failed>>
  BY DEF RoomsSnapshot
<1>3. appears # 0 /\ (Single => userRegs = 0)
  BY <1>1, SingleIs
<1>4. OneListener'
  BY <1>1, <1>2, <1>3 DEF OneListener, Single
<1>5. ~Single => OneAppearance'
  BY <1>2, <1>4 DEF OneAppearance, RowsWereReported, RowsOnce, ReportedIsListed,
     RoomsFollow, TableFollows, Single
<1> SUFFICES ASSUME Single PROVE OneAppearance'
  BY <1>5
<1>6. S \subseteq User /\ \A u \in User : u \in S <=> room[u] # None /\ l.seen[u] # room[u]
  BY DEF Changed
<1>7. PICK order \in Orders(S) :
        LET edited == Edited(order, {}, {})
        IN  /\ showAllUsers' = edited.rows
            /\ trapped' = edited.trapped
            /\ users' = IF edited.trapped THEN users ELSE Found(edited.rows, searchText)
  BY DEF RoomsSnapshot
<1> DEFINE edited == Edited(order, {}, {})
<1>8. /\ edited \in Loop(Row) /\ ~edited.trapped /\ OneEach(edited.rows)
      /\ \A y : Has(edited.rows, y) <=> Has(showAllUsers, y) /\ y.user \notin S
  <2>1. showAllUsers \in Seq(Row) /\ OneEach(showAllUsers)
    BY <1>1 DEF TypeOK, RowsOnce
  <2>2. /\ \A u \in S : u \in {} => RowOf(u) \in Row
        /\ \A u \in S : u \in {} => \A y : Has(showAllUsers, y) => y.user # u
    OBVIOUS
  <2> HIDE DEF S
  <2>3. /\ edited \in Loop(Row) /\ ~edited.trapped /\ OneEach(edited.rows)
        /\ \A y : Has(edited.rows, y) <=>
             \/ Has(showAllUsers, y) /\ y.user \notin S
             \/ \E u \in S \cap {} : y = RowOf(u)
    BY <1>6, <2>1, <2>2, OneEdit
  <2> HIDE DEF edited
  <2> QED BY <2>3
<1>9. /\ showAllUsers' = edited.rows /\ trapped' = edited.trapped
      /\ users' = IF edited.trapped THEN users ELSE Found(edited.rows, searchText)
  BY <1>7
<1> HIDE DEF edited, S
<1>10. /\ OneEach(showAllUsers') /\ ~trapped' /\ users' = Found(showAllUsers', searchText)
       /\ \A y : Has(showAllUsers', y) <=> Has(showAllUsers, y) /\ y.user \notin S
  BY <1>8, <1>9
<1>11. RowsOnce' /\ TableFollows'
  BY <1>2, <1>10 DEF RowsOnce, OneEach, TableFollows
<1>12. RowsWereReported'
  <2> SUFFICES ASSUME NEW k \in BagToSet(userListeners), NEW i \in DOMAIN showAllUsers'
               PROVE  showAllUsers'[i].version = k.seen[showAllUsers'[i].user]
    BY <1>2 DEF RowsWereReported
  <2>1. Has(showAllUsers', showAllUsers'[i])
    BY DEF Has
  <2>2. PICK j \in DOMAIN showAllUsers : showAllUsers[j] = showAllUsers'[i]
    BY <1>10, <2>1 DEF Has
  <2> QED BY <1>1, <2>2 DEF RowsWereReported
<1>13. ReportedIsListed'
  <2> SUFFICES ASSUME NEW k \in BagToSet(userListeners), NEW u \in Other,
                      k.seen[u] # None, room[u] = None
               PROVE  Has(showAllUsers', [user |-> u, version |-> k.seen[u]])
    BY <1>2 DEF ReportedIsListed, server, Has
  <2>1. Has(showAllUsers, [user |-> u, version |-> k.seen[u]])
    BY <1>1 DEF ReportedIsListed
  <2>2. u \notin S
    BY <1>6 DEF Other
  <2> QED BY <1>10, <2>1, <2>2
<1>14. After(room) \in BagToSet(roomListeners') /\
       \A r \in BagToSet(roomListeners) : r # l => r \in BagToSet(roomListeners')
  <2>1. /\ IsABag(Ended(roomListeners, l))
        /\ \A r \in BagToSet(roomListeners) : r # l => r \in BagToSet(Ended(roomListeners, l))
    BY EndedIs DEF TypeOK
  <2>2. BagToSet(roomListeners') = BagToSet(Ended(roomListeners, l)) \cup {After(room)}
    BY <1>2, <2>1, RegisteredIs
  <2> QED BY <2>1, <2>2
<1>15. RoomsFollow'
  <2> SUFFICES ASSUME ~failed, NEW i \in DOMAIN showAllUsers', room[showAllUsers'[i].user] # None
               PROVE  \/ roomRegs > 0
                      \/ \E r \in BagToSet(roomListeners') :
                           r.seen[showAllUsers'[i].user] # room[showAllUsers'[i].user]
    BY <1>2, <1>14 DEF RoomsFollow, server
  <2> DEFINE u == showAllUsers'[i].user
  <2>1. Has(showAllUsers, showAllUsers'[i]) /\ u \notin S
    BY <1>10 DEF Has
  <2>2. PICK j \in DOMAIN showAllUsers : showAllUsers[j] = showAllUsers'[i]
    BY <2>1 DEF Has
  <2>3. u \in User
    BY <2>2, RowsOfArray, TypesOfRows DEF TypeOK
  <2>4. roomRegs > 0 \/ \E r \in BagToSet(roomListeners) : r.seen[u] # room[u]
    BY <1>1, <2>2 DEF RoomsFollow
  <2>5. l.seen[u] = room[u]
    BY <1>6, <2>1, <2>3
  <2> QED BY <1>14, <2>4, <2>5
<1> QED BY <1>4, <1>11, <1>12, <1>13, <1>15 DEF OneAppearance

-----------------------------------------------------------------------------
LEMMA InitIsSound ==
  ASSUME Init
  PROVE  IInv
<1>1. DOMAIN <<>> = {} /\ <<>> \in Seq(Row)
  OBVIOUS
<1>2. BagToSet(EmptyBag) = {} /\ IsABag(EmptyBag)
  <2>1. \A l : BagToSet(EmptyBag) = {} /\ IsABag(EmptyBag)
    BY OneInBag
  <2> QED BY <2>1
<1>3. 0 \in Time /\ None \in {None} \cup Time /\ 0 \in 0 .. MaxAppear /\ 0 # None
  BY BoundAssumption DEF Time, None
<1>4. TypeOK
  <2>1. /\ joined \in [User -> {None} \cup Time] /\ version \in [User -> {None} \cup Time]
        /\ room \in [User -> {None} \cup Time]
    BY <1>3 DEF Init
  <2> QED BY <1>1, <1>2, <1>3, <2>1 DEF Init, TypeOK
<1>5. ServerIsSound
  BY DEF Init, ServerIsSound, None
<1>6. SeenIsPast
  BY <1>2 DEF Init, SeenIsPast
<1>7. ArraysInOrder
  BY <1>1 DEF Init, ArraysInOrder, InOrder, HaveJoined
<1>8. OneListener /\ RowsWereReported /\ ReportedIsListed
  BY <1>2 DEF Init, OneListener, Fresh, RowsWereReported, ReportedIsListed
<1>9. RowsOnce /\ RoomsFollow
  BY <1>1 DEF Init, RowsOnce, OneEach, RoomsFollow
<1>10. TableFollows
  BY FoundOfNone DEF Init, TableFollows
<1> QED BY <1>4, <1>5, <1>6, <1>7, <1>8, <1>9, <1>10 DEF IInv, OneAppearance

LEMMA OneAppearanceStep ==
  ASSUME TypeOK, SeenIsPast, OneAppearance, [Next]_vars
  PROVE  OneAppearance'
<1>1. CASE UNCHANGED vars
  <2>1. UNCHANGED <<server, registry, showAllUsers, users, searchText, trapped, failed>>
    BY <1>1 DEF vars
  <2>2. /\ OneListener /\ RowsWereReported /\ RowsOnce /\ ReportedIsListed
        /\ RoomsFollow /\ TableFollows
    BY DEF OneAppearance
  <2>3. OneListener' /\ RowsWereReported' /\ RowsOnce'
    BY <2>1, <2>2 DEF registry, OneListener, Fresh, RowsWereReported, RowsOnce, OneEach, Single
  <2>4. ReportedIsListed' /\ RoomsFollow' /\ TableFollows'
    BY <2>1, <2>2 DEF server, registry, ReportedIsListed, Has, RoomsFollow, TableFollows, Single
  <2> QED BY <2>3, <2>4 DEF OneAppearance
<1> QED BY <1>1, OneAppearanceWrites, OneAppearanceAppear, OneAppearanceRegisterUsers,
       OneAppearanceRegisterRooms, OneAppearanceFails, OneAppearanceUsers,
       OneAppearanceRooms, OneAppearanceSearch DEF Next

LEMMA Invariant == Spec => []IInv
<1>1. Init => IInv
  BY InitIsSound
<1>2. IInv /\ [Next]_vars => IInv'
  <2> SUFFICES ASSUME IInv, [Next]_vars PROVE IInv'
    OBVIOUS
  <2>1. TypeOK /\ ServerIsSound /\ SeenIsPast /\ ArraysInOrder /\ OneAppearance
    BY DEF IInv
  <2>2. userRegs <= appears
    BY <2>1 DEF OneAppearance, OneListener
  <2> QED BY <2>1, <2>2, TypeStep, ServerStep, SeenStep, ArraysStep, OneAppearanceStep DEF IInv
<1> QED BY <1>1, <1>2, PTL DEF Spec

LEMMA OneEachIsListedOnce ==
  ASSUME NEW s \in Seq(Row), OneEach(s), NEW u
  PROVE  Cardinality(RowsOf(s, u)) <= 1
<1>1. CASE RowsOf(s, u) = {}
  BY <1>1, FS_EmptySet
<1>2. CASE RowsOf(s, u) # {}
  <2>1. PICK i \in DOMAIN s : s[i].user = u
    BY <1>2 DEF RowsOf
  <2>2. RowsOf(s, u) = {i}
    BY <2>1 DEF RowsOf, OneEach
  <2>3. Cardinality({i}) = 1
    BY FS_Singleton
  <2> QED BY <2>2, <2>3
<1> QED BY <1>1, <1>2

(* Both arrays hold rows of users as the types say, the table is in order of *)
(* createdAt however the changes of a snapshot came, and no user is listed   *)
(* twice after one appearance of the screen: UserListViewController's        *)
(* remove-by-uid before append (lines 73-98) is enough, with any number of   *)
(* rooms listeners nested in the users listener.                             *)
THEOREM TableStaysSound == Spec => []TableIsSound
<1>1. ASSUME IInv PROVE TableIsSound
  <2>1. TypeOK
    BY <1>1 DEF IInv
  <2>2. ListedOnce
    BY <1>1, <2>1, OneEachIsListedOnce DEF IInv, OneAppearance, RowsOnce, ListedOnce, TypeOK
  <2>3. NewestFirst
    BY <1>1 DEF IInv, ArraysInOrder, InOrder, NewestFirst
  <2> QED BY <2>1, <2>2, <2>3 DEF TableIsSound
<1> QED BY <1>1, Invariant, PTL

(* The two loops that remove rows at indices of a copy of the array (lines   *)
(* 88 and 117) never reach beyond the array's end after one appearance, as   *)
(* each meets one row at most.                                               *)
THEOREM NoCrashWhenRegisteredOnce == Spec => []CrashOnlyIfRegisteredTwice
<1>1. ASSUME IInv PROVE CrashOnlyIfRegisteredTwice
  BY <1>1 DEF IInv, OneAppearance, RowsOnce, CrashOnlyIfRegisteredTwice
<1> QED BY <1>1, Invariant, PTL

(* Once all is reported the table shows who matches the search and has no    *)
(* room with Me, each with the last version: although the table is only      *)
(* written by rooms snapshots and the search, no row is lost or left over.   *)
THEOREM SettledIsRight == Spec => []SettledTableIsRight
<1>1. ASSUME IInv, Settled, Single, ~failed
      PROVE  {users[i] : i \in DOMAIN users} =
               {RowOf(u) : u \in {v \in Other \cap searchText : joined[v] # None /\ room[v] = None}}
  <2> DEFINE Shown == {v \in Other \cap searchText : joined[v] # None /\ room[v] = None}
  <2>1. /\ TypeOK /\ ServerIsSound /\ SeenIsPast
        /\ OneListener /\ RowsWereReported /\ ReportedIsListed /\ RoomsFollow /\ TableFollows
    BY <1>1 DEF IInv, OneAppearance
  <2>2. /\ roomRegs = 0 /\ userListeners # EmptyBag
        /\ \A l \in BagToSet(userListeners) : Changed(l, version) = {}
        /\ \A r \in BagToSet(roomListeners) : Changed(r, room) = {} /\ ~r.first
    BY <1>1 DEF Settled
  <2>3. PICK l \in Listener : userListeners = SetToBag({l})
    BY <1>1, <2>1, <2>2 DEF OneListener
  <2>4. l \in BagToSet(userListeners)
    BY <2>3, OneInBag
  <2>5. \A u \in User : version[u] # None => l.seen[u] = version[u]
    BY <2>2, <2>4 DEF Changed
  <2>6. \A r \in BagToSet(roomListeners), u \in User : room[u] # None => r.seen[u] = room[u]
    BY <2>2 DEF Changed
  <2>7. showAllUsers \in Seq(Row) /\ users \in Seq(Row)
    BY <2>1 DEF TypeOK
  <2>8. users = Found(showAllUsers, searchText)
    BY <1>1, <2>1, <2>2 DEF TableFollows
  <2>9. \A y : Has(users, y) <=> Has(showAllUsers, y) /\ y.user \in searchText
    BY <2>1, <2>7, <2>8, FoundIs, TypesOfRows
  <2>10. ASSUME NEW y, Has(showAllUsers, y)
         PROVE  /\ y = RowOf(y.user) /\ y.user \in Other
                /\ joined[y.user] # None /\ room[y.user] = None
    <3>1. y \in Row
      BY <2>7, <2>10, RowsOfArray
    <3>2. y.user \in Other /\ y.user \in User /\ y.version # None
      BY <2>1, <3>1, TypesOfRows
    <3>3. PICK i \in DOMAIN showAllUsers : showAllUsers[i] = y
      BY <2>10 DEF Has
    <3>4. y.version = l.seen[y.user]
      BY <1>1, <2>1, <2>4, <3>3 DEF RowsWereReported
    <3>5. version[y.user] # None /\ y.version = version[y.user]
      BY <2>1, <2>4, <2>5, <3>2, <3>4 DEF SeenIsPast
    <3>6. y = RowOf(y.user)
      BY <3>1, <3>5 DEF Row, RowOf
    <3>7. room[y.user] = None
      BY <1>1, <2>1, <2>2, <2>6, <3>2, <3>3 DEF RoomsFollow
    <3> QED BY <2>1, <3>2, <3>5, <3>6, <3>7 DEF ServerIsSound
  <2>11. ASSUME NEW v \in Shown PROVE Has(users, RowOf(v))
    <3>1. v \in User /\ v \in Other /\ v \in searchText /\ joined[v] # None /\ room[v] = None
      BY DEF Other
    <3>2. version[v] # None /\ l.seen[v] = version[v]
      BY <2>1, <2>5, <3>1 DEF ServerIsSound
    <3>3. Has(showAllUsers, RowOf(v))
      BY <1>1, <2>1, <2>4, <3>1, <3>2 DEF ReportedIsListed, RowOf
    <3> QED BY <2>9, <3>1, <3>3 DEF RowOf
  <2>12. \A y : Has(users, y) => y \in {RowOf(v) : v \in Shown}
    BY <2>9, <2>10
  <2>13. \A y : y \in {users[i] : i \in DOMAIN users} <=> Has(users, y)
    BY DEF Has
  <2> QED BY <2>11, <2>12, <2>13
<1>2. IInv => SettledTableIsRight
  BY <1>1 DEF SettledTableIsRight
<1> QED BY <1>2, Invariant, PTL
=============================================================================
