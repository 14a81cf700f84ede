------------------------- MODULE WritePipelineProofs -------------------------
(* What holds of WritePipeline for every set of users, any number of writes, *)
(* every kMaxPendingWrites and any number of faults and user changes.        *)
EXTENDS WritePipeline, FiniteSetTheorems, SequenceTheorems, WellFoundedInduction, TLAPS

(* The ids of a queue ascend, and p is what kMaxPendingWrites lets in of q.  *)
Ascending(q) == \A i, j \in DOMAIN q : i < j => q[i].id < q[j].id
Front(p, q) ==
  /\ Len(p) <= MaxPending /\ Len(p) <= Len(q)
  /\ \A i \in DOMAIN p : p[i] = q[i]

(* No id is given out while a batch of any user has it, and a block is kept  *)
(* only as long as its batch is queued.                                      *)
QueuesAscend ==
  \A u \in User : /\ Ascending(queue[u])
                  /\ \A i \in DOMAIN queue[u] : queue[u][i].id < nextId
                  /\ callbacks[u] \subseteq Elems(queue[u])

(* What the state of the stream says about its parts.                        *)
StreamIsSound ==
  /\ stream = "Open" <=> token # NoUser
  /\ stream # "Open" => ~handshake /\ toServer = <<>> /\ toClient = <<>>
  /\ (Started /\ ~handshake) => pipeline # <<>>
  /\ idle => handshake /\ pipeline = <<>>

(* Before the handshake is answered only Hello is on its way.                *)
HelloIsAlone ==
  stream = "Open" /\ ~handshake =>
    \/ toServer = <<Hello>> /\ toClient = <<>>
    \/ /\ toServer = <<>>
       /\ toClient \in {<<"hello">>, <<"permanent">>, <<"transient">>,
                        <<"hello", "transient">>}

(* After it the k-th response is about the k-th batch of the pipeline, and   *)
(* the requests are the batches that follow.                                 *)
ResultsAreOurs ==
  handshake =>
    /\ \A i \in DOMAIN toServer : toServer[i] # Hello
    /\ \A i \in DOMAIN toClient :
         /\ toClient[i] # "hello"
         /\ i < Len(toClient) => toClient[i] = "done"
         /\ toClient[i] = "done" => i <= Len(pipeline) /\ pipeline[i].w \in committed
         /\ toClient[i] = "permanent" => i <= Len(pipeline) /\ pipeline[i].w \in refused
    /\ ~Ended => /\ Len(toServer) = Len(pipeline) - Len(toClient)
                 /\ \A i \in DOMAIN toServer :
                      toServer[i] = pipeline[Len(toClient) + i].w

(* A request for a token under the current close count is the only one, and  *)
(* the stream waits for it.                                                  *)
Outstanding(t) == t.kind = "token" /\ t.count = closeCount
OneTokenAtATime ==
  /\ \A n \in asking : n <= closeCount
  /\ \A i \in DOMAIN tasks : tasks[i].kind = "token" => tasks[i].count <= closeCount
  /\ closeCount \in asking => stream = "Starting"
  /\ \A i \in DOMAIN tasks : Outstanding(tasks[i]) =>
       /\ stream = "Starting" /\ closeCount \notin asking
       /\ \A j \in DOMAIN tasks : Outstanding(tasks[j]) => i = j

(* The users SyncEngine has, one before each task and one after the last:    *)
(* the worker queue keeps writes and tokens behind the changes they follow.  *)
Timeline(f) ==
  /\ f \in [1 .. Len(tasks) + 1 -> User]
  /\ f[1] = user /\ f[Len(tasks) + 1] = auth
  /\ \A i \in DOMAIN tasks :
       /\ f[i + 1] = IF tasks[i].kind = "change" THEN tasks[i].u ELSE f[i]
       /\ tasks[i].kind = "write" => owner[tasks[i].w] = f[i]
       /\ tasks[i].kind = "token" => tasks[i].u = f[i]
TasksInOrder == \E f \in [1 .. Len(tasks) + 1 -> User] : Timeline(f)

(* The app issues the writes one after the other.                            *)
IssuedInOrder ==
  \E n \in 0 .. NumWrites : \A w \in Write : owner[w] # NoUser <=> w <= n

(* A queue holds its owner's writes, and an open stream is the user's.       *)
OwnersKept ==
  /\ \A u \in User : \A i \in DOMAIN queue[u] : owner[queue[u][i].w] = u
  /\ token # NoUser => token = user

(* What a late write of an ended stream may do: it has been settled, or the  *)
(* writes queued ahead of it are committed or ahead of it in the stream.     *)
Follows(w, before, u) ==
  \E m \in DOMAIN queue[u] :
    /\ queue[u][m].w = w
    /\ \A k \in 1 .. m - 1 : queue[u][k].w \in committed \cup before
LateInOrder ==
  \A s \in abandoned : \A i \in DOMAIN s :
    \/ s[i] \in committed \cup refused
    \/ \E u \in User : Follows(s[i], {s[j] : j \in 1 .. i - 1}, u)

(* A stream that has ended without writes on their way leaves nothing.       *)
LateIsSomething == \A s \in abandoned : s # <<>>
-----------------------------------------------------------------------------
(* The sequences that the model builds, element by element.                  *)

LEMMA WritesType ==
  ASSUME NEW s \in Seq(Batch)
  PROVE  /\ Writes(s) \in Seq(Write) /\ Len(Writes(s)) = Len(s)
         /\ \A i \in 1 .. Len(s) : Writes(s)[i] = s[i].w
<1>1. s \in [1 .. Len(s) -> Batch] /\ Len(s) \in Nat
  OBVIOUS
<1>2. Writes(s) \in [1 .. Len(s) -> Write]
  BY <1>1 DEF Writes, Batch
<1>3. Writes(s) \in Seq(Write)
  BY <1>1, <1>2, IsASeq
<1>4. Len(Writes(s)) = Len(s)
  BY <1>1, <1>2, LenProperties, <1>3
<1>5. \A i \in 1 .. Len(s) : Writes(s)[i] = s[i].w
  BY <1>1 DEF Writes
<1> QED BY <1>3, <1>4, <1>5

LEMMA ElementsType ==
  ASSUME NEW s \in Seq(Batch), NEW i \in DOMAIN s
  PROVE  s[i] \in Batch /\ s[i].id \in Nat /\ s[i].w \in Write
<1>1. s[i] \in Batch
  OBVIOUS
<1> QED BY <1>1 DEF Batch

LEMMA TailType ==
  ASSUME NEW S, NEW s \in Seq(S), s # <<>>
  PROVE  /\ Head(s) = s[1] /\ Head(s) \in S /\ Tail(s) \in Seq(S)
         /\ Len(s) \in Nat \ {0} /\ Len(Tail(s)) = Len(s) - 1
         /\ \A i \in 1 .. Len(s) - 1 : Tail(s)[i] = s[i + 1]
BY HeadTailProperties

LEMMA ConcatType ==
  ASSUME NEW S, NEW s \in Seq(S), NEW t \in Seq(S)
  PROVE  /\ s \o t \in Seq(S) /\ Len(s \o t) = Len(s) + Len(t)
         /\ \A i \in 1 .. Len(s) : (s \o t)[i] = s[i]
         /\ \A i \in 1 .. Len(t) : (s \o t)[Len(s) + i] = t[i]
<1>1. /\ s \o t \in Seq(S) /\ Len(s \o t) = Len(s) + Len(t)
      /\ \A i \in 1 .. Len(s) + Len(t) :
           (s \o t)[i] = IF i <= Len(s) THEN s[i] ELSE t[i - Len(s)]
  BY ConcatProperties
<1>2. Len(s) \in Nat /\ Len(t) \in Nat
  OBVIOUS
<1> QED BY <1>1, <1>2

LEMMA ShortSequences ==
  ASSUME NEW a, NEW b
  PROVE  /\ <<a>>[1] = a /\ Len(<<a>>) = 1 /\ <<a>> # <<>>
         /\ <<a, b>>[1] = a /\ <<a, b>>[2] = b /\ Len(<<a, b>>) = 2 /\ <<a, b>> # <<>>
         /\ Tail(<<a>>) = <<>> /\ Tail(<<a, b>>) = <<b>>
         /\ Append(<<>>, a) = <<a>> /\ Append(<<a>>, b) = <<a, b>>
         /\ SubSeq(<<a>>, 1, 1) = <<a>>
<1>1. <<a>> \in Seq({a, b}) /\ <<a, b>> \in Seq({a, b})
  OBVIOUS
<1>2. Append(<<a>>, b) = <<a, b>>
  <2>1. /\ Append(<<a>>, b) \in Seq({a, b}) /\ Len(Append(<<a>>, b)) = 2
        /\ Append(<<a>>, b)[1] = a /\ Append(<<a>>, b)[2] = b
    BY <1>1, AppendProperties
  <2>2. \A i \in 1 .. 2 : Append(<<a>>, b)[i] = <<a, b>>[i]
    BY <2>1
  <2> QED BY <1>1, <2>1, <2>2, SeqEqual
<1>3. SubSeq(<<a>>, 1, 1) = <<a>>
  BY <1>1, SubSeqFull, Len(<<a>>) = 1
<1> QED BY <1>2, <1>3

(* There is one place where the ids of a queue pass a given id.              *)
LEMMA SplitUnique ==
  ASSUME NEW q \in Seq(Batch), NEW last \in Int,
         NEW m \in 0 .. Len(q), \A i \in DOMAIN q : q[i].id > last <=> i > m,
         NEW n \in 0 .. Len(q), \A i \in DOMAIN q : q[i].id > last <=> i > n
  PROVE  m = n
<1>1. Len(q) \in Nat /\ DOMAIN q = 1 .. Len(q)
  BY LenProperties
<1>2. \A i \in 1 .. Len(q) : i > m <=> i > n
  BY <1>1
<1>3. m \in Nat /\ n \in Nat /\ m <= Len(q) /\ n <= Len(q)
  BY <1>1
<1>4. ~ (m < n)
  BY <1>1, <1>2, <1>3
<1>5. ~ (n < m)
  BY <1>1, <1>2, <1>3
<1> QED BY <1>3, <1>4, <1>5

(* Refill goes on where the pipeline ends, and stops at the limit.           *)
LEMMA RefillGoesOn ==
  ASSUME NEW p \in Seq(Batch), NEW q \in Seq(Batch), Ascending(q), Front(p, q)
  PROVE  /\ Refill(p, q) \in Seq(Batch)
         /\ Len(p) + Len(Refill(p, q)) <= MaxPending
         /\ Len(p) + Len(Refill(p, q)) <= Len(q)
         /\ \A i \in 1 .. Len(Refill(p, q)) : Refill(p, q)[i] = q[Len(p) + i]
<1> DEFINE last == IF p = <<>> THEN -1 ELSE p[Len(p)].id
           Seen(n) == \A i \in DOMAIN q : q[i].id > last <=> i > n
           seen == CHOOSE n \in 0 .. Len(q) : Seen(n)
           upTo == seen + MaxPending - Len(p)
           to == IF Len(q) < upTo THEN Len(q) ELSE upTo
<1>1. /\ Len(p) \in Nat /\ Len(q) \in Nat /\ MaxPending \in Nat
      /\ DOMAIN q = 1 .. Len(q) /\ DOMAIN p = 1 .. Len(p)
      /\ \A i \in DOMAIN q : q[i].id \in Nat
  BY MaxPendingAssumption, LenProperties, ElementsType
<1>2. Len(p) <= Len(q) /\ Len(p) <= MaxPending /\ \A i \in DOMAIN p : p[i] = q[i]
  BY DEF Front
<1>3. Seen(Len(p))
  <2>1. CASE p = <<>>
    BY <2>1, <1>1
  <2>2. CASE p # <<>>
    <3>1. Len(p) \in DOMAIN q /\ last = q[Len(p)].id
      BY <2>2, <1>1, <1>2
    <3>2. \A i \in DOMAIN q : i > Len(p) => q[i].id > last
      BY <3>1, <1>1 DEF Ascending
    <3>3. \A i \in DOMAIN q : i < Len(p) => q[i].id < last
      BY <3>1, <1>1 DEF Ascending
    <3> QED BY <3>1, <3>2, <3>3, <1>1
  <2> QED BY <2>1, <2>2
<1>4. last \in Int
  <2>1. CASE p # <<>>
    BY <2>1, <1>1, ElementsType, Len(p) \in DOMAIN p
  <2> QED BY <2>1
<1>5. seen = Len(p)
  <2>1. Len(p) \in 0 .. Len(q)
    BY <1>1, <1>2
  <2> HIDE DEF last
  <2>2. seen \in 0 .. Len(q) /\ Seen(seen)
    BY <2>1, <1>3
  <2> HIDE DEF seen
  <2> QED BY <2>1, <2>2, <1>3, <1>4, SplitUnique
<1>6. Refill(p, q) = SubSeq(q, Len(p) + 1, to)
  <2>1. Refill(p, q) = SubSeq(q, seen + 1, to)
    BY DEF Refill
  <2> HIDE DEF seen, to
  <2> QED BY <2>1, <1>5
<1> HIDE DEF seen
<1>7. upTo = MaxPending /\ to \in Nat /\ to <= Len(q) /\ to <= MaxPending /\ Len(p) <= to
  BY <1>1, <1>2, <1>5
<1> HIDE DEF to
<1>8. /\ Refill(p, q) \in Seq(Batch)
      /\ Len(Refill(p, q)) = to - Len(p)
      /\ \A i \in 1 .. to - Len(p) : Refill(p, q)[i] = q[Len(p) + i]
  <2> DEFINE m == Len(p) + 1
  <2>1. m \in Int /\ to \in Int /\ \A i \in m .. to : q[i] \in Batch
    BY <1>1, <1>7
  <2>2. /\ SubSeq(q, m, to) \in Seq(Batch)
        /\ Len(SubSeq(q, m, to)) = IF m <= to THEN to - m + 1 ELSE 0
        /\ \A i \in 1 .. to - m + 1 : SubSeq(q, m, to)[i] = q[m + i - 1]
    <3> HIDE DEF m
    <3> QED BY <2>1, SubSeqProperties
  <2>3. Refill(p, q) = SubSeq(q, m, to)
    BY <1>6
  <2>4. Len(p) \in Nat /\ to \in Nat /\ Len(p) <= to
    BY <1>1, <1>7
  <2>5. /\ to - m + 1 = to - Len(p) /\ (m > to => to - Len(p) = 0)
        /\ \A i \in 1 .. to - Len(p) : m + i - 1 = Len(p) + i
    BY <2>4
  <2> HIDE DEF m
  <2>6. /\ Refill(p, q) \in Seq(Batch)
        /\ Len(Refill(p, q)) = to - Len(p)
    BY <2>2, <2>3, <2>5
  <2>7. \A i \in 1 .. to - Len(p) : Refill(p, q)[i] = q[Len(p) + i]
    BY <2>2, <2>3, <2>5
  <2> QED BY <2>6, <2>7
<1> QED BY <1>1, <1>7, <1>8

(* The pipeline after a refill is again the front of the queue.              *)
LEMMA RefillFront ==
  ASSUME NEW p \in Seq(Batch), NEW q \in Seq(Batch), Ascending(q), Front(p, q)
  PROVE  /\ p \o Refill(p, q) \in Seq(Batch) /\ Front(p \o Refill(p, q), q)
         /\ Len(p \o Refill(p, q)) = Len(p) + Len(Refill(p, q))
         /\ \A i \in 1 .. Len(p) : (p \o Refill(p, q))[i] = p[i]
         /\ \A i \in 1 .. Len(Refill(p, q)) :
              (p \o Refill(p, q))[Len(p) + i] = Refill(p, q)[i]
<1> DEFINE more == Refill(p, q)
<1>1. /\ more \in Seq(Batch) /\ Len(p) + Len(more) <= MaxPending
      /\ Len(p) + Len(more) <= Len(q)
      /\ \A i \in 1 .. Len(more) : more[i] = q[Len(p) + i]
  BY RefillGoesOn
<1> HIDE DEF more
<1>2. /\ p \o more \in Seq(Batch) /\ Len(p \o more) = Len(p) + Len(more)
      /\ \A i \in 1 .. Len(p) : (p \o more)[i] = p[i]
      /\ \A i \in 1 .. Len(more) : (p \o more)[Len(p) + i] = more[i]
  BY <1>1, ConcatType
<1>3. Len(p) \in Nat /\ Len(more) \in Nat
  BY <1>1
<1>4. \A i \in 1 .. Len(p) + Len(more) : (p \o more)[i] = q[i]
  <2> TAKE i \in 1 .. Len(p) + Len(more)
  <2>1. CASE i <= Len(p)
    BY <2>1, <1>2, <1>3 DEF Front
  <2>2. CASE i > Len(p)
    <3>1. i - Len(p) \in 1 .. Len(more) /\ Len(p) + (i - Len(p)) = i
      BY <2>2, <1>3
    <3> QED BY <2>2, <3>1, <1>1, <1>2, <1>3
  <2> QED BY <2>1, <2>2, <1>3
<1>5. Front(p \o more, q)
  BY <1>1, <1>2, <1>3, <1>4 DEF Front
<1> QED BY <1>2, <1>5 DEF more

(* What is settled is the head of the queue, so the queue loses its head.    *)
LEMMA WithoutHead ==
  ASSUME NEW q \in Seq(Batch), q # <<>>, Ascending(q)
  PROVE  Without(q, q[1]) = Tail(q) /\ Ascending(Tail(q))
<1>1. Len(q) \in Nat \ {0} /\ DOMAIN q = 1 .. Len(q)
  BY TailType, LenProperties
<1>2. \A k \in 1 .. Len(q) : q[k].id \in Nat
  BY <1>1, ElementsType
<1>3. (CHOOSE i \in 1 .. Len(q) : q[i].id = q[1].id) = 1
  <2>1. \A i \in 1 .. Len(q) : q[i].id = q[1].id => i = 1
    BY <1>1, <1>2 DEF Ascending
  <2>2. 1 \in 1 .. Len(q)
    BY <1>1
  <2> QED BY <2>1, <2>2
<1>4. Without(q, q[1]) = SubSeq(q, 1, 0) \o SubSeq(q, 2, Len(q))
  <2> DEFINE i == CHOOSE i \in 1 .. Len(q) : q[i].id = q[1].id
  <2>1. Without(q, q[1]) = SubSeq(q, 1, i - 1) \o SubSeq(q, i + 1, Len(q))
    BY DEF Without
  <2>2. i = 1
    BY <1>3
  <2> HIDE DEF i
  <2> QED BY <2>1, <2>2
<1>5. SubSeq(q, 1, 0) = <<>> /\ SubSeq(q, 2, Len(q)) = Tail(q)
  BY <1>1, SubSeqEmpty, TailIsSubSeq
<1>6. Tail(q) \in Seq(Batch) /\ <<>> \o Tail(q) = Tail(q)
  BY TailType, ConcatEmptySeq
<1>7. /\ DOMAIN Tail(q) = 1 .. Len(q) - 1
      /\ \A i \in 1 .. Len(q) - 1 : Tail(q)[i] = q[i + 1]
  BY <1>1, <1>6, TailType, LenProperties
<1>8. Ascending(Tail(q))
  <2> SUFFICES ASSUME NEW i \in 1 .. Len(q) - 1, NEW j \in 1 .. Len(q) - 1, i < j
               PROVE  q[i + 1].id < q[j + 1].id
    BY <1>7 DEF Ascending
  <2> QED BY <1>1, i + 1 \in DOMAIN q, j + 1 \in DOMAIN q DEF Ascending
<1> QED BY <1>4, <1>5, <1>6, <1>8

LEMMA GreatestExists ==
  ASSUME NEW S \in SUBSET Nat, S # {}, NEW bound \in Nat, \A n \in S : n < bound
  PROVE  \E n \in S : \A k \in S : k <= n
<1> DEFINE Below == {bound - n : n \in S}
<1>1. Below \subseteq Nat /\ Below # {}
  <2>1. \A n \in S : bound - n \in Nat
    OBVIOUS
  <2> QED BY <2>1
<1>2. PICK x \in Below : \A y \in Below : <<y, x>> \notin OpToRel(<, Nat)
  <2> HIDE DEF Below
  <2> QED BY <1>1, WFMin, NatLessThanWellFounded
<1>3. PICK n \in S : x = bound - n
  OBVIOUS
<1>4. ASSUME NEW k \in S PROVE k <= n
  <2>1. bound - k \in Below /\ ~(bound - k < bound - n)
    BY <1>1, <1>2, <1>3 DEF OpToRel
  <2> QED BY <2>1
<1> QED BY <1>4

(* The next id read from disk is above those of all users.                   *)
LEMMA NextIdIsFresh ==
  ASSUME queue \in [User -> Seq(Batch)], nextId \in Nat,
         \A u \in User : \A i \in DOMAIN queue[u] : queue[u][i].id < nextId
  PROVE  /\ LoadNextBatchId \in Nat
         /\ \A u \in User : \A i \in DOMAIN queue[u] : queue[u][i].id < LoadNextBatchId
<1> DEFINE ids == UNION {{b.id : b \in Elems(queue[u])} : u \in User}
<1>1. \A u \in User : \A i \in DOMAIN queue[u] :
        queue[u][i].id \in ids /\ queue[u][i].id \in Nat
  BY ElementsType DEF Elems
<1>2. \A n \in ids : n \in Nat /\ n < nextId
  BY <1>1 DEF Elems
<1>3. CASE ids = {}
  <2>1. LoadNextBatchId = 1
    BY <1>3 DEF LoadNextBatchId
  <2> HIDE DEF ids
  <2> QED BY <1>1, <1>3, <2>1
<1>4. CASE ids # {}
  <2>1. LoadNextBatchId = 1 + CHOOSE n \in ids : \A k \in ids : k <= n
    BY <1>4 DEF LoadNextBatchId
  <2> HIDE DEF ids
  <2>2. \E n \in ids : \A k \in ids : k <= n
    BY <1>2, <1>4, GreatestExists
  <2>3. PICK n \in ids : LoadNextBatchId = 1 + n /\ \A k \in ids : k <= n
    BY <2>1, <2>2
  <2> QED BY <1>1, <1>2, <2>3
<1> QED BY <1>3, <1>4

(* What FillWritePipeline leaves behind: the pipeline is the front of q and  *)
(* goes on from p, and after the handshake what it adds is sent.             *)
Filled(p, q, st, hs, n, timer, r) ==
  /\ pipeline' \in Seq(Batch) /\ Front(pipeline', q)
  /\ Len(p) <= Len(pipeline') /\ \A i \in 1 .. Len(p) : pipeline'[i] = p[i]
  /\ toServer' \in Seq(Write \cup {Hello})
  /\ IF SendsAtOnce(st, hs)
     THEN /\ Len(toServer') = Len(r) + Len(pipeline') - Len(p)
          /\ \A i \in 1 .. Len(r) : toServer'[i] = r[i]
          /\ \A i \in Len(p) + 1 .. Len(pipeline') :
               toServer'[Len(r) + i - Len(p)] = pipeline'[i].w
     ELSE toServer' = r
  /\ idle' \in BOOLEAN
  /\ idle' = TRUE => /\ timer = TRUE \/ (st = "Open" /\ pipeline' = <<>>)
                     /\ SendsAtOnce(st, hs) => pipeline' = p
  /\ IF st \in {"Initial", "Error"} /\ pipeline' # <<>>
     THEN IF st = "Error" THEN stream' = "Backoff" /\ asking' = asking
                          ELSE stream' = "Starting" /\ asking' = asking \cup {n}
     ELSE stream' = st /\ asking' = asking

LEMMA FillResult ==
  ASSUME NEW p \in Seq(Batch), NEW q \in Seq(Batch), Ascending(q), Front(p, q),
         NEW st \in {"Initial", "Open", "Error", "Starting", "Backoff"},
         NEW hs \in BOOLEAN, NEW n \in Nat, NEW timer \in BOOLEAN,
         NEW r \in Seq(Write \cup {Hello}),
         FillWritePipeline(p, q, st, hs, n, timer, r)
  PROVE  Filled(p, q, st, hs, n, timer, r)
<1> DEFINE added == Refill(p, q)
           sent == IF SendsAtOnce(st, hs) THEN Writes(added) ELSE <<>>
<1>1. /\ pipeline' = p \o added /\ toServer' = r \o sent
      /\ idle' = Timer(timer, st, sent, p \o added)
  BY DEF FillWritePipeline
<1>2. added \in Seq(Batch)
  BY RefillGoesOn
<1>3. /\ pipeline' \in Seq(Batch) /\ Front(pipeline', q)
      /\ Len(pipeline') = Len(p) + Len(added)
      /\ \A i \in 1 .. Len(p) : pipeline'[i] = p[i]
      /\ \A i \in 1 .. Len(added) : pipeline'[Len(p) + i] = added[i]
  BY <1>1, RefillFront
<1>4. IF st \in {"Initial", "Error"} /\ pipeline' # <<>>
      THEN IF st = "Error" THEN stream' = "Backoff" /\ asking' = asking
                           ELSE stream' = "Starting" /\ asking' = asking \cup {n}
      ELSE stream' = st /\ asking' = asking
  BY <1>1 DEF FillWritePipeline, Start
<1> HIDE DEF added
<1>5. Len(p) \in Nat /\ Len(r) \in Nat /\ Len(added) \in Nat
  BY <1>2
<1>6. /\ Writes(added) \in Seq(Write) /\ Len(Writes(added)) = Len(added)
      /\ \A i \in 1 .. Len(added) : Writes(added)[i] = added[i].w
  BY <1>2, WritesType
<1>7. /\ toServer' \in Seq(Write \cup {Hello})
      /\ IF SendsAtOnce(st, hs)
         THEN /\ Len(toServer') = Len(r) + Len(pipeline') - Len(p)
              /\ \A i \in 1 .. Len(r) : toServer'[i] = r[i]
              /\ \A i \in Len(p) + 1 .. Len(pipeline') :
                   toServer'[Len(r) + i - Len(p)] = pipeline'[i].w
         ELSE toServer' = r
  <2>1. CASE ~SendsAtOnce(st, hs)
    BY <1>1, <2>1, ConcatEmptySeq
  <2>2. CASE SendsAtOnce(st, hs)
    <3>1. toServer' = r \o Writes(added) /\ Writes(added) \in Seq(Write \cup {Hello})
      BY <1>1, <1>6, <2>2, SeqMonotonic
    <3>2. /\ toServer' \in Seq(Write \cup {Hello})
          /\ Len(toServer') = Len(r) + Len(added)
          /\ \A i \in 1 .. Len(r) : toServer'[i] = r[i]
          /\ \A i \in 1 .. Len(added) : toServer'[Len(r) + i] = Writes(added)[i]
      <4> DEFINE W == Writes(added)
      <4>1. /\ r \o W \in Seq(Write \cup {Hello}) /\ Len(r \o W) = Len(r) + Len(W)
            /\ \A i \in 1 .. Len(r) : (r \o W)[i] = r[i]
            /\ \A i \in 1 .. Len(W) : (r \o W)[Len(r) + i] = W[i]
        <5> HIDE DEF W
        <5> QED BY <3>1, ConcatType DEF W
      <4> QED BY <4>1, <3>1, <1>6
    <3>3. \A i \in 1 .. Len(added) : toServer'[Len(r) + i] = added[i].w
      BY <1>6, <3>2
    <3>4. ASSUME NEW i \in Len(p) + 1 .. Len(pipeline')
          PROVE  toServer'[Len(r) + i - Len(p)] = pipeline'[i].w
      <4>1. i - Len(p) \in 1 .. Len(added) /\ Len(p) + (i - Len(p)) = i
            /\ Len(r) + (i - Len(p)) = Len(r) + i - Len(p)
        BY <1>3, <1>5
      <4> QED BY <4>1, <1>3, <3>3
    <3> QED BY <1>3, <1>5, <2>2, <3>2, <3>4
  <2> QED BY <2>1, <2>2
<1>8. idle' => /\ timer \/ (st = "Open" /\ pipeline' = <<>>)
               /\ SendsAtOnce(st, hs) => pipeline' = p
  <2>1. SUFFICES ASSUME idle'
                 PROVE  /\ timer \/ (st = "Open" /\ pipeline' = <<>>)
                        /\ SendsAtOnce(st, hs) => pipeline' = p
    OBVIOUS
  <2>2. sent = <<>> /\ (timer \/ (st = "Open" /\ pipeline' = <<>>))
    BY <1>1, <2>1 DEF Timer
  <2>3. CASE SendsAtOnce(st, hs)
    <3>1. Writes(added) = <<>>
      BY <2>2, <2>3
    <3>2. added = <<>>
      BY <1>2, <1>6, <3>1, EmptySeq
    <3> QED BY <1>1, <2>2, <3>2, ConcatEmptySeq
  <2> QED BY <2>2, <2>3
<1>9. idle' \in BOOLEAN
  BY <1>1 DEF Timer
<1>10. idle' = TRUE => /\ timer = TRUE \/ (st = "Open" /\ pipeline' = <<>>)
                       /\ SendsAtOnce(st, hs) => pipeline' = p
  BY <1>8
<1> QED BY <1>3, <1>4, <1>5, <1>7, <1>9, <1>10 DEF Filled

-----------------------------------------------------------------------------
(* What the parts of the steps do to queue, pipeline and stream.             *)

LEMMA HeadIsFirst ==
  ASSUME TypeOK, PipelineIsFront, pipeline # <<>>
  PROVE  /\ queue[user] \in Seq(Batch) /\ queue[user] # <<>>
         /\ Head(pipeline) = queue[user][1] /\ Head(pipeline) \in Batch
         /\ Tail(pipeline) \in Seq(Batch) /\ Front(Tail(pipeline), Tail(queue[user]))
<1>1. user \in User /\ pipeline \in Seq(Batch) /\ queue[user] \in Seq(Batch)
  BY DEF TypeOK
<1>2. /\ Len(pipeline) <= MaxPending /\ Len(pipeline) <= Len(queue[user])
      /\ \A i \in 1 .. Len(pipeline) : pipeline[i] = queue[user][i]
  BY <1>1, LenProperties DEF PipelineIsFront
<1>3. /\ Head(pipeline) = pipeline[1] /\ Head(pipeline) \in Batch
      /\ Tail(pipeline) \in Seq(Batch) /\ Len(pipeline) \in Nat \ {0}
      /\ Len(Tail(pipeline)) = Len(pipeline) - 1
      /\ \A i \in 1 .. Len(pipeline) - 1 : Tail(pipeline)[i] = pipeline[i + 1]
  BY <1>1, TailType
<1>4. queue[user] # <<>> /\ Len(queue[user]) \in Nat
  BY <1>1, <1>2, <1>3, EmptySeq, LenProperties
<1>5. /\ Len(Tail(queue[user])) = Len(queue[user]) - 1
      /\ \A i \in 1 .. Len(queue[user]) - 1 : Tail(queue[user])[i] = queue[user][i + 1]
  BY <1>1, <1>4, TailType
<1>6. Front(Tail(pipeline), Tail(queue[user]))
  <2>1. DOMAIN Tail(pipeline) = 1 .. Len(pipeline) - 1
    BY <1>3, LenProperties
  <2>2. MaxPending \in Nat
    BY MaxPendingAssumption
  <2>3. \A i \in 1 .. Len(pipeline) - 1 : Tail(pipeline)[i] = Tail(queue[user])[i]
    BY <1>2, <1>3, <1>4, <1>5
  <2> QED BY <1>2, <1>3, <1>4, <1>5, <2>1, <2>2, <2>3 DEF Front
<1> QED BY <1>1, <1>2, <1>3, <1>4, <1>6

(* A batch is settled: the queue loses its head, and the block of that batch *)
(* only, if there is one, is called.                                         *)
LEMMA SettleEffect ==
  ASSUME TypeOK, PipelineIsFront, QueuesAscend, pipeline # <<>>,
         NEW verdict \in {"ok", "error"}, Notify(Head(pipeline), verdict),
         queue' = [queue EXCEPT ![user] = Without(@, Head(pipeline))]
  PROVE  /\ queue' = [queue EXCEPT ![user] = Tail(queue[user])]
         /\ queue' \in [User -> Seq(Batch)] /\ Ascending(queue'[user])
         /\ Front(Tail(pipeline), queue'[user])
         /\ callbacks' \in [User -> SUBSET Batch]
         /\ \A u \in User : callbacks'[u] \subseteq Elems(queue'[u])
         /\ answer' \in [Write -> {"none", "ok", "error"}]
         /\ \A w \in Write : answer'[w] # answer[w] =>
              answer'[w] = verdict /\ w = Head(pipeline).w
         /\ answer' \in {answer, [answer EXCEPT ![Head(pipeline).w] = verdict]}
         /\ \A u \in User : \A c \in callbacks[u] \ callbacks'[u] : answer'[c.w] # "none"
<1> DEFINE q == queue[user]
           b == Head(pipeline)
           called == {c \in callbacks[user] : c.id = b.id}
<1>1. /\ q \in Seq(Batch) /\ q # <<>> /\ b = q[1] /\ b \in Batch
      /\ Front(Tail(pipeline), Tail(q))
  BY HeadIsFirst
<1>2. user \in User /\ queue \in [User -> Seq(Batch)] /\ Ascending(q)
  BY DEF TypeOK, QueuesAscend
<1>3. Without(q, b) = Tail(q) /\ Ascending(Tail(q)) /\ Tail(q) \in Seq(Batch)
  BY <1>1, <1>2, WithoutHead, TailType
<1>4. queue' = [queue EXCEPT ![user] = Tail(q)] /\ queue' \in [User -> Seq(Batch)]
      /\ queue'[user] = Tail(q)
  BY <1>2, <1>3
<1>5. /\ Len(q) \in Nat \ {0} /\ DOMAIN q = 1 .. Len(q)
      /\ Len(Tail(q)) = Len(q) - 1 /\ DOMAIN Tail(q) = 1 .. Len(q) - 1
      /\ \A i \in 1 .. Len(q) - 1 : Tail(q)[i] = q[i + 1]
  BY <1>1, <1>3, TailType, LenProperties
<1>6. /\ callbacks \in [User -> SUBSET Batch]
      /\ \A u \in User : callbacks[u] \subseteq Elems(queue[u])
      /\ answer \in [Write -> {"none", "ok", "error"}]
  BY DEF TypeOK, QueuesAscend
<1>7. /\ callbacks' = [callbacks EXCEPT ![user] = callbacks[user] \ called]
      /\ answer' = [w \in Write |-> IF \E c \in called : c.w = w THEN verdict
                                                               ELSE answer[w]]
  BY <1>2, <1>6 DEF Notify
<1>8. called \subseteq {b}
  <2> SUFFICES ASSUME NEW c \in called PROVE c = b
    OBVIOUS
  <2>1. PICK i \in DOMAIN q : c = q[i]
    BY <1>2, <1>6 DEF Elems
  <2>2. 1 \in DOMAIN q /\ q[i].id = q[1].id /\ q[1].id \in Nat
    BY <1>1, <1>5, <2>1, ElementsType
  <2>3. i = 1
    BY <1>2, <1>5, <2>2 DEF Ascending
  <2> QED BY <1>1, <2>1, <2>3
<1> HIDE DEF q, b
<1>9. \A u \in User : callbacks'[u] \subseteq Elems(queue'[u])
  <2> SUFFICES ASSUME NEW u \in User, NEW c \in callbacks'[u] PROVE c \in Elems(queue'[u])
    OBVIOUS
  <2>1. c \in callbacks[u] /\ c \in Elems(queue[u])
    BY <1>2, <1>6, <1>7
  <2>2. CASE u # user
    BY <1>2, <1>4, <2>1, <2>2
  <2>3. CASE u = user
    <3>1. PICK i \in 1 .. Len(q) : c = q[i]
      BY <1>5, <2>1, <2>3 DEF Elems, q
    <3>2. c # b
      <4>1. c \notin called
        BY <1>2, <1>6, <1>7, <2>3
      <4> QED BY <2>1, <2>3, <4>1
    <3>3. i # 1 /\ i - 1 \in 1 .. Len(q) - 1 /\ c = Tail(q)[i - 1]
      BY <1>1, <1>5, <3>1, <3>2
    <3> QED BY <1>4, <1>5, <2>3, <3>3 DEF Elems
  <2> QED BY <2>2, <2>3
<1>10. /\ callbacks' \in [User -> SUBSET Batch]
       /\ answer' \in [Write -> {"none", "ok", "error"}]
       /\ \A w \in Write : answer'[w] # answer[w] => answer'[w] = verdict /\ w = b.w
  BY <1>2, <1>6, <1>7, <1>8
<1>11. answer' \in {answer, [answer EXCEPT ![b.w] = verdict]}
  <2>1. CASE called = {}
    BY <1>6, <1>7, <2>1
  <2>2. CASE called = {b}
    BY <1>6, <1>7, <2>2
  <2> QED BY <1>8, <2>1, <2>2
<1>12. \A u \in User : \A c \in callbacks[u] \ callbacks'[u] : answer'[c.w] # "none"
  <2> SUFFICES ASSUME NEW u \in User, NEW c \in callbacks[u] \ callbacks'[u]
               PROVE  answer'[c.w] # "none"
    OBVIOUS
  <2>1. c \in called /\ c \in Batch /\ c.w \in Write
    BY <1>2, <1>6, <1>7 DEF Batch
  <2> QED BY <1>7, <2>1
<1> QED BY <1>1, <1>3, <1>4, <1>9, <1>10, <1>11, <1>12 DEF q, b

(* A stream that is down: nothing is on its way, and it is being started if  *)
(* something waits for it.                                                   *)
StreamIsDown ==
  /\ stream \in {"Initial", "Starting", "Backoff", "Error"} /\ token = NoUser
  /\ handshake = FALSE /\ idle = FALSE
  /\ toServer = <<>> /\ toClient = <<>>
  /\ stream \in {"Starting", "Backoff"} => pipeline # <<>>

LEMMA DownIsSound ==
  ASSUME StreamIsDown'
  PROVE  StreamIsSound' /\ HelloIsAlone' /\ ResultsAreOurs' /\ SentAsOwner'
BY DEF StreamIsDown, StreamIsSound, HelloIsAlone, ResultsAreOurs, SentAsOwner, Started,
       Elems

(* RestartNetwork leaves the stream down and the pipeline refilled.          *)
LEMMA RestartEffect ==
  ASSUME TypeOK, QueuesAscend, NEW u \in User, RestartNetwork(u)
  PROVE  /\ pipeline' \in Seq(Batch) /\ Front(pipeline', queue[u])
         /\ StreamIsDown' /\ closeCount' \in Nat
         /\ closeCount' = IF Started THEN closeCount + 1 ELSE closeCount
         /\ IF stream' = "Starting" THEN asking' = asking \cup {closeCount'}
                                    ELSE asking' = asking
<1>1. /\ queue[u] \in Seq(Batch) /\ Ascending(queue[u]) /\ closeCount \in Nat
  BY DEF TypeOK, QueuesAscend
<1>2. closeCount' \in Nat /\ <<>> \in Seq(Batch) /\ <<>> \in Seq(Write \cup {Hello})
  BY <1>1 DEF RestartNetwork
<1>3. Front(<<>>, queue[u])
  BY <1>1, MaxPendingAssumption DEF Front
<1>4. FillWritePipeline(<<>>, queue[u], "Initial", FALSE, closeCount', FALSE, <<>>)
  BY DEF RestartNetwork
<1>5. ~SendsAtOnce("Initial", FALSE)
  BY DEF SendsAtOnce
<1>6. /\ pipeline' \in Seq(Batch) /\ Front(pipeline', queue[u])
      /\ toServer' = <<>> /\ idle' \in BOOLEAN /\ ~idle'
      /\ IF pipeline' # <<>>
         THEN stream' = "Starting" /\ asking' = asking \cup {closeCount'}
         ELSE stream' = "Initial" /\ asking' = asking
  <2>1. Filled(<<>>, queue[u], "Initial", FALSE, closeCount', FALSE, <<>>)
    BY <1>1, <1>2, <1>3, <1>4, FillResult
  <2> QED BY <1>5, <2>1 DEF Filled
<1> QED BY <1>2, <1>6 DEF RestartNetwork, StreamIsDown

(* So does a close with an error, condemning the front of the queue or not.  *)
LEMMA CloseEffect ==
  ASSUME TypeOK, PipelineIsFront, QueuesAscend, NEW status, CloseWithError(status),
         user' = user
  PROVE  /\ pipeline' \in Seq(Batch) /\ Front(pipeline', queue'[user])
         /\ StreamIsDown' /\ closeCount' = closeCount + 1 /\ nextId' = nextId
         /\ IF stream' = "Starting" THEN asking' = asking \cup {closeCount'}
                                    ELSE asking' = asking
         /\ \/ CondemnsFront(status) /\ Notify(Head(pipeline), "error")
               /\ queue' = [queue EXCEPT ![user] = Without(@, Head(pipeline))]
            \/ UNCHANGED <<queue, callbacks, answer, pipeline>>
<1>1. /\ closeCount' = closeCount + 1 /\ closeCount' \in Nat
      /\ token' = NoUser /\ toClient' = <<>> /\ handshake' = FALSE /\ nextId' = nextId
  BY DEF CloseWithError, TypeOK
<1>2. CASE CondemnsFront(status)
  <2>1. /\ pipeline # <<>> /\ Notify(Head(pipeline), "error")
        /\ queue' = [queue EXCEPT ![user] = Without(@, Head(pipeline))]
        /\ FillWritePipeline(Tail(pipeline), queue'[user], "Initial", FALSE,
                             closeCount', FALSE, <<>>)
    BY <1>2 DEF CloseWithError, CondemnsFront
  <2>2. /\ Ascending(queue'[user]) /\ Front(Tail(pipeline), queue'[user])
        /\ queue' \in [User -> Seq(Batch)]
    BY <2>1, SettleEffect
  <2>3. queue'[user] \in Seq(Batch) /\ Tail(pipeline) \in Seq(Batch)
        /\ <<>> \in Seq(Write \cup {Hello})
    BY <2>1, <2>2, TailType DEF TypeOK
  <2>4. ~SendsAtOnce("Initial", FALSE)
    BY DEF SendsAtOnce
  <2>5. /\ pipeline' \in Seq(Batch) /\ Front(pipeline', queue'[user])
        /\ toServer' = <<>> /\ idle' \in BOOLEAN /\ ~idle'
        /\ IF pipeline' # <<>>
           THEN stream' = "Starting" /\ asking' = asking \cup {closeCount'}
           ELSE stream' = "Initial" /\ asking' = asking
    <3> DEFINE p == Tail(pipeline)
               q == queue'[user]
               n == closeCount'
    <3>1. /\ p \in Seq(Batch) /\ q \in Seq(Batch) /\ Ascending(q) /\ Front(p, q)
          /\ n \in Nat /\ FillWritePipeline(p, q, "Initial", FALSE, n, FALSE, <<>>)
      BY <1>1, <2>1, <2>2, <2>3
    <3> HIDE DEF p, q, n
    <3>2. /\ pipeline' \in Seq(Batch) /\ Front(pipeline', q)
          /\ toServer' = <<>> /\ idle' \in BOOLEAN /\ ~idle'
          /\ IF pipeline' # <<>>
             THEN stream' = "Starting" /\ asking' = asking \cup {n}
             ELSE stream' = "Initial" /\ asking' = asking
      <4>1. Filled(p, q, "Initial", FALSE, n, FALSE, <<>>)
        BY <2>3, <3>1, FillResult
      <4> QED BY <2>4, <4>1 DEF Filled
    <3> QED BY <3>2 DEF q, n
  <2> QED BY <1>1, <1>2, <2>1, <2>5 DEF StreamIsDown
<1>3. CASE ~CondemnsFront(status)
  <2>1. /\ idle' = FALSE /\ toServer' = <<>> /\ RestartIfNeeded(closeCount')
        /\ UNCHANGED <<queue, callbacks, answer, pipeline>>
    BY <1>3 DEF CloseWithError
  <2>2. /\ stream' \in {"Backoff", "Error"} /\ asking' = asking
        /\ stream' = "Backoff" => pipeline # <<>>
    BY <2>1 DEF RestartIfNeeded, Start
  <2>3. pipeline' \in Seq(Batch) /\ Front(pipeline', queue'[user])
    BY <2>1 DEF TypeOK, PipelineIsFront, Front
  <2> QED BY <1>1, <2>1, <2>2, <2>3 DEF StreamIsDown
<1> QED BY <1>2, <1>3

(* The queues stay in order when one of them loses its head.                 *)
LEMMA QueueLosesHead ==
  ASSUME TypeOK, QueuesAscend, nextId' = nextId,
         queue' = [queue EXCEPT ![user] = Tail(queue[user])], queue[user] # <<>>,
         Ascending(queue'[user]),
         \A u \in User : callbacks'[u] \subseteq Elems(queue'[u])
  PROVE  QueuesAscend'
<1>1. user \in User /\ queue \in [User -> Seq(Batch)]
  BY DEF TypeOK
<1>2. /\ DOMAIN Tail(queue[user]) = 1 .. Len(queue[user]) - 1
      /\ DOMAIN queue[user] = 1 .. Len(queue[user]) /\ Len(queue[user]) \in Nat
      /\ \A i \in 1 .. Len(queue[user]) - 1 : Tail(queue[user])[i] = queue[user][i + 1]
  BY <1>1, TailType, LenProperties
<1>3. \A i \in DOMAIN Tail(queue[user]) : Tail(queue[user])[i].id < nextId
  BY <1>1, <1>2 DEF QueuesAscend
<1>4. ASSUME NEW u \in User
      PROVE  Ascending(queue'[u]) /\ \A i \in DOMAIN queue'[u] : queue'[u][i].id < nextId'
  BY <1>1, <1>3 DEF QueuesAscend
<1> QED BY <1>4 DEF QueuesAscend

(* What a stream leaves to the server is writes alone.                       *)
LEMMA ForsakenEffect ==
  ASSUME TypeOK, StreamIsSound, HelloIsAlone, ResultsAreOurs
  PROVE  /\ Forsaken \subseteq Seq(Write)
         /\ \A s \in Forsaken \ abandoned :
              s = toServer /\ s # <<>> /\ handshake /\ ~Ended
<1>1. CASE Ended \/ toServer \in {<<>>, <<Hello>>}
  BY <1>1 DEF Forsaken, TypeOK
<1>2. CASE ~Ended /\ toServer \notin {<<>>, <<Hello>>}
  <2>1. Forsaken = abandoned \cup {toServer}
    BY <1>2 DEF Forsaken
  <2>2. handshake
    BY <1>2 DEF StreamIsSound, HelloIsAlone
  <2>3. toServer \in Seq(Write \cup {Hello}) /\ \A i \in DOMAIN toServer : toServer[i] # Hello
    BY <2>2 DEF TypeOK, ResultsAreOurs
  <2>4. toServer \in [1 .. Len(toServer) -> Write] /\ Len(toServer) \in Nat
    BY <2>3, LenProperties
  <2>5. toServer \in Seq(Write)
    BY <2>4, IsASeq
  <2> QED BY <1>2, <2>1, <2>2, <2>5 DEF TypeOK
<1> QED BY <1>1, <1>2

(* A new batch goes to the end of the queue, behind the pipeline.            *)
LEMMA WriteEffect ==
  ASSUME TypeOK, PipelineIsFront, QueuesAscend, NEW w \in Write, HandleWrite(w)
  PROVE  /\ queue' = [queue EXCEPT ![user] = Append(queue[user], [id |-> nextId, w |-> w])]
         /\ queue' \in [User -> Seq(Batch)] /\ [id |-> nextId, w |-> w] \in Batch
         /\ Ascending(queue'[user]) /\ Front(pipeline, queue'[user])
         /\ \A i \in DOMAIN queue'[user] : queue'[user][i].id < nextId'
         /\ Len(queue'[user]) = Len(queue[user]) + 1
         /\ \A i \in 1 .. Len(queue[user]) : queue'[user][i] = queue[user][i]
         /\ queue'[user][Len(queue[user]) + 1] = [id |-> nextId, w |-> w]
         /\ FillWritePipeline(pipeline, queue'[user], stream, handshake, closeCount,
                              idle, toServer)
<1> DEFINE b == [id |-> nextId, w |-> w]
           q == queue[user]
<1>1. /\ user \in User /\ queue \in [User -> Seq(Batch)] /\ q \in Seq(Batch)
      /\ nextId \in Nat /\ b \in Batch /\ pipeline \in Seq(Batch)
      /\ Ascending(q) /\ \A i \in DOMAIN q : q[i].id < nextId
  BY DEF TypeOK, QueuesAscend, Batch
<1>2. queue' = [queue EXCEPT ![user] = Append(q, b)] /\ nextId' = nextId + 1
  BY DEF HandleWrite
<1>3. /\ Append(q, b) \in Seq(Batch) /\ Len(Append(q, b)) = Len(q) + 1 /\ Len(q) \in Nat
      /\ DOMAIN q = 1 .. Len(q) /\ DOMAIN Append(q, b) = 1 .. Len(q) + 1
      /\ \A i \in 1 .. Len(q) : Append(q, b)[i] = q[i]
      /\ Append(q, b)[Len(q) + 1] = b
  <2> HIDE DEF b, q
  <2> QED BY <1>1, AppendProperties, LenProperties
<1>4. /\ \A i \in 1 .. Len(q) + 1 : i \in 1 .. Len(q) \/ i = Len(q) + 1
      /\ \A i \in 1 .. Len(q) : q[i].id \in Nat /\ b.id = nextId
  BY <1>1, <1>3, ElementsType
<1>5. queue' \in [User -> Seq(Batch)] /\ queue'[user] = Append(q, b)
  BY <1>1, <1>2, <1>3
<1> HIDE DEF b, q
<1>6. Ascending(Append(q, b))
  BY <1>1, <1>3, <1>4 DEF Ascending
<1>7. ASSUME NEW i \in DOMAIN Append(q, b) PROVE Append(q, b)[i].id < nextId'
  <2>1. CASE i \in 1 .. Len(q)
    <3>1. Append(q, b)[i] = q[i] /\ q[i].id < nextId /\ q[i].id \in Nat
      BY <1>1, <1>3, <1>4, <2>1
    <3> QED BY <1>1, <1>2, <3>1
  <2>2. CASE i = Len(q) + 1
    BY <1>1, <1>2, <1>3, <2>2 DEF b
  <2> QED BY <1>3, <1>4, <2>1, <2>2
<1>8. Front(pipeline, Append(q, b))
  <2>1. /\ Len(pipeline) <= MaxPending /\ Len(pipeline) <= Len(q)
        /\ \A i \in 1 .. Len(pipeline) : pipeline[i] = q[i]
    BY <1>1, LenProperties DEF PipelineIsFront, q
  <2>2. DOMAIN pipeline = 1 .. Len(pipeline) /\ Len(pipeline) \in Nat
    BY <1>1, LenProperties
  <2> QED BY <1>3, <2>1, <2>2 DEF Front
<1>9. FillWritePipeline(pipeline, queue'[user], stream, handshake, closeCount, idle, toServer)
  BY DEF HandleWrite
<1> QED BY <1>1, <1>2, <1>3, <1>5, <1>6, <1>7, <1>8, <1>9 DEF b, q

-----------------------------------------------------------------------------
(* TypeOK in four parts.                                                     *)
AppType ==
  /\ auth \in User /\ tasks \in Seq(Task)
  /\ owner \in [Write -> User \cup {NoUser}] /\ alive \subseteq Write
  /\ faults \in 0 .. MaxFaults /\ switches \in 0 .. MaxSwitches
DiskType ==
  /\ user \in User
  /\ queue \in [User -> Seq(Batch)] /\ nextId \in Nat
  /\ callbacks \in [User -> SUBSET Batch]
  /\ answer \in [Write -> {"none", "ok", "error"}]
ClientType ==
  /\ pipeline \in Seq(Batch)
  /\ stream \in {"Initial", "Starting", "Backoff", "Open", "Error"}
  /\ handshake \in BOOLEAN /\ idle \in BOOLEAN
  /\ closeCount \in Nat /\ asking \subseteq Nat
ServerType ==
  /\ token \in User \cup {NoUser}
  /\ toServer \in Seq(Write \cup {Hello})
  /\ toClient \in Seq({"hello", "done", "permanent", "transient"})
  /\ abandoned \subseteq Seq(Write)
  /\ committed \subseteq Write /\ refused \subseteq Write

LEMMA TypeParts ==
  /\ TypeOK <=> AppType /\ DiskType /\ ClientType /\ ServerType
  /\ TypeOK' <=> AppType' /\ DiskType' /\ ClientType' /\ ServerType'
<1>1. TypeOK <=> AppType /\ DiskType /\ ClientType /\ ServerType
  BY DEF TypeOK, AppType, DiskType, ClientType, ServerType
<1>2. TypeOK' <=> AppType' /\ DiskType' /\ ClientType' /\ ServerType'
  BY DEF TypeOK, AppType, DiskType, ClientType, ServerType
<1> QED BY <1>1, <1>2

Base == TypeOK /\ PipelineIsFront /\ QueuesAscend
Streams == StreamIsSound /\ HelloIsAlone /\ ResultsAreOurs

LEMMA BaseStep ==
  ASSUME Base, Streams, LateIsSomething, [Next]_vars
  PROVE  Base'
<1> USE DEF Base, disk, channel, backend, bounds, app
<1>0. /\ AppType /\ DiskType /\ ClientType /\ ServerType
      /\ MaxFaults \in Nat /\ MaxSwitches \in Nat
  BY TypeParts, BoundsAssumption
<1>1. ASSUME NEW w \in Write, IssueWrite(w) PROVE Base'
  <2>1. [kind |-> "write", w |-> w] \in Task /\ tasks' \in Seq(Task)
    BY <1>1, AppendProperties DEF IssueWrite, TypeOK, Task
  <2>2. TypeOK'
    <3>1. AppType'
      BY <1>0, <1>1, <2>1 DEF IssueWrite, AppType
    <3>2. DiskType'
      BY <1>0, <1>1, <2>1 DEF IssueWrite, DiskType
    <3>3. ClientType'
      BY <1>0, <1>1, <2>1 DEF IssueWrite, ClientType
    <3>4. ServerType'
      BY <1>0, <1>1, <2>1 DEF IssueWrite, ServerType
    <3> QED BY <3>1, <3>2, <3>3, <3>4, TypeParts
  <2> QED BY <1>1, <2>2 DEF IssueWrite, PipelineIsFront, QueuesAscend
<1>2. ASSUME NEW u \in User, ChangeCredential(u) PROVE Base'
  <2>1. [kind |-> "change", u |-> u] \in Task /\ tasks' \in Seq(Task)
    BY <1>2, AppendProperties DEF ChangeCredential, TypeOK, Task
  <2>2. TypeOK'
    <3>1. AppType'
      BY <1>0, <1>2, <2>1 DEF ChangeCredential, AppType
    <3>2. DiskType'
      BY <1>0, <1>2, <2>1 DEF ChangeCredential, DiskType
    <3>3. ClientType'
      BY <1>0, <1>2, <2>1 DEF ChangeCredential, ClientType
    <3>4. ServerType'
      BY <1>0, <1>2, <2>1 DEF ChangeCredential, ServerType
    <3> QED BY <3>1, <3>2, <3>3, <3>4, TypeParts
  <2> QED BY <1>2, <2>2 DEF ChangeCredential, PipelineIsFront, QueuesAscend
<1>3. ASSUME TokenGranted \/ TokenFails PROVE Base'
  <2>1. PICK n \in asking, ok \in BOOLEAN : AnswerToken(n, ok)
    BY <1>3 DEF TokenGranted, TokenFails
  <2>2. [kind |-> "token", u |-> auth, count |-> n, ok |-> ok] \in Task
    BY DEF TypeOK, Task
  <2>3. tasks' \in Seq(Task)
    BY <2>1, <2>2, AppendProperties DEF AnswerToken, TypeOK
  <2>4. TypeOK'
    <3>1. AppType'
      BY <1>0, <1>3, <2>1, <2>3 DEF AnswerToken, TokenGranted, TokenFails, Fault, AppType
    <3>2. DiskType'
      BY <1>0, <1>3, <2>1, <2>3 DEF AnswerToken, TokenGranted, TokenFails, Fault, DiskType
    <3>3. ClientType'
      BY <1>0, <1>3, <2>1, <2>3 DEF AnswerToken, TokenGranted, TokenFails, Fault, ClientType
    <3>4. ServerType'
      BY <1>0, <1>3, <2>1, <2>3 DEF AnswerToken, TokenGranted, TokenFails, Fault, ServerType
    <3> QED BY <3>1, <3>2, <3>3, <3>4, TypeParts
  <2> QED BY <2>1, <2>4 DEF AnswerToken, PipelineIsFront, QueuesAscend
<1>4. CASE RunTask
  <2>1. /\ tasks \in Seq(Task) /\ tasks # <<>> /\ Head(tasks) \in Task
        /\ tasks' \in Seq(Task)
    BY <1>4, TailType DEF RunTask, TypeOK
  <2>2. ASSUME NEW w \in Write, HandleWrite(w) PROVE Base'
    <3>1. /\ queue' \in [User -> Seq(Batch)] /\ [id |-> nextId, w |-> w] \in Batch
          /\ queue' = [queue EXCEPT ![user] = Append(queue[user], [id |-> nextId, w |-> w])]
          /\ Ascending(queue'[user]) /\ Front(pipeline, queue'[user])
          /\ \A i \in DOMAIN queue'[user] : queue'[user][i].id < nextId'
          /\ Len(queue'[user]) = Len(queue[user]) + 1
          /\ \A i \in 1 .. Len(queue[user]) : queue'[user][i] = queue[user][i]
          /\ queue'[user][Len(queue[user]) + 1] = [id |-> nextId, w |-> w]
          /\ FillWritePipeline(pipeline, queue'[user], stream, handshake, closeCount,
                               idle, toServer)
      BY <2>2, WriteEffect
    <3>2. /\ queue'[user] \in Seq(Batch) /\ pipeline \in Seq(Batch) /\ user \in User
          /\ stream \in {"Initial", "Open", "Error", "Starting", "Backoff"}
          /\ handshake \in BOOLEAN /\ closeCount \in Nat /\ idle \in BOOLEAN
          /\ toServer \in Seq(Write \cup {Hello})
      BY <3>1 DEF TypeOK
    <3>3. /\ pipeline' \in Seq(Batch) /\ Front(pipeline', queue'[user])
          /\ toServer' \in Seq(Write \cup {Hello}) /\ idle' \in BOOLEAN
          /\ stream' \in {"Initial", "Open", "Error", "Starting", "Backoff"}
          /\ asking' \in {asking, asking \cup {closeCount}}
      <4> DEFINE q == queue'[user]
      <4> HIDE DEF q
      <4>1. FillWritePipeline(pipeline, q, stream, handshake, closeCount, idle, toServer)
            /\ q \in Seq(Batch) /\ Ascending(q) /\ Front(pipeline, q)
        BY <3>1, <3>2 DEF q
      <4>2. /\ pipeline' \in Seq(Batch) /\ Front(pipeline', q)
            /\ toServer' \in Seq(Write \cup {Hello}) /\ idle' \in BOOLEAN
            /\ IF stream \in {"Initial", "Error"} /\ pipeline' # <<>>
               THEN IF stream = "Error"
                    THEN stream' = "Backoff" /\ asking' = asking
                    ELSE stream' = "Starting" /\ asking' = asking \cup {closeCount}
               ELSE stream' = stream /\ asking' = asking
        <5>1. Filled(pipeline, q, stream, handshake, closeCount, idle, toServer)
          BY <3>2, <4>1, FillResult
        <5> QED BY <5>1 DEF Filled
      <4> QED BY <3>2, <4>2 DEF q
    <3>4. /\ nextId' = nextId + 1 /\ UNCHANGED <<user, answer, handshake, closeCount,
                                                 token, toClient, backend>>
          /\ callbacks' = [callbacks EXCEPT ![user] = @ \cup {[id |-> nextId, w |-> w]}]
      BY <2>2 DEF HandleWrite
    <3>5. TypeOK'
      <4>1. AppType'
        BY <1>0, <1>4, <2>1, <3>1, <3>2, <3>3, <3>4 DEF RunTask, AppType
      <4>2. DiskType'
        BY <1>0, <1>4, <2>1, <3>1, <3>2, <3>3, <3>4 DEF RunTask, DiskType
      <4>3. ClientType'
        BY <1>0, <1>4, <2>1, <3>1, <3>2, <3>3, <3>4 DEF RunTask, ClientType
      <4>4. ServerType'
        BY <1>0, <1>4, <2>1, <3>1, <3>2, <3>3, <3>4 DEF RunTask, ServerType
      <4> QED BY <4>1, <4>2, <4>3, <4>4, TypeParts
    <3>6. PipelineIsFront'
      BY <3>3, <3>4 DEF PipelineIsFront, Front
    <3>7. ASSUME NEW u \in User
          PROVE  /\ Ascending(queue'[u])
                 /\ \A i \in DOMAIN queue'[u] : queue'[u][i].id < nextId'
                 /\ callbacks'[u] \subseteq Elems(queue'[u])
      <4>1. CASE u = user
        <5>1. Len(queue[user]) \in Nat /\ DOMAIN queue[user] = 1 .. Len(queue[user])
              /\ DOMAIN queue'[user] = 1 .. Len(queue[user]) + 1
          BY <3>1, <3>2, LenProperties DEF TypeOK
        <5>2. Elems(queue[user]) \cup {[id |-> nextId, w |-> w]} \subseteq Elems(queue'[user])
          <6>1. \A i \in 1 .. Len(queue[user]) : i \in 1 .. Len(queue[user]) + 1
            BY <5>1
          <6>2. Len(queue[user]) + 1 \in 1 .. Len(queue[user]) + 1
            BY <5>1
          <6> QED BY <3>1, <5>1, <6>1, <6>2 DEF Elems
        <5>3. callbacks'[user] = callbacks[user] \cup {[id |-> nextId, w |-> w]}
          BY <3>2, <3>4 DEF TypeOK
        <5> QED BY <3>1, <3>2, <4>1, <5>2, <5>3 DEF QueuesAscend
      <4>2. CASE u # user
        <5>1. queue'[u] = queue[u] /\ callbacks'[u] = callbacks[u]
          BY <3>1, <3>4, <4>2 DEF TypeOK
        <5>2. \A i \in DOMAIN queue[u] : queue[u][i].id < nextId /\ queue[u][i].id \in Nat
          BY ElementsType DEF QueuesAscend, TypeOK
        <5> QED BY <3>4, <5>1, <5>2 DEF QueuesAscend, TypeOK
      <4> QED BY <4>1, <4>2
    <3> QED BY <3>5, <3>6, <3>7 DEF QueuesAscend
  <2>3. ASSUME NEW u \in User, HandleCredentialChange(u) PROVE Base'
    <3>1. /\ user' = u /\ queue' = queue /\ callbacks' = callbacks /\ answer' = answer
          /\ nextId' \in {nextId, LoadNextBatchId} /\ RestartNetwork(u)
          /\ UNCHANGED <<committed, refused>>
      BY <2>3 DEF HandleCredentialChange, CallbacksAfter
    <3>2. /\ pipeline' \in Seq(Batch) /\ Front(pipeline', queue[u])
          /\ StreamIsDown' /\ closeCount' \in Nat
          /\ asking' \in {asking, asking \cup {closeCount'}}
      BY <3>1, RestartEffect
    <3>3. abandoned' \subseteq Seq(Write)
      BY <3>1, ForsakenEffect DEF RestartNetwork, Streams
    <3>4. /\ nextId' \in Nat
          /\ \A v \in User : \A i \in DOMAIN queue[v] : queue[v][i].id < nextId'
      BY <3>1, NextIdIsFresh DEF TypeOK, QueuesAscend
    <3>5. TypeOK'
      <4>1. AppType'
        BY <1>0, <1>4, <2>1, <3>1, <3>2, <3>3, <3>4 DEF RunTask, StreamIsDown, AppType
      <4>2. DiskType'
        BY <1>0, <1>4, <2>1, <3>1, <3>2, <3>3, <3>4 DEF RunTask, StreamIsDown, DiskType
      <4>3. ClientType'
        BY <1>0, <1>4, <2>1, <3>1, <3>2, <3>3, <3>4 DEF RunTask, StreamIsDown, ClientType
      <4>4. ServerType'
        BY <1>0, <1>4, <2>1, <3>1, <3>2, <3>3, <3>4 DEF RunTask, StreamIsDown, ServerType
      <4> QED BY <4>1, <4>2, <4>3, <4>4, TypeParts
    <3>6. PipelineIsFront'
      BY <3>1, <3>2 DEF PipelineIsFront, Front
    <3>7. QueuesAscend'
      BY <3>1, <3>4 DEF QueuesAscend
    <3> QED BY <3>5, <3>6, <3>7
  <2>4. ASSUME NEW t \in Task, t.kind = "token", HandleToken(t) PROVE Base'
    <3>1. t.u \in User
      BY <2>4 DEF Task
    <3>2. CASE UNCHANGED <<disk, pipeline, stream, handshake, idle, closeCount, asking,
                           channel, user, backend>>
      <4>1. TypeOK'
        <5>1. AppType'
          BY <1>0, <1>4, <2>1, <3>2 DEF RunTask, AppType
        <5>2. DiskType'
          BY <1>0, <1>4, <2>1, <3>2 DEF RunTask, DiskType
        <5>3. ClientType'
          BY <1>0, <1>4, <2>1, <3>2 DEF RunTask, ClientType
        <5>4. ServerType'
          BY <1>0, <1>4, <2>1, <3>2 DEF RunTask, ServerType
        <5> QED BY <5>1, <5>2, <5>3, <5>4, TypeParts
      <4> QED BY <3>2, <4>1 DEF PipelineIsFront, QueuesAscend
    <3>3. CASE /\ stream' = "Open" /\ token' = t.u
               /\ toServer' = <<Hello>> /\ toClient' = <<>> /\ idle' = FALSE
               /\ UNCHANGED <<disk, pipeline, handshake, closeCount, asking, user, backend>>
      <4>1. TypeOK'
        <5>1. AppType'
          BY <1>0, <1>4, <2>1, <3>1, <3>3 DEF RunTask, AppType
        <5>2. DiskType'
          BY <1>0, <1>4, <2>1, <3>1, <3>3 DEF RunTask, DiskType
        <5>3. ClientType'
          BY <1>0, <1>4, <2>1, <3>1, <3>3 DEF RunTask, ClientType
        <5>4. ServerType'
          BY <1>0, <1>4, <2>1, <3>1, <3>3 DEF RunTask, ServerType
        <5> QED BY <5>1, <5>2, <5>3, <5>4, TypeParts
      <4> QED BY <3>3, <4>1 DEF PipelineIsFront, QueuesAscend
    <3>4. CASE CloseWithError("transient") /\ UNCHANGED <<user, backend>>
      <4>1. /\ StreamIsDown' /\ closeCount' = closeCount + 1 /\ nextId' = nextId
            /\ asking' \in {asking, asking \cup {closeCount'}}
            /\ UNCHANGED <<queue, callbacks, answer, pipeline>>
        BY <3>4, CloseEffect DEF CondemnsFront
      <4>2. TypeOK'
        <5>1. AppType'
          BY <1>0, <1>4, <2>1, <3>4, <4>1 DEF RunTask, StreamIsDown, AppType
        <5>2. DiskType'
          BY <1>0, <1>4, <2>1, <3>4, <4>1 DEF RunTask, StreamIsDown, DiskType
        <5>3. ClientType'
          BY <1>0, <4>1, closeCount' \in Nat DEF StreamIsDown, ClientType
        <5>4. ServerType'
          BY <1>0, <1>4, <2>1, <3>4, <4>1 DEF RunTask, StreamIsDown, ServerType
        <5> QED BY <5>1, <5>2, <5>3, <5>4, TypeParts
      <4> QED BY <3>4, <4>1, <4>2 DEF PipelineIsFront, QueuesAscend
    <3> QED BY <2>4, <3>2, <3>3, <3>4 DEF HandleToken
  <2> QED BY <1>4, <2>1, <2>2, <2>3, <2>4 DEF RunTask, Task
<1>5. CASE BackoffElapses
  <2>1. stream' = "Starting" /\ asking' = asking \cup {closeCount}
    BY <1>5 DEF BackoffElapses, Start
  <2>2. TypeOK'
    <3>1. AppType'
      BY <1>0, <1>5, <2>1 DEF BackoffElapses, AppType
    <3>2. DiskType'
      BY <1>0, <1>5, <2>1 DEF BackoffElapses, DiskType
    <3>3. ClientType'
      BY <1>0, <1>5, <2>1 DEF BackoffElapses, ClientType
    <3>4. ServerType'
      BY <1>0, <1>5, <2>1 DEF BackoffElapses, ServerType
    <3> QED BY <3>1, <3>2, <3>3, <3>4, TypeParts
  <2> QED BY <1>5, <2>2 DEF BackoffElapses, PipelineIsFront, QueuesAscend
<1>6. CASE IdleElapses
  <2>1. abandoned' \subseteq Seq(Write)
    BY <1>6, ForsakenEffect DEF IdleElapses, Streams
  <2>2. TypeOK'
    <3>1. AppType'
      BY <1>0, <1>6, <2>1 DEF IdleElapses, AppType
    <3>2. DiskType'
      BY <1>0, <1>6, <2>1 DEF IdleElapses, DiskType
    <3>3. ClientType'
      <4>1. /\ stream' = "Initial" /\ handshake' = FALSE /\ idle' = FALSE
            /\ closeCount' = closeCount + 1 /\ pipeline' = pipeline /\ asking' = asking
        BY <1>6 DEF IdleElapses
      <4>2. closeCount' \in Nat
        BY <1>0, <4>1 DEF ClientType
      <4>3. handshake' \in BOOLEAN /\ idle' \in BOOLEAN
        BY <4>1
      <4>4. pipeline' \in Seq(Batch) /\ asking' \subseteq Nat
        BY <1>0, <4>1 DEF ClientType
      <4> QED BY <4>1, <4>2, <4>3, <4>4 DEF ClientType
    <3>4. ServerType'
      BY <1>0, <1>6, <2>1 DEF IdleElapses, ServerType
    <3> QED BY <3>1, <3>2, <3>3, <3>4, TypeParts
  <2> QED BY <1>6, <2>2 DEF IdleElapses, PipelineIsFront, QueuesAscend
<1>7. CASE ReadHello
  <2>1. /\ toClient' \in Seq({"hello", "done", "permanent", "transient"})
        /\ Writes(pipeline) \in Seq(Write)
    BY <1>7, TailType, WritesType DEF ReadHello, TypeOK
  <2>2. Writes(pipeline) \in Seq(Write \cup {Hello})
    BY <2>1, SeqMonotonic
  <2>3. toServer' \in Seq(Write \cup {Hello})
    BY <1>7, <2>2, ConcatType DEF ReadHello, TypeOK
  <2>4. TypeOK'
    <3>1. AppType'
      BY <1>0, <1>7, <2>1, <2>3 DEF ReadHello, AppType
    <3>2. DiskType'
      BY <1>0, <1>7, <2>1, <2>3 DEF ReadHello, DiskType
    <3>3. ClientType'
      BY <1>0, <1>7, <2>1, <2>3 DEF ReadHello, ClientType
    <3>4. ServerType'
      BY <1>0, <1>7, <2>1, <2>3 DEF ReadHello, ServerType
    <3> QED BY <3>1, <3>2, <3>3, <3>4, TypeParts
  <2> QED BY <1>7, <2>4 DEF ReadHello, PipelineIsFront, QueuesAscend
<1>8. CASE ReadResult
  <2>1. /\ pipeline # <<>> /\ Notify(Head(pipeline), "ok") /\ nextId' = nextId
        /\ queue' = [queue EXCEPT ![user] = Without(@, Head(pipeline))]
        /\ FillWritePipeline(Tail(pipeline), queue'[user], stream, handshake, closeCount,
                             idle, toServer)
    BY <1>8 DEF ReadResult
  <2>2. /\ queue' = [queue EXCEPT ![user] = Tail(queue[user])]
        /\ queue' \in [User -> Seq(Batch)] /\ Ascending(queue'[user])
        /\ Front(Tail(pipeline), queue'[user])
        /\ callbacks' \in [User -> SUBSET Batch]
        /\ \A u \in User : callbacks'[u] \subseteq Elems(queue'[u])
        /\ answer' \in [Write -> {"none", "ok", "error"}]
    BY <2>1, SettleEffect
  <2>3. /\ pipeline' \in Seq(Batch) /\ Front(pipeline', queue'[user])
        /\ toServer' \in Seq(Write \cup {Hello}) /\ idle' \in BOOLEAN
        /\ stream' \in {"Initial", "Open", "Error", "Starting", "Backoff"}
        /\ asking' \in {asking, asking \cup {closeCount}}
    <3> DEFINE q == queue'[user]
               p == Tail(pipeline)
    <3>1. /\ q \in Seq(Batch) /\ p \in Seq(Batch)
          /\ FillWritePipeline(p, q, stream, handshake, closeCount, idle, toServer)
          /\ Ascending(q) /\ Front(p, q)
      BY <2>1, <2>2, HeadIsFirst DEF TypeOK
    <3>2. /\ stream \in {"Initial", "Open", "Error", "Starting", "Backoff"}
          /\ handshake \in BOOLEAN /\ closeCount \in Nat /\ idle \in BOOLEAN
          /\ toServer \in Seq(Write \cup {Hello})
      BY DEF TypeOK
    <3> HIDE DEF p, q
    <3>3. /\ pipeline' \in Seq(Batch) /\ Front(pipeline', q)
          /\ toServer' \in Seq(Write \cup {Hello}) /\ idle' \in BOOLEAN
          /\ IF stream \in {"Initial", "Error"} /\ pipeline' # <<>>
             THEN IF stream = "Error"
                  THEN stream' = "Backoff" /\ asking' = asking
                  ELSE stream' = "Starting" /\ asking' = asking \cup {closeCount}
             ELSE stream' = stream /\ asking' = asking
      <4>1. Filled(p, q, stream, handshake, closeCount, idle, toServer)
        BY <3>1, <3>2, FillResult
      <4> QED BY <4>1 DEF Filled
    <3> QED BY <3>2, <3>3 DEF q
  <2>4. toClient' \in Seq({"hello", "done", "permanent", "transient"})
    BY <1>8, TailType DEF ReadResult, TypeOK
  <2>5. TypeOK'
    <3>1. AppType'
      BY <1>0, <1>8, <2>2, <2>3, <2>4 DEF ReadResult, AppType
    <3>2. DiskType'
      BY <1>0, <1>8, <2>2, <2>3, <2>4 DEF ReadResult, DiskType
    <3>3. ClientType'
      BY <1>0, <1>8, <2>2, <2>3, <2>4 DEF ReadResult, ClientType
    <3>4. ServerType'
      BY <1>0, <1>8, <2>2, <2>3, <2>4 DEF ReadResult, ServerType
    <3> QED BY <3>1, <3>2, <3>3, <3>4, TypeParts
  <2>6. PipelineIsFront'
    BY <1>8, <2>3 DEF ReadResult, PipelineIsFront, Front
  <2>7. QueuesAscend'
    BY <2>1, <2>2, HeadIsFirst, QueueLosesHead
  <2> QED BY <2>5, <2>6, <2>7
<1>9. CASE ReadStatus
  <2>1. PICK status : CloseWithError(status) /\ UNCHANGED <<app, tasks, user, backend, bounds>>
    BY <1>9 DEF ReadStatus
  <2>2. /\ pipeline' \in Seq(Batch) /\ Front(pipeline', queue'[user])
        /\ StreamIsDown' /\ closeCount' = closeCount + 1 /\ nextId' = nextId
        /\ asking' \in {asking, asking \cup {closeCount'}}
        /\ \/ CondemnsFront(status) /\ Notify(Head(pipeline), "error")
              /\ queue' = [queue EXCEPT ![user] = Without(@, Head(pipeline))]
           \/ UNCHANGED <<queue, callbacks, answer, pipeline>>
    BY <2>1, CloseEffect
  <2>3. CASE UNCHANGED <<queue, callbacks, answer, pipeline>>
    <3>1. TypeOK'
      <4>1. AppType'
        BY <1>0, <2>1, <2>2, <2>3 DEF StreamIsDown, AppType
      <4>2. DiskType'
        BY <1>0, <2>1, <2>2, <2>3 DEF StreamIsDown, DiskType
      <4>3. ClientType'
        BY <1>0, <2>2, <2>3, closeCount' \in Nat DEF StreamIsDown, ClientType
      <4>4. ServerType'
        BY <1>0, <2>1, <2>2, <2>3 DEF StreamIsDown, ServerType
      <4> QED BY <4>1, <4>2, <4>3, <4>4, TypeParts
    <3> QED BY <2>1, <2>2, <2>3, <3>1 DEF PipelineIsFront, QueuesAscend
  <2>4. CASE /\ CondemnsFront(status) /\ Notify(Head(pipeline), "error")
             /\ queue' = [queue EXCEPT ![user] = Without(@, Head(pipeline))]
    <3>1. /\ queue' = [queue EXCEPT ![user] = Tail(queue[user])]
          /\ queue' \in [User -> Seq(Batch)] /\ Ascending(queue'[user])
          /\ callbacks' \in [User -> SUBSET Batch]
          /\ \A u \in User : callbacks'[u] \subseteq Elems(queue'[u])
          /\ answer' \in [Write -> {"none", "ok", "error"}]
      BY <2>4, SettleEffect DEF CondemnsFront
    <3>2. TypeOK'
      <4>1. AppType'
        BY <1>0, <2>1, <2>2, <3>1 DEF StreamIsDown, AppType
      <4>2. DiskType'
        BY <1>0, <2>1, <2>2, <3>1 DEF StreamIsDown, DiskType
      <4>3. ClientType'
        BY <1>0, <2>2, closeCount' \in Nat DEF StreamIsDown, ClientType
      <4>4. ServerType'
        BY <1>0, <2>1, <2>2, <3>1 DEF StreamIsDown, ServerType
      <4> QED BY <4>1, <4>2, <4>3, <4>4, TypeParts
    <3>3. QueuesAscend'
      <4>1. pipeline # <<>>
        BY <2>4 DEF CondemnsFront
      <4> QED BY <2>2, <3>1, <4>1, HeadIsFirst, QueueLosesHead
    <3>4. PipelineIsFront'
      BY <2>1, <2>2 DEF PipelineIsFront, Front
    <3> QED BY <3>2, <3>3, <3>4
  <2> QED BY <2>2, <2>3, <2>4
<1>10. CASE ConnectivityChanges
  <2>1. /\ pipeline' \in Seq(Batch) /\ Front(pipeline', queue[user])
        /\ StreamIsDown' /\ closeCount' \in Nat
        /\ asking' \in {asking, asking \cup {closeCount'}}
        /\ abandoned' \subseteq Seq(Write)
    BY <1>10, RestartEffect, ForsakenEffect
       DEF ConnectivityChanges, TypeOK, RestartNetwork, Streams
  <2>2. TypeOK'
    <3>1. AppType'
      BY <1>0, <1>10, <2>1 DEF ConnectivityChanges, Fault, StreamIsDown, AppType
    <3>2. DiskType'
      BY <1>0, <1>10, <2>1 DEF ConnectivityChanges, Fault, StreamIsDown, DiskType
    <3>3. ClientType'
      BY <1>0, <1>10, <2>1 DEF ConnectivityChanges, Fault, StreamIsDown, ClientType
    <3>4. ServerType'
      BY <1>0, <1>10, <2>1 DEF ConnectivityChanges, Fault, StreamIsDown, ServerType
    <3> QED BY <3>1, <3>2, <3>3, <3>4, TypeParts
  <2> QED BY <1>10, <2>1, <2>2 DEF ConnectivityChanges, PipelineIsFront, QueuesAscend, Front
<1>11. CASE Kill
  <2>1. /\ auth \in User /\ queue[auth] \in Seq(Batch) /\ Ascending(queue[auth])
        /\ queue' = queue /\ user' = auth /\ nextId' = LoadNextBatchId
        /\ callbacks' = [u \in User |-> {}]
    BY <1>11 DEF Kill, QueueAfterKill, TypeOK, QueuesAscend
  <2>2. <<>> \in Seq(Batch) /\ Front(<<>>, queue[auth])
    BY <2>1, MaxPendingAssumption DEF Front
  <2>3. pipeline' \in Seq(Batch) /\ Front(pipeline', queue[auth])
    <3>1. pipeline' = <<>> \o Refill(<<>>, queue[auth])
      BY <1>11, <2>1, <2>2, RefillGoesOn, ConcatEmptySeq DEF Kill
    <3> QED BY <2>1, <2>2, <3>1, RefillFront
  <2>4. /\ nextId' \in Nat
        /\ \A v \in User : \A i \in DOMAIN queue[v] : queue[v][i].id < nextId'
    BY <2>1, NextIdIsFresh DEF TypeOK, QueuesAscend
  <2>5. abandoned' \subseteq Seq(Write)
    BY <1>11, ForsakenEffect DEF Kill, Streams
  <2>6. TypeOK'
    <3>1. AppType'
      BY <1>0, <1>11, <2>1, <2>3, <2>4, <2>5 DEF Kill, Fault, AppType
    <3>2. DiskType'
      BY <1>0, <1>11, <2>1, <2>3, <2>4, <2>5 DEF Kill, Fault, DiskType
    <3>3. ClientType'
      <4>1. /\ stream' \in {"Initial", "Starting"} /\ asking' \subseteq {0}
            /\ handshake' = FALSE /\ idle' = FALSE /\ closeCount' = 0
        BY <1>11 DEF Kill
      <4>2. handshake' \in BOOLEAN /\ idle' \in BOOLEAN
        BY <4>1
      <4>3. closeCount' \in Nat /\ asking' \subseteq Nat
        BY <4>1
      <4> QED BY <2>3, <4>1, <4>2, <4>3 DEF ClientType
    <3>4. ServerType'
      BY <1>0, <1>11, <2>1, <2>3, <2>4, <2>5 DEF Kill, Fault, ServerType
    <3> QED BY <3>1, <3>2, <3>3, <3>4, TypeParts
  <2> QED BY <2>1, <2>3, <2>4, <2>6 DEF PipelineIsFront, QueuesAscend, Front
<1>12. ASSUME NEW r \in Write \cup {Hello},
              NEW response \in {"hello", "done", "permanent", "transient"},
              NEW rest \in {Tail(toServer), <<>>},
              Reads(r), Responds(rest, response),
              committed' \subseteq Write, refused' \subseteq Write,
              faults' \in 0 .. MaxFaults, switches' = switches
       PROVE  Base'
  <2>1. toServer' \in Seq(Write \cup {Hello})
    <3>1. toServer # <<>> /\ toServer' = rest
      BY <1>12 DEF Reads, Responds
    <3>2. toServer \in Seq(Write \cup {Hello}) /\ <<>> \in Seq(Write \cup {Hello})
      BY DEF TypeOK
    <3>3. Tail(toServer) \in Seq(Write \cup {Hello})
      BY <3>1, <3>2, TailType
    <3> QED BY <3>1, <3>2, <3>3
  <2>2. toClient' \in Seq({"hello", "done", "permanent", "transient"})
    BY <1>12, AppendProperties DEF Responds, TypeOK
  <2>3. TypeOK'
    <3>1. AppType'
      BY <1>0, <1>12, <2>1, <2>2 DEF Responds, AppType
    <3>2. DiskType'
      BY <1>0, <1>12, <2>1, <2>2 DEF Responds, DiskType
    <3>3. ClientType'
      BY <1>0, <1>12, <2>1, <2>2 DEF Responds, ClientType
    <3>4. ServerType'
      BY <1>0, <1>12, <2>1, <2>2 DEF Responds, ServerType
    <3> QED BY <3>1, <3>2, <3>3, <3>4, TypeParts
  <2> QED BY <1>12, <2>3 DEF Responds, PipelineIsFront, QueuesAscend
<1>13. CASE Serve \/ RefuseHandshake
  <2>1. CASE AcceptHandshake \/ RefuseHandshake
    <3>1. /\ committed' \subseteq Write /\ refused' \subseteq Write
          /\ faults' \in 0 .. MaxFaults /\ switches' = switches
      BY <1>0, <2>1 DEF AcceptHandshake, RefuseHandshake, Fault, AppType, ServerType
    <3>2. \/ Reads(Hello) /\ Responds(Tail(toServer), "hello")
          \/ Reads(Hello) /\ Responds(<<>>, "permanent")
      BY <2>1 DEF AcceptHandshake, RefuseHandshake
    <3> QED BY <1>12, <3>1, <3>2
  <2>2. ASSUME NEW w \in Write, Commit(w) \/ Refuse(w) PROVE Base'
    BY <1>12, <2>2 DEF Commit, Refuse, TypeOK
  <2> QED BY <1>13, <2>1, <2>2 DEF Serve
<1>14. ASSUME NEW k \in 0 .. Len(toClient), Break(k) PROVE Base'
  <2>1. abandoned' \subseteq Seq(Write)
    BY <1>14, ForsakenEffect DEF Break, Streams
  <2>2. toClient' \in Seq({"hello", "done", "permanent", "transient"})
    <3>1. toClient \in Seq({"hello", "done", "permanent", "transient"})
      BY DEF TypeOK
    <3>2. /\ k \in Int /\ 1 \in Int
          /\ \A i \in 1 .. k : toClient[i] \in {"hello", "done", "permanent", "transient"}
      BY <3>1, LenProperties
    <3>3. SubSeq(toClient, 1, k) \in Seq({"hello", "done", "permanent", "transient"})
      BY <3>2, SubSeqProperties
    <3> QED BY <1>14, <3>3, AppendProperties DEF Break
  <2>3. TypeOK'
    <3>1. AppType'
      BY <1>0, <1>14, <2>1, <2>2 DEF Break, Fault, AppType
    <3>2. DiskType'
      BY <1>0, <1>14, <2>1, <2>2 DEF Break, Fault, DiskType
    <3>3. ClientType'
      BY <1>0, <1>14, <2>1, <2>2 DEF Break, Fault, ClientType
    <3>4. ServerType'
      BY <1>0, <1>14, <2>1, <2>2 DEF Break, Fault, ServerType
    <3> QED BY <3>1, <3>2, <3>3, <3>4, TypeParts
  <2> QED BY <1>14, <2>3 DEF Break, PipelineIsFront, QueuesAscend
<1>15. ASSUME NEW s \in abandoned, CommitLate(s) PROVE Base'
  <2>1. s \in Seq(Write) /\ s # <<>> /\ Head(s) \in Write /\ Tail(s) \in Seq(Write)
    BY TailType DEF TypeOK, LateIsSomething
  <2>2. TypeOK'
    <3>1. AppType'
      BY <1>0, <1>15, <2>1 DEF CommitLate, AppType
    <3>2. DiskType'
      BY <1>0, <1>15, <2>1 DEF CommitLate, DiskType
    <3>3. ClientType'
      BY <1>0, <1>15, <2>1 DEF CommitLate, ClientType
    <3>4. ServerType'
      BY <1>0, <1>15, <2>1 DEF CommitLate, ServerType
    <3> QED BY <3>1, <3>2, <3>3, <3>4, TypeParts
  <2> QED BY <1>15, <2>2 DEF CommitLate, PipelineIsFront, QueuesAscend
<1>16. CASE UNCHANGED vars
  <2>1. TypeOK'
    <3>1. AppType'
      BY <1>0, <1>16 DEF vars, AppType
    <3>2. DiskType'
      BY <1>0, <1>16 DEF vars, DiskType
    <3>3. ClientType'
      BY <1>0, <1>16 DEF vars, ClientType
    <3>4. ServerType'
      BY <1>0, <1>16 DEF vars, ServerType
    <3> QED BY <3>1, <3>2, <3>3, <3>4, TypeParts
  <2> QED BY <1>16, <2>1 DEF vars, PipelineIsFront, QueuesAscend
<1> QED BY <1>1, <1>2, <1>3, <1>4, <1>5, <1>6, <1>7, <1>8, <1>9, <1>10, <1>11, <1>13,
           <1>14, <1>15, <1>16 DEF Next, Read

-----------------------------------------------------------------------------
(* The stream and what is on its way over it.                                *)

LEMMA Known ==
  ASSUME TypeOK
  PROVE  /\ toServer \in Seq(Write \cup {Hello}) /\ Len(toServer) \in Nat
         /\ DOMAIN toServer = 1 .. Len(toServer)
         /\ toClient \in Seq({"hello", "done", "permanent", "transient"})
         /\ Len(toClient) \in Nat /\ DOMAIN toClient = 1 .. Len(toClient)
         /\ pipeline \in Seq(Batch) /\ Len(pipeline) \in Nat
         /\ DOMAIN pipeline = 1 .. Len(pipeline)
         /\ \A i \in 1 .. Len(pipeline) : pipeline[i].w \in Write /\ pipeline[i].w # Hello
<1>1. /\ toServer \in Seq(Write \cup {Hello}) /\ pipeline \in Seq(Batch)
      /\ toClient \in Seq({"hello", "done", "permanent", "transient"})
  BY DEF TypeOK
<1>2. \A i \in DOMAIN pipeline : pipeline[i].w \in Write
  BY <1>1, ElementsType
<1> QED BY <1>1, <1>2, LenProperties, NamesAssumption

(* A write joins the pipeline, and is sent at once after the handshake.      *)
LEMMA StreamsWrite ==
  ASSUME TypeOK, TypeOK', Streams, NEW q, NEW n,
         Filled(pipeline, q, stream, handshake, n, idle, toServer),
         UNCHANGED <<handshake, token, toClient, committed, refused>>
  PROVE  Streams'
<1>1. CASE stream = "Open" /\ handshake
  <2>1. SendsAtOnce(stream, handshake) /\ stream' = "Open"
    BY <1>1 DEF SendsAtOnce, Filled
  <2>2. /\ Len(pipeline) <= Len(pipeline')
        /\ \A i \in 1 .. Len(pipeline) : pipeline'[i] = pipeline[i]
        /\ Len(toServer') = Len(toServer) + Len(pipeline') - Len(pipeline)
        /\ \A i \in 1 .. Len(toServer) : toServer'[i] = toServer[i]
        /\ \A i \in Len(pipeline) + 1 .. Len(pipeline') :
             toServer'[Len(toServer) + i - Len(pipeline)] = pipeline'[i].w
        /\ idle' = TRUE => (idle = TRUE \/ pipeline' = <<>>) /\ pipeline' = pipeline
    BY <2>1 DEF Filled
  <2>3. StreamIsSound'
    BY <1>1, <2>1, <2>2 DEF Streams, StreamIsSound, TypeOK
  <2>4. HelloIsAlone'
    BY <1>1 DEF HelloIsAlone
  <2>5. ASSUME NEW i \in 1 .. Len(toServer'), i > Len(toServer)
        PROVE  /\ Len(pipeline) + (i - Len(toServer)) \in Len(pipeline) + 1 .. Len(pipeline')
               /\ toServer'[i] = pipeline'[Len(pipeline) + (i - Len(toServer))].w
    <3>1. /\ Len(toServer) \in Nat /\ Len(pipeline) \in Nat /\ Len(pipeline') \in Nat
          /\ Len(toServer') \in Nat
      <4>1. pipeline' \in Seq(Batch) /\ toServer' \in Seq(Write \cup {Hello})
        BY DEF TypeOK
      <4> QED BY <4>1, Known
    <3> DEFINE k == Len(pipeline) + (i - Len(toServer))
    <3>2. k \in Len(pipeline) + 1 .. Len(pipeline') /\ Len(toServer) + k - Len(pipeline) = i
      BY <2>2, <2>5, <3>1
    <3> HIDE DEF k
    <3>3. toServer'[i] = pipeline'[k].w
      BY <2>2, <3>2
    <3> QED BY <3>2, <3>3 DEF k
  <2>6. ResultsAreOurs'
    <3>1. /\ Len(toServer) \in Nat /\ Len(pipeline) \in Nat /\ Len(pipeline') \in Nat
          /\ Len(toServer') \in Nat /\ Len(toClient) \in Nat
          /\ DOMAIN toServer' = 1 .. Len(toServer') /\ DOMAIN toServer = 1 .. Len(toServer)
          /\ DOMAIN toClient = 1 .. Len(toClient)
          /\ \A i \in 1 .. Len(pipeline') : pipeline'[i].w # Hello
      <4>1. /\ pipeline' \in Seq(Batch) /\ toServer' \in Seq(Write \cup {Hello})
        BY DEF TypeOK
      <4>2. \A i \in DOMAIN pipeline' : pipeline'[i].w \in Write
        BY <4>1, ElementsType
      <4>3. DOMAIN pipeline' = 1 .. Len(pipeline')
        BY <4>1, LenProperties
      <4> QED BY <4>1, <4>2, <4>3, Known, LenProperties, NamesAssumption
    <3>2. ASSUME NEW i \in DOMAIN toServer' PROVE toServer'[i] # Hello
      <4>1. CASE i <= Len(toServer)
        BY <1>1, <2>2, <3>1, <4>1 DEF Streams, ResultsAreOurs
      <4>2. CASE i > Len(toServer)
        <5>1. Len(pipeline) + (i - Len(toServer)) \in 1 .. Len(pipeline')
          BY <2>5, <3>1, <4>2
        <5> QED BY <2>5, <3>1, <4>2, <5>1
      <4> QED BY <3>1, <4>1, <4>2
    <3>3. ASSUME NEW i \in DOMAIN toClient
          PROVE  /\ toClient[i] # "hello"
                 /\ i < Len(toClient) => toClient[i] = "done"
                 /\ toClient[i] = "done" => i <= Len(pipeline') /\ pipeline'[i].w \in committed
                 /\ toClient[i] = "permanent" => i <= Len(pipeline') /\ pipeline'[i].w \in refused
      <4>1. /\ toClient[i] # "hello"
            /\ i < Len(toClient) => toClient[i] = "done"
            /\ toClient[i] = "done" => i <= Len(pipeline) /\ pipeline[i].w \in committed
            /\ toClient[i] = "permanent" => i <= Len(pipeline) /\ pipeline[i].w \in refused
        BY <1>1 DEF Streams, ResultsAreOurs
      <4>2. i <= Len(pipeline) => i <= Len(pipeline') /\ pipeline'[i] = pipeline[i]
        BY <2>2, <3>1
      <4> QED BY <4>1, <4>2
    <3>4. ASSUME ~Ended
          PROVE  /\ Len(toServer') = Len(pipeline') - Len(toClient)
                 /\ \A i \in DOMAIN toServer' : toServer'[i] = pipeline'[Len(toClient) + i].w
      <4>1. /\ Len(toServer) = Len(pipeline) - Len(toClient)
            /\ \A i \in DOMAIN toServer : toServer[i] = pipeline[Len(toClient) + i].w
        BY <1>1, <3>4 DEF Streams, ResultsAreOurs
      <4>2. ASSUME NEW i \in DOMAIN toServer' PROVE toServer'[i] = pipeline'[Len(toClient) + i].w
        <5>1. CASE i <= Len(toServer)
          <6>1. Len(toClient) + i \in 1 .. Len(pipeline)
            BY <3>1, <4>1, <5>1
          <6>2. i \in DOMAIN toServer /\ toServer'[i] = toServer[i]
            BY <2>2, <3>1, <5>1
          <6>3. pipeline'[Len(toClient) + i] = pipeline[Len(toClient) + i]
            BY <2>2, <6>1
          <6> QED BY <4>1, <6>2, <6>3
        <5>2. CASE i > Len(toServer)
          <6>1. Len(pipeline) + (i - Len(toServer)) = Len(toClient) + i
            BY <3>1, <4>1
          <6> QED BY <2>5, <3>1, <5>2, <6>1
        <5> QED BY <3>1, <5>1, <5>2
      <4> QED BY <2>2, <3>1, <4>1, <4>2
    <3>5. Ended' <=> Ended
      BY DEF Ended
    <3> QED BY <3>2, <3>3, <3>4, <3>5 DEF ResultsAreOurs
  <2> QED BY <2>3, <2>4, <2>6 DEF Streams
<1>2. CASE ~(stream = "Open" /\ handshake)
  <2>1. ~SendsAtOnce(stream, handshake) /\ handshake = FALSE /\ idle = FALSE
    BY <1>2 DEF SendsAtOnce, Streams, StreamIsSound, TypeOK
  <2>2. /\ toServer' = toServer /\ Len(pipeline) <= Len(pipeline')
        /\ idle' = TRUE => stream = "Open" /\ pipeline' = <<>>
        /\ idle' \in BOOLEAN
        /\ IF stream \in {"Initial", "Error"} /\ pipeline' # <<>>
           THEN stream' \in {"Starting", "Backoff"}
           ELSE stream' = stream
    BY <2>1 DEF Filled
  <2>3. Started => pipeline' # <<>>
    <3>1. SUFFICES ASSUME Started PROVE pipeline' # <<>>
      OBVIOUS
    <3>2. pipeline # <<>>
      BY <2>1, <3>1 DEF Streams, StreamIsSound
    <3> QED BY <2>2, <3>2, Known DEF TypeOK
  <2>4. StreamIsSound'
    <3>1. idle' = FALSE
      BY <2>2, <2>3 DEF Started
    <3>2. stream' = "Open" <=> stream = "Open"
      BY <2>2
    <3>3. Started' => pipeline' # <<>>
      BY <2>2, <2>3 DEF Started
    <3> QED BY <2>1, <2>2, <3>1, <3>2, <3>3 DEF Streams, StreamIsSound, Started
  <2>5. HelloIsAlone'
    BY <2>1, <2>2 DEF Streams, HelloIsAlone
  <2>6. ResultsAreOurs'
    BY <2>1 DEF ResultsAreOurs
  <2> QED BY <2>4, <2>5, <2>6 DEF Streams
<1> QED BY <1>1, <1>2


(* A result is read: front batch and first response go together.             *)
LEMMA StreamsResult ==
  ASSUME TypeOK, TypeOK', Streams, NEW q, NEW n,
         toClient # <<>>, Head(toClient) = "done", pipeline # <<>>,
         Filled(Tail(pipeline), q, stream, handshake, n, idle, toServer),
         toClient' = Tail(toClient), UNCHANGED <<handshake, token, committed, refused>>
  PROVE  Streams'
<1>1. /\ Len(toClient) \in Nat \ {0} /\ toClient[1] = "done"
      /\ Len(toClient') = Len(toClient) - 1
      /\ \A i \in 1 .. Len(toClient) - 1 : toClient'[i] = toClient[i + 1]
  BY TailType, Known
<1>2. /\ Len(pipeline) \in Nat \ {0}
      /\ Len(Tail(pipeline)) = Len(pipeline) - 1
      /\ \A i \in 1 .. Len(pipeline) - 1 : Tail(pipeline)[i] = pipeline[i + 1]
  BY TailType, Known
<1>3. stream = "Open" /\ handshake
  BY <1>1 DEF Streams, StreamIsSound, HelloIsAlone
<1>4. /\ Len(toServer) \in Nat /\ Len(pipeline') \in Nat
      /\ Len(toServer') \in Nat
      /\ DOMAIN toServer' = 1 .. Len(toServer') /\ DOMAIN toServer = 1 .. Len(toServer)
      /\ DOMAIN toClient = 1 .. Len(toClient) /\ DOMAIN toClient' = 1 .. Len(toClient')
      /\ \A i \in 1 .. Len(pipeline') : pipeline'[i].w # Hello
  <2>1. /\ pipeline' \in Seq(Batch) /\ toServer' \in Seq(Write \cup {Hello})
        /\ toClient' \in Seq({"hello", "done", "permanent", "transient"})
    BY DEF TypeOK
  <2>2. \A i \in DOMAIN pipeline' : pipeline'[i].w \in Write
    BY <2>1, ElementsType
  <2>3. DOMAIN pipeline' = 1 .. Len(pipeline')
    BY <2>1, LenProperties
  <2> QED BY <2>1, <2>2, <2>3, Known, LenProperties, NamesAssumption
<1>5. SendsAtOnce(stream, handshake) /\ stream' = "Open"
  BY <1>3 DEF SendsAtOnce, Filled
<1>6. /\ Len(Tail(pipeline)) <= Len(pipeline')
      /\ \A i \in 1 .. Len(Tail(pipeline)) : pipeline'[i] = Tail(pipeline)[i]
      /\ Len(toServer') = Len(toServer) + Len(pipeline') - Len(Tail(pipeline))
      /\ \A i \in 1 .. Len(toServer) : toServer'[i] = toServer[i]
      /\ \A i \in Len(Tail(pipeline)) + 1 .. Len(pipeline') :
           toServer'[Len(toServer) + i - Len(Tail(pipeline))] = pipeline'[i].w
      /\ idle' = TRUE => (idle = TRUE \/ pipeline' = <<>>)
  BY <1>5 DEF Filled
<1>7. StreamIsSound'
  BY <1>3, <1>5, <1>6 DEF Streams, StreamIsSound, TypeOK
<1>8. HelloIsAlone'
  BY <1>3 DEF HelloIsAlone
<1>9. /\ Len(pipeline) - 1 <= Len(pipeline')
      /\ \A i \in 1 .. Len(pipeline) - 1 : pipeline'[i] = pipeline[i + 1]
      /\ Len(toServer') = Len(toServer) + Len(pipeline') - (Len(pipeline) - 1)
      /\ \A i \in Len(pipeline) .. Len(pipeline') :
           toServer'[Len(toServer) + i - (Len(pipeline) - 1)] = pipeline'[i].w
  <2>1. Len(Tail(pipeline)) = Len(pipeline) - 1 /\ Len(Tail(pipeline)) + 1 = Len(pipeline)
    BY <1>2
  <2>2. \A i \in 1 .. Len(pipeline) - 1 : pipeline'[i] = pipeline[i + 1]
    BY <1>2, <1>6, <2>1
  <2> QED BY <1>6, <2>1, <2>2
<1>10. ASSUME NEW i \in 1 .. Len(toServer'), i > Len(toServer)
       PROVE  /\ Len(pipeline) - 1 + (i - Len(toServer)) \in Len(pipeline) .. Len(pipeline')
              /\ toServer'[i] = pipeline'[Len(pipeline) - 1 + (i - Len(toServer))].w
  <2> DEFINE k == Len(pipeline) - 1 + (i - Len(toServer))
  <2>1. k \in Len(pipeline) .. Len(pipeline')
        /\ Len(toServer) + k - (Len(pipeline) - 1) = i
    BY <1>2, <1>4, <1>9, <1>10
  <2> HIDE DEF k
  <2>2. toServer'[i] = pipeline'[k].w
    BY <1>9, <2>1
  <2> QED BY <2>1, <2>2 DEF k
<1>11. ASSUME NEW i \in DOMAIN toServer' PROVE toServer'[i] # Hello
  <2>1. CASE i <= Len(toServer)
    BY <1>3, <1>4, <1>6, <2>1 DEF Streams, ResultsAreOurs
  <2>2. CASE i > Len(toServer)
    <3>1. Len(pipeline) - 1 + (i - Len(toServer)) \in 1 .. Len(pipeline')
      BY <1>2, <1>4, <1>10, <2>2
    <3> QED BY <1>4, <1>10, <2>2, <3>1
  <2> QED BY <1>4, <2>1, <2>2
<1>12. ASSUME NEW i \in DOMAIN toClient'
       PROVE  /\ toClient'[i] # "hello"
              /\ i < Len(toClient') => toClient'[i] = "done"
              /\ toClient'[i] = "done" => i <= Len(pipeline') /\ pipeline'[i].w \in committed
              /\ toClient'[i] = "permanent" =>
                   i <= Len(pipeline') /\ pipeline'[i].w \in refused
  <2>1. i \in Nat \ {0} /\ i + 1 \in DOMAIN toClient /\ toClient'[i] = toClient[i + 1]
    BY <1>1, <1>4
  <2>2. /\ toClient[i + 1] # "hello"
        /\ i + 1 < Len(toClient) => toClient[i + 1] = "done"
        /\ toClient[i + 1] = "done" => i + 1 <= Len(pipeline) /\ pipeline[i + 1].w \in committed
        /\ toClient[i + 1] = "permanent" =>
             i + 1 <= Len(pipeline) /\ pipeline[i + 1].w \in refused
    BY <1>3, <2>1 DEF Streams, ResultsAreOurs
  <2>3. i + 1 <= Len(pipeline) => i <= Len(pipeline') /\ pipeline'[i] = pipeline[i + 1]
    BY <1>2, <1>4, <1>9, <2>1
  <2> QED BY <1>1, <2>1, <2>2, <2>3
<1>13. ASSUME ~Ended'
       PROVE  /\ Len(toServer') = Len(pipeline') - Len(toClient')
              /\ \A i \in DOMAIN toServer' : toServer'[i] = pipeline'[Len(toClient') + i].w
  <2>1. ~Ended
    <3>1. CASE Len(toClient) = 1
      BY <1>1, <3>1 DEF Ended
    <3>2. CASE Len(toClient) # 1
      <4>1. /\ Len(toClient') \in 1 .. Len(toClient) - 1
            /\ Len(toClient') + 1 = Len(toClient)
        BY <1>1, <3>2
      <4>2. toClient'[Len(toClient')] = toClient[Len(toClient)] /\ toClient' # <<>>
        BY <1>1, <4>1, Len(<<>>) = 0
      <4> QED BY <1>13, <4>2 DEF Ended
    <3> QED BY <3>1, <3>2
  <2>2. /\ Len(toServer) = Len(pipeline) - Len(toClient)
        /\ \A i \in DOMAIN toServer : toServer[i] = pipeline[Len(toClient) + i].w
    BY <1>3, <2>1 DEF Streams, ResultsAreOurs
  <2>3. ASSUME NEW i \in DOMAIN toServer' PROVE toServer'[i] = pipeline'[Len(toClient') + i].w
    <3>1. CASE i <= Len(toServer)
      <4> DEFINE k == Len(toClient') + i
      <4>1. k \in 1 .. Len(pipeline) - 1 /\ k + 1 = Len(toClient) + i
        BY <1>1, <1>2, <1>4, <2>2, <3>1
      <4> HIDE DEF k
      <4>2. pipeline'[k] = pipeline[k + 1]
        BY <1>9, <4>1
      <4>3. toServer'[i] = toServer[i] /\ toServer[i] = pipeline[Len(toClient) + i].w
        <5>1. i \in 1 .. Len(toServer)
          BY <1>4, <3>1
        <5> QED BY <1>4, <1>6, <2>2, <5>1
      <4> QED BY <4>1, <4>2, <4>3 DEF k
    <3>2. CASE i > Len(toServer)
      <4>1. Len(pipeline) - 1 + (i - Len(toServer)) = Len(toClient') + i
        BY <1>1, <1>2, <1>4, <2>2
      <4> QED BY <1>4, <1>10, <3>2, <4>1
    <3> QED BY <1>4, <3>1, <3>2
  <2> QED BY <1>1, <1>2, <1>4, <1>9, <2>2, <2>3
<1>14. ResultsAreOurs'
  BY <1>11, <1>12, <1>13 DEF ResultsAreOurs
<1> QED BY <1>7, <1>8, <1>14 DEF Streams


LEMMA StreamsStep ==
  ASSUME Base, Base', Streams, OneTokenAtATime, [Next]_vars
  PROVE  Streams'
<1> USE DEF disk, channel, backend, bounds, app
<1>0. /\ TypeOK /\ TypeOK' /\ PipelineIsFront /\ QueuesAscend
      /\ NoUser \notin User /\ Hello \notin Write
  BY NamesAssumption DEF Base
<1>1. ASSUME UNCHANGED <<pipeline, stream, handshake, idle, token, toServer, toClient,
                         committed, refused>>
      PROVE  Streams'
  BY <1>1 DEF Streams, StreamIsSound, HelloIsAlone, ResultsAreOurs, Started, Ended
<1>2. ASSUME StreamIsDown' PROVE Streams'
  BY <1>2, DownIsSound DEF Streams
<1>3. ASSUME \/ \E w \in Write : IssueWrite(w)
             \/ \E u \in User : ChangeCredential(u)
             \/ TokenGranted \/ TokenFails \/ UNCHANGED vars
      PROVE  Streams'
  BY <1>1, <1>3 DEF IssueWrite, ChangeCredential, TokenGranted, TokenFails, AnswerToken, vars
<1>4. ASSUME RunTask PROVE Streams'
  <2>1. Head(tasks) \in Task /\ \E i \in DOMAIN tasks : Head(tasks) = tasks[i]
    <3>1. tasks \in Seq(Task) /\ tasks # <<>>
      BY <1>0, <1>4 DEF RunTask, TypeOK
    <3>2. Head(tasks) = tasks[1] /\ Head(tasks) \in Task /\ 1 \in DOMAIN tasks
      BY <3>1, TailType, LenProperties
    <3> QED BY <3>2
  <2>2. ASSUME NEW w \in Write, HandleWrite(w) PROVE Streams'
    <3> DEFINE q == queue'[user]
    <3>1. /\ FillWritePipeline(pipeline, q, stream, handshake, closeCount, idle, toServer)
          /\ q \in Seq(Batch) /\ Ascending(q) /\ Front(pipeline, q)
      BY <1>0, <2>2, WriteEffect DEF TypeOK
    <3>2. /\ pipeline \in Seq(Batch)
          /\ stream \in {"Initial", "Open", "Error", "Starting", "Backoff"}
          /\ handshake \in BOOLEAN /\ closeCount \in Nat /\ idle \in BOOLEAN
          /\ toServer \in Seq(Write \cup {Hello})
      BY <1>0 DEF TypeOK
    <3>3. UNCHANGED <<handshake, token, toClient, committed, refused>>
      BY <2>2 DEF HandleWrite
    <3> HIDE DEF q
    <3>4. Filled(pipeline, q, stream, handshake, closeCount, idle, toServer)
      BY <3>1, <3>2, FillResult
    <3> QED BY <1>0, <3>3, <3>4, StreamsWrite
  <2>3. ASSUME NEW u \in User, HandleCredentialChange(u) PROVE Streams'
    <3>1. RestartNetwork(u)
      BY <2>3 DEF HandleCredentialChange
    <3> QED BY <1>0, <1>2, <3>1, RestartEffect
  <2>4. ASSUME NEW t \in Task, t.kind = "token", HandleToken(t),
               \E i \in DOMAIN tasks : t = tasks[i]
        PROVE  Streams'
    <3>1. CASE /\ stream' = "Open" /\ token' = t.u
               /\ toServer' = <<Hello>> /\ toClient' = <<>> /\ idle' = FALSE
               /\ UNCHANGED <<pipeline, handshake>> /\ TokenIsCurrent(t)
      <4>1. stream = "Starting"
        BY <2>4, <3>1 DEF OneTokenAtATime, Outstanding, TokenIsCurrent
      <4>2. pipeline # <<>> /\ handshake = FALSE
        BY <1>0, <4>1 DEF Streams, StreamIsSound, Started, TypeOK
      <4>3. t.u # NoUser
        BY <1>0, <2>4 DEF Task
      <4>4. StreamIsSound'
        BY <3>1, <4>2, <4>3 DEF StreamIsSound
      <4>5. HelloIsAlone' /\ ResultsAreOurs'
        BY <3>1, <4>2 DEF HelloIsAlone, ResultsAreOurs
      <4> QED BY <4>4, <4>5 DEF Streams
    <3>2. CASE CloseWithError("transient") /\ user' = user
      BY <1>0, <1>2, <3>2, CloseEffect
    <3> QED BY <1>1, <2>4, <3>1, <3>2 DEF HandleToken
  <2> QED BY <1>4, <2>1, <2>2, <2>3, <2>4 DEF RunTask, Task
<1>5. ASSUME BackoffElapses PROVE Streams'
  <2>1. /\ stream = "Backoff" /\ stream' = "Starting"
        /\ UNCHANGED <<pipeline, handshake, idle, token, toServer, toClient,
                       committed, refused>>
    BY <1>5 DEF BackoffElapses, Start
  <2> QED BY <2>1 DEF Streams, StreamIsSound, HelloIsAlone, ResultsAreOurs, Started, Ended
<1>6. ASSUME IdleElapses PROVE Streams'
  BY <1>2, <1>6 DEF IdleElapses, StreamIsDown
<1>7. ASSUME ReadHello PROVE Streams'
  <2>1. /\ Len(toClient) \in Nat \ {0} /\ toClient[1] = "hello" /\ 1 \in DOMAIN toClient
        /\ toServer' = toServer \o Writes(pipeline) /\ toClient' = Tail(toClient)
        /\ handshake' = TRUE /\ idle' = (idle /\ pipeline = <<>>)
        /\ UNCHANGED <<pipeline, stream, token, committed, refused>>
    BY <1>0, <1>7, TailType, Known DEF ReadHello
  <2>2. /\ stream = "Open" /\ handshake = FALSE /\ idle = FALSE
        /\ toServer = <<>> /\ toClient \in {<<"hello">>, <<"hello", "transient">>}
    <3>1. stream = "Open" /\ toClient # <<>>
      BY <1>7 DEF ReadHello, Streams, StreamIsSound
    <3>2. handshake = FALSE
      BY <1>0, <2>1 DEF Streams, ResultsAreOurs, TypeOK
    <3>3. idle = FALSE
      BY <1>0, <3>2 DEF Streams, StreamIsSound, TypeOK
    <3>4. /\ toServer = <<>>
          /\ toClient \in {<<"hello">>, <<"permanent">>, <<"transient">>,
                           <<"hello", "transient">>}
      BY <3>1, <3>2 DEF Streams, HelloIsAlone
    <3>5. toClient \in {<<"hello">>, <<"hello", "transient">>}
      BY <2>1, <3>4
    <3> QED BY <3>1, <3>2, <3>3, <3>4, <3>5
  <2>3. toClient' \in {<<>>, <<"transient">>}
    <3>1. Tail(<<"hello">>) = <<>> /\ Tail(<<"hello", "transient">>) = <<"transient">>
      BY ShortSequences
    <3> QED BY <2>1, <2>2, <3>1
  <2>4. /\ Writes(pipeline) \in Seq(Write) /\ Len(Writes(pipeline)) = Len(pipeline)
        /\ \A i \in 1 .. Len(pipeline) : Writes(pipeline)[i] = pipeline[i].w
        /\ DOMAIN Writes(pipeline) = 1 .. Len(pipeline)
        /\ \A i \in 1 .. Len(pipeline) : pipeline[i].w # Hello
        /\ Len(pipeline) \in Nat
    BY <1>0, WritesType, Known, LenProperties
  <2>5. toServer' = Writes(pipeline)
    BY <2>1, <2>2, <2>4, ConcatEmptySeq
  <2>6. StreamIsSound'
    BY <2>1, <2>2 DEF Streams, StreamIsSound
  <2>7. ResultsAreOurs'
    <3>0. /\ pipeline' = pipeline /\ Len(pipeline) \in Nat
          /\ Len(toServer') = Len(pipeline) /\ DOMAIN toServer' = 1 .. Len(pipeline)
          /\ \A i \in 1 .. Len(pipeline) :
               toServer'[i] = pipeline[i].w /\ toServer'[i] # Hello
      BY <2>1, <2>4, <2>5
    <3>1. CASE toClient' = <<>>
      <4>1. Len(toClient') = 0 /\ DOMAIN toClient' = {}
        BY <3>1
      <4>2. \A i \in 1 .. Len(pipeline) : Len(toClient') + i = i
        BY <2>4, <4>1
      <4>3. Len(toServer') = Len(pipeline') - Len(toClient')
        BY <3>0, <4>1
      <4> QED BY <3>0, <4>1, <4>2, <4>3 DEF ResultsAreOurs
    <3>2. CASE toClient' = <<"transient">>
      <4>1. /\ Len(toClient') = 1 /\ DOMAIN toClient' = 1 .. 1
            /\ toClient'[1] = "transient" /\ toClient' # <<>>
        BY <3>2
      <4>2. Ended'
        BY <4>1 DEF Ended
      <4> QED BY <2>1, <2>4, <2>5, <4>1, <4>2 DEF ResultsAreOurs
    <3> QED BY <2>3, <3>1, <3>2
  <2> QED BY <2>1, <2>6, <2>7 DEF Streams, HelloIsAlone
<1>8. ASSUME ReadResult PROVE Streams'
  <2> DEFINE q == queue'[user]
             p == Tail(pipeline)
  <2>1. /\ pipeline # <<>> /\ Notify(Head(pipeline), "ok")
        /\ queue' = [queue EXCEPT ![user] = Without(@, Head(pipeline))]
        /\ FillWritePipeline(p, q, stream, handshake, closeCount, idle, toServer)
        /\ toClient # <<>> /\ Head(toClient) = "done" /\ toClient' = Tail(toClient)
        /\ UNCHANGED <<handshake, token, committed, refused>>
    BY <1>8 DEF ReadResult
  <2>2. q \in Seq(Batch) /\ Ascending(q) /\ Front(p, q) /\ p \in Seq(Batch)
    BY <1>0, <2>1, SettleEffect, HeadIsFirst DEF TypeOK
  <2>3. /\ stream \in {"Initial", "Open", "Error", "Starting", "Backoff"}
        /\ handshake \in BOOLEAN /\ closeCount \in Nat /\ idle \in BOOLEAN
        /\ toServer \in Seq(Write \cup {Hello})
    BY <1>0 DEF TypeOK
  <2> HIDE DEF q, p
  <2>4. Filled(p, q, stream, handshake, closeCount, idle, toServer)
    BY <2>1, <2>2, <2>3, FillResult
  <2>5. Filled(Tail(pipeline), q, stream, handshake, closeCount, idle, toServer)
    BY <2>4 DEF p
  <2> QED BY <1>0, <2>1, <2>5, StreamsResult
<1>9. ASSUME ReadStatus PROVE Streams'
  <2>1. PICK status : CloseWithError(status) /\ user' = user
    BY <1>9 DEF ReadStatus
  <2> QED BY <1>0, <1>2, <2>1, CloseEffect
<1>10. ASSUME ConnectivityChanges PROVE Streams'
  <2>1. RestartNetwork(user) /\ user \in User
    BY <1>0, <1>10 DEF ConnectivityChanges, TypeOK
  <2> QED BY <1>0, <1>2, <2>1, RestartEffect
<1>11. ASSUME Kill PROVE Streams'
  BY <1>2, <1>11 DEF Kill, StreamIsDown
<1>12. ASSUME Reads(Hello)
       PROVE  /\ stream = "Open" /\ handshake = FALSE
              /\ toServer = <<Hello>> /\ toClient = <<>>
  <2>1. /\ token # NoUser /\ toServer # <<>> /\ toServer[1] = Hello /\ 1 \in DOMAIN toServer
    BY <1>0, <1>12, TailType, Known DEF Reads
  <2> QED BY <1>0, <2>1 DEF Streams, StreamIsSound, HelloIsAlone, ResultsAreOurs, TypeOK
<1>13. ASSUME AcceptHandshake \/ RefuseHandshake PROVE Streams'
  <2>1. /\ Reads(Hello)
        /\ \/ Responds(Tail(toServer), "hello")
           \/ Responds(<<>>, "permanent")
    BY <1>13 DEF AcceptHandshake, RefuseHandshake
  <2>2. /\ UNCHANGED <<pipeline, stream, handshake, idle, token>>
        /\ toServer' = <<>> /\ toClient' \in {<<"hello">>, <<"permanent">>}
    <3>1. toServer = <<Hello>> /\ toClient = <<>>
      BY <1>12, <2>1
    <3>2. \E x \in {"hello", "permanent"} :
            toServer' \in {<<>>, Tail(toServer)} /\ toClient' = Append(toClient, x)
      BY <2>1 DEF Responds
    <3>3. UNCHANGED <<pipeline, stream, handshake, idle, token>>
      BY <2>1 DEF Responds
    <3> QED BY <3>1, <3>2, <3>3, ShortSequences
  <2>3. StreamIsSound'
    BY <1>12, <2>1, <2>2 DEF Streams, StreamIsSound, Started
  <2> QED BY <1>12, <2>1, <2>2, <2>3 DEF Streams, HelloIsAlone, ResultsAreOurs
<1>14. ASSUME NEW w \in Write, Reads(w)
       PROVE  /\ stream = "Open" /\ handshake /\ ~Ended
              /\ toServer # <<>> /\ toServer[1] = w /\ 1 \in DOMAIN toServer
              /\ Len(toClient) + 1 <= Len(pipeline) /\ pipeline[Len(toClient) + 1].w = w
              /\ \A i \in DOMAIN toClient : toClient[i] = "done"
  <2>1. /\ token # NoUser /\ ~Ended /\ toServer # <<>> /\ toServer[1] = w
        /\ 1 \in DOMAIN toServer /\ w # Hello /\ 1 <= Len(toServer)
    BY <1>0, <1>14, TailType, Known DEF Reads
  <2>2. stream = "Open" /\ handshake
    <3>1. stream = "Open"
      BY <2>1 DEF Streams, StreamIsSound
    <3> QED BY <2>1, <3>1 DEF Streams, HelloIsAlone
  <2>3. /\ Len(toServer) = Len(pipeline) - Len(toClient)
        /\ toServer[1] = pipeline[Len(toClient) + 1].w
    BY <2>1, <2>2 DEF Streams, ResultsAreOurs
  <2>4. ASSUME NEW i \in DOMAIN toClient PROVE toClient[i] = "done"
    <3>1. i \in 1 .. Len(toClient) /\ Len(toClient) \in Nat
      BY <1>0, Known
    <3>2. /\ toClient[i] # "hello"
          /\ i < Len(toClient) => toClient[i] = "done"
          /\ toClient[i] \in {"hello", "done", "permanent", "transient"}
      <4>1. toClient[i] \in {"hello", "done", "permanent", "transient"}
        BY <1>0, <3>1, Known
      <4> QED BY <2>2, <4>1 DEF Streams, ResultsAreOurs
    <3>3. CASE i = Len(toClient)
      <4>1. toClient # <<>>
        BY <3>1, <3>3, Len(<<>>) = 0
      <4> QED BY <2>1, <3>2, <3>3, <4>1 DEF Ended
    <3> QED BY <3>1, <3>2, <3>3
  <2> QED BY <1>0, <2>1, <2>2, <2>3, <2>4, Known
<1>15. ASSUME NEW w \in Write, NEW response \in {"done", "permanent"}, Reads(w),
              NEW rest, Responds(rest, response),
              response = "done" => rest = Tail(toServer) /\ w \in committed',
              response = "permanent" => rest = <<>> /\ w \in refused',
              committed \subseteq committed', refused \subseteq refused'
       PROVE  Streams'
  <2>1. /\ toServer' = rest /\ toClient' = Append(toClient, response)
        /\ UNCHANGED <<pipeline, stream, handshake, idle, token>>
    BY <1>15 DEF Responds
  <2>2. /\ Len(toClient) \in Nat /\ Len(pipeline) \in Nat
        /\ DOMAIN toClient = 1 .. Len(toClient)
        /\ Len(toClient') = Len(toClient) + 1 /\ DOMAIN toClient' = 1 .. Len(toClient) + 1
        /\ \A i \in 1 .. Len(toClient) : toClient'[i] = toClient[i]
        /\ toClient'[Len(toClient) + 1] = response /\ toClient' # <<>>
    <3>1. /\ toClient \in Seq({"hello", "done", "permanent", "transient"})
          /\ response \in {"hello", "done", "permanent", "transient"}
      BY <1>0, Known
    <3>2. /\ Append(toClient, response) \in Seq({"hello", "done", "permanent", "transient"})
          /\ Len(Append(toClient, response)) = Len(toClient) + 1
          /\ \A i \in 1 .. Len(toClient) : Append(toClient, response)[i] = toClient[i]
          /\ Append(toClient, response)[Len(toClient) + 1] = response
      BY <3>1, AppendProperties
    <3>3. Len(toClient') = Len(toClient) + 1 /\ Len(toClient) \in Nat
      BY <2>1, <3>1, <3>2, LenProperties
    <3>4. DOMAIN toClient = 1 .. Len(toClient) /\ DOMAIN toClient' = 1 .. Len(toClient')
      BY <2>1, <3>1, <3>2, LenProperties
    <3>5. toClient' # <<>>
      BY <3>3, Len(<<>>) = 0
    <3>6. Len(pipeline) \in Nat
      BY <1>0, Known
    <3> QED BY <2>1, <3>2, <3>3, <3>4, <3>5, <3>6
  <2>3. Ended' <=> response = "permanent"
    BY <2>2 DEF Ended
  <2>4. StreamIsSound' /\ HelloIsAlone'
    <3>1. StreamIsSound'
      BY <1>14, <1>15, <2>1 DEF Streams, StreamIsSound, Started
    <3> QED BY <1>14, <1>15, <2>1, <3>1 DEF HelloIsAlone
  <2>5. ASSUME NEW i \in DOMAIN toClient'
        PROVE  /\ toClient'[i] # "hello"
               /\ i < Len(toClient') => toClient'[i] = "done"
               /\ toClient'[i] = "done" => i <= Len(pipeline) /\ pipeline[i].w \in committed'
               /\ toClient'[i] = "permanent" => i <= Len(pipeline) /\ pipeline[i].w \in refused'
    <3>1. CASE i \in 1 .. Len(toClient)
      <4>1. toClient'[i] = "done" /\ i <= Len(pipeline) /\ pipeline[i].w \in committed
        BY <1>14, <1>15, <2>2, <3>1 DEF Streams, ResultsAreOurs
      <4> QED BY <1>15, <4>1
    <3>2. CASE i = Len(toClient) + 1
      BY <1>14, <1>15, <2>2, <3>2
    <3> QED BY <2>2, <3>1, <3>2
  <2>6. ASSUME NEW i \in DOMAIN toServer'
        PROVE  /\ toServer'[i] # Hello /\ response = "done"
               /\ toServer'[i] = pipeline[Len(toClient') + i].w
    <3>1. response = "done" /\ toServer' = Tail(toServer)
      BY <1>15, <2>1
    <3>2. /\ Len(toServer) \in Nat /\ DOMAIN toServer = 1 .. Len(toServer)
          /\ DOMAIN toServer' = 1 .. Len(toServer) - 1
          /\ \A j \in 1 .. Len(toServer) - 1 : toServer'[j] = toServer[j + 1]
      BY <1>0, <1>14, <1>15, <3>1, Known, TailType, LenProperties
    <3>3. i \in Nat /\ i + 1 \in DOMAIN toServer /\ toServer'[i] = toServer[i + 1]
      BY <3>2
    <3>4. toServer[i + 1] # Hello /\ toServer[i + 1] = pipeline[Len(toClient) + (i + 1)].w
      BY <1>14, <1>15, <3>3 DEF Streams, ResultsAreOurs
    <3>5. Len(toClient) + (i + 1) = Len(toClient') + i
      BY <2>2, <3>3
    <3> QED BY <3>1, <3>3, <3>4, <3>5
  <2>7. ASSUME ~Ended' PROVE Len(toServer') = Len(pipeline) - Len(toClient')
    <3>1. toServer' = Tail(toServer)
      BY <1>15, <2>1, <2>3, <2>7
    <3>2. Len(toServer') = Len(toServer) - 1 /\ Len(toServer) \in Nat
      BY <1>0, <1>14, <1>15, <3>1, Known, TailType
    <3>3. Len(toServer) = Len(pipeline) - Len(toClient)
      BY <1>14, <1>15 DEF Streams, ResultsAreOurs
    <3> QED BY <2>2, <3>2, <3>3
  <2>8. ResultsAreOurs'
    BY <2>1, <2>5, <2>6, <2>7 DEF ResultsAreOurs
  <2> QED BY <2>4, <2>8 DEF Streams
<1>16. ASSUME NEW w \in Write, Commit(w) \/ Refuse(w) PROVE Streams'
  <2>1. CASE Commit(w)
    <3>1. /\ Reads(w) /\ Responds(Tail(toServer), "done")
          /\ committed' = committed \cup {w} /\ refused' = refused
      BY <2>1 DEF Commit
    <3> QED BY <1>15, <3>1
  <2>2. CASE Refuse(w)
    <3>1. /\ Reads(w) /\ Responds(<<>>, "permanent")
          /\ refused' = refused \cup {w} /\ committed' = committed
      BY <2>2 DEF Refuse
    <3> QED BY <1>15, <3>1
  <2> QED BY <1>16, <2>1, <2>2
<1>17. ASSUME NEW k \in 0 .. Len(toClient), Break(k) PROVE Streams'
  <2>1. /\ token # NoUser /\ ~Ended /\ toServer' = <<>>
        /\ toClient' = Append(SubSeq(toClient, 1, k), "transient")
        /\ UNCHANGED <<pipeline, stream, handshake, idle, token, committed, refused>>
    BY <1>17 DEF Break
  <2>2. stream = "Open"
    BY <2>1 DEF Streams, StreamIsSound
  <2>3. StreamIsSound'
    BY <2>1, <2>2 DEF Streams, StreamIsSound, Started
  <2>4. CASE handshake = FALSE
    <3>1. toClient \in {<<>>, <<"hello">>}
      BY <2>1, <2>2, <2>4 DEF Streams, HelloIsAlone, Ended
    <3>2. toClient' \in {<<"transient">>, <<"hello", "transient">>}
      <4>1. CASE k = 0
        <5>1. SubSeq(toClient, 1, k) = <<>>
          BY <4>1, SubSeqEmpty
        <5>2. Append(<<>>, "transient") = <<"transient">>
          BY ShortSequences
        <5> QED BY <2>1, <5>1, <5>2
      <4>2. CASE k # 0
        <5>1. toClient = <<"hello">>
          BY <1>17, <3>1, <4>2, Len(<<>>) = 0
        <5>2. k = 1
          BY <1>17, <4>2, <5>1, Len(toClient) = 1
        <5>3. /\ SubSeq(<<"hello">>, 1, 1) = <<"hello">>
              /\ Append(<<"hello">>, "transient") = <<"hello", "transient">>
          BY ShortSequences
        <5> QED BY <2>1, <5>1, <5>2, <5>3
      <4> QED BY <4>1, <4>2
    <3> QED BY <2>1, <2>2, <2>3, <2>4, <3>2 DEF Streams, HelloIsAlone, ResultsAreOurs
  <2>5. CASE handshake = TRUE
    <3>1. /\ Len(toClient) \in Nat /\ DOMAIN toClient = 1 .. Len(toClient) /\ k \in Nat
          /\ k <= Len(toClient)
          /\ toClient \in Seq({"hello", "done", "permanent", "transient"})
      BY <1>0, <1>17, Known
    <3>2. /\ SubSeq(toClient, 1, k) \in Seq({"hello", "done", "permanent", "transient"})
          /\ Len(SubSeq(toClient, 1, k)) = k
          /\ \A i \in 1 .. k : SubSeq(toClient, 1, k)[i] = toClient[i]
      <4>1. /\ 1 \in Int /\ k \in Int
            /\ \A i \in 1 .. k : toClient[i] \in {"hello", "done", "permanent", "transient"}
        BY <3>1
      <4>2. /\ SubSeq(toClient, 1, k) \in Seq({"hello", "done", "permanent", "transient"})
            /\ Len(SubSeq(toClient, 1, k)) = IF 1 <= k THEN k - 1 + 1 ELSE 0
            /\ \A i \in 1 .. k - 1 + 1 : SubSeq(toClient, 1, k)[i] = toClient[1 + i - 1]
        BY <4>1, SubSeqProperties
      <4> QED BY <3>1, <4>2
    <3>3. /\ Len(toClient') = k + 1 /\ DOMAIN toClient' = 1 .. k + 1
          /\ \A i \in 1 .. k : toClient'[i] = toClient[i]
          /\ toClient'[k + 1] = "transient" /\ toClient' # <<>>
      <4> DEFINE s == SubSeq(toClient, 1, k)
      <4>1. /\ s \in Seq({"hello", "done", "permanent", "transient"}) /\ Len(s) = k
            /\ \A i \in 1 .. k : s[i] = toClient[i] /\ toClient' = Append(s, "transient")
        BY <2>1, <3>2
      <4>2. toClient' = Append(s, "transient")
        BY <2>1
      <4> HIDE DEF s
      <4>3. /\ Append(s, "transient") \in Seq({"hello", "done", "permanent", "transient"})
            /\ Len(Append(s, "transient")) = k + 1
            /\ \A i \in 1 .. k : Append(s, "transient")[i] = s[i]
            /\ Append(s, "transient")[k + 1] = "transient"
        BY <4>1, AppendProperties
      <4> QED BY <3>1, <4>1, <4>2, <4>3, LenProperties
    <3>4. Ended'
      BY <3>3 DEF Ended
    <3>5. ASSUME NEW i \in DOMAIN toClient'
          PROVE  /\ toClient'[i] # "hello" /\ toClient'[i] # "permanent"
                 /\ i < Len(toClient') => toClient'[i] = "done"
                 /\ toClient'[i] = "done" => i <= Len(pipeline) /\ pipeline[i].w \in committed
      <4>1. CASE i \in 1 .. k
        <5>1. i \in DOMAIN toClient /\ toClient'[i] = toClient[i]
          BY <3>1, <3>3, <4>1
        <5>2. /\ toClient[i] # "hello"
              /\ i < Len(toClient) => toClient[i] = "done"
              /\ toClient[i] = "done" => i <= Len(pipeline) /\ pipeline[i].w \in committed
          BY <2>5, <5>1 DEF Streams, ResultsAreOurs
        <5>3. toClient[i] = "done"
          <6>1. CASE i = Len(toClient)
            <7>1. toClient[i] \in {"hello", "done", "permanent", "transient"}
              BY <3>1, <5>1
            <7>2. toClient # <<>>
              BY <3>1, <5>1, Len(<<>>) = 0
            <7> QED BY <2>1, <5>2, <6>1, <7>1, <7>2 DEF Ended
          <6> QED BY <3>1, <5>1, <5>2, <6>1
        <5> QED BY <5>1, <5>2, <5>3
      <4>2. CASE i = k + 1
        BY <3>1, <3>3, <4>2
      <4> QED BY <3>1, <3>3, <4>1, <4>2
    <3>6. ResultsAreOurs'
      BY <2>1, <3>4, <3>5 DEF ResultsAreOurs
    <3> QED BY <2>1, <2>3, <2>5, <3>6 DEF Streams, HelloIsAlone
  <2> QED BY <1>0, <2>4, <2>5 DEF TypeOK
<1>18. ASSUME NEW s \in abandoned, CommitLate(s) PROVE Streams'
  <2>1. committed \subseteq committed'
        /\ UNCHANGED <<pipeline, stream, handshake, idle, token, toServer, toClient, refused>>
    BY <1>18 DEF CommitLate
  <2> QED BY <2>1 DEF Streams, StreamIsSound, HelloIsAlone, ResultsAreOurs, Started, Ended
<1> QED BY <1>3, <1>4, <1>5, <1>6, <1>7, <1>8, <1>9, <1>10, <1>11, <1>13, <1>16, <1>17,
           <1>18 DEF Next, Read, Serve

-----------------------------------------------------------------------------
(* The tokens asked for, and what is left on the worker queue.               *)

LEMMA LateStep ==
  ASSUME Base, Streams, LateIsSomething, [Next]_vars
  PROVE  LateIsSomething'
<1> USE DEF disk, channel, backend, bounds, app
<1>1. TypeOK /\ StreamIsSound /\ HelloIsAlone /\ ResultsAreOurs
  BY DEF Base, Streams
<1>2. \A s \in Forsaken : s # <<>>
  BY <1>1, ForsakenEffect DEF LateIsSomething
<1>3. ASSUME abandoned' \in {abandoned, Forsaken} PROVE LateIsSomething'
  BY <1>2, <1>3 DEF LateIsSomething
<1>4. ASSUME NEW s \in abandoned, CommitLate(s) PROVE LateIsSomething'
  <2>1. s \in Seq(Write) /\ s # <<>>
    BY <1>1 DEF LateIsSomething, TypeOK
  <2>2. ASSUME Len(s) # 1 PROVE Tail(s) # <<>>
    <3>1. Len(Tail(s)) = Len(s) - 1 /\ Len(s) \in Nat \ {0}
      BY <2>1, TailType
    <3> QED BY <2>2, <3>1, Len(<<>>) = 0
  <2> QED BY <1>4, <2>2 DEF CommitLate, LateIsSomething
<1>5. ASSUME RunTask PROVE abandoned' \in {abandoned, Forsaken}
  BY <1>5 DEF RunTask, HandleWrite, HandleCredentialChange, HandleToken, RestartNetwork
<1>6. ASSUME IdleElapses \/ Kill \/ ConnectivityChanges
             \/ \E k \in 0 .. Len(toClient) : Break(k)
      PROVE  abandoned' = Forsaken
  BY <1>6 DEF IdleElapses, Kill, ConnectivityChanges, Break, RestartNetwork
<1>7. ASSUME \/ \E w \in Write : IssueWrite(w)
             \/ \E u \in User : ChangeCredential(u)
             \/ TokenGranted \/ TokenFails \/ BackoffElapses \/ Read
             \/ Serve \/ RefuseHandshake \/ UNCHANGED vars
      PROVE  abandoned' = abandoned
  BY <1>7 DEF IssueWrite, ChangeCredential, TokenGranted, TokenFails, AnswerToken,
     BackoffElapses, Read, ReadHello, ReadResult, ReadStatus, Serve, AcceptHandshake,
     RefuseHandshake, Commit, Refuse, Responds, vars
<1> QED BY <1>3, <1>4, <1>5, <1>6, <1>7 DEF Next

(* tasks' is tasks without its first d elements.                             *)
Shifted(d) == \A i \in DOMAIN tasks' : i + d \in DOMAIN tasks /\ tasks'[i] = tasks[i + d]

LEMMA TasksShift ==
  ASSUME tasks \in Seq(Task)
  PROVE  /\ tasks' = tasks => Shifted(0)
         /\ (tasks # <<>> /\ tasks' = Tail(tasks)) =>
              /\ Shifted(1) /\ DOMAIN tasks' = 1 .. Len(tasks) - 1 /\ Len(tasks') = Len(tasks) - 1
              /\ Head(tasks) = tasks[1] /\ 1 \in DOMAIN tasks /\ Head(tasks) \in Task
         /\ DOMAIN tasks = 1 .. Len(tasks) /\ Len(tasks) \in Nat
         /\ \A t \in Task : tasks' = Append(tasks, t) =>
              /\ DOMAIN tasks' = 1 .. Len(tasks) + 1 /\ Len(tasks') = Len(tasks) + 1
              /\ \A i \in DOMAIN tasks : tasks'[i] = tasks[i]
              /\ tasks'[Len(tasks) + 1] = t
<1>1. DOMAIN tasks = 1 .. Len(tasks) /\ Len(tasks) \in Nat
  BY LenProperties
<1>2. ASSUME tasks' = tasks PROVE Shifted(0)
  BY <1>1, <1>2 DEF Shifted
<1>3. ASSUME tasks # <<>>, tasks' = Tail(tasks)
      PROVE  /\ Shifted(1) /\ DOMAIN tasks' = 1 .. Len(tasks) - 1
             /\ Len(tasks') = Len(tasks) - 1
             /\ Head(tasks) = tasks[1] /\ 1 \in DOMAIN tasks /\ Head(tasks) \in Task
  <2>1. /\ Head(tasks) = tasks[1] /\ Tail(tasks) \in Seq(Task) /\ Len(tasks) \in Nat \ {0}
        /\ Len(Tail(tasks)) = Len(tasks) - 1 /\ Head(tasks) \in Task
        /\ \A i \in 1 .. Len(tasks) - 1 : Tail(tasks)[i] = tasks[i + 1]
    BY <1>3, TailType
  <2>2. DOMAIN tasks' = 1 .. Len(tasks) - 1
    BY <1>3, <2>1, LenProperties
  <2> QED BY <1>1, <1>3, <2>1, <2>2 DEF Shifted
<1>4. ASSUME NEW t \in Task, tasks' = Append(tasks, t)
      PROVE  /\ DOMAIN tasks' = 1 .. Len(tasks) + 1 /\ Len(tasks') = Len(tasks) + 1
             /\ \A i \in DOMAIN tasks : tasks'[i] = tasks[i]
             /\ tasks'[Len(tasks) + 1] = t
  <2>1. /\ Append(tasks, t) \in Seq(Task) /\ Len(Append(tasks, t)) = Len(tasks) + 1
        /\ \A i \in 1 .. Len(tasks) : Append(tasks, t)[i] = tasks[i]
        /\ Append(tasks, t)[Len(tasks) + 1] = t
    BY AppendProperties
  <2> QED BY <1>1, <1>4, <2>1, LenProperties
<1> QED BY <1>1, <1>2, <1>3, <1>4

LEMMA TokensSame ==
  ASSUME OneTokenAtATime, NEW d \in {0, 1}, Shifted(d), DOMAIN tasks' \subseteq Nat,
         UNCHANGED <<stream, asking, closeCount>>
  PROVE  OneTokenAtATime'
<1>1. /\ \A n \in asking' : n <= closeCount'
      /\ closeCount' \in asking' => stream' = "Starting"
      /\ \A i \in DOMAIN tasks' : tasks'[i].kind = "token" => tasks'[i].count <= closeCount'
  BY DEF OneTokenAtATime, Shifted
<1>2. ASSUME NEW i \in DOMAIN tasks', Outstanding(tasks[i])'
      PROVE  /\ stream' = "Starting" /\ closeCount' \notin asking'
             /\ \A j \in DOMAIN tasks' : Outstanding(tasks[j])' => i = j
  <2>1. Outstanding(tasks[i + d]) /\ i + d \in DOMAIN tasks
    BY <1>2 DEF Outstanding, Shifted
  <2>2. ASSUME NEW j \in DOMAIN tasks', Outstanding(tasks[j])' PROVE i = j
    <3>1. Outstanding(tasks[j + d]) /\ j + d \in DOMAIN tasks
      BY <2>2 DEF Outstanding, Shifted
    <3>2. i + d = j + d
      BY <2>1, <3>1 DEF OneTokenAtATime
    <3> QED BY <3>2
  <2> QED BY <2>1, <2>2 DEF OneTokenAtATime
<1> QED BY <1>1, <1>2 DEF OneTokenAtATime

(* Under a close count for which nothing was asked a start may ask.          *)
LEMMA TokensFresh ==
  ASSUME OneTokenAtATime, NEW d \in {0, 1}, Shifted(d), asking \subseteq Nat,
         closeCount \in Nat, closeCount' \in Nat, closeCount <= closeCount',
         \A i \in DOMAIN tasks : tasks[i] \in Task,
         closeCount' \notin asking,
         \A i \in DOMAIN tasks' : tasks'[i].kind = "token" => tasks'[i].count # closeCount',
         IF stream' = "Starting" THEN asking' = asking \cup {closeCount'}
                                 ELSE asking' = asking
  PROVE  OneTokenAtATime'
<1>1. ASSUME NEW n \in asking' PROVE n <= closeCount'
  <2>1. CASE n \in asking
    <3>1. n <= closeCount /\ n \in Nat
      BY <2>1 DEF OneTokenAtATime
    <3> QED BY <3>1
  <2>2. CASE n = closeCount'
    BY <2>2
  <2> QED BY <1>1, <2>1, <2>2
<1>2. ASSUME NEW i \in DOMAIN tasks', tasks'[i].kind = "token"
      PROVE  tasks'[i].count <= closeCount'
  <2>1. tasks[i + d].kind = "token" /\ i + d \in DOMAIN tasks /\ tasks'[i] = tasks[i + d]
    BY <1>2 DEF Shifted
  <2>2. tasks[i + d].count <= closeCount /\ tasks[i + d].count \in Nat
    BY <2>1 DEF OneTokenAtATime, Task
  <2> QED BY <2>1, <2>2
<1>3. \A i \in DOMAIN tasks' : ~ Outstanding(tasks[i])'
  BY DEF Outstanding
<1> QED BY <1>1, <1>2, <1>3 DEF OneTokenAtATime

LEMMA TokensNext ==
  ASSUME OneTokenAtATime, NEW d \in {0, 1}, Shifted(d), asking \subseteq Nat,
         closeCount \in Nat, \A i \in DOMAIN tasks : tasks[i] \in Task,
         closeCount' = closeCount + 1,
         IF stream' = "Starting" THEN asking' = asking \cup {closeCount'}
                                 ELSE asking' = asking
  PROVE  OneTokenAtATime'
<1>1. closeCount' \in Nat /\ closeCount <= closeCount'
  OBVIOUS
<1>2. closeCount' \notin asking
  BY DEF OneTokenAtATime
<1>3. ASSUME NEW i \in DOMAIN tasks', tasks'[i].kind = "token"
      PROVE  tasks'[i].count # closeCount'
  <2>1. tasks[i + d].kind = "token" /\ i + d \in DOMAIN tasks /\ tasks'[i] = tasks[i + d]
    BY <1>3 DEF Shifted
  <2>2. tasks[i + d].count <= closeCount /\ tasks[i + d].count \in Nat
    BY <2>1 DEF OneTokenAtATime, Task
  <2> QED BY <2>1, <2>2
<1> QED BY <1>1, <1>2, <1>3, TokensFresh

(* While the stream is not starting no token is asked for or on its way.     *)
LEMMA TokensRestart ==
  ASSUME OneTokenAtATime, NEW d \in {0, 1}, Shifted(d), asking \subseteq Nat,
         closeCount \in Nat, \A i \in DOMAIN tasks : tasks[i] \in Task,
         closeCount' = closeCount, stream # "Starting",
         IF stream' = "Starting" THEN asking' = asking \cup {closeCount'}
                                 ELSE asking' = asking
  PROVE  OneTokenAtATime'
<1>1. closeCount' \in Nat /\ closeCount <= closeCount' /\ closeCount' \notin asking
  BY DEF OneTokenAtATime
<1>2. ASSUME NEW i \in DOMAIN tasks', tasks'[i].kind = "token"
      PROVE  tasks'[i].count # closeCount'
  BY <1>2 DEF Shifted, OneTokenAtATime, Outstanding
<1> QED BY <1>1, <1>2, TokensFresh


LEMMA TokensStep ==
  ASSUME Base, Streams, OneTokenAtATime, [Next]_vars
  PROVE  OneTokenAtATime'
<1> USE DEF disk, channel, backend, bounds, app
<1>0. /\ TypeOK /\ PipelineIsFront /\ QueuesAscend /\ StreamIsSound
      /\ tasks \in Seq(Task) /\ asking \subseteq Nat /\ closeCount \in Nat
      /\ DOMAIN tasks = 1 .. Len(tasks) /\ Len(tasks) \in Nat
      /\ \A i \in DOMAIN tasks : tasks[i] \in Task
  BY LenProperties DEF Base, Streams, TypeOK
<1>1. ASSUME tasks' = tasks PROVE Shifted(0) /\ DOMAIN tasks' \subseteq Nat
  <2>1. Shifted(0)
    BY <1>0, <1>1, TasksShift
  <2>2. DOMAIN tasks' = 1 .. Len(tasks)
    BY <1>0, <1>1
  <2> QED BY <1>0, <2>1, <2>2
<1>2. ASSUME NEW t \in Task, tasks' = Append(tasks, t), t.kind # "token",
             UNCHANGED <<stream, asking, closeCount>>
      PROVE  OneTokenAtATime'
  <2>1. /\ DOMAIN tasks' = 1 .. Len(tasks) + 1 /\ tasks'[Len(tasks) + 1] = t
        /\ \A i \in DOMAIN tasks : tasks'[i] = tasks[i]
    BY <1>0, <1>2, TasksShift
  <2>2. \A i \in DOMAIN tasks' : tasks'[i].kind = "token" =>
          i \in DOMAIN tasks /\ tasks'[i] = tasks[i]
    BY <1>0, <1>2, <2>1
  <2> QED BY <1>2, <2>2 DEF OneTokenAtATime, Outstanding
<1>3. ASSUME \/ \E w \in Write : IssueWrite(w)
             \/ \E u \in User : ChangeCredential(u)
      PROVE  OneTokenAtATime'
  <2>1. ASSUME NEW w \in Write, IssueWrite(w) PROVE OneTokenAtATime'
    BY <1>2, <2>1 DEF IssueWrite, Task
  <2>2. ASSUME NEW u \in User, ChangeCredential(u) PROVE OneTokenAtATime'
    BY <1>2, <2>2 DEF ChangeCredential, Task
  <2> QED BY <1>3, <2>1, <2>2
<1>4. ASSUME NEW n \in asking, NEW ok \in BOOLEAN, AnswerToken(n, ok)
      PROVE  OneTokenAtATime'
  <2> DEFINE t == [kind |-> "token", u |-> auth, count |-> n, ok |-> ok]
  <2>1. /\ asking' = asking \ {n} /\ tasks' = Append(tasks, t) /\ t \in Task
        /\ UNCHANGED <<stream, closeCount>>
    BY <1>0, <1>4 DEF AnswerToken, Task, TypeOK
  <2>2. t.kind = "token" /\ t.count = n
    OBVIOUS
  <2> HIDE DEF t
  <2>3. /\ DOMAIN tasks' = 1 .. Len(tasks) + 1 /\ tasks'[Len(tasks) + 1] = t
        /\ \A i \in DOMAIN tasks : tasks'[i] = tasks[i]
    BY <1>0, <2>1, TasksShift
  <2>4. n <= closeCount /\ n \in Nat
    BY <1>0 DEF OneTokenAtATime
  <2>5. /\ \A m \in asking' : m <= closeCount'
        /\ closeCount' \in asking' => stream' = "Starting"
    BY <2>1 DEF OneTokenAtATime
  <2>6. ASSUME NEW i \in DOMAIN tasks', tasks'[i].kind = "token"
        PROVE  tasks'[i].count <= closeCount'
    <3>1. CASE i \in DOMAIN tasks
      BY <2>1, <2>3, <2>6, <3>1 DEF OneTokenAtATime
    <3>2. CASE i = Len(tasks) + 1
      BY <2>1, <2>2, <2>3, <2>4, <3>2
    <3> QED BY <1>0, <2>3, <3>1, <3>2
  <2>7. ASSUME NEW i \in DOMAIN tasks', Outstanding(tasks[i])'
        PROVE  /\ stream' = "Starting" /\ closeCount' \notin asking'
               /\ \A j \in DOMAIN tasks' : Outstanding(tasks[j])' => i = j
    <3>1. CASE i \in DOMAIN tasks
      <4>1. Outstanding(tasks[i])
        BY <2>1, <2>3, <2>7, <3>1 DEF Outstanding
      <4>2. /\ stream = "Starting" /\ closeCount \notin asking /\ n # closeCount
            /\ \A j \in DOMAIN tasks : Outstanding(tasks[j]) => i = j
        BY <3>1, <4>1 DEF OneTokenAtATime
      <4>3. ASSUME NEW j \in DOMAIN tasks', Outstanding(tasks[j])' PROVE i = j
        <5>1. j \in DOMAIN tasks
          BY <1>0, <2>1, <2>2, <2>3, <4>2, <4>3 DEF Outstanding
        <5> QED BY <2>1, <2>3, <4>2, <4>3, <5>1 DEF Outstanding
      <4> QED BY <2>1, <4>2, <4>3
    <3>2. CASE i = Len(tasks) + 1
      <4>1. n = closeCount
        BY <2>1, <2>2, <2>3, <2>7, <3>2 DEF Outstanding
      <4>2. stream = "Starting" /\ \A j \in DOMAIN tasks : ~ Outstanding(tasks[j])
        BY <4>1 DEF OneTokenAtATime
      <4>3. ASSUME NEW j \in DOMAIN tasks', Outstanding(tasks[j])' PROVE i = j
        <5>1. j \notin DOMAIN tasks
          BY <2>1, <2>3, <4>2, <4>3 DEF Outstanding
        <5> QED BY <1>0, <2>3, <3>2, <5>1
      <4> QED BY <2>1, <4>1, <4>2, <4>3
    <3> QED BY <1>0, <2>3, <3>1, <3>2
  <2> QED BY <2>5, <2>6, <2>7 DEF OneTokenAtATime
<1>5. ASSUME TokenGranted \/ TokenFails PROVE OneTokenAtATime'
  BY <1>4, <1>5 DEF TokenGranted, TokenFails
<1>6. ASSUME RunTask PROVE OneTokenAtATime'
  <2>1. /\ tasks # <<>> /\ tasks' = Tail(tasks) /\ Shifted(1)
        /\ DOMAIN tasks' = 1 .. Len(tasks) - 1 /\ DOMAIN tasks' \subseteq Nat
        /\ Head(tasks) = tasks[1] /\ 1 \in DOMAIN tasks /\ Head(tasks) \in Task
    <3>1. tasks # <<>> /\ tasks' = Tail(tasks)
      BY <1>6 DEF RunTask
    <3>2. /\ Shifted(1) /\ DOMAIN tasks' = 1 .. Len(tasks) - 1
          /\ Head(tasks) = tasks[1] /\ 1 \in DOMAIN tasks /\ Head(tasks) \in Task
      BY <1>0, <3>1, TasksShift
    <3>3. 1 .. Len(tasks) - 1 \subseteq Nat
      BY <1>0
    <3> QED BY <3>1, <3>2, <3>3
  <2>2. ASSUME NEW w \in Write, HandleWrite(w) PROVE OneTokenAtATime'
    <3> DEFINE q == queue'[user]
    <3>1. /\ FillWritePipeline(pipeline, q, stream, handshake, closeCount, idle, toServer)
          /\ q \in Seq(Batch) /\ Ascending(q) /\ Front(pipeline, q)
      BY <1>0, <2>2, WriteEffect DEF TypeOK
    <3>2. /\ pipeline \in Seq(Batch)
          /\ stream \in {"Initial", "Open", "Error", "Starting", "Backoff"}
          /\ handshake \in BOOLEAN /\ closeCount \in Nat /\ idle \in BOOLEAN
          /\ toServer \in Seq(Write \cup {Hello})
      BY <1>0 DEF TypeOK
    <3>3. closeCount' = closeCount
      BY <2>2 DEF HandleWrite
    <3> HIDE DEF q
    <3>4. Filled(pipeline, q, stream, handshake, closeCount, idle, toServer)
      BY <3>1, <3>2, FillResult
    <3>5. \/ UNCHANGED <<stream, asking>>
          \/ /\ stream # "Starting"
             /\ IF stream' = "Starting" THEN asking' = asking \cup {closeCount}
                                        ELSE asking' = asking
      BY <3>4 DEF Filled
    <3>6. CASE UNCHANGED <<stream, asking>>
      BY <2>1, <3>3, <3>6, TokensSame
    <3>7. CASE /\ stream # "Starting"
               /\ IF stream' = "Starting" THEN asking' = asking \cup {closeCount}
                                          ELSE asking' = asking
      BY <1>0, <2>1, <3>3, <3>7, TokensRestart
    <3> QED BY <3>5, <3>6, <3>7
  <2>3. ASSUME NEW u \in User, HandleCredentialChange(u) PROVE OneTokenAtATime'
    <3>1. RestartNetwork(u)
      BY <2>3 DEF HandleCredentialChange
    <3>2. /\ closeCount' = IF Started THEN closeCount + 1 ELSE closeCount
          /\ IF stream' = "Starting" THEN asking' = asking \cup {closeCount'}
                                     ELSE asking' = asking
      BY <1>0, <3>1, RestartEffect
    <3>3. CASE Started
      BY <1>0, <2>1, <3>2, <3>3, TokensNext
    <3>4. CASE ~Started
      <4>1. closeCount' = closeCount /\ stream # "Starting"
        BY <3>2, <3>4 DEF Started
      <4> QED BY <1>0, <2>1, <3>2, <4>1, TokensRestart
    <3> QED BY <3>3, <3>4
  <2>4. ASSUME HandleToken(Head(tasks)), Head(tasks).kind = "token" PROVE OneTokenAtATime'
    <3>1. CASE ~TokenIsCurrent(Head(tasks))
      BY <2>1, <2>4, <3>1, TokensSame DEF HandleToken
    <3>2. CASE /\ TokenIsCurrent(Head(tasks)) /\ stream' = "Open"
               /\ UNCHANGED <<closeCount, asking>>
      <4>1. Outstanding(tasks[1])
        BY <2>1, <2>4, <3>2 DEF Outstanding, TokenIsCurrent
      <4>2. /\ closeCount \notin asking
            /\ \A j \in DOMAIN tasks : Outstanding(tasks[j]) => 1 = j
        BY <2>1, <4>1 DEF OneTokenAtATime
      <4>3. ASSUME NEW i \in DOMAIN tasks', tasks'[i].kind = "token"
            PROVE  tasks'[i].count # closeCount'
        <5>1. i + 1 \in DOMAIN tasks /\ tasks'[i] = tasks[i + 1] /\ i \in 1 .. Len(tasks) - 1
          BY <2>1 DEF Shifted
        <5>2. ~ Outstanding(tasks[i + 1])
          BY <1>0, <4>2, <5>1
        <5> QED BY <3>2, <4>3, <5>1, <5>2 DEF Outstanding
      <4>4. closeCount' \in Nat /\ closeCount <= closeCount' /\ closeCount' \notin asking
            /\ stream' # "Starting" /\ asking' = asking
        BY <1>0, <3>2, <4>2
      <4> QED BY <1>0, <2>1, <4>3, <4>4, TokensFresh
    <3>3. CASE CloseWithError("transient") /\ user' = user
      <4>1. /\ closeCount' = closeCount + 1
            /\ IF stream' = "Starting" THEN asking' = asking \cup {closeCount'}
                                       ELSE asking' = asking
        BY <1>0, <3>3, CloseEffect
      <4> QED BY <1>0, <2>1, <4>1, TokensNext
    <3> QED BY <2>4, <3>1, <3>2, <3>3 DEF HandleToken
  <2> QED BY <1>6, <2>1, <2>2, <2>3, <2>4 DEF RunTask, Task
<1>7. ASSUME BackoffElapses PROVE OneTokenAtATime'
  <2>1. /\ stream = "Backoff" /\ stream' = "Starting" /\ closeCount' = closeCount
        /\ asking' = asking \cup {closeCount'} /\ tasks' = tasks
    BY <1>7 DEF BackoffElapses, Start
  <2> QED BY <1>0, <1>1, <2>1, TokensRestart
<1>8. ASSUME IdleElapses PROVE OneTokenAtATime'
  <2>1. /\ stream' = "Initial" /\ closeCount' = closeCount + 1
        /\ asking' = asking /\ tasks' = tasks
    BY <1>8 DEF IdleElapses
  <2> QED BY <1>0, <1>1, <2>1, TokensNext
<1>9. ASSUME ReadResult PROVE OneTokenAtATime'
  <2>1. stream = "Open"
    BY <1>0, <1>9 DEF ReadResult, StreamIsSound
  <2>2. UNCHANGED <<stream, asking, tasks, closeCount>>
    BY <1>9, <2>1 DEF ReadResult, FillWritePipeline
  <2> QED BY <1>1, <2>2, TokensSame
<1>10. ASSUME ReadStatus PROVE OneTokenAtATime'
  <2>1. PICK status : CloseWithError(status) /\ user' = user /\ tasks' = tasks
    BY <1>10 DEF ReadStatus
  <2>2. /\ closeCount' = closeCount + 1
        /\ IF stream' = "Starting" THEN asking' = asking \cup {closeCount'}
                                   ELSE asking' = asking
    BY <1>0, <2>1, CloseEffect
  <2> QED BY <1>0, <1>1, <2>1, <2>2, TokensNext
<1>11. ASSUME ConnectivityChanges PROVE OneTokenAtATime'
  <2>1. RestartNetwork(user) /\ user \in User /\ tasks' = tasks
    BY <1>0, <1>11 DEF ConnectivityChanges, TypeOK
  <2>2. /\ closeCount' = IF Started THEN closeCount + 1 ELSE closeCount
        /\ IF stream' = "Starting" THEN asking' = asking \cup {closeCount'}
                                   ELSE asking' = asking
    BY <1>0, <2>1, RestartEffect
  <2>3. CASE Started
    BY <1>0, <1>1, <2>1, <2>2, <2>3, TokensNext
  <2>4. CASE ~Started
    <3>1. closeCount' = closeCount /\ stream # "Starting"
      BY <2>2, <2>4 DEF Started
    <3> QED BY <1>0, <1>1, <2>1, <2>2, <3>1, TokensRestart
  <2> QED BY <2>3, <2>4
<1>12. ASSUME Kill PROVE OneTokenAtATime'
  <2>1. /\ tasks' = <<>> /\ closeCount' = 0
        /\ \/ stream' = "Starting" /\ asking' = {0}
           \/ stream' = "Initial" /\ asking' = {}
    BY <1>12 DEF Kill
  <2>2. DOMAIN tasks' = {}
    BY <2>1
  <2> QED BY <2>1, <2>2 DEF OneTokenAtATime
<1>13. ASSUME ReadHello \/ Serve \/ RefuseHandshake
              \/ (\E k \in 0 .. Len(toClient) : Break(k))
              \/ (\E s \in abandoned : CommitLate(s)) \/ UNCHANGED vars
       PROVE  OneTokenAtATime'
  <2>1. UNCHANGED <<stream, asking, tasks, closeCount>>
    BY <1>13 DEF ReadHello, Serve, AcceptHandshake, RefuseHandshake, Commit, Refuse, Responds,
       Break, CommitLate, vars
  <2> QED BY <1>1, <2>1, TokensSame
<1> QED BY <1>3, <1>5, <1>6, <1>7, <1>8, <1>9, <1>10, <1>11, <1>12, <1>13 DEF Next, Read

-----------------------------------------------------------------------------
(* What the app is told.                                                     *)

(* A response at the head is about the batch at the head.                    *)
LEMMA FrontIsAnswered ==
  ASSUME TypeOK, Streams, pipeline # <<>>, toClient # <<>>
  PROVE  /\ Head(pipeline).w \in Write
         /\ Head(toClient) = "done" => handshake /\ Head(pipeline).w \in committed
         /\ (Head(toClient) = "permanent" /\ handshake) => Head(pipeline).w \in refused
<1>1. /\ Head(toClient) = toClient[1] /\ 1 \in DOMAIN toClient
      /\ Head(pipeline) = pipeline[1] /\ pipeline[1].w \in Write
  BY TailType, Known
<1>2. toClient[1] = "done" => handshake
  BY <1>1 DEF Streams, StreamIsSound, HelloIsAlone
<1> QED BY <1>1, <1>2 DEF Streams, ResultsAreOurs

(* Unless a step settles the front batch it leaves the answers and the       *)
(* blocks that wait alone, but for a write that is queued and a kill.        *)
Settles ==
  /\ pipeline # <<>> /\ user' = user /\ alive' = alive /\ tasks' = tasks
  /\ UNCHANGED <<committed, refused, abandoned>>
  /\ queue' = [queue EXCEPT ![user] = Without(@, Head(pipeline))]
  /\ \/ Notify(Head(pipeline), "ok") /\ Head(pipeline).w \in committed
     \/ Notify(Head(pipeline), "error") /\ Head(pipeline).w \in refused

LEMMA AnswersMove ==
  ASSUME Base, Streams, [Next]_vars
  PROVE  /\ committed \subseteq committed' /\ refused \subseteq refused'
         /\ \/ Settles
            \/ UNCHANGED answer /\ (callbacks' = callbacks \/ RunTask \/ Kill)
<1> USE DEF disk, channel, backend, bounds, app
<1>0. TypeOK /\ PipelineIsFront /\ QueuesAscend
  BY DEF Base
<1>1. ASSUME \/ \E w \in Write : IssueWrite(w)
             \/ \E u \in User : ChangeCredential(u)
             \/ TokenGranted \/ TokenFails \/ BackoffElapses \/ IdleElapses \/ ReadHello
             \/ ConnectivityChanges \/ Serve \/ RefuseHandshake
             \/ (\E k \in 0 .. Len(toClient) : Break(k))
             \/ (\E s \in abandoned : CommitLate(s)) \/ UNCHANGED vars
      PROVE  /\ committed \subseteq committed' /\ refused \subseteq refused'
             /\ answer' = answer /\ callbacks' = callbacks
  BY <1>1 DEF IssueWrite, ChangeCredential, TokenGranted, TokenFails, AnswerToken,
     BackoffElapses, IdleElapses, ReadHello, ConnectivityChanges, Serve, AcceptHandshake,
     RefuseHandshake, Commit, Refuse, Responds, Break, CommitLate, vars
<1>2. ASSUME Kill PROVE UNCHANGED <<committed, refused, answer>>
  BY <1>2 DEF Kill
<1>3. ASSUME RunTask PROVE UNCHANGED <<committed, refused, answer>>
  BY <1>3 DEF RunTask, HandleWrite, HandleCredentialChange, HandleToken, CloseWithError,
     CondemnsFront
<1>4. ASSUME ReadResult PROVE Settles
  <2>1. Head(pipeline).w \in committed
    BY <1>0, <1>4, FrontIsAnswered DEF ReadResult
  <2> QED BY <1>4, <2>1 DEF ReadResult, Settles
<1>5. ASSUME ReadStatus
      PROVE  /\ Settles \/ UNCHANGED <<answer, callbacks>>
             /\ UNCHANGED <<committed, refused>>
  <2>1. CASE CondemnsFront(Head(toClient))
    <3>1. /\ pipeline # <<>> /\ toClient # <<>> /\ Head(toClient) = "permanent" /\ handshake
      BY <1>5, <2>1 DEF ReadStatus, CondemnsFront
    <3>2. Head(pipeline).w \in refused
      BY <1>0, <3>1, FrontIsAnswered
    <3> QED BY <1>5, <2>1, <3>1, <3>2 DEF ReadStatus, CloseWithError, Settles
  <2>2. CASE ~CondemnsFront(Head(toClient))
    BY <1>5, <2>2 DEF ReadStatus, CloseWithError
  <2> QED BY <2>1, <2>2
<1>6. ASSUME Settles PROVE UNCHANGED <<committed, refused>>
  BY <1>6 DEF Settles
<1> QED BY <1>1, <1>2, <1>3, <1>4, <1>5, <1>6 DEF Next, Read

LEMMA AnswersStep ==
  ASSUME Base, Streams, AnswersAreTrue, [Next]_vars
  PROVE  AnswersAreTrue'
<1>0. TypeOK /\ PipelineIsFront /\ QueuesAscend
  BY DEF Base
<1>1. /\ committed \subseteq committed' /\ refused \subseteq refused'
      /\ Settles \/ UNCHANGED answer
  BY AnswersMove
<1>2. ASSUME Settles PROVE AnswersAreTrue'
  <2>1. PICK verdict \in {"ok", "error"} :
          /\ Notify(Head(pipeline), verdict)
          /\ Head(pipeline).w \in IF verdict = "ok" THEN committed ELSE refused
    BY <1>2 DEF Settles
  <2>2. pipeline # <<>> /\ queue' = [queue EXCEPT ![user] = Without(@, Head(pipeline))]
    BY <1>2 DEF Settles
  <2>3. \A w \in Write : answer'[w] # answer[w] => answer'[w] = verdict /\ w = Head(pipeline).w
    BY <1>0, <2>1, <2>2, SettleEffect
  <2> QED BY <1>1, <2>1, <2>3 DEF AnswersAreTrue
<1> QED BY <1>1, <1>2 DEF AnswersAreTrue

LEMMA OwedStep ==
  ASSUME Base, Base', Streams, BlockIsOwed, [Next]_vars
  PROVE  BlockIsOwed'
<1> USE DEF disk, channel, backend, bounds, app
<1> DEFINE Task1(w) == [kind |-> "write", w |-> w]
           Waits(w) == \E u \in User : \E b \in callbacks[u] : b.w = w
<1>0. /\ TypeOK /\ TypeOK' /\ PipelineIsFront /\ QueuesAscend /\ QueuesAscend'
      /\ tasks \in Seq(Task) /\ alive \subseteq Write
      /\ callbacks \in [User -> SUBSET Batch] /\ answer \in [Write -> {"none", "ok", "error"}]
  BY DEF Base, TypeOK
<1>1. ASSUME NEW w \in alive
      PROVE  answer[w] # "none" \/ Task1(w) \in Elems(tasks) \/ Waits(w)
  BY DEF BlockIsOwed
<1>2. SUFFICES ASSUME NEW w \in alive'
               PROVE  answer'[w] # "none" \/ Task1(w) \in Elems(tasks)' \/ Waits(w)'
  <2>1. \A u \in User : callbacks'[u] \subseteq Elems(queue'[u])
    BY <1>0 DEF QueuesAscend, Elems
  <2> QED BY <2>1 DEF BlockIsOwed, Elems
<1> HIDE DEF Task1, Waits
<1>3. ASSUME NEW t \in Task, tasks' = Append(tasks, t)
      PROVE  Elems(tasks) \subseteq Elems(tasks)' /\ t \in Elems(tasks)'
  <2>1. /\ DOMAIN tasks = 1 .. Len(tasks) /\ Len(tasks) \in Nat
        /\ DOMAIN tasks' = 1 .. Len(tasks) + 1 /\ tasks'[Len(tasks) + 1] = t
        /\ \A i \in DOMAIN tasks : tasks'[i] = tasks[i]
    BY <1>0, <1>3, TasksShift
  <2>2. Len(tasks) + 1 \in DOMAIN tasks' /\ \A i \in DOMAIN tasks : i \in DOMAIN tasks'
    BY <2>1
  <2> QED BY <2>1, <2>2 DEF Elems
<1>4. ASSUME w \in alive, answer' = answer, Elems(tasks) \subseteq Elems(tasks)',
             callbacks' = callbacks
      PROVE  answer'[w] # "none" \/ Task1(w) \in Elems(tasks)' \/ Waits(w)'
  BY <1>1, <1>4 DEF Waits
<1>5. ASSUME NEW v \in Write, IssueWrite(v)
      PROVE  answer'[w] # "none" \/ Task1(w) \in Elems(tasks)' \/ Waits(w)'
  <2>1. Task1(v) \in Task /\ tasks' = Append(tasks, Task1(v)) /\ alive' = alive \cup {v}
        /\ UNCHANGED <<answer, callbacks>>
    BY <1>5 DEF IssueWrite, Task, Task1
  <2> QED BY <1>2, <1>3, <1>4, <2>1
<1>6. ASSUME \/ \E u \in User : ChangeCredential(u)
             \/ TokenGranted \/ TokenFails
      PROVE  answer'[w] # "none" \/ Task1(w) \in Elems(tasks)' \/ Waits(w)'
  <2>1. /\ alive' = alive /\ UNCHANGED <<answer, callbacks>>
        /\ \E t \in Task : tasks' = Append(tasks, t)
    BY <1>0, <1>6 DEF ChangeCredential, TokenGranted, TokenFails, AnswerToken, Task, TypeOK
  <2> QED BY <1>2, <1>3, <1>4, <2>1
<1>7. ASSUME RunTask
      PROVE  answer'[w] # "none" \/ Task1(w) \in Elems(tasks)' \/ Waits(w)'
  <2>1. /\ tasks # <<>> /\ tasks' = Tail(tasks) /\ alive' = alive /\ answer' = answer
    BY <1>7 DEF RunTask, HandleWrite, HandleCredentialChange, HandleToken, CloseWithError,
       CondemnsFront
  <2>2. \A i \in DOMAIN tasks : i # 1 => tasks[i] \in Elems(tasks)'
    <3>1. /\ Len(tasks) \in Nat \ {0} /\ DOMAIN tasks = 1 .. Len(tasks)
          /\ DOMAIN tasks' = 1 .. Len(tasks) - 1
          /\ \A i \in 1 .. Len(tasks) - 1 : tasks'[i] = tasks[i + 1]
      BY <1>0, <2>1, TailType, LenProperties
    <3>2. ASSUME NEW i \in DOMAIN tasks, i # 1 PROVE tasks[i] \in Elems(tasks)'
      <4>1. i - 1 \in DOMAIN tasks' /\ (i - 1) + 1 = i /\ i - 1 \in 1 .. Len(tasks) - 1
        BY <3>1, <3>2
      <4>2. tasks'[i - 1] = tasks[i]
        BY <3>1, <4>1
      <4> QED BY <4>1, <4>2 DEF Elems
    <3> QED BY <3>2
  <2>3. Head(tasks) = tasks[1] /\ Head(tasks) \in Task
    BY <1>0, <2>1, TailType
  <2>4. ASSUME Task1(w) \in Elems(tasks), Task1(w) # Head(tasks)
        PROVE  Task1(w) \in Elems(tasks)'
    BY <2>2, <2>3, <2>4 DEF Elems
  <2>5. ASSUME NEW v \in Write, HandleWrite(v), Head(tasks).w = v
        PROVE  Waits(v)' /\ (Waits(w) => Waits(w)')
    <3>1. callbacks' = [callbacks EXCEPT ![user] = @ \cup {[id |-> nextId, w |-> v]}]
          /\ user \in User
      BY <1>0, <2>5 DEF HandleWrite, TypeOK
    <3>2. \A u \in User : callbacks[u] \subseteq callbacks'[u]
      BY <1>0, <3>1
    <3>3. [id |-> nextId, w |-> v] \in callbacks'[user]
      BY <1>0, <3>1
    <3> QED BY <3>1, <3>2, <3>3 DEF Waits
  <2>6. CASE Head(tasks).kind = "write"
    <3>1. Head(tasks).w \in Write /\ HandleWrite(Head(tasks).w)
      BY <1>7, <2>3, <2>6 DEF RunTask, Task
    <3>2. Task1(w) = Head(tasks) => Head(tasks).w = w
      BY DEF Task1
    <3> QED BY <1>1, <1>2, <2>1, <2>4, <2>5, <3>1, <3>2
  <2>7. CASE Head(tasks).kind # "write"
    <3>1. Task1(w) # Head(tasks)
      BY <2>7 DEF Task1
    <3>2. callbacks' = callbacks
      BY <1>7, <2>7 DEF RunTask, HandleCredentialChange, CallbacksAfter, HandleToken,
         CloseWithError, CondemnsFront
    <3> QED BY <1>1, <1>2, <2>1, <2>4, <3>1, <3>2 DEF Waits
  <2> QED BY <2>6, <2>7
<1>8. ASSUME Settles
      PROVE  answer'[w] # "none" \/ Task1(w) \in Elems(tasks)' \/ Waits(w)'
  <2>1. PICK verdict \in {"ok", "error"} : Notify(Head(pipeline), verdict)
    BY <1>8 DEF Settles
  <2>2. /\ pipeline # <<>> /\ queue' = [queue EXCEPT ![user] = Without(@, Head(pipeline))]
        /\ tasks' = tasks /\ alive' = alive
    BY <1>8 DEF Settles
  <2>3. /\ answer' \in {answer, [answer EXCEPT ![Head(pipeline).w] = verdict]}
        /\ \A u \in User : \A c \in callbacks[u] \ callbacks'[u] : answer'[c.w] # "none"
    BY <1>0, <2>1, <2>2, SettleEffect
  <2>4. answer[w] # "none" => answer'[w] # "none"
    BY <1>0, <1>2, <2>2, <2>3
  <2>5. Waits(w) => Waits(w)' \/ answer'[w] # "none"
    BY <2>3 DEF Waits
  <2> QED BY <1>1, <1>2, <2>2, <2>4, <2>5 DEF Elems
<1>9. ASSUME Kill PROVE FALSE
  BY <1>2, <1>9 DEF Kill
<1>10. ASSUME ~RunTask, ~Kill, ~Settles, [Next]_vars,
              ~ \E v \in Write : IssueWrite(v), ~ \E u \in User : ChangeCredential(u),
              ~TokenGranted, ~TokenFails
       PROVE  answer'[w] # "none" \/ Task1(w) \in Elems(tasks)' \/ Waits(w)'
  <2>1. UNCHANGED answer /\ callbacks' = callbacks
    BY <1>10, AnswersMove
  <2>2. UNCHANGED <<tasks, alive>>
    BY <1>10 DEF Next, BackoffElapses, IdleElapses, Read, ReadHello, ReadResult, ReadStatus,
       ConnectivityChanges, Serve, AcceptHandshake, RefuseHandshake, Commit, Refuse,
       Responds, Break, CommitLate, vars
  <2> QED BY <1>2, <1>4, <2>1, <2>2 DEF Elems
<1> QED BY <1>5, <1>6, <1>7, <1>8, <1>9, <1>10

-----------------------------------------------------------------------------
(* Whose writes they are.                                                    *)

LEMMA FreshWrite ==
  ASSUME TypeOK, IssuedInOrder, NEW w \in Write, IssueWrite(w)
  PROVE  owner[w] = NoUser /\ IssuedInOrder'
<1>1. PICK n \in 0 .. NumWrites : \A v \in Write : owner[v] # NoUser <=> v <= n
  BY DEF IssuedInOrder
<1>2. NumWrites \in Nat /\ n \in Nat
  BY NumWritesAssumption
<1> DEFINE issued == {v \in Write : owner[v] # NoUser}
<1>3. issued = 1 .. n
  BY <1>1, <1>2 DEF Write
<1>4. Cardinality(1 .. n) = n
  <2>1. Cardinality(1 .. n) = IF 1 > n THEN 0 ELSE n - 1 + 1
    BY <1>2, FS_Interval
  <2> QED BY <1>2, <2>1
<1>5. w = n + 1
  <2>1. w = 1 + Cardinality(issued)
    BY DEF IssueWrite
  <2> HIDE DEF issued
  <2> QED BY <1>2, <1>3, <1>4, <2>1
<1>6. owner[w] = NoUser /\ n + 1 \in 0 .. NumWrites
  BY <1>1, <1>2, <1>5 DEF Write
<1>7. /\ owner' = [owner EXCEPT ![w] = auth] /\ auth # NoUser
      /\ owner \in [Write -> User \cup {NoUser}]
  BY NamesAssumption DEF IssueWrite, TypeOK
<1>8. ASSUME NEW v \in Write PROVE owner'[v] # NoUser <=> v <= n + 1
  BY <1>1, <1>2, <1>5, <1>7 DEF Write
<1> QED BY <1>6, <1>8 DEF IssuedInOrder

(* What a fill sends was on its way already or is in the pipeline.           *)
LEMMA FilledSends ==
  ASSUME NEW p \in Seq(Batch), NEW q, NEW st, NEW hs, NEW n, NEW timer,
         NEW r \in Seq(Write \cup {Hello}), Filled(p, q, st, hs, n, timer, r),
         NEW j \in DOMAIN toServer'
  PROVE  \/ j \in DOMAIN r /\ toServer'[j] = r[j]
         \/ \E i \in DOMAIN pipeline' :
              toServer'[j] = pipeline'[i].w /\ SendsAtOnce(st, hs)
<1>1. CASE ~SendsAtOnce(st, hs)
  BY <1>1 DEF Filled
<1>2. CASE SendsAtOnce(st, hs)
  <2>1. /\ toServer' \in Seq(Write \cup {Hello}) /\ pipeline' \in Seq(Batch)
        /\ Len(toServer') = Len(r) + Len(pipeline') - Len(p)
        /\ \A i \in 1 .. Len(r) : toServer'[i] = r[i]
        /\ \A i \in Len(p) + 1 .. Len(pipeline') :
             toServer'[Len(r) + i - Len(p)] = pipeline'[i].w
    BY <1>2 DEF Filled
  <2>2. /\ Len(r) \in Nat /\ Len(p) \in Nat /\ Len(pipeline') \in Nat
        /\ DOMAIN r = 1 .. Len(r) /\ DOMAIN pipeline' = 1 .. Len(pipeline')
        /\ DOMAIN toServer' = 1 .. Len(toServer')
    BY <2>1, LenProperties
  <2>3. CASE j <= Len(r)
    BY <2>1, <2>2, <2>3
  <2>4. CASE j > Len(r)
    <3> DEFINE i == Len(p) + (j - Len(r))
    <3>1. i \in Len(p) + 1 .. Len(pipeline') /\ Len(r) + i - Len(p) = j
      BY <2>1, <2>2, <2>4
    <3> HIDE DEF i
    <3>2. toServer'[j] = pipeline'[i].w /\ i \in DOMAIN pipeline'
      BY <2>1, <2>2, <3>1
    <3> QED BY <1>2, <3>2
  <2> QED BY <2>1, <2>2, <2>3, <2>4
<1> QED BY <1>1, <1>2

(* The user of the next task is known: SyncEngine's, unless it is a change.  *)
Owners == IssuedInOrder /\ TasksInOrder /\ OwnersKept /\ SentAsOwner

LEMMA HeadTask ==
  ASSUME TypeOK, TasksInOrder, tasks # <<>>
  PROVE  /\ Head(tasks).kind = "write" => owner[Head(tasks).w] = user
         /\ Head(tasks).kind = "token" => Head(tasks).u = user
<1>1. PICK f \in [1 .. Len(tasks) + 1 -> User] : Timeline(f)
  BY DEF TasksInOrder
<1>2. Head(tasks) = tasks[1] /\ 1 \in DOMAIN tasks
  BY TailType, LenProperties DEF TypeOK
<1> QED BY <1>1, <1>2 DEF Timeline

(* A task joins the queue, behind all credential changes so far.             *)
LEMMA OrderAppend ==
  ASSUME TypeOK, TasksInOrder, NEW t \in Task, tasks' = Append(tasks, t),
         user' = user, auth' \in User,
         auth' = IF t.kind = "change" THEN t.u ELSE auth,
         t.kind = "write" => owner'[t.w] = auth,
         t.kind = "token" => t.u = auth,
         \A w \in Write : owner[w] # NoUser => owner'[w] = owner[w]
  PROVE  TasksInOrder'
<1>1. PICK f \in [1 .. Len(tasks) + 1 -> User] : Timeline(f)
  BY DEF TasksInOrder
<1>2. /\ DOMAIN tasks = 1 .. Len(tasks) /\ Len(tasks) \in Nat
      /\ DOMAIN tasks' = 1 .. Len(tasks) + 1 /\ Len(tasks') = Len(tasks) + 1
      /\ \A i \in DOMAIN tasks : tasks'[i] = tasks[i]
      /\ tasks'[Len(tasks) + 1] = t
      /\ \A i \in DOMAIN tasks : tasks[i] \in Task
  <2>1. tasks \in Seq(Task)
    BY DEF TypeOK
  <2>2. /\ DOMAIN tasks' = 1 .. Len(tasks) + 1 /\ Len(tasks') = Len(tasks) + 1
        /\ \A i \in DOMAIN tasks : tasks'[i] = tasks[i]
        /\ tasks'[Len(tasks) + 1] = t
    BY <2>1, TasksShift
  <2>3. \A i \in DOMAIN tasks : tasks[i] \in Task
    BY <2>1
  <2> QED BY <2>1, <2>2, <2>3, LenProperties
<1> DEFINE g == [i \in 1 .. Len(tasks) + 2 |-> IF i <= Len(tasks) + 1 THEN f[i] ELSE auth']
<1>3. g \in [1 .. Len(tasks') + 1 -> User]
  BY <1>1, <1>2
<1>4. /\ g[1] = f[1] /\ g[Len(tasks) + 1] = f[Len(tasks) + 1] /\ g[Len(tasks) + 2] = auth'
      /\ \A i \in 1 .. Len(tasks) : g[i] = f[i] /\ g[i + 1] = f[i + 1]
  BY <1>2
<1> HIDE DEF g
<1>5. f[1] = user /\ f[Len(tasks) + 1] = auth
  BY <1>1 DEF Timeline
<1>6. ASSUME NEW i \in DOMAIN tasks
      PROVE  /\ g[i + 1] = IF tasks'[i].kind = "change" THEN tasks'[i].u ELSE g[i]
             /\ tasks'[i].kind = "write" => owner'[tasks'[i].w] = g[i]
             /\ tasks'[i].kind = "token" => tasks'[i].u = g[i]
  <2>1. /\ f[i + 1] = IF tasks[i].kind = "change" THEN tasks[i].u ELSE f[i]
        /\ tasks[i].kind = "write" => owner[tasks[i].w] = f[i]
        /\ tasks[i].kind = "token" => tasks[i].u = f[i]
        /\ f[i] \in User
    BY <1>1, <1>2 DEF Timeline
  <2>2. tasks[i].kind = "write" => owner'[tasks[i].w] = owner[tasks[i].w]
    BY <1>2, <2>1, NamesAssumption DEF Task
  <2> QED BY <1>2, <1>4, <2>1, <2>2
<1>7. ASSUME NEW i \in DOMAIN tasks'
      PROVE  /\ g[i + 1] = IF tasks'[i].kind = "change" THEN tasks'[i].u ELSE g[i]
             /\ tasks'[i].kind = "write" => owner'[tasks'[i].w] = g[i]
             /\ tasks'[i].kind = "token" => tasks'[i].u = g[i]
  <2>1. CASE i = Len(tasks) + 1
    <3>1. i + 1 = Len(tasks) + 2 /\ tasks'[i] = t
      BY <1>2, <2>1
    <3> QED BY <1>4, <1>5, <2>1, <3>1
  <2> QED BY <1>2, <1>6, <2>1
<1>8. g[1] = user' /\ g[Len(tasks') + 1] = auth'
  <2>1. Len(tasks') + 1 = Len(tasks) + 2
    BY <1>2
  <2> QED BY <1>4, <1>5, <2>1
<1> QED BY <1>3, <1>7, <1>8 DEF TasksInOrder, Timeline

(* The first task is taken; if it is a change, SyncEngine follows it.        *)
LEMMA OrderTail ==
  ASSUME TypeOK, TasksInOrder, tasks # <<>>, tasks' = Tail(tasks),
         user' = IF Head(tasks).kind = "change" THEN Head(tasks).u ELSE user,
         UNCHANGED <<auth, owner>>
  PROVE  TasksInOrder'
<1>1. PICK f \in [1 .. Len(tasks) + 1 -> User] : Timeline(f)
  BY DEF TasksInOrder
<1>2. /\ DOMAIN tasks = 1 .. Len(tasks) /\ Len(tasks) \in Nat \ {0}
      /\ DOMAIN tasks' = 1 .. Len(tasks) - 1 /\ Len(tasks') = Len(tasks) - 1
      /\ \A i \in DOMAIN tasks' : tasks'[i] = tasks[i + 1] /\ i + 1 \in DOMAIN tasks
      /\ Head(tasks) = tasks[1] /\ 1 \in DOMAIN tasks
  <2>1. tasks \in Seq(Task)
    BY DEF TypeOK
  <2>2. Len(tasks) \in Nat \ {0}
    BY <2>1, TailType
  <2> QED BY <2>1, <2>2, TasksShift DEF Shifted
<1> DEFINE g == [i \in 1 .. Len(tasks) |-> f[i + 1]]
<1>3. g \in [1 .. Len(tasks') + 1 -> User]
  BY <1>1, <1>2
<1>4. \A i \in 1 .. Len(tasks) : g[i] = f[i + 1]
  OBVIOUS
<1> HIDE DEF g
<1>5. /\ f[1] = user /\ f[Len(tasks) + 1] = auth
      /\ \A i \in DOMAIN tasks :
           /\ f[i + 1] = IF tasks[i].kind = "change" THEN tasks[i].u ELSE f[i]
           /\ tasks[i].kind = "write" => owner[tasks[i].w] = f[i]
           /\ tasks[i].kind = "token" => tasks[i].u = f[i]
  BY <1>1 DEF Timeline
<1>6. ASSUME NEW i \in DOMAIN tasks'
      PROVE  /\ g[i + 1] = IF tasks'[i].kind = "change" THEN tasks'[i].u ELSE g[i]
             /\ tasks'[i].kind = "write" => owner'[tasks'[i].w] = g[i]
             /\ tasks'[i].kind = "token" => tasks'[i].u = g[i]
  <2>1. g[i] = f[i + 1] /\ g[i + 1] = f[(i + 1) + 1]
    BY <1>2, <1>4
  <2> QED BY <1>2, <1>5, <2>1
<1>7. g[1] = user' /\ g[Len(tasks') + 1] = auth'
  <2>1. g[1] = f[1 + 1] /\ g[Len(tasks)] = f[Len(tasks) + 1] /\ Len(tasks') + 1 = Len(tasks)
    BY <1>2, <1>4
  <2> QED BY <1>2, <1>5, <2>1
<1> QED BY <1>3, <1>6, <1>7 DEF TasksInOrder, Timeline


LEMMA OwnersStep ==
  ASSUME Base, Base', Streams, Streams', OneTokenAtATime, Owners, [Next]_vars
  PROVE  Owners'
<1> USE DEF disk, channel, backend, bounds, app
<1>0. /\ TypeOK /\ TypeOK' /\ PipelineIsFront /\ PipelineIsFront'
      /\ QueuesAscend /\ StreamIsSound /\ StreamIsSound'
      /\ IssuedInOrder /\ TasksInOrder /\ OwnersKept /\ SentAsOwner
      /\ NoUser \notin User
      /\ auth \in User /\ user \in User /\ auth' \in User /\ user' \in User
      /\ tasks \in Seq(Task) /\ queue \in [User -> Seq(Batch)]
      /\ queue' \in [User -> Seq(Batch)]
  BY NamesAssumption DEF Base, Streams, Owners, TypeOK
<1>1. ASSUME owner' = owner PROVE IssuedInOrder'
  BY <1>0, <1>1 DEF IssuedInOrder
<1>2. ASSUME UNCHANGED <<auth, owner, tasks, user>> PROVE TasksInOrder'
  BY <1>0, <1>2 DEF TasksInOrder, Timeline
<1>3. ASSUME UNCHANGED <<owner, queue>>, token' # NoUser => token' = user'
      PROVE  OwnersKept'
  BY <1>0, <1>3 DEF OwnersKept
<1>4. ASSUME owner' = owner, token' = token, Elems(toServer)' \subseteq Elems(toServer)
      PROVE  SentAsOwner'
  BY <1>0, <1>4 DEF SentAsOwner
<1>5. ASSUME StreamIsDown' PROVE SentAsOwner' /\ (token' # NoUser => token' = user')
  BY <1>5, DownIsSound DEF StreamIsDown
<1>6. ASSUME NEW w \in Write, IssueWrite(w) PROVE Owners'
  <2> DEFINE t == [kind |-> "write", w |-> w]
  <2>1. /\ owner' = [owner EXCEPT ![w] = auth] /\ owner[w] = NoUser /\ IssuedInOrder'
        /\ tasks' = Append(tasks, t) /\ t \in Task /\ t.kind = "write" /\ t.w = w
        /\ UNCHANGED <<auth, user, queue, token, toServer>>
    BY <1>0, <1>6, FreshWrite DEF IssueWrite, Task
  <2>2. owner'[w] = auth /\ \A v \in Write : owner[v] # NoUser => owner'[v] = owner[v]
    BY <1>0, <2>1 DEF TypeOK
  <2> HIDE DEF t
  <2>3. TasksInOrder'
    BY <1>0, <2>1, <2>2, OrderAppend
  <2>4. OwnersKept'
    <3>1. ASSUME NEW u \in User, NEW i \in DOMAIN queue[u] PROVE owner'[queue[u][i].w] = u
      <4>1. owner[queue[u][i].w] = u /\ u # NoUser /\ queue[u][i].w \in Write
        BY <1>0, ElementsType DEF OwnersKept
      <4> QED BY <2>2, <4>1
    <3> QED BY <1>0, <2>1, <3>1 DEF OwnersKept
  <2>5. SentAsOwner'
    <3>1. ASSUME NEW r \in Elems(toServer) \ {Hello} PROVE owner'[r] = token
      <4>1. PICK i \in DOMAIN toServer : r = toServer[i]
        BY DEF Elems
      <4>2. r \in Write
        BY <1>0, <3>1, <4>1, Known
      <4>3. toServer # <<>>
        BY <4>1
      <4>4. owner[r] = token /\ token # NoUser
        BY <1>0, <4>3 DEF SentAsOwner, StreamIsSound
      <4> QED BY <2>2, <4>2, <4>4
    <3> QED BY <2>1, <3>1 DEF SentAsOwner, Elems
  <2> QED BY <2>1, <2>3, <2>4, <2>5 DEF Owners
<1>7. ASSUME NEW t \in Task, tasks' = Append(tasks, t),
             \/ t.kind = "change" /\ auth' = t.u
             \/ t.kind = "token" /\ t.u = auth /\ auth' = auth,
             UNCHANGED <<user, owner, queue, token, toServer>>
      PROVE  Owners'
  <2>1. TasksInOrder'
    BY <1>0, <1>7, OrderAppend
  <2>2. OwnersKept' /\ SentAsOwner'
    BY <1>0, <1>7 DEF OwnersKept, SentAsOwner
  <2> QED BY <1>1, <1>7, <2>1, <2>2 DEF Owners
<1>8. ASSUME NEW u \in User, ChangeCredential(u) PROVE Owners'
  <2> DEFINE t == [kind |-> "change", u |-> u]
  <2>1. /\ t \in Task /\ t.kind = "change" /\ auth' = t.u /\ tasks' = Append(tasks, t)
        /\ UNCHANGED <<user, owner, queue, token, toServer>>
    BY <1>8 DEF ChangeCredential, Task
  <2> HIDE DEF t
  <2> QED BY <1>7, <2>1
<1>9. ASSUME TokenGranted \/ TokenFails PROVE Owners'
  <2>1. PICK n \in asking, ok \in BOOLEAN : AnswerToken(n, ok)
    BY <1>9 DEF TokenGranted, TokenFails
  <2>2. [kind |-> "token", u |-> auth, count |-> n, ok |-> ok] \in Task
    BY <1>0 DEF TypeOK, Task
  <2> QED BY <1>7, <2>1, <2>2 DEF AnswerToken
(* A fill of the pipeline while the stream stays the user's.                 *)
<1>10. ASSUME NEW p \in Seq(Batch), NEW q,
              Filled(p, q, stream, handshake, closeCount, idle, toServer),
              OwnersKept', UNCHANGED <<owner, token, user>>
       PROVE  SentAsOwner'
  <2>1. ASSUME NEW j \in DOMAIN toServer', toServer'[j] # Hello
        PROVE  owner[toServer'[j]] = token
    <3>1. toServer \in Seq(Write \cup {Hello})
      BY <1>0, Known
    <3>2. CASE j \in DOMAIN toServer /\ toServer'[j] = toServer[j]
      BY <1>0, <2>1, <3>2 DEF SentAsOwner, Elems
    <3>3. CASE \E i \in DOMAIN pipeline' : /\ toServer'[j] = pipeline'[i].w
                                          /\ SendsAtOnce(stream, handshake)
      <4>1. PICK i \in DOMAIN pipeline' : toServer'[j] = pipeline'[i].w
        BY <3>3
      <4>2. stream = "Open" /\ token # NoUser
        BY <1>0, <3>3 DEF SendsAtOnce, StreamIsSound
      <4>3. token = user
        BY <1>0, <4>2 DEF OwnersKept
      <4>4. pipeline'[i] = queue'[user'][i] /\ i \in DOMAIN queue'[user']
        <5>1. /\ Len(pipeline') <= Len(queue'[user'])
              /\ \A k \in DOMAIN pipeline' : pipeline'[k] = queue'[user'][k]
          BY <1>0 DEF PipelineIsFront
        <5>2. /\ pipeline' \in Seq(Batch) /\ queue'[user'] \in Seq(Batch)
          BY <1>0 DEF TypeOK
        <5>3. /\ DOMAIN pipeline' = 1 .. Len(pipeline') /\ Len(pipeline') \in Nat
              /\ DOMAIN queue'[user'] = 1 .. Len(queue'[user']) /\ Len(queue'[user']) \in Nat
          BY <5>2, LenProperties
        <5> QED BY <5>1, <5>3
      <4>5. owner'[queue'[user'][i].w] = user'
        BY <1>0, <1>10, <4>4 DEF OwnersKept
      <4> QED BY <1>10, <4>1, <4>3, <4>4, <4>5
    <3> QED BY <1>10, <3>1, <3>2, <3>3, FilledSends
  <2> QED BY <1>10, <2>1 DEF SentAsOwner, Elems
<1>11. ASSUME RunTask PROVE Owners'
  <2>1. /\ tasks # <<>> /\ tasks' = Tail(tasks) /\ Head(tasks) \in Task
        /\ UNCHANGED <<auth, owner>>
        /\ Head(tasks).kind = "write" => owner[Head(tasks).w] = user
        /\ Head(tasks).kind = "token" => Head(tasks).u = user
    BY <1>0, <1>11, HeadTask, TailType DEF RunTask
  <2>2. ASSUME NEW w \in Write, HandleWrite(w), owner[w] = user
        PROVE  OwnersKept' /\ SentAsOwner' /\ user' = user
    <3> DEFINE q == queue'[user]
    <3>1. /\ FillWritePipeline(pipeline, q, stream, handshake, closeCount, idle, toServer)
          /\ q \in Seq(Batch) /\ Ascending(q) /\ Front(pipeline, q)
      BY <1>0, <2>2, WriteEffect
    <3>2. /\ pipeline \in Seq(Batch)
          /\ stream \in {"Initial", "Open", "Error", "Starting", "Backoff"}
          /\ handshake \in BOOLEAN /\ closeCount \in Nat /\ idle \in BOOLEAN
          /\ toServer \in Seq(Write \cup {Hello})
      BY <1>0 DEF TypeOK
    <3>3. UNCHANGED <<user, token>>
      BY <2>2 DEF HandleWrite
    <3>4. Filled(pipeline, q, stream, handshake, closeCount, idle, toServer)
      <4> HIDE DEF q
      <4> QED BY <3>1, <3>2, FillResult
    <3>5. ASSUME NEW u \in User, NEW i \in DOMAIN queue'[u] PROVE owner[queue'[u][i].w] = u
      <4>1. /\ queue' = [queue EXCEPT ![user] = Append(queue[user], [id |-> nextId, w |-> w])]
            /\ Len(queue'[user]) = Len(queue[user]) + 1
            /\ \A k \in 1 .. Len(queue[user]) : queue'[user][k] = queue[user][k]
            /\ queue'[user][Len(queue[user]) + 1] = [id |-> nextId, w |-> w]
        BY <1>0, <2>2, WriteEffect
      <4>2. /\ Len(queue[user]) \in Nat /\ DOMAIN queue[user] = 1 .. Len(queue[user])
            /\ DOMAIN queue'[user] = 1 .. Len(queue'[user])
        BY <1>0, LenProperties
      <4>3. CASE u = user /\ i = Len(queue[user]) + 1
        BY <2>2, <4>1, <4>3
      <4>4. CASE u = user /\ i # Len(queue[user]) + 1
        <5>1. i \in DOMAIN queue[user] /\ queue'[u][i] = queue[user][i]
          BY <4>1, <4>2, <4>4
        <5> QED BY <1>0, <4>4, <5>1 DEF OwnersKept
      <4>5. CASE u # user
        <5>1. queue'[u] = queue[u]
          BY <1>0, <4>1, <4>5
        <5> QED BY <1>0, <5>1 DEF OwnersKept
      <4> QED BY <4>3, <4>4, <4>5
    <3>6. OwnersKept'
      BY <1>0, <2>1, <3>3, <3>5 DEF OwnersKept
    <3>7. SentAsOwner'
      <4> HIDE DEF q
      <4> QED BY <1>10, <2>1, <3>2, <3>3, <3>4, <3>6
    <3> QED BY <3>3, <3>6, <3>7
  <2>3. ASSUME NEW u \in User, HandleCredentialChange(u)
        PROVE  OwnersKept' /\ SentAsOwner' /\ user' = u
    <3>1. RestartNetwork(u) /\ user' = u /\ queue' = queue
      BY <2>3 DEF HandleCredentialChange
    <3>2. StreamIsDown'
      BY <1>0, <3>1, RestartEffect
    <3> QED BY <1>3, <1>5, <2>1, <3>1, <3>2
  <2>4. ASSUME HandleToken(Head(tasks)), Head(tasks).kind = "token"
        PROVE  OwnersKept' /\ SentAsOwner' /\ user' = user
    <3>1. user' = user
      BY <2>4 DEF HandleToken
    <3>2. CASE UNCHANGED <<queue, token, toServer>>
      BY <1>0, <2>1, <3>1, <3>2 DEF OwnersKept, SentAsOwner
    <3>3. CASE token' = Head(tasks).u /\ toServer' = <<Hello>> /\ UNCHANGED queue
      <4>1. Elems(toServer)' = {Hello}
        BY <3>3 DEF Elems
      <4>2. SentAsOwner'
        BY <4>1 DEF SentAsOwner
      <4> QED BY <1>3, <2>1, <2>4, <3>1, <3>3, <4>2
    <3>4. CASE CloseWithError("transient")
      <4>1. StreamIsDown'
        BY <1>0, <3>1, <3>4, CloseEffect
      <4>2. queue' = queue
        BY <3>4 DEF CloseWithError, CondemnsFront
      <4> QED BY <1>3, <1>5, <2>1, <3>1, <4>1, <4>2
    <3> QED BY <2>4, <3>1, <3>2, <3>3, <3>4 DEF HandleToken
  <2>5. /\ OwnersKept' /\ SentAsOwner'
        /\ user' = IF Head(tasks).kind = "change" THEN Head(tasks).u ELSE user
    <3>1. \/ /\ Head(tasks).kind = "write" /\ HandleWrite(Head(tasks).w)
             /\ Head(tasks).w \in Write
          \/ /\ Head(tasks).kind = "change" /\ HandleCredentialChange(Head(tasks).u)
             /\ Head(tasks).u \in User
          \/ /\ Head(tasks).kind = "token" /\ HandleToken(Head(tasks))
      BY <1>11, <2>1 DEF RunTask, Task
    <3> QED BY <2>1, <2>2, <2>3, <2>4, <3>1
  <2>6. TasksInOrder'
    BY <1>0, <2>1, <2>5, OrderTail
  <2> QED BY <1>1, <2>1, <2>5, <2>6 DEF Owners
<1>12. ASSUME UNCHANGED <<auth, owner, tasks, user, queue>>, StreamIsDown' PROVE Owners'
  BY <1>1, <1>2, <1>3, <1>5, <1>12 DEF Owners
<1>13. ASSUME UNCHANGED <<auth, owner, tasks, user, queue, token>>,
              Elems(toServer)' \subseteq Elems(toServer)
       PROVE  Owners'
  <2>1. token' # NoUser => token' = user'
    BY <1>0, <1>13 DEF OwnersKept
  <2> QED BY <1>1, <1>2, <1>3, <1>4, <1>13, <2>1 DEF Owners
<1>14. ASSUME NEW verdict \in {"ok", "error"}, pipeline # <<>>,
              Notify(Head(pipeline), verdict), user' = user, owner' = owner,
              queue' = [queue EXCEPT ![user] = Without(@, Head(pipeline))],
              token' # NoUser => token' = user'
       PROVE  OwnersKept'
  <2>1. queue' = [queue EXCEPT ![user] = Tail(queue[user])]
    BY <1>0, <1>14, SettleEffect
  <2>2. queue[user] # <<>> /\ queue[user] \in Seq(Batch)
    BY <1>0, <1>14, HeadIsFirst
  <2>3. /\ Len(queue[user]) \in Nat \ {0} /\ DOMAIN queue[user] = 1 .. Len(queue[user])
        /\ DOMAIN Tail(queue[user]) = 1 .. Len(queue[user]) - 1
        /\ \A i \in 1 .. Len(queue[user]) - 1 : Tail(queue[user])[i] = queue[user][i + 1]
    BY <2>2, TailType, LenProperties
  <2>4. ASSUME NEW u \in User, NEW i \in DOMAIN queue'[u] PROVE owner[queue'[u][i].w] = u
    <3>1. CASE u = user
      <4>1. queue'[u] = Tail(queue[user])
        BY <1>0, <2>1, <3>1
      <4>2. i + 1 \in DOMAIN queue[user] /\ queue'[u][i] = queue[user][i + 1]
        BY <2>3, <4>1
      <4> QED BY <1>0, <3>1, <4>2 DEF OwnersKept
    <3>2. CASE u # user
      <4>1. queue'[u] = queue[u]
        BY <1>0, <2>1, <3>2
      <4> QED BY <1>0, <4>1 DEF OwnersKept
    <3> QED BY <3>1, <3>2
  <2> QED BY <1>14, <2>4 DEF OwnersKept
<1>15. ASSUME ReadResult PROVE Owners'
  <2> DEFINE q == queue'[user]
             p == Tail(pipeline)
  <2>1. /\ pipeline # <<>> /\ Notify(Head(pipeline), "ok")
        /\ queue' = [queue EXCEPT ![user] = Without(@, Head(pipeline))]
        /\ FillWritePipeline(p, q, stream, handshake, closeCount, idle, toServer)
        /\ UNCHANGED <<auth, owner, tasks, user, token>>
    BY <1>15 DEF ReadResult
  <2>2. q \in Seq(Batch) /\ Ascending(q) /\ Front(p, q) /\ p \in Seq(Batch)
    BY <1>0, <2>1, SettleEffect, HeadIsFirst
  <2>3. /\ stream \in {"Initial", "Open", "Error", "Starting", "Backoff"}
        /\ handshake \in BOOLEAN /\ closeCount \in Nat /\ idle \in BOOLEAN
        /\ toServer \in Seq(Write \cup {Hello})
    BY <1>0 DEF TypeOK
  <2>4. token' # NoUser => token' = user'
    BY <1>0, <2>1 DEF OwnersKept
  <2>5. OwnersKept'
    BY <1>14, <2>1, <2>4
  <2> HIDE DEF q, p
  <2>6. Filled(p, q, stream, handshake, closeCount, idle, toServer)
    BY <2>1, <2>2, <2>3, FillResult
  <2>7. SentAsOwner'
    BY <1>10, <2>1, <2>2, <2>5, <2>6
  <2> QED BY <1>1, <1>2, <2>1, <2>5, <2>7 DEF Owners
<1>16. ASSUME ReadStatus PROVE Owners'
  <2>1. PICK status : CloseWithError(status) /\ UNCHANGED <<auth, owner, tasks, user>>
    BY <1>16 DEF ReadStatus
  <2>2. StreamIsDown'
    BY <1>0, <2>1, CloseEffect
  <2>3. CASE CondemnsFront(status)
    <3>1. OwnersKept'
      <4>1. /\ pipeline # <<>> /\ Notify(Head(pipeline), "error")
            /\ queue' = [queue EXCEPT ![user] = Without(@, Head(pipeline))]
        BY <2>1, <2>3 DEF CloseWithError, CondemnsFront
      <4> QED BY <1>5, <1>14, <2>1, <2>2, <4>1
    <3> QED BY <1>1, <1>2, <1>5, <2>1, <2>2, <3>1 DEF Owners
  <2>4. CASE ~CondemnsFront(status)
    BY <1>12, <2>1, <2>2, <2>4 DEF CloseWithError
  <2> QED BY <2>3, <2>4
<1>17. ASSUME ConnectivityChanges PROVE Owners'
  <2>1. RestartNetwork(user) /\ UNCHANGED <<auth, owner, tasks, user, queue>>
    BY <1>17 DEF ConnectivityChanges
  <2>2. StreamIsDown'
    BY <1>0, <2>1, RestartEffect
  <2> QED BY <1>12, <2>1, <2>2
<1>18. ASSUME Kill PROVE Owners'
  <2>1. /\ tasks' = <<>> /\ user' = auth /\ queue' = queue /\ StreamIsDown'
        /\ UNCHANGED <<auth, owner>>
    BY <1>18 DEF Kill, QueueAfterKill, StreamIsDown
  <2>2. TasksInOrder'
    <3> DEFINE g == [i \in 1 .. 1 |-> auth]
    <3>1. Len(tasks') = 0 /\ DOMAIN tasks' = {} /\ Len(tasks') + 1 = 1
      BY <2>1
    <3>2. g \in [1 .. Len(tasks') + 1 -> User] /\ g[1] = auth
      BY <1>0, <3>1
    <3> HIDE DEF g
    <3> QED BY <2>1, <3>1, <3>2 DEF TasksInOrder, Timeline
  <2> QED BY <1>1, <1>3, <1>5, <2>1, <2>2 DEF Owners
<1>19. ASSUME BackoffElapses \/ UNCHANGED vars \/ \E s \in abandoned : CommitLate(s)
       PROVE  Owners'
  <2>1. UNCHANGED <<auth, owner, tasks, user, queue, token, toServer>>
    BY <1>19 DEF BackoffElapses, CommitLate, vars
  <2> QED BY <1>13, <2>1 DEF Elems
<1>20. ASSUME IdleElapses PROVE Owners'
  BY <1>12, <1>20 DEF IdleElapses, StreamIsDown
<1>21. ASSUME ReadHello PROVE Owners'
  <2>1. /\ toServer' = toServer \o Writes(pipeline) /\ toClient # <<>>
        /\ UNCHANGED <<auth, owner, tasks, user, queue, token, pipeline>>
    BY <1>21 DEF ReadHello
  <2>2. token = user
    BY <1>0, <2>1 DEF StreamIsSound, OwnersKept
  <2>3. /\ pipeline \in Seq(Batch) /\ toServer \in Seq(Write \cup {Hello})
        /\ Writes(pipeline) \in Seq(Write \cup {Hello})
        /\ Len(Writes(pipeline)) = Len(pipeline)
        /\ \A i \in 1 .. Len(pipeline) : Writes(pipeline)[i] = pipeline[i].w
    <3>1. pipeline \in Seq(Batch) /\ toServer \in Seq(Write \cup {Hello})
      BY <1>0, Known
    <3>2. Writes(pipeline) \in Seq(Write \cup {Hello})
      BY <3>1, WritesType, SeqMonotonic
    <3> QED BY <3>1, <3>2, WritesType
  <2> DEFINE W == Writes(pipeline)
  <2>4. ASSUME NEW j \in DOMAIN toServer'
        PROVE  \/ j \in DOMAIN toServer /\ toServer'[j] = toServer[j]
               \/ \E i \in 1 .. Len(pipeline) : toServer'[j] = pipeline[i].w
    <3>1. W \in Seq(Write \cup {Hello}) /\ toServer' = toServer \o W
      BY <2>1, <2>3
    <3>2. Len(W) = Len(pipeline) /\ \A i \in 1 .. Len(pipeline) : W[i] = pipeline[i].w
      BY <2>3
    <3> HIDE DEF W
    <3>3. /\ toServer \o W \in Seq(Write \cup {Hello})
          /\ Len(toServer \o W) = Len(toServer) + Len(W)
          /\ \A i \in 1 .. Len(toServer) : (toServer \o W)[i] = toServer[i]
          /\ \A i \in 1 .. Len(W) : (toServer \o W)[Len(toServer) + i] = W[i]
      BY <2>3, <3>1, ConcatType
    <3>4. /\ Len(toServer) \in Nat /\ Len(W) \in Nat /\ DOMAIN toServer = 1 .. Len(toServer)
          /\ DOMAIN toServer' = 1 .. Len(toServer) + Len(W)
      BY <2>3, <3>1, <3>3, LenProperties
    <3>5. CASE j <= Len(toServer)
      BY <3>1, <3>3, <3>4, <3>5
    <3>6. CASE j > Len(toServer)
      <4>1. j - Len(toServer) \in 1 .. Len(W) /\ Len(toServer) + (j - Len(toServer)) = j
        BY <3>4, <3>6
      <4> QED BY <3>1, <3>2, <3>3, <4>1
    <3> QED BY <3>4, <3>5, <3>6
  <2>5. ASSUME NEW i \in 1 .. Len(pipeline) PROVE owner[pipeline[i].w] = user
    <3>1. /\ Len(pipeline) <= Len(queue[user]) /\ pipeline[i] = queue[user][i]
      BY <1>0, <2>3, LenProperties DEF PipelineIsFront
    <3>2. i \in DOMAIN queue[user]
      BY <1>0, <2>3, <3>1, LenProperties
    <3> QED BY <1>0, <3>1, <3>2 DEF OwnersKept
  <2>6. SentAsOwner'
    <3>1. \A j \in DOMAIN toServer : toServer[j] # Hello => owner[toServer[j]] = user
      BY <1>0, <2>2 DEF SentAsOwner, Elems
    <3>2. ASSUME NEW j \in DOMAIN toServer', toServer'[j] # Hello
          PROVE  owner[toServer'[j]] = user
      BY <2>4, <2>5, <3>1, <3>2
    <3> QED BY <2>1, <2>2, <3>2 DEF SentAsOwner, Elems
  <2>7. OwnersKept'
    BY <1>0, <2>1 DEF OwnersKept
  <2> QED BY <1>1, <1>2, <2>1, <2>6, <2>7 DEF Owners
<1>22. ASSUME NEW rest \in {Tail(toServer), <<>>}, NEW response, toServer # <<>>,
              Responds(rest, response)
       PROVE  Owners'
  <2>1. /\ UNCHANGED <<auth, owner, tasks, user, queue, token>> /\ toServer' = rest
    BY <1>22 DEF Responds
  <2>2. Elems(Tail(toServer)) \subseteq Elems(toServer)
    <3>1. toServer \in Seq(Write \cup {Hello})
      BY <1>0, Known
    <3>2. /\ Len(toServer) \in Nat \ {0} /\ DOMAIN toServer = 1 .. Len(toServer)
          /\ DOMAIN Tail(toServer) = 1 .. Len(toServer) - 1
          /\ \A i \in 1 .. Len(toServer) - 1 : Tail(toServer)[i] = toServer[i + 1]
      BY <1>22, <3>1, TailType, LenProperties
    <3>3. \A i \in 1 .. Len(toServer) - 1 : i + 1 \in 1 .. Len(toServer)
      BY <3>2
    <3> QED BY <3>2, <3>3 DEF Elems
  <2>3. Elems(<<>>) = {}
    BY DEF Elems
  <2>4. Elems(toServer)' = Elems(rest)
    BY <2>1 DEF Elems
  <2> QED BY <1>13, <2>1, <2>2, <2>3, <2>4
<1>23. ASSUME Serve \/ RefuseHandshake PROVE Owners'
  <2>1. \E rest \in {Tail(toServer), <<>>}, response \in {"hello", "done", "permanent"} :
          Responds(rest, response) /\ toServer # <<>>
    BY <1>23 DEF Serve, RefuseHandshake, AcceptHandshake, Commit, Refuse, Reads
  <2> QED BY <1>22, <2>1
<1>24. ASSUME NEW k \in 0 .. Len(toClient), Break(k) PROVE Owners'
  <2>1. /\ UNCHANGED <<auth, owner, tasks, user, queue, token>> /\ toServer' = <<>>
    BY <1>24 DEF Break
  <2>2. Elems(toServer)' = {}
    BY <2>1 DEF Elems
  <2> QED BY <1>13, <2>1, <2>2
<1> QED BY <1>6, <1>8, <1>9, <1>11, <1>15, <1>16, <1>17, <1>18, <1>19, <1>20, <1>21, <1>23,
           <1>24 DEF Next, Read

-----------------------------------------------------------------------------
(* The inductive invariant.                                                  *)

IInv ==
  /\ Base /\ Streams /\ LateIsSomething /\ OneTokenAtATime
  /\ Owners /\ AnswersAreTrue /\ BlockIsOwed

LEMMA InitIsSound == Init => IInv
<1> SUFFICES ASSUME Init PROVE IInv
  OBVIOUS
<1>1. MaxPending \in Nat /\ NumWrites \in Nat /\ MaxFaults \in Nat /\ MaxSwitches \in Nat
  BY MaxPendingAssumption, NumWritesAssumption, BoundsAssumption
<1>2. /\ tasks = <<>> /\ alive = {} /\ user \in User /\ user = auth
      /\ owner = [w \in Write |-> NoUser]
      /\ queue = [u \in User |-> <<>>] /\ nextId = 1 /\ callbacks = [u \in User |-> {}]
      /\ answer = [w \in Write |-> "none"]
      /\ pipeline = <<>> /\ stream = "Initial" /\ handshake = FALSE /\ idle = FALSE
      /\ closeCount = 0 /\ asking = {} /\ token = NoUser
      /\ toServer = <<>> /\ toClient = <<>> /\ abandoned = {}
  BY DEF Init
<1>3. TypeOK
  <2>1. AppType
    BY <1>1 DEF Init, AppType
  <2>2. DiskType
    BY <1>2 DEF DiskType
  <2>3. ClientType
    <3>1. handshake \in BOOLEAN /\ idle \in BOOLEAN /\ closeCount \in Nat
      BY <1>2
    <3> QED BY <1>2, <3>1 DEF ClientType
  <2>4. ServerType
    BY DEF Init, ServerType
  <2> QED BY <2>1, <2>2, <2>3, <2>4, TypeParts
<1>4. PipelineIsFront
  BY <1>1, <1>2 DEF PipelineIsFront
<1>5. QueuesAscend
  BY <1>2 DEF QueuesAscend, Ascending
<1>6. Streams
  BY <1>2 DEF Streams, StreamIsSound, HelloIsAlone, ResultsAreOurs, Started
<1>7. LateIsSomething /\ OneTokenAtATime
  BY <1>2 DEF LateIsSomething, OneTokenAtATime
<1>8. IssuedInOrder
  <2>1. 0 \in 0 .. NumWrites /\ \A w \in Write : owner[w] # NoUser <=> w <= 0
    BY <1>1, <1>2 DEF Write
  <2> QED BY <2>1 DEF IssuedInOrder
<1>9. TasksInOrder
  <2> DEFINE g == [i \in 1 .. 1 |-> auth]
  <2>1. Len(tasks) + 1 = 1 /\ DOMAIN tasks = {}
    BY <1>2
  <2>2. g \in [1 .. Len(tasks) + 1 -> User] /\ g[1] = auth
    BY <1>2, <2>1
  <2> HIDE DEF g
  <2> QED BY <1>2, <2>1, <2>2 DEF TasksInOrder, Timeline
<1>10. OwnersKept /\ SentAsOwner
  BY <1>2 DEF OwnersKept, SentAsOwner, Elems
<1>11. AnswersAreTrue /\ BlockIsOwed
  BY <1>2 DEF AnswersAreTrue, BlockIsOwed
<1> QED BY <1>3, <1>4, <1>5, <1>6, <1>7, <1>8, <1>9, <1>10, <1>11 DEF IInv, Base, Owners

LEMMA StepIsSound == IInv /\ [Next]_vars => IInv'
<1> SUFFICES ASSUME IInv, [Next]_vars PROVE IInv'
  OBVIOUS
<1>1. /\ Base /\ Streams /\ LateIsSomething /\ OneTokenAtATime
      /\ Owners /\ AnswersAreTrue /\ BlockIsOwed
  BY DEF IInv
<1>2. Base'
  BY <1>1, BaseStep
<1>3. Streams'
  BY <1>1, <1>2, StreamsStep
<1>4. LateIsSomething'
  BY <1>1, LateStep
<1>5. OneTokenAtATime'
  BY <1>1, TokensStep
<1>6. Owners'
  BY <1>1, <1>2, <1>3, OwnersStep
<1>7. AnswersAreTrue'
  BY <1>1, AnswersStep
<1>8. BlockIsOwed'
  BY <1>1, <1>2, OwedStep
<1> QED BY <1>2, <1>3, <1>4, <1>5, <1>6, <1>7, <1>8 DEF IInv

LEMMA Invariant == Spec => []IInv
<1>1. Init => IInv
  BY InitIsSound
<1>2. IInv /\ [Next]_vars => IInv'
  BY StepIsSound
<1> QED BY <1>1, <1>2, PTL DEF Spec

LEMMA LinedUp == ASSUME IInv PROVE ResultsLineUp
<1>1. TypeOK /\ Streams
  BY DEF IInv, Base
<1> SUFFICES ASSUME stream = "Open", handshake, ~Ended
             PROVE  Writes(SubSeq(pipeline, Len(toClient) + 1, Len(pipeline))) = toServer
  BY DEF ResultsLineUp
<1> DEFINE s == SubSeq(pipeline, Len(toClient) + 1, Len(pipeline))
           m == Len(toClient) + 1
<1>2. /\ Len(toServer) = Len(pipeline) - Len(toClient)
      /\ \A i \in 1 .. Len(toServer) : toServer[i] = pipeline[Len(toClient) + i].w
      /\ Len(toClient) \in Nat /\ Len(pipeline) \in Nat /\ Len(toServer) \in Nat
      /\ pipeline \in Seq(Batch) /\ toServer \in Seq(Write \cup {Hello})
      /\ DOMAIN pipeline = 1 .. Len(pipeline)
  BY <1>1, Known DEF Streams, ResultsAreOurs
<1>3. /\ s \in Seq(Batch) /\ Len(s) = Len(toServer)
      /\ \A i \in 1 .. Len(toServer) : s[i] = pipeline[Len(toClient) + i]
  <2> DEFINE n == Len(pipeline)
  <2>1. m \in Int /\ n \in Int /\ \A i \in m .. n : pipeline[i] \in Batch
    BY <1>2
  <2>2. m <= n + 1 /\ n - m + 1 = Len(toServer)
    BY <1>2
  <2> HIDE DEF m, n
  <2>3. /\ SubSeq(pipeline, m, n) \in Seq(Batch)
        /\ Len(SubSeq(pipeline, m, n)) = IF m <= n THEN n - m + 1 ELSE 0
        /\ \A i \in 1 .. n - m + 1 : SubSeq(pipeline, m, n)[i] = pipeline[m + i - 1]
    BY <2>1, SubSeqProperties
  <2>4. Len(SubSeq(pipeline, m, n)) = Len(toServer)
    BY <2>1, <2>2, <2>3
  <2>5. \A i \in 1 .. Len(toServer) : m + i - 1 = Len(toClient) + i
    BY <1>2 DEF m
  <2>6. s = SubSeq(pipeline, m, n)
    BY DEF m, n
  <2> HIDE DEF s
  <2> QED BY <2>2, <2>3, <2>4, <2>5, <2>6
<1> HIDE DEF s
<1>4. /\ Writes(s) \in Seq(Write) /\ Len(Writes(s)) = Len(toServer)
      /\ \A i \in 1 .. Len(toServer) : Writes(s)[i] = toServer[i]
  <2>1. /\ Writes(s) \in Seq(Write) /\ Len(Writes(s)) = Len(toServer)
        /\ \A i \in 1 .. Len(toServer) : Writes(s)[i] = s[i].w
    BY <1>3, WritesType
  <2> QED BY <1>2, <1>3, <2>1
<1>5. Writes(s) \in Seq(Write \cup {Hello})
  BY <1>4, SeqMonotonic
<1>6. Writes(s) = toServer
  <2> DEFINE W == Writes(s)
  <2> HIDE DEF W
  <2>1. W \in Seq(Write \cup {Hello}) /\ Len(W) = Len(toServer)
        /\ \A i \in 1 .. Len(W) : W[i] = toServer[i]
    BY <1>4, <1>5 DEF W
  <2>2. W = toServer
    BY <1>2, <2>1, SeqEqual
  <2> QED BY <2>2 DEF W
<1> QED BY <1>6 DEF s

LEMMA Asserted == ASSUME IInv PROVE AssertionsHold
<1>1. /\ TypeOK /\ PipelineIsFront /\ Streams /\ OneTokenAtATime
      /\ StreamIsSound /\ HelloIsAlone /\ ResultsAreOurs
  BY DEF IInv, Base, Streams
<1>2. idle => pipeline = <<>> /\ Started
  <2>1. handshake => stream = "Open"
    BY <1>1 DEF StreamIsSound
  <2> QED BY <1>1, <2>1 DEF StreamIsSound, Started
<1>3. ASSUME toClient # <<>>
      PROVE  /\ stream = "Open" /\ Head(toClient) = toClient[1] /\ 1 \in DOMAIN toClient
  BY <1>1, <1>3, TailType, Known DEF StreamIsSound
<1>4. ASSUME toClient # <<>>, Head(toClient) = "done" PROVE pipeline # <<>> /\ handshake
  <2>1. handshake
    BY <1>1, <1>3, <1>4 DEF HelloIsAlone
  <2>2. 1 <= Len(pipeline)
    BY <1>1, <1>3, <1>4, <2>1 DEF ResultsAreOurs
  <2> QED BY <2>1, <2>2, Len(<<>>) = 0
<1>5. ASSUME toClient # <<>>, Head(toClient) = "hello" PROVE ~handshake
  BY <1>1, <1>3, <1>5 DEF ResultsAreOurs
<1>6. \A t \in Elems(tasks) : t.kind = "token" /\ t.count = closeCount => stream = "Starting"
  BY <1>1 DEF OneTokenAtATime, Outstanding, Elems
<1>7. ASSUME pipeline # <<>> PROVE Head(pipeline) \in Elems(queue[user])
  <2>1. queue[user] \in Seq(Batch) /\ queue[user] # <<>> /\ Head(pipeline) = queue[user][1]
    BY <1>1, <1>7, HeadIsFirst
  <2>2. 1 \in DOMAIN queue[user]
    BY <2>1, TailType, LenProperties
  <2> QED BY <2>1, <2>2 DEF Elems
<1> QED BY <1>2, <1>3, <1>4, <1>5, <1>6, <1>7 DEF AssertionsHold

-----------------------------------------------------------------------------
(* The order of what the server applies.                                     *)

(* What the abstract specification can see of a step.                        *)
LEMMA QueueMoves ==
  ASSUME Base, Streams, [Next]_vars
  PROVE  \/ Settles
         \/ /\ \E w \in Write : HandleWrite(w)
            /\ UNCHANGED <<answer, committed, refused, abandoned>>
         \/ /\ UNCHANGED <<queue, answer, committed, refused>>
            /\ abandoned' \in {abandoned, Forsaken}
         \/ \E w \in Write : Commit(w) \/ Refuse(w)
         \/ \E s \in abandoned : CommitLate(s)
<1> USE DEF disk, channel, backend, bounds, app
<1>0. TypeOK /\ tasks \in Seq(Task)
  BY DEF Base, TypeOK
<1>1. ASSUME \/ \E w \in Write : IssueWrite(w)
             \/ \E u \in User : ChangeCredential(u)
             \/ TokenGranted \/ TokenFails \/ BackoffElapses \/ ReadHello
             \/ AcceptHandshake \/ RefuseHandshake \/ UNCHANGED vars
      PROVE  UNCHANGED <<queue, answer, committed, refused, abandoned>>
  BY <1>1 DEF IssueWrite, ChangeCredential, TokenGranted, TokenFails, AnswerToken,
     BackoffElapses, ReadHello, AcceptHandshake, RefuseHandshake, Responds, vars
<1>2. ASSUME \/ IdleElapses \/ ConnectivityChanges \/ Kill
             \/ \E k \in 0 .. Len(toClient) : Break(k)
      PROVE  UNCHANGED <<queue, answer, committed, refused>> /\ abandoned' = Forsaken
  BY <1>2 DEF IdleElapses, ConnectivityChanges, RestartNetwork, Kill, QueueAfterKill, Break
<1>3. ASSUME RunTask
      PROVE  \/ /\ \E w \in Write : HandleWrite(w)
                /\ UNCHANGED <<answer, committed, refused, abandoned>>
             \/ /\ UNCHANGED <<queue, answer, committed, refused>>
                /\ abandoned' \in {abandoned, Forsaken}
  <2>1. Head(tasks) \in Task
    BY <1>0, <1>3, TailType DEF RunTask
  <2>2. CASE Head(tasks).kind = "write"
    <3>1. Head(tasks).w \in Write /\ HandleWrite(Head(tasks).w)
      BY <1>3, <2>1, <2>2 DEF RunTask, Task
    <3> QED BY <3>1 DEF HandleWrite
  <2>3. CASE Head(tasks).kind = "change"
    BY <1>3, <2>3 DEF RunTask, HandleCredentialChange, RestartNetwork
  <2>4. CASE Head(tasks).kind = "token"
    BY <1>3, <2>4 DEF RunTask, HandleToken, CloseWithError, CondemnsFront
  <2> QED BY <2>1, <2>2, <2>3, <2>4 DEF Task
<1>4. ASSUME ReadResult \/ ReadStatus
      PROVE  Settles \/ UNCHANGED <<queue, answer, committed, refused, abandoned>>
  <2>1. CASE ReadResult
    <3>1. Head(pipeline).w \in committed
      BY <1>0, <2>1, FrontIsAnswered DEF ReadResult
    <3> QED BY <2>1, <3>1 DEF ReadResult, Settles
  <2>2. CASE ReadStatus /\ CondemnsFront(Head(toClient))
    <3>1. /\ pipeline # <<>> /\ toClient # <<>> /\ Head(toClient) = "permanent" /\ handshake
      BY <2>2 DEF ReadStatus, CondemnsFront
    <3>2. Head(pipeline).w \in refused
      BY <1>0, <3>1, FrontIsAnswered
    <3> QED BY <2>2, <3>1, <3>2 DEF ReadStatus, CloseWithError, Settles
  <2>3. CASE ReadStatus /\ ~CondemnsFront(Head(toClient))
    BY <2>3 DEF ReadStatus, CloseWithError
  <2> QED BY <1>4, <2>1, <2>2, <2>3
<1> QED BY <1>1, <1>2, <1>3, <1>4 DEF Next, Read, Serve

(* The next request of an open stream is due: what is ahead of it in the     *)
(* queue has been applied.                                                   *)
LEMMA SentInOrder ==
  ASSUME Base, Streams, handshake, ~Ended, NEW i \in DOMAIN toServer
  PROVE  /\ Len(toClient) + i \in DOMAIN queue[user] /\ user \in User
         /\ queue[user][Len(toClient) + i].w = toServer[i]
         /\ \A k \in 1 .. Len(toClient) + i - 1 :
              \/ queue[user][k].w \in committed
              \/ \E j \in 1 .. i - 1 : queue[user][k].w = toServer[j]
<1>1. /\ TypeOK /\ PipelineIsFront /\ ResultsAreOurs /\ user \in User
      /\ queue[user] \in Seq(Batch)
  BY DEF Base, Streams, TypeOK
<1>2. /\ Len(toServer) \in Nat /\ Len(toClient) \in Nat /\ Len(pipeline) \in Nat
      /\ Len(queue[user]) \in Nat
      /\ DOMAIN toServer = 1 .. Len(toServer) /\ DOMAIN toClient = 1 .. Len(toClient)
      /\ DOMAIN pipeline = 1 .. Len(pipeline) /\ DOMAIN queue[user] = 1 .. Len(queue[user])
  BY <1>1, Known, LenProperties
<1>3. /\ Len(toServer) = Len(pipeline) - Len(toClient)
      /\ \A j \in 1 .. Len(toServer) : toServer[j] = pipeline[Len(toClient) + j].w
  BY <1>1, <1>2 DEF ResultsAreOurs
<1>4. /\ Len(pipeline) <= Len(queue[user])
      /\ \A j \in 1 .. Len(pipeline) : pipeline[j] = queue[user][j]
  BY <1>1, <1>2 DEF PipelineIsFront
<1>5. Len(toClient) + i \in 1 .. Len(pipeline)
  BY <1>2, <1>3
<1>6. ASSUME NEW k \in 1 .. Len(toClient) + i - 1
      PROVE  \/ queue[user][k].w \in committed
             \/ \E j \in 1 .. i - 1 : queue[user][k].w = toServer[j]
  <2>1. k \in 1 .. Len(pipeline) /\ pipeline[k] = queue[user][k]
    BY <1>2, <1>4, <1>5
  <2>2. CASE k <= Len(toClient)
    <3>1. /\ k < Len(toClient) => toClient[k] = "done"
          /\ toClient[k] # "hello"
          /\ toClient[k] = "done" => pipeline[k].w \in committed
      BY <1>1, <1>2, <2>2 DEF ResultsAreOurs
    <3>2. toClient[k] \in {"hello", "done", "permanent", "transient"}
      BY <1>1, <1>2, <2>2, Known
    <3>3. CASE k = Len(toClient)
      <4>1. toClient # <<>>
        BY <1>2, <2>2, <3>3, Len(<<>>) = 0
      <4> QED BY <2>1, <3>1, <3>2, <3>3, <4>1 DEF Ended
    <3>4. CASE k # Len(toClient)
      <4>1. k < Len(toClient)
        BY <1>2, <2>2, <3>4
      <4> QED BY <2>1, <3>1, <4>1
    <3> QED BY <3>3, <3>4
  <2>3. CASE k > Len(toClient)
    <3> DEFINE j == k - Len(toClient)
    <3>1. j \in 1 .. i - 1 /\ j \in 1 .. Len(toServer) /\ Len(toClient) + j = k
      BY <1>2, <2>3
    <3> HIDE DEF j
    <3>2. toServer[j] = queue[user][k].w
      BY <1>3, <2>1, <3>1
    <3> QED BY <3>1, <3>2
  <2> QED BY <1>2, <2>2, <2>3
<1> QED BY <1>1, <1>2, <1>3, <1>4, <1>5, <1>6

LEMMA OrderStep ==
  ASSUME IInv, IInv', LateInOrder, [Next]_vars
  PROVE  LateInOrder'
<1> USE DEF disk, channel, backend, bounds, app
<1> DEFINE Ahead(s, i) == {s[j] : j \in 1 .. i - 1}
<1>0. /\ Base /\ Streams /\ TypeOK /\ TypeOK' /\ PipelineIsFront /\ QueuesAscend
      /\ queue \in [User -> Seq(Batch)] /\ queue' \in [User -> Seq(Batch)] /\ user \in User
      /\ abandoned \subseteq Seq(Write)
  BY DEF IInv, Base, TypeOK
<1>1. ASSUME NEW s \in abandoned, NEW i \in DOMAIN s
      PROVE  \/ s[i] \in committed \cup refused
             \/ \E u \in User : Follows(s[i], Ahead(s, i), u)
  BY DEF LateInOrder
<1>2. ASSUME NEW w, NEW before, NEW u \in User, Follows(w, before, u), queue' = queue,
             committed \subseteq committed'
      PROVE  Follows(w, before, u)'
  BY <1>2 DEF Follows
<1>3. ASSUME Settles PROVE LateInOrder'
  <2>1. /\ pipeline # <<>> /\ UNCHANGED <<committed, refused, abandoned>>
        /\ queue' = [queue EXCEPT ![user] = Without(@, Head(pipeline))]
        /\ Head(pipeline).w \in committed \cup refused
        /\ \E verdict \in {"ok", "error"} : Notify(Head(pipeline), verdict)
    BY <1>3 DEF Settles
  <2>2. queue' = [queue EXCEPT ![user] = Tail(queue[user])]
    BY <1>0, <2>1, SettleEffect
  <2>3. /\ queue[user] \in Seq(Batch) /\ queue[user] # <<>>
        /\ Head(pipeline) = queue[user][1]
    BY <1>0, <2>1, HeadIsFirst
  <2>4. /\ Len(queue[user]) \in Nat \ {0} /\ DOMAIN queue[user] = 1 .. Len(queue[user])
        /\ queue'[user] = Tail(queue[user])
        /\ DOMAIN queue'[user] = 1 .. Len(queue[user]) - 1
        /\ \A i \in 1 .. Len(queue[user]) - 1 : queue'[user][i] = queue[user][i + 1]
    BY <1>0, <2>2, <2>3, TailType, LenProperties
  <2>5. ASSUME NEW w, NEW before, NEW u \in User, Follows(w, before, u)
        PROVE  w \in committed \cup refused \/ Follows(w, before, u)'
    <3>1. PICK m \in DOMAIN queue[u] :
            /\ queue[u][m].w = w
            /\ \A k \in 1 .. m - 1 : queue[u][k].w \in committed \cup before
      BY <2>5 DEF Follows
    <3>2. CASE u # user
      <4>1. queue'[u] = queue[u]
        BY <1>0, <2>2, <3>2
      <4> QED BY <2>1, <3>1, <4>1 DEF Follows
    <3>3. CASE u = user /\ m = 1
      BY <2>1, <2>3, <3>1, <3>3
    <3>4. CASE u = user /\ m # 1
      <4>1. m - 1 \in DOMAIN queue'[user] /\ (m - 1) + 1 = m /\ m \in 1 .. Len(queue[user])
        BY <2>4, <3>1, <3>4
      <4>2. queue'[user][m - 1].w = w
        BY <2>4, <3>1, <3>4, <4>1
      <4>3. ASSUME NEW k \in 1 .. (m - 1) - 1
            PROVE  queue'[user][k].w \in committed \cup before
        <5>1. k \in 1 .. Len(queue[user]) - 1 /\ k + 1 \in 1 .. m - 1
          BY <2>4, <4>1
        <5> QED BY <2>4, <3>1, <3>4, <5>1
      <4> QED BY <2>1, <3>4, <4>1, <4>2, <4>3 DEF Follows
    <3> QED BY <3>2, <3>3, <3>4
  <2>6. ASSUME NEW s \in abandoned', NEW i \in DOMAIN s
        PROVE  \/ s[i] \in committed' \cup refused'
               \/ \E u \in User : Follows(s[i], Ahead(s, i), u)'
    <3> DEFINE before == Ahead(s, i)
               w == s[i]
    <3>1. w \in committed \cup refused \/ \E u \in User : Follows(w, before, u)
      BY <1>1, <2>1
    <3> HIDE DEF before, w
    <3>2. \/ w \in committed' \cup refused'
          \/ \E u \in User : Follows(w, before, u)'
      BY <2>1, <2>5, <3>1
    <3> QED BY <3>2 DEF before, w
  <2> QED BY <2>6 DEF LateInOrder
<1>4. ASSUME NEW w \in Write, HandleWrite(w),
             UNCHANGED <<committed, refused, abandoned>>
      PROVE  LateInOrder'
  <2>1. /\ queue' = [queue EXCEPT ![user] = Append(queue[user], [id |-> nextId, w |-> w])]
        /\ Len(queue'[user]) = Len(queue[user]) + 1
        /\ \A i \in 1 .. Len(queue[user]) : queue'[user][i] = queue[user][i]
    BY <1>0, <1>4, WriteEffect
  <2>2. /\ DOMAIN queue[user] = 1 .. Len(queue[user]) /\ Len(queue[user]) \in Nat
        /\ DOMAIN queue'[user] = 1 .. Len(queue[user]) + 1
    BY <1>0, <2>1, LenProperties
  <2>3. ASSUME NEW v, NEW before, NEW u \in User, Follows(v, before, u)
        PROVE  Follows(v, before, u)'
    <3>1. PICK m \in DOMAIN queue[u] :
            /\ queue[u][m].w = v
            /\ \A k \in 1 .. m - 1 : queue[u][k].w \in committed \cup before
      BY <2>3 DEF Follows
    <3>2. CASE u # user
      <4>1. queue'[u] = queue[u]
        BY <1>0, <2>1, <3>2
      <4> QED BY <1>4, <3>1, <4>1 DEF Follows
    <3>3. CASE u = user
      <4>1. m \in DOMAIN queue'[u] /\ queue'[u][m] = queue[u][m]
        BY <2>1, <2>2, <3>1, <3>3
      <4>2. \A k \in 1 .. m - 1 : queue'[u][k] = queue[u][k]
        BY <2>1, <2>2, <3>1, <3>3
      <4> QED BY <1>4, <3>1, <4>1, <4>2 DEF Follows
    <3> QED BY <3>2, <3>3
  <2> HIDE DEF Ahead
  <2>4. ASSUME NEW s \in abandoned', NEW i \in DOMAIN s
        PROVE  \/ s[i] \in committed' \cup refused'
               \/ \E u \in User : Follows(s[i], Ahead(s, i), u)'
    BY <1>1, <1>4, <2>3
  <2> QED BY <2>4 DEF LateInOrder, Ahead
(* A stream that ends leaves its requests in the order of the queue.         *)
<1>5. ASSUME NEW s \in Forsaken, NEW i \in DOMAIN s
      PROVE  \/ s[i] \in committed \cup refused
             \/ \E u \in User : Follows(s[i], Ahead(s, i), u)
  <2>1. CASE s \in abandoned
    BY <1>1, <2>1
  <2>2. CASE s \notin abandoned
    <3>1. s = toServer /\ handshake /\ ~Ended
      BY <1>0, <2>2, ForsakenEffect DEF Streams
    <3>2. i \in DOMAIN toServer
      BY <3>1
    <3>3. /\ Len(toClient) + i \in DOMAIN queue[user] /\ user \in User
          /\ queue[user][Len(toClient) + i].w = toServer[i]
          /\ \A k \in 1 .. Len(toClient) + i - 1 :
               \/ queue[user][k].w \in committed
               \/ \E j \in 1 .. i - 1 : queue[user][k].w = toServer[j]
      BY ONLY <1>0, <3>1, <3>2, SentInOrder
    <3>4. \E m \in DOMAIN queue[user] :
            /\ queue[user][m].w = toServer[i]
            /\ \A k \in 1 .. m - 1 :
                 \/ queue[user][k].w \in committed
                 \/ \E j \in 1 .. i - 1 : queue[user][k].w = toServer[j]
      <4>1. /\ Len(toClient) \in Nat /\ i \in Nat
            /\ Len(toClient) + i - 1 = (Len(toClient) + i) - 1
        <5>1. /\ DOMAIN toServer = 1 .. Len(toServer) /\ Len(toServer) \in Nat
              /\ Len(toClient) \in Nat
          BY <1>0, Known
        <5> QED BY ONLY <3>2, <5>1
      <4> QED BY ONLY <3>3, <4>1
    <3>5. Follows(toServer[i], {toServer[j] : j \in 1 .. i - 1}, user)
      BY <3>4 DEF Follows
    <3> QED BY <1>0, <3>1, <3>5
  <2> QED BY <2>1, <2>2
<1>6. ASSUME queue' = queue, committed' = committed, refused' = refused,
             abandoned' \in {abandoned, Forsaken}
      PROVE  LateInOrder'
  <2> HIDE DEF Ahead
  <2>1. ASSUME NEW s \in abandoned', NEW i \in DOMAIN s
        PROVE  \/ s[i] \in committed' \cup refused'
               \/ \E u \in User : Follows(s[i], Ahead(s, i), u)'
    BY <1>1, <1>2, <1>5, <1>6, <2>1
  <2> QED BY <2>1 DEF LateInOrder, Ahead
<1>7. ASSUME NEW w \in Write, Commit(w) \/ Refuse(w) PROVE LateInOrder'
  <2>1. /\ queue' = queue /\ committed \subseteq committed' /\ refused \subseteq refused'
        /\ abandoned' = abandoned
    BY <1>7 DEF Commit, Refuse, Responds
  <2> HIDE DEF Ahead
  <2>2. ASSUME NEW s \in abandoned', NEW i \in DOMAIN s
        PROVE  \/ s[i] \in committed' \cup refused'
               \/ \E u \in User : Follows(s[i], Ahead(s, i), u)'
    BY <1>1, <1>2, <2>1
  <2> QED BY <2>2 DEF LateInOrder, Ahead
<1>8. ASSUME NEW late \in abandoned, CommitLate(late) PROVE LateInOrder'
  <2>1. late \in Seq(Write) /\ late # <<>>
    BY <1>0 DEF IInv, LateIsSomething
  <2>2. /\ queue' = queue /\ refused' = refused /\ committed' = committed \cup {late[1]}
        /\ abandoned' \subseteq abandoned \cup {Tail(late)}
    BY <1>8, <2>1, TailType DEF CommitLate
  <2>3. /\ Len(late) \in Nat \ {0} /\ DOMAIN late = 1 .. Len(late)
        /\ DOMAIN Tail(late) = 1 .. Len(late) - 1
        /\ \A i \in 1 .. Len(late) - 1 : Tail(late)[i] = late[i + 1]
    BY <2>1, TailType, LenProperties
  <2>4. ASSUME NEW i \in DOMAIN Tail(late)
        PROVE  \/ Tail(late)[i] \in committed' \cup refused'
               \/ \E u \in User : Follows(Tail(late)[i], Ahead(Tail(late), i), u)'
    <3>1. i + 1 \in DOMAIN late /\ Tail(late)[i] = late[i + 1]
      BY <2>3
    <3>2. Ahead(late, i + 1) \subseteq Ahead(Tail(late), i) \cup {late[1]}
      <4>1. ASSUME NEW j \in 1 .. (i + 1) - 1, j # 1
            PROVE  late[j] \in Ahead(Tail(late), i)
        <5>1. j - 1 \in 1 .. i - 1 /\ j - 1 \in 1 .. Len(late) - 1 /\ (j - 1) + 1 = j
          BY <2>3, <4>1
        <5>2. Tail(late)[j - 1] = late[j]
          BY <2>3, <5>1
        <5> QED BY <5>1, <5>2
      <4> QED BY <4>1
    <3> HIDE DEF Ahead
    <3>3. CASE late[i + 1] \in committed \cup refused
      BY <2>2, <3>1, <3>3
    <3>4. ASSUME NEW u \in User, Follows(late[i + 1], Ahead(late, i + 1), u)
          PROVE  Follows(Tail(late)[i], Ahead(Tail(late), i), u)'
      <4> DEFINE w == late[i + 1]
                 before == Ahead(Tail(late), i)
                 first == late[1]
      <4>1. PICK m \in DOMAIN queue[u] :
              /\ queue[u][m].w = w
              /\ \A k \in 1 .. m - 1 : queue[u][k].w \in committed \cup Ahead(late, i + 1)
        BY <3>4 DEF Follows
      <4>2. /\ m \in DOMAIN queue'[u] /\ queue'[u][m].w = w
            /\ \A k \in 1 .. m - 1 : queue'[u][k].w \in committed' \cup before
        BY <2>2, <3>2, <4>1
      <4>3. Tail(late)[i] = w
        BY <3>1
      <4> HIDE DEF w, before
      <4>4. Follows(w, before, u)'
        BY <4>2 DEF Follows
      <4>5. Follows(Tail(late)[i], before, u)'
        BY <4>3, <4>4
      <4> QED BY <4>5 DEF before
    <3> QED BY <1>1, <3>1, <3>3, <3>4
  <2> HIDE DEF Ahead
  <2>5. committed \subseteq committed'
    BY <2>2
  <2>6. ASSUME NEW s \in abandoned', NEW i \in DOMAIN s
        PROVE  \/ s[i] \in committed' \cup refused'
               \/ \E u \in User : Follows(s[i], Ahead(s, i), u)'
    <3>1. CASE s \in abandoned
      BY <1>1, <1>2, <2>2, <2>5, <3>1
    <3>2. CASE s = Tail(late)
      BY <2>4, <3>2
    <3> QED BY <2>2, <3>1, <3>2
  <2> QED BY <2>6 DEF LateInOrder, Ahead
<1> HIDE DEF Ahead
<1> QED BY <1>0, <1>3, <1>4, <1>6, <1>7, <1>8, QueueMoves

(* Initially nothing is late; every step keeps the order.                    *)
LEMMA LateOrder == Spec => []LateInOrder
<1>1. Init => LateInOrder
  BY DEF Init, LateInOrder
<1>2. IInv /\ IInv' /\ LateInOrder /\ [Next]_vars => LateInOrder'
  BY OrderStep
<1> QED BY <1>1, <1>2, Invariant, PTL DEF Spec
-----------------------------------------------------------------------------
(* The theorems.                                                             *)

(* The pipeline is the front of the current user's queue, the results line   *)
(* up with it and no assertion of the write path fails.                      *)
THEOREM PipelineSound == Spec => []PipelineIsSound
<1>1. IInv => PipelineIsSound
  BY LinedUp, Asserted DEF IInv, Base, PipelineIsSound
<1> QED BY <1>1, Invariant, PTL

(* A completion block is told "ok" only about a write that the server has    *)
(* applied, and an error only about one that it has refused.                 *)
THEOREM AnswersTrue == Spec => []AnswersAreTrue
<1>1. IInv => AnswersAreTrue
  BY DEF IInv
<1> QED BY <1>1, Invariant, PTL

(* No completion block of a write of this process is dropped.                *)
THEOREM BlocksOwed == Spec => []BlockIsOwed
<1>1. IInv => BlockIsOwed
  BY DEF IInv
<1> QED BY <1>1, Invariant, PTL

(* A write travels under the token of the user who issued it.                *)
THEOREM OwnersSent == Spec => []SentAsOwner
<1>1. IInv => SentAsOwner
  BY DEF IInv, Owners
<1> QED BY <1>1, Invariant, PTL
-----------------------------------------------------------------------------
(* The write path implements WriteQueue.                                     *)

LEMMA WritesEnds ==
  ASSUME NEW s \in Seq(Batch)
  PROVE  /\ s # <<>> => /\ Writes(s) # <<>> /\ Head(Writes(s)) = Head(s).w
                        /\ Writes(Tail(s)) = Tail(Writes(s))
         /\ \A b \in Batch : Writes(Append(s, b)) = Append(Writes(s), b.w)
<1>1. /\ Writes(s) \in Seq(Write) /\ Len(Writes(s)) = Len(s) /\ Len(s) \in Nat
      /\ \A i \in 1 .. Len(s) : Writes(s)[i] = s[i].w
  BY WritesType, LenProperties
<1>2. ASSUME s # <<>>
      PROVE  /\ Writes(s) # <<>> /\ Head(Writes(s)) = Head(s).w
             /\ Writes(Tail(s)) = Tail(Writes(s))
  <2>1. /\ Head(s) = s[1] /\ Tail(s) \in Seq(Batch) /\ Len(s) \in Nat \ {0}
        /\ Len(Tail(s)) = Len(s) - 1
        /\ \A i \in 1 .. Len(s) - 1 : Tail(s)[i] = s[i + 1]
    BY <1>2, TailType
  <2>2. Writes(s) # <<>>
    BY <1>1, <2>1
  <2>3. /\ Head(Writes(s)) = Writes(s)[1] /\ Tail(Writes(s)) \in Seq(Write)
        /\ Len(Tail(Writes(s))) = Len(s) - 1
        /\ \A i \in 1 .. Len(s) - 1 : Tail(Writes(s))[i] = Writes(s)[i + 1]
    BY <1>1, <2>2, TailType
  <2>4. /\ Writes(Tail(s)) \in Seq(Write) /\ Len(Writes(Tail(s))) = Len(s) - 1
        /\ \A i \in 1 .. Len(s) - 1 : Writes(Tail(s))[i] = Tail(s)[i].w
    BY <2>1, WritesType
  <2>5. \A i \in 1 .. Len(s) - 1 : Writes(Tail(s))[i] = Tail(Writes(s))[i]
    BY <1>1, <2>1, <2>3, <2>4
  <2>6. Writes(Tail(s)) = Tail(Writes(s))
    BY <2>3, <2>4, <2>5, SeqEqual
  <2> QED BY <1>1, <2>1, <2>2, <2>3, <2>6
<1>3. ASSUME NEW b \in Batch PROVE Writes(Append(s, b)) = Append(Writes(s), b.w)
  <2>1. /\ b.w \in Write /\ Append(s, b) \in Seq(Batch)
        /\ Len(Append(s, b)) = Len(s) + 1 /\ Append(s, b)[Len(s) + 1] = b
        /\ \A i \in 1 .. Len(s) : Append(s, b)[i] = s[i]
    BY AppendProperties DEF Batch
  <2>2. /\ Append(Writes(s), b.w) \in Seq(Write)
        /\ Len(Append(Writes(s), b.w)) = Len(s) + 1
        /\ Append(Writes(s), b.w)[Len(s) + 1] = b.w
        /\ \A i \in 1 .. Len(s) : Append(Writes(s), b.w)[i] = s[i].w
    BY <1>1, <2>1, AppendProperties
  <2>3. /\ Writes(Append(s, b)) \in Seq(Write)
        /\ Len(Writes(Append(s, b))) = Len(s) + 1
        /\ \A i \in 1 .. Len(s) + 1 : Writes(Append(s, b))[i] = Append(s, b)[i].w
    BY <2>1, WritesType
  <2>4. \A i \in 1 .. Len(s) + 1 : Writes(Append(s, b))[i] = Append(Writes(s), b.w)[i]
    BY <1>1, <2>1, <2>2, <2>3
  <2> QED BY <2>2, <2>3, <2>4, SeqEqual
<1> QED BY <1>2, <1>3

(* The queues as the abstract specification sees them.                       *)
Queued == [u \in User |-> Writes(queue[u])]

LEMMA FollowsIsDue ==
  ASSUME TypeOK, NEW w, NEW u \in User, Follows(w, {}, u)
  PROVE  w \in Promise!Due(u)
<1>1. PICK m \in DOMAIN queue[u] :
        /\ queue[u][m].w = w
        /\ \A k \in 1 .. m - 1 : queue[u][k].w \in committed
  BY DEF Follows
<1>2. queue[u] \in Seq(Batch)
  BY DEF TypeOK
<1>3. /\ DOMAIN queue[u] = 1 .. Len(queue[u]) /\ Len(queue[u]) \in Nat
      /\ DOMAIN Writes(queue[u]) = 1 .. Len(queue[u])
      /\ \A i \in 1 .. Len(queue[u]) : Writes(queue[u])[i] = queue[u][i].w
  BY <1>2, WritesType, LenProperties
<1>4. /\ m \in DOMAIN Writes(queue[u]) /\ Writes(queue[u])[m] = w
      /\ \A k \in 1 .. m - 1 : Writes(queue[u])[k] \in committed
  BY <1>1, <1>3
<1> QED BY <1>4 DEF Promise!Due

LEMMA SettleIsPromised ==
  ASSUME Base, Settles
  PROVE  \E verdict \in {"ok", "error"} : Promise!Settle(user, verdict)
<1>1. TypeOK /\ PipelineIsFront /\ QueuesAscend /\ pipeline # <<>>
  BY DEF Base, Settles
<1>2. PICK verdict \in {"ok", "error"} :
        /\ Notify(Head(pipeline), verdict)
        /\ Head(pipeline).w \in IF verdict = "ok" THEN committed ELSE refused
  BY DEF Settles
<1>3. queue' = [queue EXCEPT ![user] = Without(@, Head(pipeline))]
  BY DEF Settles
<1>4. /\ queue' = [queue EXCEPT ![user] = Tail(queue[user])]
      /\ answer' \in {answer, [answer EXCEPT ![Head(pipeline).w] = verdict]}
  BY <1>1, <1>2, <1>3, SettleEffect
<1>5. /\ queue[user] \in Seq(Batch) /\ queue[user] # <<>> /\ user \in User
      /\ Head(pipeline) = queue[user][1] /\ queue \in [User -> Seq(Batch)]
  BY <1>1, HeadIsFirst DEF TypeOK
<1>6. /\ Writes(queue[user]) # <<>> /\ Head(Writes(queue[user])) = Head(pipeline).w
      /\ Writes(Tail(queue[user])) = Tail(Writes(queue[user]))
  BY <1>5, WritesEnds, TailType
<1>7. Queued' = [Queued EXCEPT ![user] = Tail(Queued[user])]
  <2>1. /\ \A u \in User : u # user => queue'[u] = queue[u]
        /\ queue'[user] = Tail(queue[user])
    BY <1>4, <1>5
  <2>2. \A u \in User : u # user => Writes(queue'[u]) = Writes(queue[u])
    BY <2>1
  <2>3. Writes(queue'[user]) = Tail(Writes(queue[user]))
    BY <1>6, <2>1
  <2>4. Queued' = [u \in User |-> Writes(queue'[u])]
    BY DEF Queued, Writes
  <2> HIDE DEF Writes
  <2> QED BY <1>5, <2>2, <2>3, <2>4 DEF Queued
<1>8. UNCHANGED <<committed, refused>> /\ Queued[user] = Writes(queue[user])
  BY <1>5 DEF Settles, Queued
<1>9. /\ Queued[user] # <<>>
      /\ Head(Queued[user]) \in IF verdict = "ok" THEN committed ELSE refused
      /\ answer' \in {answer, [answer EXCEPT ![Head(Queued[user])] = verdict]}
  BY <1>2, <1>4, <1>6, <1>8
<1> QED BY <1>7, <1>8, <1>9 DEF Promise!Settle, Queued

LEMMA WriteIsPromised ==
  ASSUME Base, NEW w \in Write, HandleWrite(w), UNCHANGED <<answer, committed, refused>>
  PROVE  Promise!Enqueue(user, w)
<1>1. TypeOK /\ PipelineIsFront /\ QueuesAscend
  BY DEF Base
<1> DEFINE b == [id |-> nextId, w |-> w]
<1>2. queue' = [queue EXCEPT ![user] = Append(queue[user], b)] /\ b \in Batch /\ b.w = w
  BY <1>1, WriteEffect
<1>3. queue[user] \in Seq(Batch) /\ user \in User /\ queue \in [User -> Seq(Batch)]
  BY <1>1 DEF TypeOK
<1> HIDE DEF b
<1>4. Writes(Append(queue[user], b)) = Append(Writes(queue[user]), w)
  BY <1>2, <1>3, WritesEnds
<1>5. /\ \A u \in User : u # user => queue'[u] = queue[u]
      /\ queue'[user] = Append(queue[user], b)
  BY <1>2, <1>3
<1>6. \A u \in User : u # user => Writes(queue'[u]) = Writes(queue[u])
  BY <1>5
<1>7. Writes(queue'[user]) = Append(Writes(queue[user]), w)
  BY <1>4, <1>5
<1>8. Queued' = [u \in User |-> Writes(queue'[u])]
  BY DEF Queued, Writes
<1>9. Queued' = [Queued EXCEPT ![user] = Append(Queued[user], w)]
  BY <1>3, <1>6, <1>7, <1>8 DEF Queued
<1> QED BY <1>9 DEF Promise!Enqueue, Queued

(* What the server reads of an open stream is due.                           *)
LEMMA ReadIsDue ==
  ASSUME Base, Streams, NEW w \in Write, Reads(w)
  PROVE  w \in Promise!Due(user)
<1>1. TypeOK /\ user \in User
  BY DEF Base, TypeOK
<1>2. /\ token # NoUser /\ ~Ended /\ toServer # <<>> /\ toServer[1] = w
      /\ DOMAIN toServer = 1 .. Len(toServer) /\ Len(toServer) \in Nat \ {0}
  BY <1>1, Known, TailType DEF Reads
<1>3. handshake
  <2> SUFFICES ASSUME ~handshake PROVE FALSE
    OBVIOUS
  <2>1. toServer = <<Hello>>
    BY <1>2 DEF Streams, StreamIsSound, HelloIsAlone
  <2> QED BY <1>2, <2>1, NamesAssumption
<1>4. 1 \in DOMAIN toServer /\ Len(toClient) \in Nat
  BY <1>1, <1>2, Known
<1>5. /\ Len(toClient) + 1 \in DOMAIN queue[user]
      /\ queue[user][Len(toClient) + 1].w = toServer[1]
      /\ \A k \in 1 .. Len(toClient) + 1 - 1 :
           \/ queue[user][k].w \in committed
           \/ \E j \in 1 .. 1 - 1 : queue[user][k].w = toServer[j]
  BY <1>2, <1>3, <1>4, SentInOrder
<1>6. \E m \in DOMAIN queue[user] :
        /\ queue[user][m].w = toServer[1]
        /\ \A k \in 1 .. m - 1 : queue[user][k].w \in committed \cup {}
  <2>1. Len(toClient) + 1 - 1 = (Len(toClient) + 1) - 1 /\ 1 .. 1 - 1 = {}
    BY <1>4
  <2> QED BY <1>5, <2>1
<1>7. Follows(w, {}, user)
  BY <1>2, <1>6 DEF Follows
<1> QED BY <1>1, <1>7, FollowsIsDue

LEMMA StepIsPromised ==
  ASSUME IInv, LateInOrder, [Next]_vars
  PROVE  [Promise!Next]_(Promise!vars)
<1>0. /\ Base /\ Streams /\ TypeOK /\ user \in User /\ LateIsSomething
      /\ abandoned \subseteq Seq(Write)
  BY DEF IInv, Base, TypeOK
<1>1. ASSUME UNCHANGED <<queue, answer, committed, refused>>
      PROVE  UNCHANGED Promise!vars
  BY <1>1 DEF Promise!vars, Writes
<1>2. CASE Settles
  BY <1>0, <1>2, SettleIsPromised DEF Promise!Next
<1>3. ASSUME NEW w \in Write, HandleWrite(w), UNCHANGED <<answer, committed, refused>>
      PROVE  Promise!Next
  BY <1>0, <1>3, WriteIsPromised DEF Promise!Next
<1>4. ASSUME NEW w \in Write, Commit(w) \/ Refuse(w) PROVE Promise!Next
  <2>1. Reads(w) /\ UNCHANGED <<queue, answer>>
    BY <1>4 DEF Commit, Refuse, Responds, disk
  <2>2. w \in Promise!Due(user)
    BY <1>0, <2>1, ReadIsDue
  <2>3. CASE Commit(w)
    BY <1>0, <2>1, <2>2, <2>3 DEF Commit, Writes, Promise!Next, Promise!Commit
  <2>4. CASE Refuse(w)
    BY <1>0, <2>1, <2>2, <2>4 DEF Refuse, Writes, Promise!Next, Promise!Refuse
  <2> QED BY <1>4, <2>3, <2>4
<1>5. ASSUME NEW s \in abandoned, CommitLate(s)
      PROVE  Promise!Next \/ UNCHANGED <<queue, answer, committed, refused>>
  <2>1. /\ s \in Seq(Write) /\ s # <<>>
        /\ UNCHANGED <<queue, answer, refused>> /\ committed' = committed \cup {Head(s)}
    BY <1>0, <1>5 DEF LateIsSomething, CommitLate, disk
  <2> DEFINE w == Head(s)
  <2>2. w \in Write /\ w = s[1] /\ 1 \in DOMAIN s
    BY <2>1, TailType, LenProperties
  <2>3. CASE w \in committed
    BY <2>1, <2>3
  <2>4. CASE w \in refused
    BY <2>1, <2>2, <2>4 DEF Writes, Promise!Next, Promise!Commit
  <2>5. CASE w \notin committed \cup refused
    <3>1. PICK u \in User : Follows(s[1], {s[j] : j \in 1 .. 1 - 1}, u)
      BY <2>2, <2>5 DEF LateInOrder
    <3>2. {s[j] : j \in 1 .. 1 - 1} = {}
      OBVIOUS
    <3>3. w \in Promise!Due(u)
      BY <1>0, <2>2, <3>1, <3>2, FollowsIsDue
    <3> QED BY <2>1, <2>2, <3>3 DEF Writes, Promise!Next, Promise!Commit
  <2> QED BY <2>3, <2>4, <2>5
<1> QED BY <1>0, <1>1, <1>2, <1>3, <1>4, <1>5, QueueMoves

(* Writes leave a user's queue in the order in which they entered it, each   *)
(* answered once it is committed or refused, and a write is not committed    *)
(* before those ahead of it: the write path keeps what setData promises.     *)
THEOREM Refinement == Spec => KeepsPromise
<1>1. Init => Promise!Init
  <2>1. Writes(<<>>) = <<>>
    BY DEF Writes
  <2> QED BY <2>1 DEF Init, Promise!Init
<1>2. IInv /\ LateInOrder /\ [Next]_vars => [Promise!Next]_(Promise!vars)
  BY StepIsPromised
<1> QED BY <1>1, <1>2, Invariant, LateOrder, PTL DEF Spec, KeepsPromise, Promise!Spec
=============================================================================
