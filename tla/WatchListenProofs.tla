-------------------------- MODULE WatchListenProofs --------------------------
(* What holds of the read path for every set of queries and listeners, for   *)
(* any number of changes.                                                    *)
EXTENDS WatchListen, FiniteSetTheorems, TLAPS

(* A sequence grows by one element, and with it the set of its places that   *)
(* meet a condition.                                                         *)
LEMMA CountAppend ==
  ASSUME NEW n \in Nat, NEW A \in SUBSET (1 .. n), NEW B \in SUBSET (1 .. n + 1),
         \A i \in 1 .. n : i \in B <=> i \in A
  PROVE  /\ Cardinality(A) \in Nat /\ Cardinality(B) \in Nat
         /\ Cardinality(B) = Cardinality(A) + (IF n + 1 \in B THEN 1 ELSE 0)
<1>1. IsFiniteSet(A) /\ Cardinality(A) \in Nat /\ n + 1 \notin A
  <2>1. IsFiniteSet(1 .. n)
    BY FS_Interval
  <2>2. IsFiniteSet(A)
    BY <2>1, FS_Subset
  <2> QED BY <2>2, FS_CardinalityType
<1>2. /\ n + 1 \in B => B = A \cup {n + 1}
      /\ n + 1 \notin B => B = A
  <2>1. 1 .. n + 1 = (1 .. n) \cup {n + 1}
    OBVIOUS
  <2> QED BY <2>1
<1>3. Cardinality(A \cup {n + 1}) = Cardinality(A) + 1
  BY <1>1, FS_AddElement
<1>4. CASE n + 1 \in B
  <2>1. Cardinality(B) = Cardinality(A) + 1
    BY <1>2, <1>3, <1>4
  <2> QED BY <1>1, <1>4, <2>1
<1>5. CASE n + 1 \notin B
  <2>1. Cardinality(B) = Cardinality(A)
    BY <1>2, <1>5
  <2> QED BY <1>1, <1>5, <2>1
<1> QED BY <1>4, <1>5

(* A sequence loses its first element.                                       *)
LEMMA CountTail ==
  ASSUME NEW n \in Nat \ {0}, NEW A \in SUBSET (1 .. n), NEW B \in SUBSET (1 .. n - 1),
         \A i \in 1 .. n - 1 : i \in B <=> i + 1 \in A
  PROVE  /\ Cardinality(A) \in Nat /\ Cardinality(B) \in Nat
         /\ Cardinality(A) = Cardinality(B) + (IF 1 \in A THEN 1 ELSE 0)
<1>1. IsFiniteSet(A) /\ Cardinality(A) \in Nat /\ IsFiniteSet(B) /\ Cardinality(B) \in Nat
  <2>1. IsFiniteSet(1 .. n) /\ IsFiniteSet(1 .. n - 1)
    BY FS_Interval
  <2>2. IsFiniteSet(A) /\ IsFiniteSet(B)
    BY <2>1, FS_Subset
  <2> QED BY <2>2, FS_CardinalityType
<1> DEFINE f == [i \in B |-> i + 1]
<1>2. f \in Bijection(B, A \ {1})
  <2>1. ASSUME NEW i \in B PROVE i + 1 \in A \ {1}
    OBVIOUS
  <2>2. f \in [B -> A \ {1}]
    BY <2>1
  <2>3. \A i, j \in B : f[i] = f[j] => i = j
    OBVIOUS
  <2>4. \A k \in A \ {1} : k - 1 \in B /\ f[k - 1] = k
    OBVIOUS
  <2> QED BY <2>2, <2>3, <2>4 DEF Bijection, Injection, Surjection, IsInjective
<1>3. Cardinality(A \ {1}) = Cardinality(B)
  BY <1>1, <1>2, FS_Bijection DEF ExistsBijection
<1>4. Cardinality(A \ {1}) = IF 1 \in A THEN Cardinality(A) - 1 ELSE Cardinality(A)
  BY <1>1, FS_RemoveElement
<1> QED BY <1>1, <1>3, <1>4

(* The requests of a newly opened stream are those of the set, each once.    *)
LEMMA EachOnce ==
  ASSUME NEW S, IsFiniteSet(S)
  PROVE  /\ SetToSeq(S) \in Seq(S)
         /\ \A x \in S : \E i \in DOMAIN SetToSeq(S) : SetToSeq(S)[i] = x
         /\ \A i, j \in DOMAIN SetToSeq(S) : SetToSeq(S)[i] = SetToSeq(S)[j] => i = j
<1> DEFINE n == Cardinality(S)
           g == SetToSeq(S)
<1>1. n \in Nat /\ ExistsBijection(1 .. n, S)
  BY FS_CardinalityType
<1>2. \E f \in [1 .. n -> S] : IsInjective(f)
  BY <1>1 DEF ExistsBijection, Bijection, Injection
<1>3. g \in [1 .. n -> S] /\ IsInjective(g)
  BY <1>2 DEF SetToSeq
<1> HIDE DEF g
<1>4. g \in Injection(1 .. n, S)
  BY <1>3 DEF Injection
<1>5. Cardinality(1 .. n) = n
  BY <1>1, FS_Interval
<1>6. g \in Surjection(1 .. n, S)
  BY <1>4, <1>5, FS_Injection
<1> QED BY <1>1, <1>3, <1>6 DEF IsInjective, Surjection, g

-----------------------------------------------------------------------------
(* Types of what the actions put together.                                   *)
LEMMA VersionType == 0 \in Version /\ 1 \in Version /\ Version \subseteq Nat
  BY MaxVersionAssumption DEF Version

LEMMA MessageType ==
  ASSUME NEW m \in Message
  PROVE  /\ m.kind \in {"added", "removed", "current", "doc", "snapshot"}
         /\ m.kind \in {"added", "removed", "current", "doc"} => m.q \in Query
         /\ m.kind = "doc" => m.v \in Version
<1>1. CASE m \in [kind : {"added", "removed", "current"}, q : Query]
  BY <1>1
<1>2. CASE m \in [kind : {"doc"}, q : Query, v : Version]
  BY <1>2
<1>3. CASE m \in [kind : {"snapshot"}]
  BY <1>3
<1> QED BY <1>1, <1>2, <1>3 DEF Message

LEMMA ViewType ==
  ASSUME NEW v \in View
  PROVE  v.doc \in Version /\ v.current \in BOOLEAN /\ v # NoView
<1>1. v # NoView
  BY NoViewAssumption
<1>2. v.doc \in Version /\ v.current \in BOOLEAN
  BY DEF View
<1> QED BY <1>1, <1>2

LEMMA NewViewType ==
  ASSUME NEW d \in Version, NEW c \in BOOLEAN
  PROVE  [doc |-> d, current |-> c] \in View /\ [doc |-> d, current |-> c] # NoView
<1>1. [doc |-> d, current |-> c] \in View
  BY DEF View
<1> QED BY <1>1, NoViewAssumption

LEMMA PostType ==
  ASSUME TypeOK, NEW L \in SUBSET Listener, NEW v \in [Query -> View \cup {NoView}],
         \A l \in L : v[QueryOf[l]] # NoView, Post(L, v)
  PROVE  raised' \subseteq Listener /\ inbox' \in [Listener -> Seq(Event)]
<1>1. raised' \subseteq Listener
  BY DEF Post, TypeOK
<1>2. ASSUME NEW l \in L
      PROVE  [doc |-> v[QueryOf[l]].doc, fromCache |-> ~v[QueryOf[l]].current] \in Event
  <2>1. v[QueryOf[l]] \in View
    BY QueryOfAssumption
  <2>2. v[QueryOf[l]].doc \in Version
    BY <2>1, ViewType
  <2> QED BY <2>2 DEF Event
<1>3. inbox \in [Listener -> Seq(Event)]
  BY DEF TypeOK
<1>4. \A l \in Listener : inbox'[l] \in Seq(Event)
  BY <1>2, <1>3 DEF Post
<1>5. DOMAIN inbox' = Listener /\ inbox' = [l \in Listener |-> inbox'[l]]
  BY DEF Post
<1> QED BY <1>1, <1>4, <1>5

(* Views and listeners belong together.                                      *)
Paired == Targets = {QueryOf[l] : l \in attached}

LEMMA AttachedView ==
  ASSUME TypeOK, Paired, NEW l \in attached
  PROVE  /\ l \in Listener /\ QueryOf[l] \in Query
         /\ view[QueryOf[l]] \in View /\ view[QueryOf[l]] # NoView
<1>1. l \in Listener /\ QueryOf[l] \in Query
  BY QueryOfAssumption DEF TypeOK
<1> QED BY <1>1 DEF Paired, Targets, TypeOK

(* A listener is sent the view of its query as it is now.                    *)
Tells(l) ==
  inbox'[l] = Append(inbox[l], [doc |-> view'[QueryOf[l]].doc,
                                fromCache |-> ~view'[QueryOf[l]].current])

(* Going offline: the views stay, none of them is current.                   *)
LEMMA OfflineViews ==
  ASSUME TypeOK, Paired, GoOffline
  PROVE  /\ view' \in [Query -> View \cup {NoView}] /\ Targets' = Targets
         /\ \A q \in Targets : view'[q].doc = view[q].doc
         /\ view' = view \/ \A q \in Targets : ~view'[q].current
         /\ raised \subseteq raised' /\ raised' \subseteq Listener
         /\ inbox' \in [Listener -> Seq(Event)] /\ online' = "Offline"
         /\ \A l \in Listener : inbox'[l] = inbox[l] \/ (l \in attached /\ Tells(l))
<1>1. CASE online = "Offline"
  BY <1>1 DEF GoOffline, TypeOK, Targets
<1>2. CASE online # "Offline"
  <2> DEFINE now == [q \in Query |->
                       IF q \in Targets THEN [doc |-> view[q].doc, current |-> FALSE]
                       ELSE NoView]
             L == {l \in attached : Raises(l, view[QueryOf[l]], now[QueryOf[l]], "Offline")}
  <2>1. ASSUME NEW q \in Targets
        PROVE  /\ q \in Query /\ view[q] \in View
               /\ now[q] \in View /\ now[q] # NoView /\ now[q].doc = view[q].doc
               /\ now[q].current = FALSE
    <3>1. q \in Query /\ view[q] \in View
      BY DEF Targets, TypeOK
    <3>2. now[q] = [doc |-> view[q].doc, current |-> FALSE]
      BY <3>1
    <3>3. now[q] \in View /\ now[q] # NoView
      BY <3>1, <3>2, ViewType, NewViewType
    <3> QED BY <3>1, <3>2, <3>3
  <2>2. now \in [Query -> View \cup {NoView}] /\ \A q \in Query \ Targets : now[q] = NoView
    BY <2>1
  <2>3. view' = now /\ Post(L, now) /\ online' = "Offline"
    BY <1>2 DEF GoOffline
  <2>4. L \subseteq Listener /\ \A l \in L : QueryOf[l] \in Targets
    BY QueryOfAssumption DEF TypeOK, Paired
  <2> HIDE DEF now, L
  <2>5. Targets' = Targets
    BY <2>1, <2>2, <2>3 DEF Targets
  <2>6. raised' \subseteq Listener /\ inbox' \in [Listener -> Seq(Event)]
    BY <2>1, <2>2, <2>3, <2>4, PostType
  <2>7. raised \subseteq raised'
    BY <2>3 DEF Post
  <2>8. \A l \in Listener : inbox'[l] = inbox[l] \/ (l \in L /\ Tells(l))
    BY <2>3 DEF Post, Tells
  <2>9. L \subseteq attached
    BY DEF L
  <2> QED BY <2>1, <2>2, <2>3, <2>5, <2>6, <2>7, <2>8, <2>9
<1> QED BY <1>1, <1>2

(* The stream and its channel start afresh.                                  *)
LEMMA NewChannelType ==
  ASSUME NewChannel
  PROVE  /\ outstanding' \in [Query -> Nat] /\ updates' \in [Query -> Version]
         /\ pending' \in [Query -> BOOLEAN] /\ marked' \in [Query -> BOOLEAN]
         /\ toServer' \in Seq(Request) /\ toClient' \in Seq(Message)
         /\ held' \in [Query -> View \cup {NoView}]
         /\ dirty' \in BOOLEAN /\ left' \in BOOLEAN
<1>1. /\ outstanding' \in [Query -> Nat] /\ updates' \in [Query -> Version]
      /\ toServer' \in Seq(Request) /\ toClient' \in Seq(Message)
      /\ held' \in [Query -> View \cup {NoView}]
  BY VersionType DEF NewChannel, Zero
<1>2. pending' \in [Query -> BOOLEAN] /\ marked' \in [Query -> BOOLEAN]
  BY DEF NewChannel, None
<1>3. dirty' = FALSE /\ left' = FALSE
  BY DEF NewChannel
<1> QED BY <1>1, <1>2, <1>3

-----------------------------------------------------------------------------
(* The parts of the actions, once for all the proofs below.                  *)

(* AddQueryListener and the views.                                           *)
LEMMA AddViews ==
  ASSUME TypeOK, Paired, NEW l \in Listener, Add(l)
  PROVE  LET q == QueryOf[l]
         IN  /\ q \in Query /\ attached' = attached \cup {l}
             /\ view' \in [Query -> View \cup {NoView}] /\ Targets' = Targets \cup {q}
             /\ \A p \in Query \ {q} : view'[p] = view[p] /\ since'[p] = since[p]
             /\ q \in Targets => view'[q] = view[q] /\ since'[q] = since[q]
             /\ q \notin Targets => /\ view'[q] = [doc |-> cache[q], current |-> FALSE]
                                    /\ since'[q] = result[q]
             /\ since' \in [Query -> Version] /\ floor' = [floor EXCEPT ![l] = since'[q]]
             /\ raised \subseteq raised' /\ raised' \subseteq raised \cup {l}
             /\ raised' \subseteq Listener /\ inbox' \in [Listener -> Seq(Event)]
             /\ l \notin raised' => ~view'[q].current
             /\ \A k \in Listener \ {l} : inbox'[k] = inbox[k]
             /\ inbox'[l] = inbox[l] \/ Tells(l)
<1> DEFINE q == QueryOf[l]
           now == [view EXCEPT ![q] = IF @ = NoView THEN [doc |-> cache[q], current |-> FALSE]
                                                    ELSE @]
           L == IF RaisesFirst(l, now[q], online') THEN {l} ELSE {}
<1>1. q \in Query
  BY QueryOfAssumption
<1>2. /\ attached' = attached \cup {l} /\ view' = now /\ Post(L, now)
      /\ since' = IF q \in Targets THEN since ELSE [since EXCEPT ![q] = result[q]]
      /\ floor' = [floor EXCEPT ![l] = since'[q]]
  BY DEF Add
<1>3. /\ view \in [Query -> View \cup {NoView}] /\ cache[q] \in Version /\ result[q] \in Version
      /\ since \in [Query -> Version] /\ floor \in [Listener -> Version]
      /\ inbox \in [Listener -> Seq(Event)]
  BY <1>1 DEF TypeOK
<1>4. now[q] = IF q \in Targets THEN view[q] ELSE [doc |-> cache[q], current |-> FALSE]
  BY <1>1, <1>3 DEF Targets
<1>5. /\ now \in [Query -> View \cup {NoView}] /\ \A p \in Query \ {q} : now[p] = view[p]
      /\ now[q] # NoView
  <2>1. /\ [doc |-> cache[q], current |-> FALSE] \in View
        /\ [doc |-> cache[q], current |-> FALSE] # NoView
    BY <1>3, NewViewType
  <2> QED BY <1>1, <1>3, <1>4, <2>1 DEF Targets
<1> HIDE DEF now
<1>6. Targets' = Targets \cup {q}
  BY <1>1, <1>2, <1>5 DEF Targets
<1>7. since' \in [Query -> Version] /\ \A p \in Query \ {q} : since'[p] = since[p]
  BY <1>1, <1>2, <1>3
<1>8. q \notin Targets => since'[q] = result[q]
  BY <1>1, <1>2, <1>3
<1>9. raised' \subseteq Listener /\ inbox' \in [Listener -> Seq(Event)]
  BY <1>2, <1>5, PostType
<1>10. raised \subseteq raised' /\ raised' \subseteq raised \cup {l}
  BY <1>2 DEF Post
<1>11. l \notin raised' => ~now[q].current
  BY <1>2 DEF Post, RaisesFirst
<1>12. /\ \A k \in Listener \ {l} : inbox'[k] = inbox[k]
       /\ inbox'[l] = inbox[l] \/ Tells(l)
  BY <1>2 DEF Post, Tells
<1> HIDE DEF L
<1> QED BY <1>1, <1>2, <1>4, <1>5, <1>6, <1>7, <1>8, <1>9, <1>10, <1>11, <1>12

(* AddQueryListener and the stream.                                          *)
AddsQuietly(q) ==
  /\ q \in Targets \/ stream \in {"Starting", "Backoff"}
  /\ UNCHANGED <<tracker, stream, idle, aggregator, channel>>
AddsRequest(q) ==
  /\ q \notin Targets /\ stream = "Open"
  /\ Send(q, cache[q]) /\ idle' = FALSE /\ UNCHANGED <<tracker, stream>>
AddsStream(q) ==
  /\ q \notin Targets /\ stream \in {"Initial", "Error"}
  /\ StartWatchStream /\ UNCHANGED <<idle, aggregator, channel>>

LEMMA AddStream ==
  ASSUME TypeOK, NEW l \in Listener, Add(l)
  PROVE  /\ LET q == QueryOf[l] IN AddsQuietly(q) \/ AddsRequest(q) \/ AddsStream(q)
         /\ UNCHANGED <<result, told, muted, cache, backend, left>>
<1>1. stream \in {"Initial", "Starting", "Backoff", "Open", "Error"}
  BY DEF TypeOK
<1> QED BY <1>1 DEF Add, AddsQuietly, AddsRequest, AddsStream

(* RemoveQueryListener and the views.                                        *)
LEMMA DetachViews ==
  ASSUME TypeOK, NEW l \in Listener, Detach(l)
  PROVE  LET q == QueryOf[l]
             stays == \E k \in attached \ {l} : QueryOf[k] = q
         IN  /\ q \in Query /\ attached' = attached \ {l}
             /\ view' \in [Query -> View \cup {NoView}]
             /\ \A p \in Query \ {q} : view'[p] = view[p]
             /\ stays => /\ view' = view /\ Targets' = Targets
                         /\ UNCHANGED <<tracker, idle, aggregator, channel>>
             /\ ~stays => /\ view'[q] = NoView /\ Targets' = Targets \ {q}
                          /\ StopListening(q, Targets')
             /\ left' = (left \/ (Targets' = {} /\ stream # "Open"))
             /\ UNCHANGED <<result, app, raised, cache, since, floor, stream, backend>>
<1> DEFINE q == QueryOf[l]
           stays == \E k \in attached \ {l} : QueryOf[k] = q
<1>1. q \in Query /\ view \in [Query -> View \cup {NoView}]
  BY QueryOfAssumption DEF TypeOK
<1>0. /\ attached' = attached \ {l}
      /\ left' = (left \/ (Targets' = {} /\ stream # "Open"))
      /\ UNCHANGED <<result, app, raised, cache, since, floor, stream, backend>>
  BY DEF Detach
<1>2. stays => /\ view' = view /\ Targets' = Targets
               /\ UNCHANGED <<tracker, idle, aggregator, channel>>
  BY DEF Detach, Targets
<1>3. ASSUME ~stays
      PROVE  /\ view' = [view EXCEPT ![q] = NoView] /\ Targets' = Targets \ {q}
             /\ view'[q] = NoView /\ StopListening(q, Targets')
  <2>1. view' = [view EXCEPT ![q] = NoView] /\ StopListening(q, Targets \ {q})
    BY <1>3 DEF Detach
  <2>2. Targets' = Targets \ {q} /\ view'[q] = NoView
    BY <1>1, <2>1 DEF Targets
  <2> QED BY <2>1, <2>2
<1> HIDE DEF stays
<1>4. /\ view' \in [Query -> View \cup {NoView}]
      /\ \A p \in Query \ {q} : view'[p] = view[p]
  BY <1>1, <1>2, <1>3
<1> QED BY <1>0, <1>1, <1>2, <1>3, <1>4, Zenon DEF stays

(* RaiseWatchSnapshot.                                                       *)
LEMMA SnapshotViews ==
  ASSUME TypeOK, Paired, ReadSnapshot
  PROVE  /\ cache' \in [Query -> Version] /\ updates' = Zero
         /\ pending' \in [Query -> BOOLEAN] /\ UNCHANGED <<outstanding, marked>>
         /\ \A q \in Query : /\ cache'[q] >= cache[q] /\ cache'[q] >= updates[q]
                             /\ cache'[q] = cache[q] \/ cache'[q] = updates[q]
         /\ view' \in [Query -> View \cup {NoView}] /\ Targets' = Targets
         /\ \A q \in Targets :
              /\ view'[q].doc = cache'[q]
              /\ IsActiveTarget(q) \/ view'[q].current = view[q].current
         /\ raised \subseteq raised' /\ raised' \subseteq Listener
         /\ inbox' \in [Listener -> Seq(Event)]
         /\ \A l \in Listener : inbox'[l] = inbox[l] \/ (l \in attached /\ Tells(l))
         /\ \A l \in attached \ raised' :
              view'[QueryOf[l]] = view[QueryOf[l]] \/ ~view'[QueryOf[l]].current
<1> DEFINE changed == {q \in Query : IsActiveTarget(q) /\ pending[q]}
           stored == [q \in Query |-> IF updates[q] > cache[q] THEN updates[q] ELSE cache[q]]
           now == [q \in Query |->
                     IF q \notin Targets THEN NoView
                     ELSE [doc |-> stored[q],
                           current |-> IF q \in changed THEN marked[q] ELSE view[q].current]]
           L == {l \in attached : /\ now[QueryOf[l]] # view[QueryOf[l]]
                                  /\ Raises(l, view[QueryOf[l]], now[QueryOf[l]], "Online")}
<1>1. /\ cache' = stored /\ view' = now /\ Post(L, now) /\ updates' = Zero
      /\ pending' = [q \in Query |-> pending[q] /\ q \notin changed]
      /\ UNCHANGED <<outstanding, marked>>
  BY DEF ReadSnapshot
<1>2. /\ stored \in [Query -> Version]
      /\ \A q \in Query : /\ stored[q] >= cache[q] /\ stored[q] >= updates[q]
                          /\ stored[q] = cache[q] \/ stored[q] = updates[q]
  <2>1. ASSUME NEW q \in Query
        PROVE  cache[q] \in Version /\ updates[q] \in Version
               /\ cache[q] \in Nat /\ updates[q] \in Nat
    BY VersionType DEF TypeOK
  <2> QED BY <2>1
<1>3. ASSUME NEW q \in Targets
      PROVE  /\ q \in Query /\ now[q] \in View /\ now[q] # NoView /\ now[q].doc = stored[q]
             /\ IsActiveTarget(q) \/ now[q].current = view[q].current
  <2>1. q \in Query /\ view[q] \in View /\ marked[q] \in BOOLEAN
    BY DEF Targets, TypeOK
  <2> DEFINE c == IF q \in changed THEN marked[q] ELSE view[q].current
  <2>2. now[q] = [doc |-> stored[q], current |-> c]
    BY <2>1
  <2>3. c \in BOOLEAN
    BY <2>1, ViewType
  <2>4. IsActiveTarget(q) \/ c = view[q].current
    OBVIOUS
  <2>5. stored[q] \in Version
    BY <1>2, <2>1
  <2> HIDE DEF now, c, stored
  <2>6. now[q] \in View /\ now[q] # NoView
    BY <2>2, <2>3, <2>5, NewViewType
  <2> QED BY <2>1, <2>2, <2>4, <2>6
<1>4. \A q \in Query \ Targets : now[q] = NoView
  OBVIOUS
<1>5. DOMAIN now = Query /\ now = [q \in Query |-> now[q]]
  OBVIOUS
<1>6. pending' \in [Query -> BOOLEAN]
  BY <1>1
<1>7. L \subseteq attached /\ L \subseteq Listener /\ \A l \in L : QueryOf[l] \in Targets
  BY QueryOfAssumption DEF TypeOK, Paired
<1>8. \A l \in attached \ L : now[QueryOf[l]] = view[QueryOf[l]] \/
                              ~Raises(l, view[QueryOf[l]], now[QueryOf[l]], "Online")
  OBVIOUS
<1> HIDE DEF now, stored, L, changed
<1>9. now \in [Query -> View \cup {NoView}]
  BY <1>3, <1>4, <1>5
<1>10. Targets' = Targets
  BY <1>1, <1>3, <1>4 DEF Targets
<1>11. raised' \subseteq Listener /\ inbox' \in [Listener -> Seq(Event)]
  BY <1>1, <1>3, <1>7, <1>9, PostType
<1>12. \A l \in Listener : inbox'[l] = inbox[l] \/ (l \in attached /\ Tells(l))
  BY <1>1, <1>7 DEF Post, Tells
<1>13. raised \subseteq raised' /\ L \subseteq raised'
  BY <1>1 DEF Post
<1>14. ASSUME NEW l \in attached \ raised'
       PROVE  view'[QueryOf[l]] = view[QueryOf[l]] \/ ~view'[QueryOf[l]].current
  <2>1. l \notin raised /\ l \in attached \ L
    BY <1>13
  <2>2. Raises(l, view[QueryOf[l]], now[QueryOf[l]], "Online")
          = RaisesFirst(l, now[QueryOf[l]], "Online")
    BY <2>1 DEF Raises
  <2>3. now[QueryOf[l]].current => RaisesFirst(l, now[QueryOf[l]], "Online")
    BY DEF RaisesFirst
  <2> QED BY <1>1, <1>8, <2>1, <2>2, <2>3
<1> QED BY <1>1, <1>2, <1>3, <1>6, <1>9, <1>10, <1>11, <1>12, <1>13, <1>14

-----------------------------------------------------------------------------
(* Types and counts.                                                         *)
LEMMA QueueType ==
  ASSUME NEW S, NEW s \in Seq(S), s # <<>>
  PROVE  /\ Head(s) \in S /\ Head(s) = s[1] /\ Tail(s) \in Seq(S)
         /\ Len(s) \in Nat \ {0} /\ Len(Tail(s)) = Len(s) - 1
         /\ DOMAIN s = 1 .. Len(s) /\ DOMAIN Tail(s) = 1 .. Len(s) - 1
         /\ \A i \in 1 .. Len(s) - 1 : Tail(s)[i] = s[i + 1]
  OBVIOUS

(* A stream that is not open carries nothing.                                *)
Quiet == stream # "Open" => toServer = <<>> /\ toClient = <<>>

LEMMA CountType ==
  ASSUME TypeOK, NEW q \in Query
  PROVE  /\ Requests(q) \subseteq 1 .. Len(toServer) /\ Len(toServer) \in Nat
         /\ Responses(q) \subseteq 1 .. Len(toClient) /\ Len(toClient) \in Nat
         /\ IsFiniteSet(Requests(q)) /\ Cardinality(Requests(q)) \in Nat
         /\ IsFiniteSet(Responses(q)) /\ Cardinality(Responses(q)) \in Nat
<1>1. /\ Len(toServer) \in Nat /\ DOMAIN toServer = 1 .. Len(toServer)
      /\ Len(toClient) \in Nat /\ DOMAIN toClient = 1 .. Len(toClient)
  BY DEF TypeOK
<1>2. Requests(q) \subseteq 1 .. Len(toServer) /\ Responses(q) \subseteq 1 .. Len(toClient)
  BY <1>1 DEF Requests, Responses
<1>3. IsFiniteSet(1 .. Len(toServer)) /\ IsFiniteSet(1 .. Len(toClient))
  BY <1>1, FS_Interval
<1>4. IsFiniteSet(Requests(q)) /\ IsFiniteSet(Responses(q))
  BY <1>2, <1>3, FS_Subset
<1> QED BY <1>1, <1>2, <1>4, FS_CardinalityType

(* A response that is read was owed.                                         *)
LEMMA OwedOne ==
  ASSUME TypeOK, ResponsesAreCounted, Quiet, toClient # <<>>,
         Head(toClient).kind \in {"added", "removed"}
  PROVE  Head(toClient).q \in Query /\ outstanding[Head(toClient).q] > 0
<1> DEFINE q == Head(toClient).q
<1>1. /\ Head(toClient) \in Message /\ Head(toClient) = toClient[1] /\ 1 \in DOMAIN toClient
      /\ stream = "Open"
  BY QueueType DEF TypeOK, Quiet
<1>2. q \in Query
  BY <1>1, MessageType
<1>3. 1 \in Responses(q)
  BY <1>1 DEF Responses
<1>4. Cardinality(Responses(q)) # 0 /\ Cardinality(Responses(q)) \in Nat
  BY <1>2, <1>3, CountType, FS_EmptySet
<1>5. outstanding[q] = Cardinality(Requests(q)) + Cardinality(Responses(q))
  BY <1>1, <1>2 DEF ResponsesAreCounted
<1>6. Cardinality(Requests(q)) \in Nat
  BY <1>2, CountType
<1> HIDE DEF q
<1> QED BY <1>2, <1>4, <1>5, <1>6 DEF q

LEMMA SendType ==
  ASSUME TypeOK, NEW q \in Query, NEW known \in Version \cup {NoView}, Send(q, known)
  PROVE  /\ toServer' \in Seq(Request) /\ outstanding' \in [Query -> Nat]
         /\ UNCHANGED <<pending, marked, updates, toClient>>
<1>1. [q |-> q, known |-> known] \in Request
  BY DEF Request
<1> QED BY <1>1 DEF Send, TypeOK

(* TypeOK by the groups of variables that the actions leave alone.           *)
AppType ==
  /\ muted \subseteq Listener /\ inbox \in [Listener -> Seq(Event)]
  /\ told \in [Listener -> Event \cup {Silent}]
ViewsType ==
  /\ attached \subseteq Listener /\ raised \subseteq Listener
  /\ view \in [Query -> View \cup {NoView}] /\ cache \in [Query -> Version]
  /\ since \in [Query -> Version] /\ floor \in [Listener -> Version]
TrackerType ==
  online \in {"Unknown", "Online", "Offline"} /\ timer \in BOOLEAN /\ failed \in BOOLEAN
StreamType ==
  stream \in {"Initial", "Starting", "Backoff", "Open", "Error"} /\ idle \in BOOLEAN
AggregatorType ==
  /\ outstanding \in [Query -> Nat] /\ updates \in [Query -> Version]
  /\ pending \in [Query -> BOOLEAN] /\ marked \in [Query -> BOOLEAN]
ChannelType == toServer \in Seq(Request) /\ toClient \in Seq(Message)
BackendType == held \in [Query -> View \cup {NoView}] /\ dirty \in BOOLEAN

LEMMA TypeParts ==
  ASSUME TypeOK
  PROVE  /\ result \in [Query -> Version] /\ tasks \in Seq(Task)
         /\ AppType /\ ViewsType /\ TrackerType /\ StreamType
         /\ AggregatorType /\ ChannelType /\ BackendType
         /\ left \in BOOLEAN
<1>1. timer \in BOOLEAN /\ failed \in BOOLEAN /\ idle \in BOOLEAN
  BY DEF TypeOK
<1> QED BY <1>1, Zenon DEF TypeOK, AppType, ViewsType, TrackerType, StreamType,
           AggregatorType, ChannelType, BackendType

LEMMA TypeWhole ==
  ASSUME result' \in [Query -> Version], tasks' \in Seq(Task),
         AppType', ViewsType', TrackerType', StreamType',
         AggregatorType', ChannelType', BackendType',
         left' \in BOOLEAN
  PROVE  TypeOK'
<1>1. {timer', failed', idle'} \subseteq BOOLEAN
  BY DEF TrackerType, StreamType
<1> QED BY <1>1, Zenon DEF TypeOK, AppType, ViewsType, TrackerType, StreamType,
           AggregatorType, ChannelType, BackendType

LEMMA TypeFrames ==
  ASSUME TypeOK
  PROVE  /\ UNCHANGED app => AppType'
         /\ UNCHANGED views => ViewsType'
         /\ UNCHANGED tracker => TrackerType'
         /\ UNCHANGED <<stream, idle>> => StreamType'
         /\ UNCHANGED aggregator => AggregatorType'
         /\ UNCHANGED channel => ChannelType'
         /\ UNCHANGED backend => BackendType'
         /\ result' = result => result' \in [Query -> Version]
         /\ tasks' = tasks => tasks' \in Seq(Task)
         /\ left' = left => left' \in BOOLEAN
<1>0. /\ result \in [Query -> Version] /\ tasks \in Seq(Task)
      /\ AppType /\ ViewsType /\ TrackerType /\ StreamType
      /\ AggregatorType /\ ChannelType /\ BackendType
      /\ left \in BOOLEAN
  BY TypeParts
<1>1. UNCHANGED app => AppType'
  BY <1>0 DEF AppType, app
<1>2. UNCHANGED views => ViewsType'
  BY <1>0 DEF ViewsType, views
<1>3. UNCHANGED tracker => TrackerType'
  BY <1>0 DEF TrackerType, tracker
<1>4. UNCHANGED <<stream, idle>> => StreamType'
  BY <1>0 DEF StreamType
<1>5. UNCHANGED aggregator => AggregatorType'
  BY <1>0 DEF AggregatorType, aggregator
<1>6. UNCHANGED channel => ChannelType'
  BY <1>0 DEF ChannelType, channel
<1>7. UNCHANGED backend => BackendType'
  BY <1>0 DEF BackendType, backend
<1> QED BY <1>0, <1>1, <1>2, <1>3, <1>4, <1>5, <1>6, <1>7, Zenon

(* The tracker's steps.                                                      *)
LEMMA TrackerSteps ==
  ASSUME TypeOK,
         \/ UpdateState("Unknown") \/ UpdateState("Online") \/ HandleWatchStreamStart
         \/ UNCHANGED tracker
  PROVE  TrackerType'
<1>1. TrackerType
  BY DEF TypeOK, TrackerType
<1>2. UpdateState("Unknown") \/ UpdateState("Online") => TrackerType'
  BY DEF UpdateState, TrackerType
<1>3. HandleWatchStreamStart => TrackerType'
  <2>1. CASE failed
    BY <1>1, <2>1 DEF HandleWatchStreamStart, tracker, TrackerType
  <2>2. CASE ~failed
    BY <1>1, <2>2 DEF HandleWatchStreamStart, TrackerType
  <2> QED BY <2>1, <2>2
<1>4. UNCHANGED tracker => TrackerType'
  BY <1>1 DEF tracker, TrackerType
<1> QED BY <1>2, <1>3, <1>4

LEMMA RunTaskType ==
  ASSUME TypeOK, Paired, RunTask
  PROVE  TypeOK'
<1>1. /\ tasks # <<>> /\ Head(tasks) \in Task /\ tasks' \in Seq(Task)
  BY QueueType DEF RunTask, TypeOK
<1> DEFINE l == Head(tasks).l
           q == QueryOf[l]
<1>2. l \in Listener /\ q \in Query
  BY <1>1, QueryOfAssumption DEF Task
<1>3. Add(l) \/ Detach(l)
  BY DEF RunTask
<1>4. AppType /\ ViewsType /\ left \in BOOLEAN /\ StreamType /\ AggregatorType /\ ChannelType
  BY TypeParts
<1> HIDE DEF l, q
<1>5. CASE Add(l)
  <2>1. AppType' /\ ViewsType'
    <3>1. /\ attached' = attached \cup {l} /\ view' \in [Query -> View \cup {NoView}]
          /\ since' \in [Query -> Version] /\ floor' = [floor EXCEPT ![l] = since'[q]]
          /\ raised' \subseteq Listener /\ inbox' \in [Listener -> Seq(Event)]
      BY <1>2, <1>5, AddViews DEF q
    <3>2. UNCHANGED <<told, muted, cache>>
      BY <1>2, <1>5, AddStream
    <3>3. floor' \in [Listener -> Version]
      BY <1>2, <1>4, <3>1 DEF ViewsType
    <3> QED BY <1>2, <1>4, <3>1, <3>2, <3>3 DEF AppType, ViewsType
  <2>2. UNCHANGED <<result, backend, left>>
    BY <1>2, <1>5, AddStream
  <2>3. TrackerType' /\ StreamType' /\ AggregatorType' /\ ChannelType'
    <3>1. AddsQuietly(q) \/ AddsRequest(q) \/ AddsStream(q)
      BY <1>2, <1>5, AddStream DEF q
    <3>2. CASE AddsQuietly(q)
      BY <3>2, TypeFrames DEF AddsQuietly
    <3>3. CASE AddsRequest(q)
      <4>1. cache[q] \in Version
        BY <1>2 DEF TypeOK
      <4>2. AggregatorType' /\ ChannelType'
        BY <1>2, <1>4, <3>3, <4>1, SendType DEF AddsRequest, AggregatorType, ChannelType
      <4>3. UNCHANGED tracker /\ stream' = stream /\ idle' = FALSE
        BY <3>3 DEF AddsRequest
      <4>4. StreamType'
        BY <1>4, <4>3 DEF StreamType
      <4> QED BY <4>2, <4>3, <4>4, TypeFrames
    <3>4. CASE AddsStream(q)
      <4>1. TrackerType'
        BY <3>4, TrackerSteps DEF AddsStream, StartWatchStream
      <4>2. idle' = idle /\ stream' \in {"Backoff", "Starting"}
        BY <3>4 DEF AddsStream, StartWatchStream
      <4>3. StreamType'
        BY <1>4, <4>2 DEF StreamType
      <4> QED BY <3>4, <4>1, <4>3, TypeFrames DEF AddsStream
    <3> QED BY <3>1, <3>2, <3>3, <3>4
  <2>4. /\ result' \in [Query -> Version] /\ BackendType' /\ left' \in BOOLEAN
    BY <2>2, TypeFrames
  <2> QED BY <1>1, <2>1, <2>3, <2>4, TypeWhole
<1>6. CASE Detach(l)
  <2> DEFINE stays == \E k \in attached \ {l} : QueryOf[k] = q
  <2>1. /\ attached' = attached \ {l} /\ view' \in [Query -> View \cup {NoView}]
        /\ stays => UNCHANGED <<tracker, idle, aggregator, channel>>
        /\ ~stays => StopListening(q, Targets')
        /\ left' = (left \/ (Targets' = {} /\ stream # "Open"))
        /\ UNCHANGED <<result, app, raised, cache, since, floor, stream, backend>>
    BY <1>2, <1>6, DetachViews DEF q
  <2> HIDE DEF stays
  <2>2. ViewsType'
    BY <1>4, <2>1 DEF ViewsType
  <2>3. left' \in BOOLEAN
    BY <2>1
  <2>4. TrackerType' /\ StreamType' /\ AggregatorType' /\ ChannelType'
    <3>1. CASE stays
      BY <2>1, <3>1, TypeFrames
    <3>2. CASE ~stays
      <4>1. StopListening(q, Targets')
        BY <2>1, <3>2
      <4>2. TrackerType'
        BY <4>1, TrackerSteps DEF StopListening
      <4>3. idle' \in BOOLEAN /\ AggregatorType' /\ ChannelType'
        <5>1. CASE stream = "Open"
          <6>1. Send(q, NoView) /\ idle' = (Targets' = {})
            BY <4>1, <5>1 DEF StopListening
          <6>2. AggregatorType' /\ ChannelType'
            BY <1>2, <1>4, <6>1, SendType DEF AggregatorType, ChannelType
          <6> QED BY <6>1, <6>2
        <5>2. CASE stream # "Open"
          <6>1. UNCHANGED <<idle, aggregator, channel>>
            BY <4>1, <5>2 DEF StopListening
          <6>2. idle' \in BOOLEAN
            BY <1>4, <6>1 DEF StreamType
          <6> QED BY <6>1, <6>2, TypeFrames
        <5> QED BY <5>1, <5>2
      <4>4. StreamType'
        BY <1>4, <2>1, <4>3 DEF StreamType
      <4> QED BY <4>2, <4>3, <4>4
    <3> QED BY <3>1, <3>2
  <2>5. /\ result' \in [Query -> Version] /\ AppType' /\ BackendType'
    BY <2>1, TypeFrames
  <2> QED BY <1>1, <2>2, <2>3, <2>4, <2>5, TypeWhole
<1> QED BY <1>3, <1>5, <1>6

LEMMA ReadType ==
  ASSUME TypeOK, Paired, Quiet, ResponsesAreCounted, Read
  PROVE  TypeOK'
<1> DEFINE m == Head(toClient)
<1>1. /\ m \in Message /\ toClient # <<>> /\ toClient' \in Seq(Message)
      /\ m.kind \in {"added", "removed"} => m.q \in Query /\ outstanding[m.q] > 0
      /\ m.kind \in {"doc", "current"} => m.q \in Query
      /\ m.kind = "doc" => m.v \in Version
  <2>1. toClient # <<>> /\ toClient' = Tail(toClient)
    BY DEF Read
  <2>2. m \in Message /\ toClient' \in Seq(Message)
    BY <2>1, QueueType DEF TypeOK
  <2> QED BY <2>1, <2>2, OwedOne, MessageType
<1>2. /\ UNCHANGED <<result, tasks, muted, told, attached, since, floor, stream, idle,
                     toServer, backend, left>>
      /\ UpdateState("Online")
  BY DEF Read
<1>3. \/ m.kind \in {"added", "removed"} /\ ReadResponse(m)
      \/ m.kind = "doc" /\ ReadDoc(m)
      \/ m.kind = "current" /\ ReadCurrent(m)
      \/ m.kind = "snapshot" /\ ReadSnapshot
  BY DEF Read
<1>4. AppType /\ ViewsType /\ AggregatorType /\ ChannelType
  BY TypeParts
<1> HIDE DEF m
<1>5. /\ view' \in [Query -> View \cup {NoView}] /\ cache' \in [Query -> Version]
      /\ raised' \subseteq Listener /\ inbox' \in [Listener -> Seq(Event)]
  <2>1. CASE ReadSnapshot
    BY <2>1, SnapshotViews
  <2>2. CASE UNCHANGED <<view, cache, raised, inbox>>
    BY <1>4, <2>2 DEF AppType, ViewsType
  <2> QED BY <1>3, <2>1, <2>2 DEF ReadResponse, ReadDoc, ReadCurrent
<1>6. AggregatorType'
  <2>1. CASE m.kind \in {"added", "removed"} /\ ReadResponse(m)
    <3>1. m.q \in Query /\ outstanding[m.q] > 0 /\ outstanding[m.q] \in Nat
      BY <1>1, <1>4, <2>1 DEF AggregatorType
    <3>2. outstanding' = [outstanding EXCEPT ![m.q] = outstanding[m.q] - 1]
      BY <2>1 DEF ReadResponse
    <3>3. outstanding' \in [Query -> Nat]
      BY <1>4, <3>1, <3>2 DEF AggregatorType
    <3>4. updates' = updates
      BY <2>1 DEF ReadResponse
    <3>5. pending' \in [Query -> BOOLEAN]
      <4>1. pending' = pending \/ pending' = [pending EXCEPT ![m.q] = FALSE]
        BY <2>1 DEF ReadResponse
      <4> QED BY <1>4, <3>1, <4>1 DEF AggregatorType
    <3>6. marked' \in [Query -> BOOLEAN]
      <4>1. marked' = marked \/ marked' = [marked EXCEPT ![m.q] = FALSE]
        BY <2>1 DEF ReadResponse
      <4> QED BY <1>4, <3>1, <4>1 DEF AggregatorType
    <3> QED BY <1>4, <3>3, <3>4, <3>5, <3>6 DEF AggregatorType
  <2>2. CASE m.kind = "doc" /\ ReadDoc(m)
    <3>1. m.q \in Query /\ m.v \in Version
      BY <1>1, <2>2
    <3>2. updates' = updates \/ updates' = [updates EXCEPT ![m.q] = m.v]
      BY <2>2 DEF ReadDoc
    <3>3. pending' = pending \/ pending' = [pending EXCEPT ![m.q] = TRUE]
      BY <2>2 DEF ReadDoc
    <3>4. UNCHANGED <<outstanding, marked>>
      BY <2>2 DEF ReadDoc
    <3>5. updates' \in [Query -> Version]
      BY <1>4, <3>1, <3>2 DEF AggregatorType
    <3>6. pending' \in [Query -> BOOLEAN]
      BY <1>4, <3>1, <3>3 DEF AggregatorType
    <3> QED BY <1>4, <3>4, <3>5, <3>6 DEF AggregatorType
  <2>3. CASE m.kind = "current" /\ ReadCurrent(m)
    <3>1. m.q \in Query
      BY <1>1, <2>3
    <3>2. marked' = marked \/ marked' = [marked EXCEPT ![m.q] = TRUE]
      BY <2>3 DEF ReadCurrent
    <3>3. pending' = pending \/ pending' = [pending EXCEPT ![m.q] = TRUE]
      BY <2>3 DEF ReadCurrent
    <3>4. UNCHANGED <<outstanding, updates>>
      BY <2>3 DEF ReadCurrent
    <3>5. marked' \in [Query -> BOOLEAN]
      BY <1>4, <3>1, <3>2 DEF AggregatorType
    <3>6. pending' \in [Query -> BOOLEAN]
      BY <1>4, <3>1, <3>3 DEF AggregatorType
    <3> QED BY <1>4, <3>4, <3>5, <3>6 DEF AggregatorType
  <2>4. CASE ReadSnapshot
    <3>1. /\ updates' = Zero /\ pending' \in [Query -> BOOLEAN]
          /\ UNCHANGED <<outstanding, marked>>
      BY <2>4, SnapshotViews
    <3>2. updates' \in [Query -> Version]
      BY <3>1, VersionType DEF Zero
    <3> QED BY <1>4, <3>1, <3>2 DEF AggregatorType
  <2> QED BY <1>3, <2>1, <2>2, <2>3, <2>4
<1>7. AppType' /\ ViewsType'
  BY <1>2, <1>4, <1>5 DEF AppType, ViewsType
<1>8. TrackerType'
  BY <1>2, TrackerSteps
<1>9. ChannelType'
  BY <1>1, <1>2, <1>4 DEF ChannelType
<1>10. /\ result' \in [Query -> Version] /\ tasks' \in Seq(Task) /\ StreamType'
       /\ BackendType' /\ left' \in BOOLEAN
  BY <1>2, TypeFrames
<1> QED BY <1>6, <1>7, <1>8, <1>9, <1>10, TypeWhole

LEMMA ServeType ==
  ASSUME TypeOK, Serve
  PROVE  TypeOK'
<1>1. /\ UNCHANGED <<result, tasks, app, views, tracker, stream, idle, aggregator,
                     left>>
  BY DEF Serve, ServeRequest, ServeDoc, ServeCurrent, ServeSnapshot, Answers
<1>2. /\ ChannelType /\ BackendType /\ result \in [Query -> Version]
      /\ cache \in [Query -> Version]
  BY TypeParts DEF ViewsType
<1>3. CASE ServeRequest
  <2> DEFINE r == Head(toServer)
             k == IF r.known = NoView THEN "removed" ELSE "added"
  <2>1. r \in Request /\ toServer' \in Seq(Request)
    BY <1>2, <1>3, QueueType DEF ServeRequest, ChannelType
  <2>2. r.q \in Query /\ r.known \in Version \cup {NoView}
    BY <2>1 DEF Request
  <2>3. /\ held' = [held EXCEPT ![r.q] = IF r.known = NoView THEN NoView
                                         ELSE [doc |-> r.known, current |-> FALSE]]
        /\ toClient' = Append(toClient, [kind |-> k, q |-> r.q]) /\ dirty' = dirty
    BY <1>3 DEF ServeRequest, Answers
  <2>4. k \in {"added", "removed", "current"}
    OBVIOUS
  <2> HIDE DEF r, k
  <2>5. [kind |-> k, q |-> r.q] \in Message
    BY <2>2, <2>4 DEF Message
  <2>6. ChannelType'
    BY <1>2, <2>1, <2>3, <2>5 DEF ChannelType
  <2>7. r.known # NoView => [doc |-> r.known, current |-> FALSE] \in View
    BY <2>2, NewViewType
  <2>8. BackendType'
    BY <1>2, <2>2, <2>3, <2>7 DEF BackendType
  <2> QED BY <1>1, <2>6, <2>8, TypeFrames, TypeWhole
<1>4. ASSUME NEW q \in Query, ServeDoc(q) PROVE TypeOK'
  <2>1. /\ held[q] \in View /\ result[q] \in Version
        /\ held' = [held EXCEPT ![q] = [held[q] EXCEPT !.doc = result[q]]] /\ dirty' = TRUE
        /\ toClient' = Append(toClient, [kind |-> "doc", q |-> q, v |-> result[q]])
        /\ toServer' = toServer
    BY <1>2, <1>4 DEF ServeDoc, Answers, BackendType
  <2>2. [held[q] EXCEPT !.doc = result[q]] \in View
    BY <2>1 DEF View
  <2>3. [kind |-> "doc", q |-> q, v |-> result[q]] \in Message
    BY <2>1 DEF Message
  <2>4. ChannelType' /\ BackendType'
    BY <1>2, <2>1, <2>2, <2>3 DEF ChannelType, BackendType
  <2> QED BY <1>1, <2>4, TypeFrames, TypeWhole
<1>5. ASSUME NEW q \in Query, ServeCurrent(q) PROVE TypeOK'
  <2>1. /\ held[q] \in View /\ dirty' = TRUE
        /\ held' = [held EXCEPT ![q] = [doc |-> held[q].doc, current |-> TRUE]]
        /\ toClient' = Append(toClient, [kind |-> "current", q |-> q])
        /\ toServer' = toServer
    BY <1>2, <1>5 DEF ServeCurrent, Answers, BackendType
  <2>2. [doc |-> held[q].doc, current |-> TRUE] \in View
    BY <2>1, ViewType, NewViewType
  <2>3. [kind |-> "current", q |-> q] \in Message
    BY DEF Message
  <2>4. ChannelType' /\ BackendType'
    BY <1>2, <2>1, <2>2, <2>3 DEF ChannelType, BackendType
  <2> QED BY <1>1, <2>4, TypeFrames, TypeWhole
<1>6. CASE ServeSnapshot
  <2>1. /\ UNCHANGED <<toServer, held>> /\ dirty' = FALSE
        /\ toClient' = Append(toClient, [kind |-> "snapshot"])
    BY <1>6 DEF ServeSnapshot, Answers
  <2>2. [kind |-> "snapshot"] \in Message
    BY DEF Message
  <2>3. ChannelType'
    BY <1>2, <2>1, <2>2 DEF ChannelType
  <2>4. BackendType'
    BY <1>2, <2>1 DEF BackendType
  <2> QED BY <1>1, <2>3, <2>4, TypeFrames, TypeWhole
<1> QED BY <1>3, <1>4, <1>5, <1>6 DEF Serve

(* A stream that opens has one request for every target.                     *)
LEMMA OpeningRequests ==
  ASSUME TypeOK, StreamOpens
  PROVE  /\ toServer' \in Seq(Request)
         /\ \A i \in DOMAIN toServer' :
              toServer'[i].q \in Targets /\ toServer'[i].known = cache[toServer'[i].q]
         /\ \A q \in Targets : \E i \in DOMAIN toServer' : toServer'[i].q = q
         /\ \A i, j \in DOMAIN toServer' : toServer'[i].q = toServer'[j].q => i = j
<1> DEFINE f == [q \in Targets |-> [q |-> q, known |-> cache[q]]]
           S == {[q |-> q, known |-> cache[q]] : q \in Targets}
<1>1. Targets \subseteq Query /\ \A q \in Query : cache[q] \in Version
  BY DEF Targets, TypeOK
<1>2. IsFiniteSet(S)
  <2>1. f \in Surjection(Targets, S)
    BY DEF Surjection
  <2>2. IsFiniteSet(Targets)
    BY <1>1, QueryAssumption, FS_Subset
  <2> QED BY <2>1, <2>2, FS_Surjection
<1>3. toServer' = SetToSeq(S)
  BY DEF StreamOpens
<1>4. \A r \in S : r \in Request /\ r.q \in Targets /\ r.known = cache[r.q]
  BY <1>1 DEF Request
<1>5. ASSUME NEW q \in Targets PROVE \E r \in S : r.q = q
  <2> DEFINE r == [q |-> q, known |-> cache[q]]
  <2>1. r \in S /\ r.q = q
    OBVIOUS
  <2> HIDE DEF r, S
  <2> QED BY <2>1
<1>6. \A r, t \in S : r.q = t.q => r = t
  OBVIOUS
<1> HIDE DEF S
<1>7. /\ toServer' \in Seq(S)
      /\ \A x \in S : \E i \in DOMAIN toServer' : toServer'[i] = x
      /\ \A i, j \in DOMAIN toServer' : toServer'[i] = toServer'[j] => i = j
  BY <1>2, <1>3, EachOnce
<1>8. \A i \in DOMAIN toServer' : toServer'[i] \in S
  BY <1>7
<1>9. toServer' \in Seq(Request)
  <2>1. S \subseteq Request
    BY <1>4
  <2> QED BY <1>7, <2>1
<1>10. \A q \in Targets : \E i \in DOMAIN toServer' : toServer'[i].q = q
  BY <1>5, <1>7
<1>11. \A i, j \in DOMAIN toServer' : toServer'[i].q = toServer'[j].q => i = j
  BY <1>6, <1>7, <1>8
<1> QED BY <1>4, <1>8, <1>9, <1>10, <1>11

(* The app's calls and events.                                               *)
LEMMA AppSteps ==
  ASSUME TypeOK, NEW l \in Listener, Listens(l) \/ Removes(l) \/ RunEvent(l)
  PROVE  TypeOK'
<1>1. AppType /\ tasks \in Seq(Task)
  BY TypeParts
<1>2. [l |-> l, add |-> TRUE] \in Task /\ [l |-> l, add |-> FALSE] \in Task
  BY DEF Task
<1>3. UNCHANGED <<result, views, tracker, stream, idle, aggregator, channel, backend,
                  left>>
  BY DEF Listens, Removes, RunEvent
<1>4. tasks' \in Seq(Task) /\ AppType'
  <2>1. CASE Listens(l)
    BY <1>1, <1>2, <2>1 DEF Listens, AppType, app
  <2>2. CASE Removes(l)
    BY <1>1, <1>2, <2>2 DEF Removes, Unregister, Muted, AppType
  <2>3. CASE RunEvent(l)
    <3>1. /\ inbox[l] # <<>> /\ inbox[l] \in Seq(Event)
          /\ inbox' = [inbox EXCEPT ![l] = Tail(inbox[l])]
      BY <1>1, <2>3 DEF RunEvent, AppType
    <3>2. Head(inbox[l]) \in Event /\ Tail(inbox[l]) \in Seq(Event)
      BY <3>1, QueueType
    <3>3. inbox' \in [Listener -> Seq(Event)]
      BY <1>1, <3>1, <3>2 DEF AppType
    <3>4. told' = told \/ told' = [told EXCEPT ![l] = Head(inbox[l])]
      BY <2>3 DEF RunEvent
    <3>5. told' \in [Listener -> Event \cup {Silent}]
      BY <1>1, <3>2, <3>4 DEF AppType
    <3>6. /\ muted' = muted \/ muted' = muted \cup {l}
          /\ tasks' = tasks \/ tasks' = Append(tasks, [l |-> l, add |-> FALSE])
      BY <2>3 DEF RunEvent, Unregister, Muted
    <3>7. tasks' \in Seq(Task)
      BY <1>1, <1>2, <3>6
    <3> QED BY <1>1, <3>3, <3>5, <3>6, <3>7 DEF AppType
  <2> QED BY <2>1, <2>2, <2>3
<1> QED BY <1>3, <1>4, TypeFrames, TypeWhole

(* The timers and the stream's life.                                         *)
LEMMA StreamSteps ==
  ASSUME TypeOK, Paired,
         \/ TimerFires \/ BackoffElapses \/ StreamOpens \/ FailsSilent \/ FailsLive
         \/ IdleElapses \/ RestartNetwork
  PROVE  TypeOK'
<1>1. /\ AppType /\ ViewsType /\ TrackerType /\ StreamType /\ AggregatorType /\ ChannelType
      /\ BackendType
  BY TypeParts
<1>2. ASSUME GoOffline, UNCHANGED <<muted, told, attached, cache, since, floor>>
      PROVE  AppType' /\ ViewsType' /\ online' = "Offline"
  BY <1>1, <1>2, OfflineViews DEF AppType, ViewsType
<1>3. ASSUME NewChannel
      PROVE  AggregatorType' /\ ChannelType' /\ BackendType' /\ left' \in BOOLEAN
  BY <1>3, NewChannelType DEF AggregatorType, ChannelType, BackendType
<1>4. CASE TimerFires
  <2>1. AppType' /\ ViewsType' /\ online' = "Offline"
    BY <1>2, <1>4 DEF TimerFires
  <2>2. timer' = FALSE /\ failed' = failed
    BY <1>4 DEF TimerFires
  <2>3. TrackerType'
    BY <1>1, <2>1, <2>2 DEF TrackerType
  <2>4. UNCHANGED <<result, tasks, stream, idle, aggregator, channel, backend, left>>
    BY <1>4 DEF TimerFires
  <2> QED BY <2>1, <2>3, <2>4, TypeFrames, TypeWhole
<1>5. CASE BackoffElapses
  <2>1. stream' = "Starting" /\ idle' = idle
    BY <1>5 DEF BackoffElapses
  <2>2. StreamType'
    BY <1>1, <2>1 DEF StreamType
  <2>3. UNCHANGED <<result, tasks, app, views, tracker, aggregator, channel, backend,
                    left>>
    BY <1>5 DEF BackoffElapses
  <2> QED BY <2>2, <2>3, TypeFrames, TypeWhole
<1>6. CASE StreamOpens
  <2>1. stream' = "Open" /\ idle' = idle
    BY <1>6 DEF StreamOpens
  <2>2. StreamType'
    BY <1>1, <2>1 DEF StreamType
  <2>3. outstanding' \in [Query -> Nat] /\ UNCHANGED <<pending, marked, updates, toClient>>
    BY <1>6 DEF StreamOpens
  <2>4. AggregatorType' /\ ChannelType'
    BY <1>1, <1>6, <2>3, OpeningRequests DEF AggregatorType, ChannelType
  <2>5. UNCHANGED <<result, tasks, app, views, tracker, backend, left>>
    BY <1>6 DEF StreamOpens
  <2> QED BY <2>2, <2>4, <2>5, TypeFrames, TypeWhole
<1>7. CASE FailsSilent \/ FailsLive
  <2>1. StreamFails
    BY <1>7 DEF FailsSilent, FailsLive
  <2>2. /\ UNCHANGED <<result, tasks, muted, told, attached, cache, since, floor>>
        /\ NewChannel /\ idle' = FALSE
    BY <2>1 DEF StreamFails
  <2>3. stream' \in {"Error", "Backoff"}
    BY <2>1 DEF StreamFails
  <2>4. AppType' /\ ViewsType' /\ TrackerType'
    <3>1. CASE UpdateState("Unknown") /\ UNCHANGED <<view, raised, inbox>>
      <4>1. TrackerType'
        BY <3>1, TrackerSteps
      <4> QED BY <1>1, <2>2, <3>1, <4>1 DEF AppType, ViewsType
    <3>2. CASE /\ online' = "Unknown" /\ timer' = TRUE
               /\ UNCHANGED <<failed, view, raised, inbox>>
      <4>1. TrackerType'
        BY <1>1, <3>2 DEF TrackerType
      <4> QED BY <1>1, <2>2, <3>2, <4>1 DEF AppType, ViewsType
    <3>3. CASE failed' = TRUE /\ timer' = FALSE /\ GoOffline
      <4>1. AppType' /\ ViewsType' /\ online' = "Offline"
        BY <1>2, <2>2, <3>3
      <4> QED BY <3>3, <4>1 DEF TrackerType
    <3> QED BY <2>1, <3>1, <3>2, <3>3 DEF StreamFails
  <2>5. StreamType'
    BY <2>2, <2>3 DEF StreamType
  <2> QED BY <1>3, <2>1, <2>2, <2>4, <2>5, TypeFrames, TypeWhole
<1>8. CASE IdleElapses
  <2>1. /\ idle' = FALSE /\ stream' = "Initial" /\ NewChannel /\ UpdateState("Unknown")
        /\ UNCHANGED <<result, tasks, app, views>>
    BY <1>8 DEF IdleElapses
  <2>2. StreamType'
    BY <2>1 DEF StreamType
  <2>3. TrackerType'
    BY <2>1, TrackerSteps
  <2> QED BY <1>3, <2>1, <2>2, <2>3, TypeFrames, TypeWhole
<1>9. CASE RestartNetwork
  <2>1. /\ NewChannel /\ idle' = FALSE
        /\ UNCHANGED <<result, tasks, app, views>>
    BY <1>9 DEF RestartNetwork
  <2>2. \/ stream' = "Initial" /\ UpdateState("Unknown")
        \/ stream' = "Starting" /\ online' = "Unknown" /\ timer' = TRUE /\ failed' = FALSE
    BY <1>9 DEF RestartNetwork
  <2>3. StreamType'
    BY <2>1, <2>2 DEF StreamType
  <2>4. TrackerType'
    <3>1. CASE UpdateState("Unknown")
      BY <3>1, TrackerSteps
    <3>2. CASE online' = "Unknown" /\ timer' = TRUE /\ failed' = FALSE
      BY <3>2 DEF TrackerType
    <3> QED BY <2>2, <3>1, <3>2
  <2> QED BY <1>3, <2>1, <2>3, <2>4, TypeFrames, TypeWhole
<1> QED BY <1>4, <1>5, <1>6, <1>7, <1>8, <1>9

LEMMA TypeStep ==
  ASSUME TypeOK, Paired, Quiet, ResponsesAreCounted, [Next]_vars
  PROVE  TypeOK'
<1>1. ASSUME NEW q \in Query, Change(q) PROVE TypeOK'
  <2>1. /\ result' = [result EXCEPT ![q] = result[q] + 1] /\ result[q] < MaxVersion
        /\ UNCHANGED <<tasks, app, views, tracker, stream, idle, aggregator, channel,
                       backend, left>>
    BY <1>1 DEF Change
  <2>2. result \in [Query -> Version]
    BY TypeParts
  <2>3. result[q] + 1 \in Version
    BY <2>1, <2>2, MaxVersionAssumption DEF Version
  <2>4. result' \in [Query -> Version]
    BY <2>1, <2>2, <2>3
  <2> QED BY <2>1, <2>4, TypeFrames, TypeWhole
<1>2. CASE UNCHANGED vars
  <2>1. UNCHANGED <<result, tasks, app, views, tracker, stream, idle, aggregator, channel,
                    backend, left>>
    BY <1>2 DEF vars
  <2> QED BY <2>1, TypeFrames, TypeWhole
<1> QED BY <1>1, <1>2, AppSteps, RunTaskType, StreamSteps, ReadType, ServeType DEF Next

-----------------------------------------------------------------------------
(* What is owed for a target is on its way.                                  *)
Response(m, q) == m.kind \in {"added", "removed"} /\ m.q = q

LEMMA AppendFacts ==
  ASSUME NEW S, NEW s \in Seq(S), NEW e \in S
  PROVE  /\ Append(s, e) \in Seq(S) /\ Len(s) \in Nat /\ DOMAIN s = 1 .. Len(s)
         /\ Len(Append(s, e)) = Len(s) + 1 /\ DOMAIN Append(s, e) = 1 .. Len(s) + 1
         /\ \A i \in 1 .. Len(s) : Append(s, e)[i] = s[i]
         /\ Append(s, e)[Len(s) + 1] = e
  OBVIOUS

LEMMA RequestsAppend ==
  ASSUME TypeOK, NEW r \in Request, toServer' = Append(toServer, r), NEW q \in Query
  PROVE  Cardinality(Requests(q)') = Cardinality(Requests(q)) + (IF r.q = q THEN 1 ELSE 0)
<1> DEFINE n == Len(toServer)
<1>1. /\ n \in Nat /\ DOMAIN toServer = 1 .. n /\ DOMAIN toServer' = 1 .. n + 1
      /\ \A i \in 1 .. n : toServer'[i] = toServer[i]
      /\ toServer'[n + 1] = r
  BY AppendFacts DEF TypeOK
<1> HIDE DEF n
<1>2. /\ Requests(q) \in SUBSET (1 .. n) /\ Requests(q)' \in SUBSET (1 .. n + 1)
      /\ \A i \in 1 .. n : i \in Requests(q)' <=> i \in Requests(q)
      /\ n + 1 \in Requests(q)' <=> r.q = q
  <2>1. n + 1 \in 1 .. n + 1 /\ \A i \in 1 .. n : i \in 1 .. n + 1
    BY <1>1
  <2> QED BY <1>1, <2>1 DEF Requests
<1>3. Cardinality(Requests(q)') =
        Cardinality(Requests(q)) + (IF n + 1 \in Requests(q)' THEN 1 ELSE 0)
  BY <1>1, <1>2, CountAppend
<1> QED BY <1>2, <1>3

LEMMA RequestsTail ==
  ASSUME TypeOK, toServer # <<>>, toServer' = Tail(toServer), NEW q \in Query
  PROVE  /\ Cardinality(Requests(q)') \in Nat
         /\ Cardinality(Requests(q)) =
              Cardinality(Requests(q)') + (IF Head(toServer).q = q THEN 1 ELSE 0)
<1> DEFINE n == Len(toServer)
<1>1. /\ n \in Nat \ {0} /\ DOMAIN toServer = 1 .. n /\ DOMAIN toServer' = 1 .. n - 1
      /\ \A i \in 1 .. n - 1 : toServer'[i] = toServer[i + 1]
      /\ Head(toServer) = toServer[1]
  BY QueueType DEF TypeOK
<1> HIDE DEF n
<1>2. /\ Requests(q) \in SUBSET (1 .. n) /\ Requests(q)' \in SUBSET (1 .. n - 1)
      /\ \A i \in 1 .. n - 1 : i \in Requests(q)' <=> i + 1 \in Requests(q)
      /\ 1 \in Requests(q) <=> Head(toServer).q = q
  <2>1. 1 \in 1 .. n /\ \A i \in 1 .. n - 1 : i + 1 \in 1 .. n
    BY <1>1
  <2> QED BY <1>1, <2>1 DEF Requests
<1>3. /\ Cardinality(Requests(q)') \in Nat
      /\ Cardinality(Requests(q)) =
           Cardinality(Requests(q)') + (IF 1 \in Requests(q) THEN 1 ELSE 0)
  BY <1>1, <1>2, CountTail
<1> QED BY <1>2, <1>3

LEMMA ResponsesAppend ==
  ASSUME TypeOK, NEW m \in Message, toClient' = Append(toClient, m), NEW q \in Query
  PROVE  Cardinality(Responses(q)') =
           Cardinality(Responses(q)) + (IF Response(m, q) THEN 1 ELSE 0)
<1> DEFINE n == Len(toClient)
<1>1. /\ n \in Nat /\ DOMAIN toClient = 1 .. n /\ DOMAIN toClient' = 1 .. n + 1
      /\ \A i \in 1 .. n : toClient'[i] = toClient[i]
      /\ toClient'[n + 1] = m
  BY AppendFacts DEF TypeOK
<1> HIDE DEF n
<1>2. /\ Responses(q) \in SUBSET (1 .. n) /\ Responses(q)' \in SUBSET (1 .. n + 1)
      /\ \A i \in 1 .. n : i \in Responses(q)' <=> i \in Responses(q)
      /\ n + 1 \in Responses(q)' <=> Response(m, q)
  <2>1. n + 1 \in 1 .. n + 1 /\ \A i \in 1 .. n : i \in 1 .. n + 1
    BY <1>1
  <2> QED BY <1>1, <2>1 DEF Responses, Response
<1>3. Cardinality(Responses(q)') =
        Cardinality(Responses(q)) + (IF n + 1 \in Responses(q)' THEN 1 ELSE 0)
  BY <1>1, <1>2, CountAppend
<1> QED BY <1>2, <1>3

LEMMA ResponsesTail ==
  ASSUME TypeOK, toClient # <<>>, toClient' = Tail(toClient), NEW q \in Query
  PROVE  /\ Cardinality(Responses(q)') \in Nat
         /\ Cardinality(Responses(q)) =
              Cardinality(Responses(q)') + (IF Response(Head(toClient), q) THEN 1 ELSE 0)
<1> DEFINE n == Len(toClient)
<1>1. /\ n \in Nat \ {0} /\ DOMAIN toClient = 1 .. n /\ DOMAIN toClient' = 1 .. n - 1
      /\ \A i \in 1 .. n - 1 : toClient'[i] = toClient[i + 1]
      /\ Head(toClient) = toClient[1]
  BY QueueType DEF TypeOK
<1> HIDE DEF n
<1>2. /\ Responses(q) \in SUBSET (1 .. n) /\ Responses(q)' \in SUBSET (1 .. n - 1)
      /\ \A i \in 1 .. n - 1 : i \in Responses(q)' <=> i + 1 \in Responses(q)
      /\ 1 \in Responses(q) <=> Response(Head(toClient), q)
  <2>1. 1 \in 1 .. n /\ \A i \in 1 .. n - 1 : i + 1 \in 1 .. n
    BY <1>1
  <2> QED BY <1>1, <2>1 DEF Responses, Response
<1>3. /\ Cardinality(Responses(q)') \in Nat
      /\ Cardinality(Responses(q)) =
           Cardinality(Responses(q)') + (IF 1 \in Responses(q) THEN 1 ELSE 0)
  BY <1>1, <1>2, CountTail
<1> QED BY <1>2, <1>3

(* What a step does to the channel, and to the targets it is about.          *)
Kept ==
  UNCHANGED <<aggregator, channel, backend>> /\ (stream' = "Open" <=> stream = "Open")
Rests == Kept /\ (stream = "Open" => since' = since /\ Targets' \subseteq Targets)
Renewed == NewChannel /\ stream' # "Open"
Sends(q, known) ==
  stream = "Open" /\ stream' = "Open" /\ Send(q, known) /\ UNCHANGED backend
Watches(q) ==
  /\ Sends(q, cache[q]) /\ Targets' = Targets \cup {q}
  /\ \A p \in Query \ {q} : since'[p] = since[p]
Unwatches(q) == Sends(q, NoView) /\ Targets' = Targets \ {q} /\ since' = since

(* A task is about one listener.                                             *)
LEMMA TaskListener ==
  ASSUME TypeOK, RunTask
  PROVE  Head(tasks).l \in Listener /\ (Add(Head(tasks).l) \/ Detach(Head(tasks).l))
<1>1. Head(tasks) \in Task
  BY QueueType DEF RunTask, TypeOK
<1> QED BY <1>1 DEF RunTask, Task

LEMMA TaskOnChannel ==
  ASSUME TypeOK, Paired, RunTask
  PROVE  /\ UNCHANGED <<result, cache>>
         /\ Rests \/ \E q \in Query : Watches(q) \/ Unwatches(q)
<1> DEFINE l == Head(tasks).l
           q == QueryOf[l]
<1>1. l \in Listener /\ q \in Query /\ (Add(l) \/ Detach(l))
  BY TaskListener, QueryOfAssumption
<1> HIDE DEF l, q
<1>2. CASE Add(l)
  <2>1. /\ AddsQuietly(q) \/ AddsRequest(q) \/ AddsStream(q)
        /\ UNCHANGED <<result, cache, backend>>
    BY <1>1, <1>2, AddStream DEF q
  <2>2. /\ Targets' = Targets \cup {q} /\ \A p \in Query \ {q} : since'[p] = since[p]
        /\ q \in Targets => since'[q] = since[q]
        /\ since' \in [Query -> Version]
    <3>1. Targets' = Targets \cup {QueryOf[l]} /\ since' \in [Query -> Version]
      BY <1>1, <1>2, AddViews
    <3>2. \A p \in Query \ {QueryOf[l]} : since'[p] = since[p]
      <4>1. \A p \in Query \ {QueryOf[l]} : view'[p] = view[p] /\ since'[p] = since[p]
        BY <1>1, <1>2, AddViews
      <4> QED BY <4>1
    <3>3. QueryOf[l] \in Targets => since'[QueryOf[l]] = since[QueryOf[l]]
      BY <1>1, <1>2, AddViews
    <3> QED BY <3>1, <3>2, <3>3 DEF q
  <2>3. CASE AddsQuietly(q)
    <3>1. Kept
      BY <2>1, <2>3 DEF AddsQuietly, Kept
    <3>2. ASSUME stream = "Open" PROVE since' = since /\ Targets' \subseteq Targets
      <4>1. q \in Targets
        BY <2>3, <3>2 DEF AddsQuietly
      <4>2. since \in [Query -> Version]
        BY DEF TypeOK
      <4> QED BY <2>2, <4>1, <4>2
    <3> QED BY <2>1, <3>1, <3>2 DEF Rests
  <2>4. CASE AddsRequest(q)
    <3>1. Sends(q, cache[q])
      BY <2>1, <2>4 DEF AddsRequest, Sends
    <3> QED BY <1>1, <2>1, <2>2, <3>1 DEF Watches
  <2>5. CASE AddsStream(q)
    BY <2>1, <2>5 DEF AddsStream, StartWatchStream, Kept, Rests
  <2> QED BY <2>1, <2>3, <2>4, <2>5
<1>3. CASE Detach(l)
  <2> DEFINE stays == \E k \in attached \ {l} : QueryOf[k] = q
  <2>1. /\ UNCHANGED <<result, cache, since, stream, backend>>
        /\ stays => UNCHANGED <<aggregator, channel>> /\ Targets' = Targets
        /\ ~stays => StopListening(q, Targets') /\ Targets' = Targets \ {q}
    BY <1>1, <1>3, DetachViews DEF q
  <2> HIDE DEF stays
  <2>2. \/ UNCHANGED <<aggregator, channel>> /\ Targets' \subseteq Targets
        \/ stream = "Open" /\ Send(q, NoView) /\ Targets' = Targets \ {q}
    BY <2>1 DEF StopListening
  <2>3. UNCHANGED <<aggregator, channel>> /\ Targets' \subseteq Targets => Rests
    BY <2>1 DEF Kept, Rests
  <2>4. stream = "Open" /\ Send(q, NoView) /\ Targets' = Targets \ {q} => Unwatches(q)
    BY <2>1 DEF Sends, Unwatches
  <2> QED BY <1>1, <2>1, <2>2, <2>3, <2>4
<1> QED BY <1>1, <1>2, <1>3

LEMMA ChannelSteps ==
  ASSUME TypeOK, Paired, [Next]_vars
  PROVE  \/ Read
         \/ /\ cache' = cache
            /\ \/ Rests \/ Renewed \/ StreamOpens \/ Serve
               \/ \E q \in Query : Watches(q) \/ Unwatches(q)
<1>0. view' = view => Targets' = Targets
  BY DEF Targets
<1>1. ASSUME NEW q \in Query, Change(q) PROVE Rests /\ cache' = cache
  BY <1>0, <1>1 DEF Change, Kept, Rests, views
<1>2. ASSUME NEW l \in Listener, Listens(l) \/ Removes(l) \/ RunEvent(l)
      PROVE  Rests /\ cache' = cache
  BY <1>0, <1>2 DEF Listens, Removes, RunEvent, Kept, Rests, views
<1>3. CASE TimerFires
  <2>1. Targets' = Targets
    BY <1>3, OfflineViews DEF TimerFires
  <2> QED BY <1>3, <2>1 DEF TimerFires, Kept, Rests
<1>4. CASE BackoffElapses
  BY <1>0, <1>4 DEF BackoffElapses, Kept, Rests, views
<1>5. CASE FailsSilent \/ FailsLive \/ IdleElapses \/ RestartNetwork
  BY <1>5 DEF FailsSilent, FailsLive, StreamFails, IdleElapses, RestartNetwork, Renewed, views
<1>6. CASE UNCHANGED vars
  BY <1>0, <1>6 DEF vars, Kept, Rests, views
<1>7. StreamOpens => cache' = cache
  BY DEF StreamOpens, views
<1>8. Serve => cache' = cache
  BY DEF Serve, ServeRequest, ServeDoc, ServeCurrent, ServeSnapshot, Answers, views
<1> QED BY <1>1, <1>2, <1>3, <1>4, <1>5, <1>6, <1>7, <1>8, TaskOnChannel DEF Next

(* A response is owed for every request until it is read.                    *)
LEMMA CountStep ==
  ASSUME TypeOK, Paired, Quiet, ResponsesAreCounted, [Next]_vars
  PROVE  Quiet' /\ ResponsesAreCounted'
<1> USE DEF Quiet
<1>0. ASSUME NEW q \in Query
      PROVE  /\ Cardinality(Requests(q)) \in Nat /\ Cardinality(Responses(q)) \in Nat
             /\ outstanding[q] \in Nat
  BY CountType DEF TypeOK
<1>1. CASE Rests
  <2>1. UNCHANGED <<outstanding, toServer, toClient>> /\ (stream' = "Open" <=> stream = "Open")
    BY <1>1 DEF Rests, Kept, channel, aggregator
  <2> QED BY <2>1 DEF ResponsesAreCounted, Requests, Responses
<1>2. CASE Renewed
  BY <1>2 DEF Renewed, NewChannel, ResponsesAreCounted
<1>3. CASE StreamOpens
  <2>1. stream' = "Open" /\ toClient' = <<>> /\ \A q \in Query : Responses(q)' = {}
    BY <1>3 DEF StreamOpens, Responses
  <2>2. outstanding' = [q \in Query |-> IF q \in Targets THEN 1 ELSE 0]
    BY <1>3 DEF StreamOpens
  <2>3. \A q \in Query : Cardinality(Responses(q)') = 0
    BY <2>1, FS_EmptySet
  <2>4. ASSUME NEW q \in Query
        PROVE  Cardinality(Requests(q)') = IF q \in Targets THEN 1 ELSE 0
    <3>1. CASE q \in Targets
      <4>1. PICK i \in DOMAIN toServer' : toServer'[i].q = q
        BY <1>3, <3>1, OpeningRequests
      <4>2. Requests(q)' = {i}
        BY <1>3, <4>1, OpeningRequests DEF Requests
      <4> QED BY <3>1, <4>2, FS_Singleton
    <3>2. CASE q \notin Targets
      <4>1. Requests(q)' = {}
        BY <1>3, <3>2, OpeningRequests DEF Requests
      <4> QED BY <3>2, <4>1, FS_EmptySet
    <3> QED BY <3>1, <3>2
  <2> QED BY <2>1, <2>2, <2>3, <2>4 DEF ResponsesAreCounted
<1>4. ASSUME NEW p \in Query, Watches(p) \/ Unwatches(p)
      PROVE  Quiet' /\ ResponsesAreCounted'
  <2>0. PICK known \in Version \cup {NoView} : Sends(p, known)
    BY <1>4 DEF Watches, Unwatches, TypeOK
  <2> DEFINE r == [q |-> p, known |-> known]
  <2>1. /\ r \in Request /\ r.q = p /\ toServer' = Append(toServer, r)
        /\ stream = "Open" /\ stream' = "Open" /\ toClient' = toClient
        /\ outstanding' = [outstanding EXCEPT ![p] = outstanding[p] + 1]
        /\ outstanding \in [Query -> Nat]
    BY <2>0 DEF Sends, Send, Request, TypeOK
  <2> HIDE DEF r
  <2>2. ASSUME NEW q \in Query
        PROVE  outstanding'[q] = Cardinality(Requests(q)') + Cardinality(Responses(q)')
    <3>1. Responses(q)' = Responses(q)
      BY <2>1 DEF Responses
    <3>2. Cardinality(Requests(q)') = Cardinality(Requests(q)) + (IF r.q = q THEN 1 ELSE 0)
      BY <2>1, RequestsAppend
    <3>3. outstanding[q] = Cardinality(Requests(q)) + Cardinality(Responses(q))
      BY <2>1 DEF ResponsesAreCounted
    <3>4. outstanding'[q] = outstanding[q] + (IF r.q = q THEN 1 ELSE 0)
      <4>1. CASE q = p
        BY <2>1, <4>1
      <4>2. CASE q # p
        BY <2>1, <4>2
      <4> QED BY <4>1, <4>2
    <3> HIDE DEF r
    <3>5. CASE r.q = q
      BY <1>0, <3>1, <3>2, <3>3, <3>4, <3>5
    <3>6. CASE r.q # q
      BY <1>0, <3>1, <3>2, <3>3, <3>4, <3>6
    <3> QED BY <3>5, <3>6
  <2> QED BY <2>1, <2>2 DEF ResponsesAreCounted
<1>5. CASE Read
  <2> DEFINE m == Head(toClient)
  <2>1. /\ toClient # <<>> /\ toClient' = Tail(toClient) /\ toServer' = toServer
        /\ stream = "Open" /\ stream' = "Open"
    BY <1>5 DEF Read
  <2>2. outstanding' = IF m.kind \in {"added", "removed"}
                       THEN [outstanding EXCEPT ![m.q] = outstanding[m.q] - 1] ELSE outstanding
    BY <1>5 DEF Read, ReadResponse, ReadDoc, ReadCurrent, ReadSnapshot
  <2>3. outstanding \in [Query -> Nat]
    BY DEF TypeOK
  <2> HIDE DEF m
  <2>4. ASSUME NEW q \in Query
        PROVE  outstanding'[q] = Cardinality(Requests(q)') + Cardinality(Responses(q)')
    <3>1. Requests(q)' = Requests(q)
      BY <2>1 DEF Requests
    <3>2. /\ Cardinality(Responses(q)') \in Nat
          /\ Cardinality(Responses(q)) =
               Cardinality(Responses(q)') + (IF Response(m, q) THEN 1 ELSE 0)
      BY <2>1, ResponsesTail DEF m
    <3>3. outstanding[q] = Cardinality(Requests(q)) + Cardinality(Responses(q))
      BY <2>1 DEF ResponsesAreCounted
    <3>4. outstanding'[q] = IF Response(m, q) THEN outstanding[q] - 1 ELSE outstanding[q]
      BY <2>2, <2>3 DEF Response
    <3>5. CASE Response(m, q)
      BY <1>0, <3>1, <3>2, <3>3, <3>4, <3>5
    <3>6. CASE ~Response(m, q)
      BY <1>0, <3>1, <3>2, <3>3, <3>4, <3>6
    <3> QED BY <3>5, <3>6
  <2> QED BY <2>1, <2>4 DEF ResponsesAreCounted
<1>6. CASE Serve
  <2>1. stream = "Open" /\ stream' = "Open" /\ outstanding' = outstanding
    BY <1>6 DEF Serve, ServeRequest, ServeDoc, ServeCurrent, ServeSnapshot, Answers, aggregator
  <2>2. ASSUME NEW m \in Message, NEW q \in Query, toClient' = Append(toClient, m),
               ~Response(m, q), toServer' = toServer
        PROVE  outstanding'[q] = Cardinality(Requests(q)') + Cardinality(Responses(q)')
    <3>1. Requests(q)' = Requests(q)
      BY <2>2 DEF Requests
    <3>2. Cardinality(Responses(q)') = Cardinality(Responses(q)) + 0
      BY <2>2, ResponsesAppend
    <3> QED BY <1>0, <2>1, <3>1, <3>2 DEF ResponsesAreCounted
  <2>3. CASE ServeRequest
    <3> DEFINE r == Head(toServer)
               m == [kind |-> IF r.known = NoView THEN "removed" ELSE "added", q |-> r.q]
    <3>1. /\ toServer # <<>> /\ toServer' = Tail(toServer) /\ toClient' = Append(toClient, m)
          /\ r \in Request
      BY <2>3, QueueType DEF ServeRequest, Answers, TypeOK
    <3>2. m \in Message /\ m.kind \in {"added", "removed"} /\ m.q = r.q
      BY <3>1 DEF Message, Request
    <3> HIDE DEF m, r
    <3>3. ASSUME NEW q \in Query
          PROVE  outstanding'[q] = Cardinality(Requests(q)') + Cardinality(Responses(q)')
      <4>1. /\ Cardinality(Requests(q)') \in Nat
            /\ Cardinality(Requests(q)) =
                 Cardinality(Requests(q)') + (IF r.q = q THEN 1 ELSE 0)
        BY <3>1, RequestsTail DEF r
      <4>2. Cardinality(Responses(q)') =
              Cardinality(Responses(q)) + (IF Response(m, q) THEN 1 ELSE 0)
        BY <3>1, <3>2, ResponsesAppend
      <4>3. outstanding[q] = Cardinality(Requests(q)) + Cardinality(Responses(q))
        BY <2>1 DEF ResponsesAreCounted
      <4>4. Response(m, q) <=> r.q = q
        BY <3>2 DEF Response
      <4>5. CASE r.q = q
        BY <1>0, <2>1, <4>1, <4>2, <4>3, <4>4, <4>5
      <4>6. CASE r.q # q
        BY <1>0, <2>1, <4>1, <4>2, <4>3, <4>4, <4>6
      <4> QED BY <4>5, <4>6
    <3> QED BY <2>1, <3>3 DEF ResponsesAreCounted
  <2>4. ASSUME NEW p \in Query, ServeDoc(p) PROVE Quiet' /\ ResponsesAreCounted'
    <3> DEFINE m == [kind |-> "doc", q |-> p, v |-> result[p]]
    <3>1. toServer' = toServer /\ toClient' = Append(toClient, m) /\ result[p] \in Version
      BY <2>4 DEF ServeDoc, Answers, TypeOK
    <3>2. m \in Message /\ \A q : ~Response(m, q)
      BY <3>1 DEF Message, Response
    <3> HIDE DEF m
    <3> QED BY <2>1, <2>2, <3>1, <3>2 DEF ResponsesAreCounted
  <2>5. ASSUME NEW p \in Query, ServeCurrent(p) PROVE Quiet' /\ ResponsesAreCounted'
    <3> DEFINE m == [kind |-> "current", q |-> p]
    <3>1. toServer' = toServer /\ toClient' = Append(toClient, m)
      BY <2>5 DEF ServeCurrent, Answers
    <3>2. m \in Message /\ \A q : ~Response(m, q)
      BY DEF Message, Response
    <3> HIDE DEF m
    <3> QED BY <2>1, <2>2, <3>1, <3>2 DEF ResponsesAreCounted
  <2>6. CASE ServeSnapshot
    <3> DEFINE m == [kind |-> "snapshot"]
    <3>1. toServer' = toServer /\ toClient' = Append(toClient, m)
      BY <2>6 DEF ServeSnapshot, Answers
    <3>2. m \in Message /\ \A q : ~Response(m, q)
      BY DEF Message, Response
    <3> HIDE DEF m
    <3> QED BY <2>1, <2>2, <3>1, <3>2 DEF ResponsesAreCounted
  <2> QED BY <1>6, <2>3, <2>4, <2>5, <2>6 DEF Serve
<1> QED BY <1>1, <1>2, <1>3, <1>4, <1>5, <1>6, ChannelSteps

-----------------------------------------------------------------------------
(* What a step does to the views and their listeners.                        *)
LEMMA ViewSteps ==
  ASSUME TypeOK, [Next]_vars
  PROVE  \/ UNCHANGED views
         \/ GoOffline /\ UNCHANGED <<attached, cache, since, floor>>
         \/ Read /\ ReadSnapshot
         \/ RunTask /\ \E l \in Listener : l = Head(tasks).l /\ (Add(l) \/ Detach(l))
<1>1. ASSUME NEW q \in Query, Change(q) PROVE UNCHANGED views
  BY <1>1 DEF Change
<1>2. ASSUME NEW l \in Listener, Listens(l) \/ Removes(l) \/ RunEvent(l) PROVE UNCHANGED views
  BY <1>2 DEF Listens, Removes, RunEvent
<1>3. CASE BackoffElapses \/ StreamOpens \/ IdleElapses \/ RestartNetwork \/ Serve
  BY <1>3 DEF BackoffElapses, StreamOpens, IdleElapses, RestartNetwork, Serve,
     ServeRequest, ServeDoc, ServeCurrent, ServeSnapshot, Answers
<1>4. CASE TimerFires
  BY <1>4 DEF TimerFires
<1>5. CASE FailsSilent \/ FailsLive
  <2>1. StreamFails
    BY <1>5 DEF FailsSilent, FailsLive
  <2>2. (GoOffline \/ UNCHANGED <<view, raised>>) /\ UNCHANGED <<attached, cache, since, floor>>
    BY <2>1 DEF StreamFails
  <2> QED BY <2>2 DEF views
<1>6. CASE Read
  <2>1. UNCHANGED <<attached, since, floor>>
    BY <1>6 DEF Read
  <2>2. ReadSnapshot \/ UNCHANGED <<view, cache, raised>>
    BY <1>6 DEF Read, ReadResponse, ReadDoc, ReadCurrent
  <2> QED BY <1>6, <2>1, <2>2 DEF views
<1>7. CASE RunTask
  BY <1>7, TaskListener
<1>8. UNCHANGED vars => UNCHANGED views
  BY DEF vars
<1> QED BY <1>1, <1>2, <1>3, <1>4, <1>5, <1>6, <1>7, <1>8 DEF Next

(* A view none of whose listeners was told anything is not current.          *)
Untold == \A l \in attached \ raised : ~view[QueryOf[l]].current

LEMMA PairedStep ==
  ASSUME TypeOK, Paired, Untold, [Next]_vars
  PROVE  Paired' /\ Untold'
<1>0. ASSUME NEW l \in attached PROVE QueryOf[l] \in Targets /\ QueryOf[l] \in Query
  BY <1>0 DEF Paired, Targets
<1>1. CASE UNCHANGED views
  BY <1>1 DEF views, Paired, Untold, Targets
<1>2. CASE GoOffline /\ UNCHANGED attached
  <2>1. /\ Targets' = Targets /\ raised \subseteq raised'
        /\ view' = view \/ \A q \in Targets : ~view'[q].current
    BY <1>2, OfflineViews
  <2>2. Paired'
    BY <1>2, <2>1 DEF Paired
  <2> QED BY <1>0, <1>2, <2>1, <2>2 DEF Untold
<1>3. CASE Read /\ ReadSnapshot
  <2>1. /\ Targets' = Targets /\ attached' = attached /\ raised \subseteq raised'
        /\ \A l \in attached \ raised' :
             view'[QueryOf[l]] = view[QueryOf[l]] \/ ~view'[QueryOf[l]].current
    BY <1>3, SnapshotViews DEF Read
  <2>2. Paired'
    BY <2>1 DEF Paired
  <2> QED BY <2>1, <2>2 DEF Untold
<1>4. ASSUME NEW l \in Listener, Add(l) PROVE Paired' /\ Untold'
  <2> DEFINE q == QueryOf[l]
  <2>1. /\ q \in Query /\ attached' = attached \cup {l} /\ Targets' = Targets \cup {q}
        /\ \A p \in Query \ {q} : view'[p] = view[p]
        /\ q \in Targets => view'[q] = view[q]
        /\ q \notin Targets => view'[q] = [doc |-> cache[q], current |-> FALSE]
        /\ raised \subseteq raised' /\ (l \notin raised' => ~view'[q].current)
    BY <1>4, AddViews
  <2>2. Paired'
    BY <2>1 DEF Paired
  <2>3. ASSUME NEW k \in attached' \ raised' PROVE ~view'[QueryOf[k]].current
    <3>1. CASE k = l
      BY <2>1, <3>1
    <3>2. CASE k # l
      <4>1. k \in attached \ raised
        BY <2>1, <3>2
      <4>2. ~view[QueryOf[k]].current /\ QueryOf[k] \in Targets /\ QueryOf[k] \in Query
        BY <1>0, <4>1 DEF Untold
      <4>3. view'[QueryOf[k]] = view[QueryOf[k]]
        BY <2>1, <4>2
      <4> QED BY <4>2, <4>3
    <3> QED BY <3>1, <3>2
  <2> QED BY <2>2, <2>3 DEF Untold
<1>5. ASSUME NEW l \in Listener, Detach(l) PROVE Paired' /\ Untold'
  <2> DEFINE q == QueryOf[l]
             stays == \E k \in attached \ {l} : QueryOf[k] = q
  <2>1. /\ q \in Query /\ attached' = attached \ {l} /\ raised' = raised
        /\ \A p \in Query \ {q} : view'[p] = view[p]
        /\ stays => view' = view /\ Targets' = Targets
        /\ ~stays => Targets' = Targets \ {q}
    BY <1>5, DetachViews
  <2>2. Paired'
    BY <2>1 DEF Paired
  <2>3. ASSUME NEW k \in attached' \ raised' PROVE ~view'[QueryOf[k]].current
    <3>1. k \in attached \ raised /\ k # l
      BY <2>1
    <3>2. QueryOf[k] \in Query /\ (QueryOf[k] = q => stays)
      BY <1>0, <2>1, <3>1
    <3>3. view'[QueryOf[k]] = view[QueryOf[k]]
      BY <2>1, <3>2
    <3> QED BY <3>1, <3>3 DEF Untold
  <2> QED BY <2>2, <2>3 DEF Untold
<1> QED BY <1>1, <1>2, <1>3, <1>4, <1>5, ViewSteps

(* The clock, the tracker and the stream.                                    *)
Timed ==
  /\ idle => Targets = {} /\ stream = "Open"
  /\ timer => online = "Unknown" /\ Started /\ ~failed
  /\ failed => online = "Offline"
  /\ Targets # {} => Started
  /\ (online = "Unknown" /\ Started) => (timer \/ left)

LEMMA TimedStep ==
  ASSUME TypeOK, Paired, Timed, [Next]_vars
  PROVE  Timed'
<1>0. /\ timer \in BOOLEAN /\ failed \in BOOLEAN /\ idle \in BOOLEAN /\ left \in BOOLEAN
      /\ online \in {"Unknown", "Online", "Offline"}
      /\ stream \in {"Initial", "Starting", "Backoff", "Open", "Error"}
  BY TypeParts DEF TrackerType, StreamType
<1>1. CASE UNCHANGED <<view, tracker, stream, idle, left>>
  BY <1>1 DEF Timed, Targets, Started, tracker
<1>2. CASE TimerFires
  <2>1. /\ Targets' = Targets /\ online' = "Offline" /\ timer' = FALSE
        /\ UNCHANGED <<failed, stream, idle, left>>
    BY <1>2, OfflineViews DEF TimerFires
  <2> QED BY <2>1 DEF Timed, Started
<1>3. CASE BackoffElapses
  <2>1. /\ view' = view /\ stream = "Backoff" /\ stream' = "Starting"
        /\ UNCHANGED <<online, timer, failed, idle, left>>
    BY <1>3 DEF BackoffElapses, views, tracker
  <2>2. Targets' = Targets
    BY <2>1 DEF Targets
  <2> QED BY <2>1, <2>2 DEF Timed, Started
<1>4. CASE StreamOpens
  <2>1. /\ view' = view /\ stream = "Starting" /\ stream' = "Open"
        /\ UNCHANGED <<online, timer, failed, idle, left>>
    BY <1>4 DEF StreamOpens, views, tracker
  <2>2. Targets' = Targets
    BY <2>1 DEF Targets
  <2> QED BY <2>1, <2>2 DEF Timed, Started
<1>5. CASE FailsSilent \/ FailsLive
  <2>1. StreamFails /\ idle' = FALSE
    BY <1>5 DEF FailsSilent, FailsLive, StreamFails
  <2>2. CASE Targets = {}
    <3>1. stream' = "Error" /\ UpdateState("Unknown") /\ view' = view
      BY <2>1, <2>2 DEF StreamFails
    <3>2. Targets' = {}
      BY <2>2, <3>1 DEF Targets
    <3> QED BY <2>1, <3>1, <3>2 DEF Timed, Started, UpdateState
  <2>3. CASE Targets # {} /\ online = "Online"
    <3>1. stream' = "Backoff" /\ online' = "Unknown" /\ timer' = TRUE /\ failed' = failed
      BY <2>1, <2>3 DEF StreamFails
    <3>2. ~failed
      BY <2>3 DEF Timed
    <3> QED BY <2>1, <3>1, <3>2 DEF Timed, Started
  <2>4. CASE Targets # {} /\ online # "Online"
    <3>1. stream' = "Backoff" /\ timer' = FALSE /\ GoOffline
      BY <2>1, <2>4 DEF StreamFails
    <3>2. online' = "Offline"
      BY <3>1 DEF GoOffline
    <3> QED BY <2>1, <3>1, <3>2 DEF Timed, Started
  <2> QED BY <2>2, <2>3, <2>4
<1>6. CASE IdleElapses
  <2>1. /\ idle /\ idle' = FALSE /\ stream' = "Initial" /\ UpdateState("Unknown")
        /\ view' = view
    BY <1>6 DEF IdleElapses, views
  <2>2. Targets' = {}
    BY <2>1 DEF Timed, Targets
  <2> QED BY <2>1, <2>2 DEF Timed, Started, UpdateState
<1>7. CASE RestartNetwork
  <2>1. idle' = FALSE /\ view' = view
    BY <1>7 DEF RestartNetwork, views
  <2>2. Targets' = Targets
    BY <2>1 DEF Targets
  <2>3. \/ Targets = {} /\ stream' = "Initial" /\ UpdateState("Unknown")
        \/ stream' = "Starting" /\ online' = "Unknown" /\ timer' = TRUE /\ failed' = FALSE
    BY <1>7 DEF RestartNetwork
  <2> QED BY <2>1, <2>2, <2>3 DEF Timed, Started, UpdateState
<1>8. CASE Read
  <2>1. UpdateState("Online") /\ stream' = stream /\ idle' = idle
    BY <1>8 DEF Read
  <2>2. ReadSnapshot \/ view' = view
    BY <1>8 DEF Read, ReadResponse, ReadDoc, ReadCurrent
  <2>3. Targets' = Targets
    BY <2>2, SnapshotViews DEF Targets
  <2> QED BY <2>1, <2>3 DEF Timed, Started, UpdateState
<1>9. ASSUME NEW l \in Listener, Add(l) PROVE Timed'
  <2> DEFINE q == QueryOf[l]
  <2>1. Targets' = Targets \cup {q}
    BY <1>9, AddViews
  <2>2. (AddsQuietly(q) \/ AddsRequest(q) \/ AddsStream(q)) /\ left' = left
    BY <1>9, AddStream
  <2> HIDE DEF q
  <2>3. CASE AddsQuietly(q)
    <3>1. Started /\ ~idle
      BY <2>3 DEF AddsQuietly, Timed, Started
    <3>2. UNCHANGED <<online, timer, failed, stream, idle, left>>
      BY <2>2, <2>3 DEF AddsQuietly, tracker
    <3> QED BY <3>1, <3>2 DEF Timed, Started
  <2>4. CASE AddsRequest(q)
    <3>1. stream = "Open" /\ idle' = FALSE /\ UNCHANGED <<online, timer, failed, stream, left>>
      BY <2>2, <2>4 DEF AddsRequest, tracker
    <3> QED BY <3>1 DEF Timed, Started
  <2>5. CASE AddsStream(q)
    <3>1. /\ stream \in {"Initial", "Error"} /\ idle' = idle
          /\ stream' \in {"Backoff", "Starting"} /\ HandleWatchStreamStart
      BY <2>5 DEF AddsStream, StartWatchStream
    <3>2. ~idle /\ ~timer
      BY <3>1 DEF Timed, Started
    <3>3. CASE failed
      <4>1. UNCHANGED <<online, timer, failed>> /\ online = "Offline"
        BY <3>1, <3>3 DEF HandleWatchStreamStart, tracker, Timed
      <4> QED BY <3>1, <3>2, <4>1 DEF Timed, Started
    <3>4. CASE ~failed
      <4>1. online' = "Unknown" /\ timer' = TRUE /\ failed' = failed
        BY <3>1, <3>4 DEF HandleWatchStreamStart
      <4> QED BY <3>1, <3>2, <3>4, <4>1 DEF Timed, Started
    <3> QED BY <3>3, <3>4
  <2> QED BY <2>2, <2>3, <2>4, <2>5
<1>10. ASSUME NEW l \in Listener, Detach(l) PROVE Timed'
  <2> DEFINE q == QueryOf[l]
             stays == \E k \in attached \ {l} : QueryOf[k] = q
  <2>1. /\ stays => Targets' = Targets /\ UNCHANGED <<tracker, idle>>
        /\ ~stays => Targets' = Targets \ {q} /\ StopListening(q, Targets')
        /\ left' = (left \/ (Targets' = {} /\ stream # "Open")) /\ stream' = stream
    BY <1>10, DetachViews
  <2> HIDE DEF q, stays
  <2>2. CASE stays
    <3>1. /\ UNCHANGED <<online, timer, failed, idle, stream>> /\ Targets' = Targets
          /\ left => left'
      BY <2>1, <2>2 DEF tracker
    <3> QED BY <3>1 DEF Timed, Started
  <2>3. CASE ~stays
    <3>1. Targets' \subseteq Targets
      BY <2>1, <2>3
    <3>2. CASE stream = "Open"
      <4>1. idle' = (Targets' = {}) /\ UNCHANGED <<online, timer, failed>>
        BY <2>1, <2>3, <3>2 DEF StopListening, tracker
      <4> QED BY <2>1, <3>1, <3>2, <4>1 DEF Timed, Started
    <3>3. CASE stream # "Open" /\ Targets' = {}
      <4>1. idle' = idle /\ online' = "Unknown" /\ timer' = FALSE /\ failed' = FALSE
        BY <2>1, <2>3, <3>3 DEF StopListening, UpdateState
      <4> QED BY <2>1, <3>3, <4>1 DEF Timed, Started
    <3>4. CASE stream # "Open" /\ Targets' # {}
      <4>1. idle' = idle /\ UNCHANGED <<online, timer, failed>>
        BY <2>1, <2>3, <3>4 DEF StopListening, tracker
      <4> QED BY <2>1, <3>1, <3>4, <4>1 DEF Timed, Started
    <3> QED BY <3>2, <3>3, <3>4
  <2> QED BY <2>2, <2>3
<1>11. ASSUME NEW q \in Query, Change(q) PROVE Timed'
  BY <1>1, <1>11 DEF Change, views
<1>12. ASSUME NEW l \in Listener, Listens(l) \/ Removes(l) \/ RunEvent(l) PROVE Timed'
  BY <1>1, <1>12 DEF Listens, Removes, RunEvent, views
<1>13. CASE Serve
  BY <1>1, <1>13 DEF Serve, ServeRequest, ServeDoc, ServeCurrent, ServeSnapshot, Answers, views
<1>14. CASE RunTask
  BY <1>9, <1>10, <1>14, TaskListener
<1>15. CASE UNCHANGED vars
  BY <1>1, <1>15 DEF vars, views
<1> QED BY <1>2, <1>3, <1>4, <1>5, <1>6, <1>7, <1>8, <1>11, <1>12, <1>13, <1>14, <1>15
        DEF Next

-----------------------------------------------------------------------------
(* What a step does to the events of the listeners, and to the queues.       *)
LEMMA EventSteps ==
  ASSUME TypeOK, Paired, [Next]_vars, NEW l \in Listener
  PROVE  \/ RunEvent(l)
         \/ told'[l] = told[l] /\ (inbox'[l] = inbox[l] \/ (l \in attached' /\ Tells(l)))
<1>1. UNCHANGED app => told'[l] = told[l] /\ inbox'[l] = inbox[l]
  BY DEF app
<1>2. ASSUME NEW q \in Query, Change(q) PROVE UNCHANGED app
  BY <1>2 DEF Change
<1>3. ASSUME NEW k \in Listener, Listens(k) \/ Removes(k) PROVE UNCHANGED <<inbox, told>>
  BY <1>3 DEF Listens, Removes, app
<1>4. ASSUME NEW k \in Listener, RunEvent(k), k # l
      PROVE  told'[l] = told[l] /\ inbox'[l] = inbox[l]
  <2>1. inbox' = [inbox EXCEPT ![k] = Tail(@)] /\ inbox \in [Listener -> Seq(Event)]
    BY <1>4 DEF RunEvent, TypeOK
  <2>2. /\ told' = told \/ told' = [told EXCEPT ![k] = Head(inbox[k])]
        /\ told \in [Listener -> Event \cup {Silent}]
    BY <1>4 DEF RunEvent, TypeOK
  <2> QED BY <1>4, <2>1, <2>2
<1>5. CASE BackoffElapses \/ StreamOpens \/ IdleElapses \/ RestartNetwork \/ Serve
           \/ UNCHANGED vars
  <2>1. UNCHANGED app
    BY <1>5 DEF BackoffElapses, StreamOpens, IdleElapses, RestartNetwork, Serve,
       ServeRequest, ServeDoc, ServeCurrent, ServeSnapshot, Answers, vars
  <2> QED BY <1>1, <2>1
<1>6. ASSUME GoOffline, UNCHANGED <<told, attached>>
      PROVE  told'[l] = told[l] /\ (inbox'[l] = inbox[l] \/ (l \in attached' /\ Tells(l)))
  BY <1>6, OfflineViews
<1>7. CASE TimerFires
  BY <1>6, <1>7 DEF TimerFires
<1>8. CASE FailsSilent \/ FailsLive
  <2>1. StreamFails
    BY <1>8 DEF FailsSilent, FailsLive
  <2>2. (GoOffline \/ inbox' = inbox) /\ UNCHANGED <<told, attached>>
    BY <2>1 DEF StreamFails
  <2> QED BY <1>6, <2>2
<1>9. CASE Read
  <2>1. UNCHANGED <<told, attached>>
    BY <1>9 DEF Read
  <2>2. ReadSnapshot \/ inbox' = inbox
    BY <1>9 DEF Read, ReadResponse, ReadDoc, ReadCurrent
  <2> QED BY <2>1, <2>2, SnapshotViews
<1>10. ASSUME NEW k \in Listener, Add(k)
       PROVE  told'[l] = told[l] /\ (inbox'[l] = inbox[l] \/ (l \in attached' /\ Tells(l)))
  <2>1. told' = told
    BY <1>10, AddStream
  <2>2. /\ attached' = attached \cup {k} /\ \A j \in Listener \ {k} : inbox'[j] = inbox[j]
        /\ inbox'[k] = inbox[k] \/ Tells(k)
    BY <1>10, AddViews
  <2> QED BY <2>1, <2>2
<1>11. ASSUME NEW k \in Listener, Detach(k) PROVE UNCHANGED app
  BY <1>11, DetachViews
<1>12. CASE RunTask
  BY <1>1, <1>10, <1>11, <1>12, TaskListener
<1> QED BY <1>1, <1>2, <1>3, <1>4, <1>5, <1>7, <1>8, <1>9, <1>12 DEF Next

LEMMA QueueSteps ==
  ASSUME TypeOK, [Next]_vars
  PROVE  \/ RunTask
         \/ /\ attached' = attached
            /\ \/ UNCHANGED <<tasks, muted>>
               \/ \E l \in Listener : Listens(l) \/ Removes(l) \/ RunEvent(l)
<1>1. ASSUME NEW l \in Listener, Listens(l) \/ Removes(l) \/ RunEvent(l)
      PROVE  attached' = attached
  BY <1>1 DEF Listens, Removes, RunEvent, views
<1>2. ASSUME NEW q \in Query, Change(q) PROVE UNCHANGED <<tasks, muted, attached>>
  BY <1>2 DEF Change, app, views
<1>3. CASE \/ TimerFires \/ BackoffElapses \/ StreamOpens \/ IdleElapses \/ RestartNetwork
           \/ UNCHANGED vars
  BY <1>3 DEF TimerFires, BackoffElapses, StreamOpens, IdleElapses, RestartNetwork,
     vars, app, views
<1>4. CASE FailsSilent \/ FailsLive \/ Read \/ Serve
  BY <1>4 DEF FailsSilent, FailsLive, StreamFails, Read, Serve, ServeRequest, ServeDoc,
     ServeCurrent, ServeSnapshot, Answers, app, views
<1> QED BY <1>1, <1>2, <1>3, <1>4 DEF Next

(* A listener is added once and before it is told anything; whoever was      *)
(* told is still attached or muted, and who is to be removed is muted.       *)
InTurn ==
  /\ \A l \in Listener : told[l] # Silent \/ inbox[l] # <<>> => l \in attached \cup muted
  /\ \A i \in DOMAIN tasks : ~tasks[i].add => tasks[i].l \in muted
  /\ \A i \in DOMAIN tasks :
       tasks[i].add => /\ tasks[i].l \notin attached /\ inbox[tasks[i].l] = <<>>
                       /\ told[tasks[i].l] = Silent
  /\ \A i, j \in DOMAIN tasks : tasks[i].add /\ tasks[j].add /\ tasks[i].l = tasks[j].l => i = j

LEMMA TasksType ==
  ASSUME TypeOK
  PROVE  /\ Len(tasks) \in Nat /\ DOMAIN tasks = 1 .. Len(tasks)
         /\ \A i \in DOMAIN tasks : tasks[i].l \in Listener /\ tasks[i].add \in BOOLEAN
<1>1. tasks \in Seq(Task)
  BY DEF TypeOK
<1>2. \A i \in DOMAIN tasks : tasks[i] \in Task
  BY <1>1
<1> QED BY <1>1, <1>2 DEF Task

(* The app hands the worker queue a task.                                    *)
LEMMA TaskAppended ==
  ASSUME TypeOK, NEW l \in Listener, NEW a \in BOOLEAN,
         tasks' = Append(tasks, [l |-> l, add |-> a])
  PROVE  /\ DOMAIN tasks' = 1 .. Len(tasks) + 1 /\ DOMAIN tasks = 1 .. Len(tasks)
         /\ Len(tasks) \in Nat
         /\ \A i \in DOMAIN tasks : i \in DOMAIN tasks' /\ tasks'[i] = tasks[i]
         /\ \A i \in DOMAIN tasks' : i \in DOMAIN tasks \/ i = Len(tasks) + 1
         /\ tasks'[Len(tasks) + 1].l = l /\ tasks'[Len(tasks) + 1].add = a
<1>1. tasks \in Seq(Task) /\ [l |-> l, add |-> a] \in Task
  BY DEF TypeOK, Task
<1>2. /\ DOMAIN tasks' = 1 .. Len(tasks) + 1 /\ DOMAIN tasks = 1 .. Len(tasks)
      /\ Len(tasks) \in Nat /\ tasks'[Len(tasks) + 1] = [l |-> l, add |-> a]
      /\ \A i \in 1 .. Len(tasks) : tasks'[i] = tasks[i]
  BY <1>1, AppendFacts
<1> QED BY <1>2

LEMMA InTurnStep ==
  ASSUME TypeOK, Paired, InTurn, [Next]_vars
  PROVE  InTurn'
<1>0. ASSUME NEW l \in Listener
      PROVE  \/ RunEvent(l)
             \/ told'[l] = told[l] /\ (inbox'[l] = inbox[l] \/ l \in attached')
  BY EventSteps
<1>1. CASE UNCHANGED <<tasks, muted, attached>> /\ \A l \in Listener : ~RunEvent(l)
  BY <1>0, <1>1, TasksType DEF InTurn
<1>2. ASSUME NEW k \in Listener, Listens(k) PROVE InTurn'
  <2>1. /\ k \notin attached \cup muted /\ told[k] = Silent
        /\ \A i \in DOMAIN tasks : tasks[i].l # k
        /\ tasks' = Append(tasks, [l |-> k, add |-> TRUE])
        /\ UNCHANGED <<inbox, told, muted, attached>>
    BY <1>2 DEF Listens, app, views
  <2>2. inbox[k] = <<>>
    BY <2>1 DEF InTurn
  <2> QED BY <2>1, <2>2, TaskAppended, TasksType DEF InTurn
<1>3. ASSUME NEW k \in Listener, Removes(k) PROVE InTurn'
  <2>1. /\ muted' = muted \cup {k} /\ tasks' = Append(tasks, [l |-> k, add |-> FALSE])
        /\ UNCHANGED <<inbox, told, attached>>
    BY <1>3 DEF Removes, Unregister, Muted, views
  <2> QED BY <2>1, TaskAppended, TasksType DEF InTurn
<1>4. ASSUME NEW k \in Listener, RunEvent(k) PROVE InTurn'
  <2>1. inbox[k] # <<>> /\ inbox' = [inbox EXCEPT ![k] = Tail(@)] /\ attached' = attached
    BY <1>4 DEF RunEvent, views
  <2>2. \/ UNCHANGED <<muted, tasks>>
        \/ muted' = muted \cup {k} /\ tasks' = Append(tasks, [l |-> k, add |-> FALSE])
    BY <1>4 DEF RunEvent, Unregister, Muted
  <2>3. told' = told \/ told' = [told EXCEPT ![k] = Head(inbox[k])]
    BY <1>4 DEF RunEvent
  <2>4. \A l \in Listener \ {k} : inbox'[l] = inbox[l] /\ told'[l] = told[l]
    BY <2>1, <2>3 DEF TypeOK
  <2>5. k \in attached \cup muted /\ \A i \in DOMAIN tasks : tasks[i].add => tasks[i].l # k
    BY <2>1 DEF InTurn
  <2>6. CASE UNCHANGED <<muted, tasks>>
    BY <2>1, <2>4, <2>5, <2>6, TasksType DEF InTurn
  <2>7. CASE muted' = muted \cup {k} /\ tasks' = Append(tasks, [l |-> k, add |-> FALSE])
    <3>1. /\ \A i \in DOMAIN tasks : i \in DOMAIN tasks' /\ tasks'[i] = tasks[i]
          /\ \A i \in DOMAIN tasks' : i \in DOMAIN tasks \/ i = Len(tasks) + 1
          /\ tasks'[Len(tasks) + 1].l = k /\ ~tasks'[Len(tasks) + 1].add
      BY <2>7, TaskAppended
    <3> QED BY <2>1, <2>4, <2>5, <2>7, <3>1, TasksType DEF InTurn
  <2> QED BY <2>2, <2>6, <2>7
<1>5. CASE RunTask
  <2> DEFINE k == Head(tasks).l
  <2>1. /\ tasks # <<>> /\ tasks' = Tail(tasks) /\ Head(tasks) = tasks[1] /\ 1 \in DOMAIN tasks
        /\ \A i \in DOMAIN tasks' : i + 1 \in DOMAIN tasks /\ tasks'[i] = tasks[i + 1]
        /\ \A i \in DOMAIN tasks' : i \in Nat \ {0}
    BY <1>5, QueueType DEF RunTask, TypeOK
  <2>2. k \in Listener
    BY <1>5, TaskListener
  <2>3. /\ \A l \in Listener : told'[l] = told[l] /\ (inbox'[l] = inbox[l] \/ l = k)
        /\ muted' = muted
        /\ \/ tasks[1].add /\ attached' = attached \cup {k}
           \/ ~tasks[1].add /\ attached' = attached \ {k} /\ inbox' = inbox
    <3>1. CASE tasks[1].add
      <4>1. Add(k)
        BY <1>5, <2>1, <3>1 DEF RunTask
      <4> QED BY <2>2, <3>1, <4>1, AddViews, AddStream
    <3>2. CASE ~tasks[1].add
      <4>1. Detach(k)
        BY <1>5, <2>1, <3>2 DEF RunTask
      <4>2. attached' = attached \ {k} /\ UNCHANGED app
        BY <2>2, <4>1, DetachViews
      <4> QED BY <3>2, <4>2 DEF app
    <3> QED BY <3>1, <3>2
  <2> HIDE DEF k
  <2>4. CASE tasks[1].add /\ attached' = attached \cup {k}
    <3>1. \A i \in DOMAIN tasks' : tasks'[i].add => tasks'[i].l # k
      BY <2>1, <2>4 DEF InTurn, k
    <3>2. \A i \in DOMAIN tasks' : tasks'[i].l \in Listener
      BY <2>1, TasksType
    <3>3. \A i \in DOMAIN tasks' :
            tasks'[i].add => /\ tasks'[i].l \notin attached' /\ inbox'[tasks'[i].l] = <<>>
                             /\ told'[tasks'[i].l] = Silent
      BY <2>1, <2>3, <2>4, <3>1, <3>2 DEF InTurn
    <3>4. \A l \in Listener : told'[l] # Silent \/ inbox'[l] # <<>> => l \in attached' \cup muted'
      BY <2>3, <2>4 DEF InTurn
    <3>5. \A i \in DOMAIN tasks' : ~tasks'[i].add => tasks'[i].l \in muted'
      BY <2>1, <2>3 DEF InTurn
    <3>6. \A i, j \in DOMAIN tasks' :
            tasks'[i].add /\ tasks'[j].add /\ tasks'[i].l = tasks'[j].l => i = j
      BY <2>1 DEF InTurn
    <3> QED BY <3>3, <3>4, <3>5, <3>6 DEF InTurn
  <2>5. CASE ~tasks[1].add /\ attached' = attached \ {k} /\ inbox' = inbox
    <3>1. k \in muted
      BY <2>1, <2>5 DEF InTurn, k
    <3>2. \A i \in DOMAIN tasks' : tasks'[i].l \in Listener
      BY <2>1, TasksType
    <3>3. \A i \in DOMAIN tasks' :
            tasks'[i].add => /\ tasks'[i].l \notin attached' /\ inbox'[tasks'[i].l] = <<>>
                             /\ told'[tasks'[i].l] = Silent
      BY <2>1, <2>3, <2>5, <3>2 DEF InTurn
    <3>4. \A l \in Listener : told'[l] # Silent \/ inbox'[l] # <<>> => l \in attached' \cup muted'
      BY <2>3, <2>5, <3>1 DEF InTurn
    <3>5. \A i \in DOMAIN tasks' : ~tasks'[i].add => tasks'[i].l \in muted'
      BY <2>1, <2>3 DEF InTurn
    <3>6. \A i, j \in DOMAIN tasks' :
            tasks'[i].add /\ tasks'[j].add /\ tasks'[i].l = tasks'[j].l => i = j
      BY <2>1 DEF InTurn
    <3> QED BY <3>3, <3>4, <3>5, <3>6 DEF InTurn
  <2> QED BY <2>3, <2>4, <2>5
<1>6. CASE UNCHANGED <<tasks, muted, attached>> /\ \E l \in Listener : RunEvent(l)
  BY <1>4, <1>6
<1> QED BY <1>1, <1>2, <1>3, <1>4, <1>5, <1>6, QueueSteps

(* A get that was answered is muted.                                         *)
AnsweredMuted == \A l \in Once : told[l] # Silent => l \in muted

LEMMA AnsweredStep ==
  ASSUME TypeOK, Paired, AnsweredMuted, [Next]_vars
  PROVE  AnsweredMuted' /\ \A l \in Once : told[l] # Silent => told'[l] = told[l]
<1>1. Once \subseteq Listener
  BY OnceAssumption
<1>2. ASSUME NEW l \in Once, RunEvent(l)
      PROVE  l \in muted' /\ (l \in muted => told'[l] = told[l])
  BY <1>2 DEF RunEvent, Unregister, Muted
<1>3. muted \subseteq muted'
  <2>1. ASSUME NEW l \in Listener, Listens(l) \/ Removes(l) \/ RunEvent(l)
        PROVE  muted \subseteq muted'
    BY <2>1 DEF Listens, Removes, RunEvent, Unregister, Muted, app
  <2>2. RunTask => muted' = muted
    BY TaskListener, AddStream, DetachViews DEF app
  <2> QED BY <2>1, <2>2, QueueSteps
<1> QED BY <1>1, <1>2, <1>3, EventSteps DEF AnsweredMuted

-----------------------------------------------------------------------------
(* How new what is on its way is.                                            *)
DocOf(q, i) == toClient[i].kind = "doc" /\ toClient[i].q = q

LEMMA ChannelFacts ==
  ASSUME TypeOK
  PROVE  /\ Len(toServer) \in Nat /\ DOMAIN toServer = 1 .. Len(toServer)
         /\ Len(toClient) \in Nat /\ DOMAIN toClient = 1 .. Len(toClient)
         /\ \A i \in DOMAIN toServer : /\ toServer[i].q \in Query
                                       /\ toServer[i].known \in Version \cup {NoView}
         /\ \A i \in DOMAIN toClient : toClient[i] \in Message
         /\ \A i \in DOMAIN toClient, q \in Query : DocOf(q, i) => toClient[i].v \in Nat
         /\ \A q \in Query : /\ result[q] \in Nat /\ updates[q] \in Nat /\ cache[q] \in Nat
                             /\ since[q] \in Nat
<1>1. toServer \in Seq(Request) /\ toClient \in Seq(Message)
  BY DEF TypeOK
<1>2. \A i \in DOMAIN toServer : toServer[i] \in Request
  BY <1>1
<1>3. \A i \in DOMAIN toServer : /\ toServer[i].q \in Query
                                 /\ toServer[i].known \in Version \cup {NoView}
  BY <1>2 DEF Request
<1>4. \A i \in DOMAIN toClient : toClient[i] \in Message
  BY <1>1
<1>5. \A i \in DOMAIN toClient, q \in Query : DocOf(q, i) => toClient[i].v \in Nat
  BY <1>4, MessageType, VersionType DEF DocOf
<1>6. \A q \in Query : /\ result[q] \in Nat /\ updates[q] \in Nat /\ cache[q] \in Nat
                       /\ since[q] \in Nat
  BY VersionType DEF TypeOK
<1> QED BY <1>1, <1>3, <1>4, <1>5, <1>6

(* The server answers with one message.                                      *)
LEMMA ServeSteps ==
  ASSUME TypeOK, Serve
  PROVE  /\ UNCHANGED <<result, views, updates, stream>> /\ stream = "Open" /\ Targets' = Targets
         /\ \E m \in Message : /\ toClient' = Append(toClient, m)
                               /\ m.kind = "doc" => m.v = result[m.q]
<1>1. /\ UNCHANGED <<result, views, updates, stream>> /\ stream = "Open"
      /\ view' = view
  BY DEF Serve, ServeRequest, ServeDoc, ServeCurrent, ServeSnapshot, Answers, aggregator, views
<1>2. Targets' = Targets
  BY <1>1 DEF Targets
<1>3. CASE ServeRequest
  <2> DEFINE r == Head(toServer)
             k == IF r.known = NoView THEN "removed" ELSE "added"
             m == [kind |-> k, q |-> r.q]
  <2>1. toServer # <<>> /\ toClient' = Append(toClient, m)
    BY <1>3 DEF ServeRequest, Answers
  <2>2. r \in Request
    BY <2>1, QueueType DEF TypeOK
  <2>3. r.q \in Query /\ k \in {"added", "removed", "current"}
    BY <2>2 DEF Request
  <2> HIDE DEF k, r
  <2>4. m \in Message /\ m.kind # "doc"
    BY <2>3 DEF Message
  <2> HIDE DEF m
  <2> QED BY <1>1, <1>2, <2>1, <2>4
<1>4. ASSUME NEW q \in Query, ServeDoc(q)
      PROVE  \E m \in Message : /\ toClient' = Append(toClient, m)
                                /\ m.kind = "doc" => m.v = result[m.q]
  <2> DEFINE m == [kind |-> "doc", q |-> q, v |-> result[q]]
  <2>1. m \in Message /\ m.v = result[m.q] /\ toClient' = Append(toClient, m)
    BY <1>4 DEF ServeDoc, Answers, Message, TypeOK
  <2> HIDE DEF m
  <2> QED BY <2>1
<1>5. ASSUME NEW q \in Query, ServeCurrent(q)
      PROVE  \E m \in Message : toClient' = Append(toClient, m) /\ m.kind # "doc"
  <2> DEFINE m == [kind |-> "current", q |-> q]
  <2>1. m \in Message /\ m.kind # "doc" /\ toClient' = Append(toClient, m)
    BY <1>5 DEF ServeCurrent, Answers, Message
  <2> HIDE DEF m
  <2> QED BY <2>1
<1>6. ASSUME ServeSnapshot
      PROVE  \E m \in Message : toClient' = Append(toClient, m) /\ m.kind # "doc"
  <2> DEFINE m == [kind |-> "snapshot"]
  <2>1. m \in Message /\ m.kind # "doc" /\ toClient' = Append(toClient, m)
    BY <1>6 DEF ServeSnapshot, Answers, Message
  <2> HIDE DEF m
  <2> QED BY <2>1
<1> QED BY <1>1, <1>2, <1>3, <1>4, <1>5, <1>6 DEF Serve

(* The client reads one message.                                             *)
LEMMA ReadSteps ==
  ASSUME TypeOK, Paired, Read
  PROVE  /\ UNCHANGED <<result, since, stream, toServer, backend>> /\ Targets' = Targets
         /\ toClient # <<>> /\ toClient' = Tail(toClient)
         /\ \A q \in Query :
              \/ /\ Head(toClient).kind = "doc" /\ Head(toClient).q = q /\ IsActiveTarget(q)
                 /\ updates'[q] = Head(toClient).v /\ cache'[q] = cache[q]
              \/ /\ ~(Head(toClient).kind = "doc" /\ Head(toClient).q = q /\ IsActiveTarget(q))
                 /\ updates'[q] = updates[q] /\ cache'[q] = cache[q]
              \/ /\ Head(toClient).kind = "snapshot" /\ updates'[q] = 0
                 /\ cache'[q] >= cache[q] /\ cache'[q] >= updates[q]
<1>1. /\ UNCHANGED <<result, since, stream, toServer, backend>>
      /\ toClient # <<>> /\ toClient' = Tail(toClient)
  BY DEF Read
<1>2. ReadSnapshot \/ view' = view
  BY DEF Read, ReadResponse, ReadDoc, ReadCurrent
<1>3. Targets' = Targets
  BY <1>2, SnapshotViews DEF Targets
<1> DEFINE m == Head(toClient)
<1>4. CASE m.kind \in {"added", "removed", "current"} /\ UNCHANGED <<updates, cache>>
  BY <1>1, <1>3, <1>4
<1>5. CASE m.kind = "doc" /\ ReadDoc(m)
  <2>1. /\ cache' = cache
        /\ IF IsActiveTarget(m.q) THEN updates' = [updates EXCEPT ![m.q] = m.v]
                                  ELSE updates' = updates
    BY <1>5 DEF ReadDoc
  <2>2. updates \in [Query -> Version]
    BY DEF TypeOK
  <2> HIDE DEF m
  <2>3. ASSUME NEW q \in Query
        PROVE  \/ m.q = q /\ IsActiveTarget(q) /\ updates'[q] = m.v
               \/ ~(m.q = q /\ IsActiveTarget(q)) /\ updates'[q] = updates[q]
    <3>1. CASE m.q = q
      BY <2>1, <2>2, <3>1
    <3>2. CASE m.q # q
      BY <2>1, <2>2, <3>2
    <3> QED BY <3>1, <3>2
  <2> QED BY <1>1, <1>3, <1>5, <2>1, <2>3 DEF m
<1>6. CASE m.kind = "snapshot" /\ ReadSnapshot
  <2>1. /\ updates' = Zero
        /\ \A q \in Query : cache'[q] >= cache[q] /\ cache'[q] >= updates[q]
    BY <1>6, SnapshotViews
  <2> QED BY <1>1, <1>3, <1>6, <2>1 DEF Zero
<1>7. \/ m.kind \in {"added", "removed", "current"} /\ UNCHANGED <<updates, cache>>
      \/ m.kind = "doc" /\ ReadDoc(m)
      \/ m.kind = "snapshot" /\ ReadSnapshot
  BY DEF Read, ReadResponse, ReadCurrent
<1> QED BY <1>4, <1>5, <1>6, <1>7

(* The server's results and the local store only advance.                    *)
LEMMA Advances ==
  ASSUME TypeOK, Paired, [Next]_vars, NEW q \in Query
  PROVE  result'[q] >= result[q] /\ cache'[q] >= cache[q]
<1>0. result[q] \in Nat /\ cache[q] \in Nat /\ result \in [Query -> Version]
  BY ChannelFacts DEF TypeOK
<1>1. ASSUME NEW p \in Query, Change(p) PROVE result'[q] >= result[q]
  BY <1>0, <1>1 DEF Change
<1>2. result' = result => result'[q] >= result[q]
  BY <1>0
<1>3. RunTask => result' = result
  BY TaskOnChannel
<1>4. ASSUME NEW l \in Listener, Listens(l) \/ Removes(l) \/ RunEvent(l) PROVE result' = result
  BY <1>4 DEF Listens, Removes, RunEvent
<1>5. ASSUME \/ TimerFires \/ BackoffElapses \/ StreamOpens \/ FailsSilent \/ FailsLive
             \/ IdleElapses \/ RestartNetwork \/ Read \/ UNCHANGED vars
      PROVE  result' = result
  BY <1>5 DEF TimerFires, BackoffElapses, StreamOpens, FailsSilent, FailsLive,
     StreamFails, IdleElapses, RestartNetwork, Read, vars
<1>6. Serve => result' = result
  BY ServeSteps
<1>7. result'[q] >= result[q]
  BY <1>1, <1>2, <1>3, <1>4, <1>5, <1>6 DEF Next
<1>8. cache'[q] >= cache[q]
  BY <1>0, ChannelSteps, ReadSteps
<1> QED BY <1>7, <1>8

(* Nothing is ahead of the server: a view was made from what it had, and     *)
(* documents come in the order in which they were written.                   *)
Bounded ==
  /\ \A q \in Query : since[q] <= result[q] /\ updates[q] <= result[q]
  /\ \A q \in Query, i \in DOMAIN toClient :
       DocOf(q, i) => updates[q] <= toClient[i].v /\ toClient[i].v <= result[q]
  /\ \A q \in Query, i, j \in DOMAIN toClient :
       DocOf(q, i) /\ DocOf(q, j) /\ i < j => toClient[i].v <= toClient[j].v

LEMMA SinceStep ==
  ASSUME TypeOK, TypeOK', Paired, Bounded, [Next]_vars, NEW q \in Query
  PROVE  since'[q] <= result'[q]
<1>0. /\ since[q] \in Nat /\ result[q] \in Nat /\ since[q] <= result[q]
      /\ since'[q] \in Nat /\ result'[q] \in Nat /\ result'[q] >= result[q]
  <2>1. since'[q] \in Nat /\ result'[q] \in Nat
    BY VersionType DEF TypeOK
  <2> QED BY <2>1, ChannelFacts, Advances DEF Bounded
<1>1. since' = since => since'[q] <= result'[q]
  BY <1>0
<1>2. ASSUME NEW l \in Listener, Add(l) PROVE since'[q] <= result'[q]
  <2>1. since'[q] = since[q] \/ since'[q] = result[q]
    BY <1>2, AddViews
  <2> QED BY <1>0, <2>1
<1>3. \A l \in Listener : Detach(l) => since' = since
  BY DetachViews
<1> QED BY <1>1, <1>2, <1>3, ViewSteps DEF Read, views

LEMMA BoundedStep ==
  ASSUME TypeOK, TypeOK', Paired, Quiet, Bounded, [Next]_vars
  PROVE  Bounded'
<1>0. ASSUME NEW q \in Query
      PROVE  /\ result[q] \in Nat /\ result'[q] \in Nat /\ result'[q] >= result[q]
             /\ updates[q] \in Nat /\ updates'[q] \in Nat /\ since'[q] <= result'[q]
  <2>1. result'[q] \in Nat /\ updates'[q] \in Nat
    BY VersionType DEF TypeOK
  <2> QED BY <2>1, ChannelFacts, Advances, SinceStep
<1>1. ASSUME NEW q \in Query, NEW i \in DOMAIN toClient, DocOf(q, i)
      PROVE  /\ toClient[i].v \in Nat /\ updates[q] <= toClient[i].v
             /\ toClient[i].v <= result[q]
  BY <1>1, ChannelFacts DEF Bounded
<1>2. CASE UNCHANGED <<updates, toClient>>
  BY <1>0, <1>1, <1>2 DEF Bounded, DocOf
<1>3. CASE toClient' = <<>> /\ \A q \in Query : updates'[q] = updates[q] \/ updates'[q] = 0
  BY <1>0, <1>3 DEF Bounded
<1>4. CASE Read
  <2>1. /\ toClient # <<>> /\ toClient' = Tail(toClient)
        /\ \A q \in Query :
             \/ DocOf(q, 1) /\ updates'[q] = toClient[1].v
             \/ updates'[q] = updates[q] \/ updates'[q] = 0
    <3>1. Head(toClient) = toClient[1]
      BY <1>4, ReadSteps, QueueType DEF TypeOK
    <3> QED BY <1>4, <3>1, ReadSteps DEF DocOf
  <2>2. /\ 1 \in DOMAIN toClient /\ \A i \in DOMAIN toClient' : i \in Nat /\ 1 < i + 1
        /\ \A i \in DOMAIN toClient' : i + 1 \in DOMAIN toClient /\ toClient'[i] = toClient[i + 1]
    BY <2>1, QueueType DEF TypeOK
  <2>3. \A q \in Query, i \in DOMAIN toClient' : DocOf(q, i)' => DocOf(q, i + 1)
    BY <2>2 DEF DocOf
  <2>4. ASSUME NEW q \in Query, NEW i \in DOMAIN toClient', DocOf(q, i)'
        PROVE  updates'[q] <= toClient'[i].v /\ toClient'[i].v <= result'[q]
    <3>1. /\ toClient'[i].v \in Nat /\ updates[q] <= toClient'[i].v
          /\ toClient'[i].v <= result[q]
      BY <1>1, <2>2, <2>3, <2>4
    <3>2. DocOf(q, 1) => toClient[1].v <= toClient'[i].v
      BY <2>2, <2>3, <2>4 DEF Bounded
    <3> QED BY <1>0, <2>1, <3>1, <3>2
  <2>5. ASSUME NEW q \in Query, NEW i \in DOMAIN toClient', NEW j \in DOMAIN toClient',
               DocOf(q, i)', DocOf(q, j)', i < j
        PROVE  toClient'[i].v <= toClient'[j].v
    <3>1. i + 1 < j + 1
      BY <2>2, <2>5
    <3> QED BY <2>2, <2>3, <2>5, <3>1 DEF Bounded
  <2>6. ASSUME NEW q \in Query PROVE updates'[q] <= result'[q]
    <3>1. updates[q] <= result[q] /\ (DocOf(q, 1) => toClient[1].v <= result[q])
      BY <2>2 DEF Bounded
    <3>2. DocOf(q, 1) => toClient[1].v \in Nat
      BY <1>1, <2>2
    <3> QED BY <1>0, <2>1, <3>1, <3>2
  <2> QED BY <1>0, <2>4, <2>5, <2>6 DEF Bounded
<1>5. CASE Serve
  <2>1. UNCHANGED <<result, updates>>
    BY <1>5, ServeSteps
  <2>2. PICK m \in Message : /\ toClient' = Append(toClient, m)
                             /\ m.kind = "doc" => m.v = result[m.q]
    BY <1>5, ServeSteps
  <2> DEFINE len == Len(toClient)
  <2>0. /\ len \in Nat /\ DOMAIN toClient = 1 .. len /\ DOMAIN toClient' = 1 .. len + 1
        /\ \A i \in 1 .. len : toClient'[i] = toClient[i]
        /\ toClient'[len + 1] = m
    BY <2>2, AppendFacts DEF TypeOK
  <2> HIDE DEF len
  <2>3. PICK n \in Nat :
          /\ DOMAIN toClient = 1 .. n /\ DOMAIN toClient' = 1 .. n + 1
          /\ \A i \in 1 .. n : toClient'[i] = toClient[i]
          /\ toClient'[n + 1] = m
    BY <2>0
  <2>4. \A i \in 1 .. n + 1 : i \in 1 .. n \/ i = n + 1
    BY <2>3
  <2>5. \A q \in Query, i \in 1 .. n : DocOf(q, i)' => DocOf(q, i)
    BY <2>3 DEF DocOf
  <2>6. \A q \in Query : DocOf(q, n + 1)' => toClient'[n + 1].v = result[q]
    BY <2>2, <2>3 DEF DocOf
  <2>7. ASSUME NEW q \in Query, NEW i \in 1 .. n + 1, DocOf(q, i)'
        PROVE  updates'[q] <= toClient'[i].v /\ toClient'[i].v <= result'[q]
    <3>1. CASE i \in 1 .. n
      BY <1>1, <2>1, <2>3, <2>5, <2>7, <3>1
    <3>2. CASE i = n + 1
      <4>1. toClient'[i].v = result[q] /\ updates[q] <= result[q]
        BY <2>6, <2>7, <3>2 DEF Bounded
      <4> QED BY <1>0, <2>1, <4>1
    <3> QED BY <2>4, <3>1, <3>2
  <2>8. ASSUME NEW q \in Query, NEW i \in 1 .. n + 1, NEW j \in 1 .. n + 1,
               DocOf(q, i)', DocOf(q, j)', i < j
        PROVE  toClient'[i].v <= toClient'[j].v
    <3>1. i \in 1 .. n
      BY <2>3, <2>8
    <3>2. CASE j \in 1 .. n
      <4>1. toClient'[i] = toClient[i] /\ toClient'[j] = toClient[j]
        BY <2>3, <3>1, <3>2
      <4> QED BY <2>3, <2>5, <2>8, <3>1, <3>2, <4>1 DEF Bounded
    <3>3. CASE j = n + 1
      <4>1. toClient'[j].v = result[q] /\ toClient'[i] = toClient[i] /\ DocOf(q, i)
        BY <2>3, <2>5, <2>6, <2>8, <3>1, <3>3
      <4> QED BY <1>1, <2>3, <3>1, <4>1
    <3> QED BY <2>4, <3>2, <3>3
  <2>9. \A q \in Query : updates'[q] <= result'[q]
    BY <2>1 DEF Bounded
  <2> QED BY <1>0, <2>3, <2>7, <2>8, <2>9 DEF Bounded
<1>6. Rests => UNCHANGED <<updates, toClient>>
  BY DEF Rests, Kept, aggregator, channel
<1>7. \A q \in Query : Watches(q) \/ Unwatches(q) => UNCHANGED <<updates, toClient>>
  BY DEF Watches, Unwatches, Sends, Send
<1>8. StreamOpens => UNCHANGED <<updates, toClient>>
  BY DEF StreamOpens
<1>9. Renewed => toClient' = <<>> /\ \A q \in Query : updates'[q] = 0
  BY DEF Renewed, NewChannel, Zero
<1> QED BY <1>2, <1>3, <1>4, <1>5, <1>6, <1>7, <1>8, <1>9, ChannelSteps

-----------------------------------------------------------------------------
(* A request says what the local store has, and the last one about a watched *)
(* target asks for it.                                                       *)
LastRequest(q, i) == toServer[i].q = q /\ \A j \in DOMAIN toServer : toServer[j].q = q => j <= i
Asked ==
  /\ \A i \in DOMAIN toServer :
       toServer[i].known # NoView => toServer[i].known <= cache[toServer[i].q]
  /\ \A q \in Targets, i \in DOMAIN toServer : LastRequest(q, i) => toServer[i].known # NoView

LEMMA SendAppends ==
  ASSUME TypeOK, NEW p \in Query, NEW known \in Version \cup {NoView}, Sends(p, known)
  PROVE  /\ UNCHANGED <<toClient, held, updates>> /\ stream = "Open"
         /\ DOMAIN toServer = 1 .. Len(toServer) /\ Len(toServer) \in Nat
         /\ DOMAIN toServer' = 1 .. Len(toServer) + 1
         /\ \A i \in 1 .. Len(toServer) : toServer'[i] = toServer[i]
         /\ toServer'[Len(toServer) + 1].q = p /\ toServer'[Len(toServer) + 1].known = known
<1> DEFINE r == [q |-> p, known |-> known]
<1>1. r \in Request /\ toServer' = Append(toServer, r) /\ r.q = p /\ r.known = known
  BY DEF Sends, Send, Request
<1>2. UNCHANGED <<toClient, held, updates>> /\ stream = "Open"
  BY DEF Sends, Send, backend
<1> HIDE DEF r
<1> QED BY <1>1, <1>2, AppendFacts DEF TypeOK

LEMMA Versions == \A v \in Version : v \in Nat /\ v # NoView
<1>1. \A v \in Version : v # NoView
  BY NoViewAssumption
<1> QED BY <1>1, VersionType

LEMMA AskedStep ==
  ASSUME TypeOK, TypeOK', Paired, Quiet, Asked, [Next]_vars
  PROVE  Asked'
<1>0. ASSUME NEW i \in DOMAIN toServer
      PROVE  /\ toServer[i].q \in Query
             /\ cache[toServer[i].q] \in Nat /\ cache'[toServer[i].q] \in Nat
             /\ cache'[toServer[i].q] >= cache[toServer[i].q]
             /\ toServer[i].known # NoView =>
                  toServer[i].known \in Nat /\ toServer[i].known <= cache'[toServer[i].q]
  <2>1. toServer[i].q \in Query /\ toServer[i].known \in Version \cup {NoView}
    BY ChannelFacts
  <2>2. cache[toServer[i].q] \in Nat /\ cache'[toServer[i].q] \in Nat
    BY <2>1, VersionType DEF TypeOK
  <2>3. cache'[toServer[i].q] >= cache[toServer[i].q]
    BY <2>1, Advances
  <2>4. ASSUME toServer[i].known # NoView
        PROVE  toServer[i].known \in Nat /\ toServer[i].known <= cache'[toServer[i].q]
    <3>1. toServer[i].known \in Nat
      BY <2>1, <2>4, Versions
    <3>2. toServer[i].known <= cache[toServer[i].q]
      BY <2>4 DEF Asked
    <3> QED BY <2>2, <2>3, <3>1, <3>2
  <2> QED BY <2>1, <2>2, <2>3, <2>4
<1>1. CASE toServer' = <<>>
  BY <1>1 DEF Asked
<1>2. CASE toServer' = toServer /\ Targets' \subseteq Targets
  BY <1>0, <1>2 DEF Asked, LastRequest
<1>3. CASE Rests
  <2>1. toServer' = toServer
    BY <1>3 DEF Rests, Kept, channel
  <2>2. stream # "Open" => toServer' = <<>>
    BY <2>1 DEF Quiet
  <2> QED BY <1>1, <1>2, <1>3, <2>1, <2>2 DEF Rests
<1>4. ASSUME NEW p \in Query, Watches(p) \/ Unwatches(p), cache' = cache PROVE Asked'
  <2>0. PICK known \in Version \cup {NoView} :
          /\ Sends(p, known)
          /\ \/ known = cache[p] /\ Targets' = Targets \cup {p}
             \/ known = NoView /\ Targets' = Targets \ {p}
    BY <1>4 DEF Watches, Unwatches, TypeOK
  <2>1. /\ DOMAIN toServer = 1 .. Len(toServer) /\ Len(toServer) \in Nat
        /\ DOMAIN toServer' = 1 .. Len(toServer) + 1
        /\ \A i \in 1 .. Len(toServer) : toServer'[i] = toServer[i]
        /\ toServer'[Len(toServer) + 1].q = p /\ toServer'[Len(toServer) + 1].known = known
    BY <2>0, SendAppends
  <2>2. \A i \in DOMAIN toServer' : i \in DOMAIN toServer \/ i = Len(toServer) + 1
    BY <2>1
  <2>3. cache[p] \in Nat /\ cache[p] # NoView /\ cache[p] <= cache[p]
    <3>1. cache[p] \in Version
      BY DEF TypeOK
    <3> QED BY <3>1, Versions
  <2>4. ASSUME NEW i \in DOMAIN toServer', toServer'[i].known # NoView
        PROVE  toServer'[i].known <= cache'[toServer'[i].q]
    <3>1. CASE i \in DOMAIN toServer
      BY <1>0, <2>1, <2>4, <3>1
    <3>2. CASE i = Len(toServer) + 1
      <4>1. toServer'[i].known = cache[p] /\ toServer'[i].q = p
        BY <2>0, <2>1, <2>4, <3>2
      <4> QED BY <1>4, <2>3, <4>1
    <3> QED BY <2>2, <3>1, <3>2
  <2>5. ASSUME NEW q \in Targets', NEW i \in DOMAIN toServer', LastRequest(q, i)'
        PROVE  toServer'[i].known # NoView
    <3>1. CASE i = Len(toServer) + 1
      <4>1. q = p
        BY <2>1, <2>5, <3>1 DEF LastRequest
      <4> QED BY <2>0, <2>1, <2>3, <2>5, <3>1, <4>1
    <3>2. CASE i \in DOMAIN toServer
      <4>1. Len(toServer) + 1 \in DOMAIN toServer' /\ i < Len(toServer) + 1
        BY <2>1, <3>2
      <4>2. q # p
        BY <2>1, <2>5, <3>2, <4>1 DEF LastRequest
      <4>3. q \in Targets
        BY <2>0, <2>5, <4>2
      <4>4. LastRequest(q, i)
        BY <2>1, <2>5, <3>2 DEF LastRequest
      <4> QED BY <2>1, <3>2, <4>3, <4>4 DEF Asked
    <3> QED BY <2>2, <3>1, <3>2
  <2> QED BY <2>4, <2>5 DEF Asked
<1>5. CASE StreamOpens
  <2>1. /\ toServer' \in Seq(Request)
        /\ \A i \in DOMAIN toServer' :
              toServer'[i].q \in Targets /\ toServer'[i].known = cache[toServer'[i].q]
    BY <1>5, OpeningRequests
  <2>2. cache' = cache /\ \A q \in Targets : cache[q] \in Nat /\ cache[q] # NoView
    <3>1. cache' = cache /\ \A q \in Targets : cache[q] \in Version
      BY <1>5 DEF StreamOpens, views, TypeOK, Targets
    <3> QED BY <3>1, Versions
  <2>3. \A i \in DOMAIN toServer' :
          toServer'[i].known # NoView /\ toServer'[i].known <= cache'[toServer'[i].q]
    BY <2>1, <2>2
  <2> QED BY <2>3 DEF Asked
<1>6. CASE Serve
  <2>1. Targets' = Targets
    BY <1>6, ServeSteps
  <2>2. CASE toServer' = toServer
    BY <1>2, <2>1, <2>2
  <2>3. CASE ServeRequest
    <3>1. /\ toServer # <<>> /\ toServer' = Tail(toServer)
      BY <2>3 DEF ServeRequest
    <3>2. /\ \A i \in DOMAIN toServer' : i + 1 \in DOMAIN toServer /\ toServer'[i] = toServer[i + 1]
          /\ \A j \in DOMAIN toServer : j = 1 \/ j - 1 \in DOMAIN toServer'
          /\ \A i \in DOMAIN toServer : i \in Nat /\ i >= 1
          /\ \A i \in DOMAIN toServer' : i \in Nat /\ i >= 1
      BY <3>1, QueueType DEF TypeOK
    <3>3. ASSUME NEW q \in Query, NEW i \in DOMAIN toServer', LastRequest(q, i)'
          PROVE  LastRequest(q, i + 1)
      <4>1. ASSUME NEW j \in DOMAIN toServer, toServer[j].q = q PROVE j <= i + 1
        <5>1. CASE j = 1
          BY <3>2, <5>1
        <5>2. CASE j - 1 \in DOMAIN toServer'
          <6>1. toServer'[j - 1] = toServer[j]
            BY <3>2, <4>1, <5>2
          <6>2. j - 1 <= i
            BY <3>3, <4>1, <5>2, <6>1 DEF LastRequest
          <6> QED BY <3>2, <6>2
        <5> QED BY <3>2, <5>1, <5>2
      <4> QED BY <3>2, <3>3, <4>1 DEF LastRequest
    <3>4. \A q \in Targets : q \in Query
      BY DEF Targets
    <3> QED BY <1>0, <2>1, <3>2, <3>3, <3>4 DEF Asked
  <2> QED BY <1>6, <2>2, <2>3 DEF Serve, ServeDoc, ServeCurrent, ServeSnapshot
<1>7. Read => toServer' = toServer /\ Targets' = Targets
  BY ReadSteps
<1>8. Renewed => toServer' = <<>>
  BY DEF Renewed, NewChannel
<1> QED BY <1>1, <1>2, <1>3, <1>4, <1>5, <1>6, <1>7, <1>8, ChannelSteps

-----------------------------------------------------------------------------
(* What the client knows of a target once it has read up to place j, if no   *)
(* answer about the target is still to come: version v or a later one.       *)
Latest(q, j) == \A i \in DOMAIN toClient : Response(toClient[i], q) => i < j
Knows(q, j, v) ==
  \/ cache[q] >= v \/ updates[q] >= v
  \/ \E i \in DOMAIN toClient : i < j /\ Latest(q, i) /\ DocOf(q, i) /\ toClient[i].v >= v

LEMMA KnowsLess ==
  ASSUME TypeOK, NEW q \in Query, NEW j \in Nat, NEW v \in Nat, NEW w \in Nat, w <= v,
         Knows(q, j, v)
  PROVE  Knows(q, j, w)
  BY ChannelFacts DEF Knows

LEMMA KnowsKept ==
  ASSUME NEW q \in Query, NEW j \in Nat, NEW v \in Nat, Knows(q, j, v),
         UNCHANGED <<cache, updates, toClient>>
  PROVE  Knows(q, j, v)'
  BY DEF Knows, Latest, DocOf

(* The server says more, but no answer about q.                              *)
LEMMA KnowsAppend ==
  ASSUME TypeOK, NEW q \in Query, NEW j \in Nat, NEW v \in Nat, Knows(q, j, v),
         NEW m \in Message, toClient' = Append(toClient, m), ~Response(m, q),
         UNCHANGED <<cache, updates>>
  PROVE  Knows(q, j, v)'
<1>1. CASE cache[q] >= v \/ updates[q] >= v
  BY <1>1 DEF Knows
<1>2. CASE \E i \in DOMAIN toClient : i < j /\ Latest(q, i) /\ DocOf(q, i) /\ toClient[i].v >= v
  <2>1. PICK i \in DOMAIN toClient : i < j /\ Latest(q, i) /\ DocOf(q, i) /\ toClient[i].v >= v
    BY <1>2
  <2>2. /\ \A k \in DOMAIN toClient : k \in DOMAIN toClient' /\ toClient'[k] = toClient[k]
        /\ \A k \in DOMAIN toClient' : k \in DOMAIN toClient \/ toClient'[k] = m
    BY AppendFacts DEF TypeOK
  <2>3. Latest(q, i)' /\ DocOf(q, i)'
    BY <2>1, <2>2 DEF Latest, DocOf
  <2> QED BY <2>1, <2>2, <2>3 DEF Knows
<1> QED BY <1>1, <1>2 DEF Knows

(* The client reads on.                                                      *)
LEMMA KnowsTail ==
  ASSUME TypeOK, TypeOK', Paired, Quiet, ResponsesAreCounted, Bounded, Read,
         NEW q \in Targets, Requests(q) = {}, NEW j \in Nat, NEW v \in Nat,
         Knows(q, j + 1, v)
  PROVE  Knows(q, j, v)'
<1>0. /\ q \in Query /\ cache[q] \in Nat /\ updates[q] \in Nat
      /\ cache'[q] \in Nat /\ updates'[q] \in Nat
  BY VersionType DEF Targets, TypeOK
<1>1. /\ toClient # <<>> /\ toClient' = Tail(toClient) /\ Head(toClient) = toClient[1]
      /\ 1 \in DOMAIN toClient
      /\ \A i \in DOMAIN toClient : i \in Nat /\ i >= 1
      /\ \A i \in DOMAIN toClient : i = 1 \/ i - 1 \in DOMAIN toClient'
      /\ \A i \in DOMAIN toClient' : i + 1 \in DOMAIN toClient /\ toClient'[i] = toClient[i + 1]
      /\ stream = "Open"
  <2>1. toClient # <<>> /\ toClient' = Tail(toClient)
    BY ReadSteps
  <2> QED BY <2>1, QueueType DEF TypeOK, Quiet
<1>2. \/ /\ DocOf(q, 1) /\ IsActiveTarget(q)
         /\ updates'[q] = toClient[1].v /\ cache'[q] = cache[q]
      \/ /\ ~(DocOf(q, 1) /\ IsActiveTarget(q))
         /\ updates'[q] = updates[q] /\ cache'[q] = cache[q]
      \/ /\ toClient[1].kind = "snapshot"
         /\ cache'[q] >= cache[q] /\ cache'[q] >= updates[q]
  BY <1>0, <1>1, ReadSteps DEF DocOf
<1>3. DocOf(q, 1) => toClient[1].v >= updates[q] /\ toClient[1].v \in Nat
  BY <1>0, <1>1, ChannelFacts DEF Bounded
<1>4. CASE cache[q] >= v \/ updates[q] >= v
  <2>1. cache'[q] >= v \/ updates'[q] >= v
    BY <1>0, <1>2, <1>3, <1>4
  <2> QED BY <2>1 DEF Knows
<1>5. ASSUME NEW i \in DOMAIN toClient, i < j + 1, Latest(q, i), DocOf(q, i),
             toClient[i].v >= v
      PROVE  Knows(q, j, v)'
  <2>1. CASE i = 1
    <3>1. Responses(q) = {}
      BY <1>1, <1>5, <2>1 DEF Latest, Responses, Response
    <3>2. outstanding[q] = Cardinality(Requests(q)) + Cardinality(Responses(q))
      BY <1>0, <1>1 DEF ResponsesAreCounted
    <3>3. outstanding[q] = 0
      BY <3>1, <3>2, FS_EmptySet
    <3>4. IsActiveTarget(q) /\ DocOf(q, 1) /\ toClient[1].kind # "snapshot"
      BY <1>5, <2>1, <3>3 DEF IsActiveTarget, DocOf
    <3>5. updates'[q] = toClient[1].v
      BY <1>2, <3>4
    <3> QED BY <1>5, <2>1, <3>5 DEF Knows
  <2>2. CASE i # 1
    <3>1. PICK k \in DOMAIN toClient' : k = i - 1
      BY <1>1, <2>2
    <3>2. toClient'[k] = toClient[i] /\ k < j
      BY <1>1, <1>5, <3>1
    <3>3. ASSUME NEW h \in DOMAIN toClient', Response(toClient'[h], q) PROVE h < k
      <4>1. h + 1 \in DOMAIN toClient /\ Response(toClient[h + 1], q)
        BY <1>1, <3>3
      <4>2. h + 1 < i
        BY <1>5, <4>1 DEF Latest
      <4>3. h \in Nat
        BY <1>1, QueueType DEF TypeOK
      <4> QED BY <1>1, <3>1, <4>2, <4>3
    <3>4. Latest(q, k)'
      BY <3>3 DEF Latest
    <3>5. DocOf(q, k)'
      BY <1>5, <3>2 DEF DocOf
    <3> QED BY <1>5, <3>2, <3>4, <3>5 DEF Knows
  <2> QED BY <2>1, <2>2
<1> QED BY <1>4, <1>5 DEF Knows

(* Once all requests about a watched target are answered, the client knows   *)
(* at a snapshot all that the view was promised, and the server holds no     *)
(* more than the client knows when it has read everything.                   *)
AtSnapshots(q) ==
  \A j \in DOMAIN toClient :
    toClient[j].kind = "snapshot" /\ Latest(q, j) => Knows(q, j, since[q])
Ahead(q) ==
  stream = "Open" =>
    held[q] # NoView /\ Knows(q, Len(toClient) + 1, held[q].doc)
Promised == \A q \in Targets : Requests(q) = {} => AtSnapshots(q) /\ Ahead(q)

LEMMA HeldType ==
  ASSUME TypeOK, NEW q \in Query, held[q] # NoView
  PROVE  held[q] \in View /\ held[q].doc \in Nat
<1>1. held[q] \in View
  BY DEF TypeOK
<1> QED BY <1>1, ViewType, VersionType

LEMMA PromisedKept ==
  ASSUME TypeOK, Promised, NEW q \in Targets, Requests(q) = {},
         UNCHANGED <<cache, updates, toClient>>, stream' = "Open" <=> stream = "Open",
         held'[q] = held[q], since'[q] = since[q]
  PROVE  AtSnapshots(q)' /\ Ahead(q)'
<1>1. q \in Query
  BY DEF Targets
<1>2. AtSnapshots(q) /\ Ahead(q)
  BY DEF Promised
<1>3. AtSnapshots(q)'
  BY <1>2 DEF AtSnapshots, Knows, Latest, DocOf
<1>4. Ahead(q)'
  BY <1>2 DEF Ahead, Knows, Latest, DocOf
<1> QED BY <1>3, <1>4

LEMMA AtSnapshotsAppend ==
  ASSUME TypeOK, NEW q \in Query, AtSnapshots(q),
         NEW m \in Message, toClient' = Append(toClient, m), ~Response(m, q),
         UNCHANGED <<cache, updates, since>>,
         m.kind = "snapshot" => Knows(q, Len(toClient) + 1, since[q])
  PROVE  AtSnapshots(q)'
<1>1. /\ Len(toClient) \in Nat /\ DOMAIN toClient = 1 .. Len(toClient)
      /\ DOMAIN toClient' = 1 .. Len(toClient) + 1
      /\ \A i \in DOMAIN toClient : i \in DOMAIN toClient' /\ toClient'[i] = toClient[i]
      /\ toClient'[Len(toClient) + 1] = m
  BY AppendFacts DEF TypeOK
<1>2. PICK v \in Nat : v = since[q]
  BY ChannelFacts
<1>3. ASSUME NEW j \in DOMAIN toClient', toClient'[j].kind = "snapshot", Latest(q, j)'
      PROVE  Knows(q, j, v)'
  <2>1. Latest(q, j)
    BY <1>1, <1>3 DEF Latest
  <2>2. Knows(q, j, v)
    <3>1. CASE j \in DOMAIN toClient
      BY <1>1, <1>2, <1>3, <2>1, <3>1 DEF AtSnapshots
    <3>2. CASE j = Len(toClient) + 1
      BY <1>1, <1>2, <1>3, <3>2
    <3> QED BY <1>1, <3>1, <3>2
  <2>3. j \in Nat
    BY <1>1
  <2> QED BY <2>2, <2>3, KnowsAppend
<1> QED BY <1>2, <1>3 DEF AtSnapshots, Knows, Latest, DocOf

LEMMA AheadAppend ==
  ASSUME TypeOK, NEW q \in Query,
         NEW m \in Message, toClient' = Append(toClient, m), ~Response(m, q),
         UNCHANGED <<cache, updates>>,
         NEW v \in Nat, Knows(q, Len(toClient) + 1, v), held'[q] # NoView, held'[q].doc = v
  PROVE  Ahead(q)'
<1>1. Len(toClient) \in Nat /\ Len(toClient') = Len(toClient) + 1
  BY AppendFacts DEF TypeOK
<1>2. PICK n \in Nat : n = Len(toClient) + 1
  BY <1>1
<1>3. Knows(q, n, v)'
  BY <1>2, KnowsAppend
<1>4. \A i \in DOMAIN toClient' : i < n => i < Len(toClient') + 1
  <2>1. DOMAIN toClient' = 1 .. Len(toClient) + 1
    BY AppendFacts DEF TypeOK
  <2> QED BY <1>1, <1>2, <2>1
<1> QED BY <1>3, <1>4 DEF Ahead, Knows, Latest, DocOf

LEMMA PromisedRead ==
  ASSUME TypeOK, TypeOK', Paired, Quiet, ResponsesAreCounted, Bounded, Promised, Read,
         NEW q \in Targets, Requests(q) = {}
  PROVE  AtSnapshots(q)' /\ Ahead(q)'
<1>1. /\ UNCHANGED <<since, stream, held>> /\ toClient # <<>> /\ toClient' = Tail(toClient)
  BY ReadSteps DEF backend
<1>2. /\ q \in Query /\ AtSnapshots(q) /\ Ahead(q) /\ stream = "Open"
  BY <1>1 DEF Targets, Promised, Quiet
<1>3. /\ Len(toClient) \in Nat /\ Len(toClient') + 1 = Len(toClient)
      /\ \A i \in DOMAIN toClient' : /\ i + 1 \in DOMAIN toClient /\ i \in Nat
                                     /\ toClient'[i] = toClient[i + 1]
      /\ \A i \in DOMAIN toClient : i = 1 \/ i - 1 \in DOMAIN toClient'
      /\ \A i \in DOMAIN toClient : i \in Nat
  BY <1>1, QueueType DEF TypeOK
<1>4. PICK v \in Nat : v = since[q]
  BY <1>2, ChannelFacts
<1>5. ASSUME NEW j \in DOMAIN toClient', toClient'[j].kind = "snapshot", Latest(q, j)'
      PROVE  Knows(q, j, v)'
  <2>1. ASSUME NEW i \in DOMAIN toClient, Response(toClient[i], q) PROVE i < j + 1
    <3>1. CASE i = 1
      <4>1. j \in Nat /\ j >= 1
        BY <1>1, QueueType DEF TypeOK
      <4> QED BY <3>1, <4>1
    <3>2. CASE i - 1 \in DOMAIN toClient'
      <4>1. toClient'[i - 1] = toClient[i]
        BY <1>3, <3>2
      <4>2. i - 1 < j
        BY <1>5, <2>1, <3>2, <4>1 DEF Latest
      <4> QED BY <1>3, <4>2
    <3> QED BY <1>3, <3>1, <3>2
  <2>2. Latest(q, j + 1)
    BY <2>1 DEF Latest
  <2>3. Knows(q, j + 1, v)
    BY <1>2, <1>3, <1>4, <1>5, <2>2 DEF AtSnapshots
  <2> QED BY <1>3, <2>3, KnowsTail
<1>6. AtSnapshots(q)'
  BY <1>1, <1>4, <1>5 DEF AtSnapshots, Knows, Latest, DocOf
<1>7. held[q] # NoView /\ Knows(q, Len(toClient) + 1, held[q].doc) /\ held[q].doc \in Nat
  BY <1>2, HeldType DEF Ahead
<1>8. PICK n \in Nat, w \in Nat : n = Len(toClient) /\ w = held[q].doc
  BY <1>3, <1>7
<1>9. Knows(q, n + 1, w)
  BY <1>7, <1>8
<1>10. Knows(q, n, w)'
  BY <1>9, KnowsTail
<1>11. Ahead(q)'
  BY <1>1, <1>3, <1>7, <1>8, <1>10 DEF Ahead, Knows, Latest, DocOf
<1> QED BY <1>6, <1>11

LEMMA PromisedServe ==
  ASSUME TypeOK, Bounded, Asked, Promised, Serve, UNCHANGED <<cache, updates, since>>,
         NEW q \in Targets, Requests(q)' = {}
  PROVE  AtSnapshots(q)' /\ Ahead(q)'
<1>0. /\ q \in Query /\ stream = "Open" /\ since[q] \in Nat /\ result[q] \in Nat
      /\ since[q] <= result[q] /\ held \in [Query -> View \cup {NoView}]
      /\ cache[q] \in Nat /\ Len(toClient) \in Nat
  BY ServeSteps, ChannelFacts DEF Targets, Bounded, TypeOK
<1>1. CASE ServeRequest
  <2> DEFINE r == Head(toServer)
             k == IF r.known = NoView THEN "removed" ELSE "added"
             m == [kind |-> k, q |-> r.q]
             h == IF r.known = NoView THEN NoView ELSE [doc |-> r.known, current |-> FALSE]
  <2>1. /\ toServer # <<>> /\ toServer' = Tail(toServer) /\ toClient' = Append(toClient, m)
        /\ held' = [held EXCEPT ![r.q] = h]
    BY <1>1 DEF ServeRequest, Answers
  <2>2. /\ r = toServer[1] /\ 1 \in DOMAIN toServer /\ \A i \in DOMAIN toServer : i \in Nat /\ i >= 1
        /\ \A i \in DOMAIN toServer : i = 1 \/ i - 1 \in DOMAIN toServer'
        /\ \A i \in DOMAIN toServer' : toServer'[i] = toServer[i + 1] /\ i \in Nat
        /\ r.q \in Query /\ r.known \in Version \cup {NoView}
    <3>1. r \in Request
      BY <2>1, QueueType DEF TypeOK
    <3> QED BY <2>1, <3>1, QueueType DEF TypeOK, Request
  <2>3. k \in {"added", "removed"} /\ k \in {"added", "removed", "current"} /\ k # "snapshot"
    OBVIOUS
  <2>4. \A i \in DOMAIN toServer : toServer[i].q = q => i = 1
    <3>1. ASSUME NEW i \in DOMAIN toServer, toServer[i].q = q, i # 1 PROVE FALSE
      <4>1. PICK d \in DOMAIN toServer' : d = i - 1
        BY <2>2, <3>1
      <4>2. toServer'[d].q = q
        BY <2>2, <3>1, <4>1
      <4> QED BY <4>1, <4>2 DEF Requests
    <3> QED BY <3>1
  <2>5. r.known # NoView => h # NoView /\ h.doc = r.known
    <3>1. r.known # NoView => [doc |-> r.known, current |-> FALSE] # NoView
      BY <2>2, NewViewType
    <3> QED BY <3>1
  <2> HIDE DEF k, h, r
  <2>6. m \in Message /\ m.kind = k /\ m.q = r.q
    BY <2>2, <2>3 DEF Message
  <2> HIDE DEF m
  <2>7. CASE r.q = q
    <3>1. Response(m, q)
      BY <2>3, <2>6, <2>7 DEF Response
    <3>2. AtSnapshots(q)'
      <4>1. /\ Len(toClient) + 1 \in DOMAIN toClient' /\ toClient'[Len(toClient) + 1] = m
            /\ \A j \in DOMAIN toClient' : j <= Len(toClient) + 1
        BY <2>1, <2>6, AppendFacts DEF TypeOK
      <4>2. \A j \in DOMAIN toClient' : ~(toClient'[j].kind = "snapshot" /\ Latest(q, j)')
        <5>1. ASSUME NEW j \in DOMAIN toClient', Latest(q, j)' PROVE FALSE
          <6>1. Len(toClient) + 1 < j
            BY <3>1, <4>1, <5>1 DEF Latest
          <6> QED BY <1>0, <2>1, <2>6, <4>1, <6>1, AppendFacts DEF TypeOK
        <5> QED BY <5>1
      <4> QED BY <4>2 DEF AtSnapshots, Latest
    <3>3. Ahead(q)'
      <4>1. LastRequest(q, 1)
        BY <2>2, <2>4, <2>7 DEF LastRequest
      <4>2. r.known # NoView /\ r.known <= cache[q]
        BY <2>2, <2>7, <4>1 DEF Asked
      <4>3. held'[q] # NoView /\ held'[q].doc = r.known
        BY <1>0, <2>1, <2>5, <2>7, <4>2
      <4> QED BY <4>2, <4>3 DEF Ahead, Knows
    <3> QED BY <3>2, <3>3
  <2>8. CASE r.q # q
    <3>1. Requests(q) = {}
      BY <2>2, <2>4, <2>8 DEF Requests
    <3>2. AtSnapshots(q) /\ Ahead(q) /\ ~Response(m, q) /\ held'[q] = held[q] /\ m.kind # "snapshot"
      BY <1>0, <2>1, <2>3, <2>6, <2>8, <3>1 DEF Promised, Response
    <3>3. /\ held[q] # NoView /\ held[q].doc \in Nat
          /\ Knows(q, Len(toClient) + 1, held[q].doc)
      BY <1>0, <3>2, HeldType DEF Ahead
    <3>4. AtSnapshots(q)'
      BY <1>0, <2>1, <2>6, <3>2, AtSnapshotsAppend
    <3>5. Ahead(q)'
      BY <1>0, <2>1, <2>6, <3>2, <3>3, AheadAppend
    <3> QED BY <3>4, <3>5
  <2> QED BY <2>7, <2>8
<1>2. ASSUME toServer' = toServer
      PROVE  /\ AtSnapshots(q) /\ held[q] # NoView /\ held[q].doc \in Nat
             /\ Knows(q, Len(toClient) + 1, held[q].doc)
  <2>1. Requests(q) = {}
    BY <1>2 DEF Requests
  <2>2. AtSnapshots(q) /\ Ahead(q)
    BY <2>1 DEF Promised
  <2> QED BY <1>0, <2>2, HeldType DEF Ahead
<1>3. ASSUME NEW p \in Query, ServeDoc(p) PROVE AtSnapshots(q)' /\ Ahead(q)'
  <2> DEFINE m == [kind |-> "doc", q |-> p, v |-> result[p]]
  <2>1. /\ held' = [held EXCEPT ![p] = [held[p] EXCEPT !.doc = result[p]]] /\ held[p] # NoView
        /\ toClient' = Append(toClient, m) /\ toServer' = toServer
    BY <1>3 DEF ServeDoc, Answers
  <2>2. m \in Message /\ ~Response(m, q) /\ m.kind = "doc" /\ m.q = p /\ m.v = result[p]
    BY DEF Message, Response, TypeOK
  <2> HIDE DEF m
  <2>3. AtSnapshots(q)'
    BY <1>0, <1>2, <2>1, <2>2, AtSnapshotsAppend
  <2>4. CASE p # q
    <3>1. held'[q] = held[q]
      BY <1>0, <2>1, <2>4
    <3>2. Ahead(q)'
      BY <1>0, <1>2, <2>1, <2>2, <3>1, AheadAppend
    <3> QED BY <2>3, <3>2
  <2>5. CASE p = q
    <3>1. held[q] \in View /\ held'[q] = [held[q] EXCEPT !.doc = result[q]]
      BY <1>0, <2>1, <2>5
    <3>2. held'[q] \in View /\ held'[q].doc = result[q]
      <4>1. result[q] \in Version
        BY <1>0 DEF TypeOK
      <4>2. [held[q] EXCEPT !.doc = result[q]] \in View
        BY <3>1, <4>1 DEF View
      <4>3. [held[q] EXCEPT !.doc = result[q]].doc = result[q]
        BY <3>1 DEF View
      <4> QED BY <3>1, <4>2, <4>3
    <3>3. held'[q] # NoView
      BY <3>2, ViewType
    <3>4. /\ DOMAIN toClient' = 1 .. Len(toClient) + 1 /\ Len(toClient') = Len(toClient) + 1
          /\ \A i \in 1 .. Len(toClient) : toClient'[i] = toClient[i]
          /\ toClient'[Len(toClient) + 1] = m
      BY <2>1, <2>2, AppendFacts DEF TypeOK
    <3>5. PICK n \in DOMAIN toClient' : n = Len(toClient) + 1
      BY <1>0, <3>4
    <3>6. DocOf(q, n)' /\ toClient'[n].v = result[q] /\ n < Len(toClient') + 1
      BY <1>0, <2>2, <2>5, <3>4, <3>5 DEF DocOf
    <3>7. ASSUME NEW i \in DOMAIN toClient', Response(toClient'[i], q) PROVE i < n
      <4>1. i # n
        BY <2>2, <3>4, <3>5, <3>7
      <4> QED BY <1>0, <3>4, <3>5, <4>1
    <3>8. Latest(q, n)'
      BY <3>7 DEF Latest
    <3>9. toClient'[n].v >= held'[q].doc
      BY <1>0, <3>2, <3>6
    <3>10. Ahead(q)'
      BY <3>3, <3>5, <3>6, <3>8, <3>9 DEF Ahead, Knows
    <3> QED BY <2>3, <3>10
  <2> QED BY <2>4, <2>5
<1>4. ASSUME NEW p \in Query, ServeCurrent(p) PROVE AtSnapshots(q)' /\ Ahead(q)'
  <2> DEFINE m == [kind |-> "current", q |-> p]
             c == [doc |-> held[p].doc, current |-> TRUE]
  <2>1. /\ held' = [held EXCEPT ![p] = c] /\ held[p] # NoView
        /\ toClient' = Append(toClient, m) /\ toServer' = toServer
    BY <1>0, <1>4 DEF ServeCurrent, Answers
  <2>2. m \in Message /\ ~Response(m, q) /\ m.kind # "snapshot"
    BY DEF Message, Response
  <2>3. c # NoView /\ c.doc = held[p].doc
    <3>1. held[p].doc \in Version
      BY <1>0, <2>1, ViewType
    <3> QED BY <3>1, NewViewType
  <2> HIDE DEF m, c
  <2>4. AtSnapshots(q)'
    BY <1>0, <1>2, <2>1, <2>2, AtSnapshotsAppend
  <2>5. held'[q] # NoView /\ held'[q].doc = held[q].doc
    <3>1. CASE p = q
      BY <1>0, <2>1, <2>3, <3>1
    <3>2. CASE p # q
      BY <1>0, <1>2, <2>1, <3>2
    <3> QED BY <3>1, <3>2
  <2>6. Ahead(q)'
    BY <1>0, <1>2, <2>1, <2>2, <2>5, AheadAppend
  <2> QED BY <2>4, <2>6
<1>5. CASE ServeSnapshot
  <2> DEFINE m == [kind |-> "snapshot"]
  <2>1. /\ UNCHANGED <<toServer, held>> /\ toClient' = Append(toClient, m)
        /\ held[q] # NoView => held[q] = [doc |-> result[q], current |-> TRUE]
    BY <1>0, <1>5 DEF ServeSnapshot, Answers
  <2>2. m \in Message /\ ~Response(m, q)
    BY DEF Message, Response
  <2> HIDE DEF m
  <2>3. held[q].doc = result[q]
    BY <1>2, <2>1
  <2>4. Knows(q, Len(toClient) + 1, since[q])
    <3>1. Knows(q, Len(toClient) + 1, result[q])
      BY <1>2, <2>1, <2>3
    <3>2. Len(toClient) + 1 \in Nat
      BY <1>0
    <3> QED BY <1>0, <3>1, <3>2, KnowsLess
  <2>5. AtSnapshots(q)'
    BY <1>0, <1>2, <2>1, <2>2, <2>4, AtSnapshotsAppend
  <2>6. Ahead(q)'
    BY <1>0, <1>2, <2>1, <2>2, AheadAppend
  <2> QED BY <2>5, <2>6
<1> QED BY <1>1, <1>3, <1>4, <1>5 DEF Serve

LEMMA PromisedStep ==
  ASSUME TypeOK, TypeOK', Paired, Quiet, ResponsesAreCounted, Bounded, Asked, Promised,
         [Next]_vars
  PROVE  Promised'
<1> SUFFICES ASSUME NEW q \in Targets', Requests(q)' = {}
             PROVE  AtSnapshots(q)' /\ Ahead(q)'
  BY DEF Promised
<1>1. q \in Query
  BY DEF Targets
<1>2. CASE toClient' = <<>> /\ stream' # "Open"
  BY <1>2 DEF AtSnapshots, Ahead
<1>3. CASE Rests /\ cache' = cache
  <2>1. /\ UNCHANGED <<updates, toClient, toServer, held>>
        /\ stream' = "Open" <=> stream = "Open"
    BY <1>3 DEF Rests, Kept, aggregator, channel, backend
  <2>2. CASE stream = "Open"
    <3>1. q \in Targets /\ since' = since /\ Requests(q) = {}
      BY <1>3, <2>1, <2>2 DEF Rests, Requests
    <3> QED BY <1>3, <2>1, <3>1, PromisedKept
  <2>3. CASE stream # "Open"
    BY <1>2, <2>1, <2>3 DEF Quiet
  <2> QED BY <2>2, <2>3
<1>4. CASE Renewed
  BY <1>2, <1>4 DEF Renewed, NewChannel
<1>5. StreamOpens => FALSE
  <2>1. StreamOpens => Targets' = Targets
    BY DEF StreamOpens, views, Targets
  <2> QED BY <2>1, OpeningRequests DEF Requests
<1>6. ASSUME NEW p \in Query, Watches(p) \/ Unwatches(p), cache' = cache
      PROVE  AtSnapshots(q)' /\ Ahead(q)'
  <2>1. PICK known \in Version \cup {NoView} : Sends(p, known)
    BY <1>6 DEF Watches, Unwatches, TypeOK
  <2>2. /\ UNCHANGED <<toClient, held, updates>> /\ stream = "Open" /\ stream' = "Open"
        /\ Len(toServer) \in Nat
        /\ DOMAIN toServer = 1 .. Len(toServer) /\ DOMAIN toServer' = 1 .. Len(toServer) + 1
        /\ \A i \in 1 .. Len(toServer) : toServer'[i] = toServer[i]
        /\ toServer'[Len(toServer) + 1].q = p
    BY <2>1, SendAppends DEF Sends
  <2>3. Len(toServer) + 1 \in DOMAIN toServer'
    BY <2>2
  <2>4. q # p
    BY <2>2, <2>3 DEF Requests
  <2>5. Requests(q) = {}
    BY <2>2 DEF Requests
  <2>6. q \in Targets /\ since'[q] = since[q]
    BY <1>1, <1>6, <2>4 DEF Watches, Unwatches
  <2> QED BY <1>6, <2>2, <2>5, <2>6, PromisedKept
<1>7. CASE Read
  <2>1. toServer' = toServer /\ Targets' = Targets
    BY <1>7, ReadSteps
  <2>2. Requests(q) = {}
    BY <2>1 DEF Requests
  <2> QED BY <1>7, <2>1, <2>2, PromisedRead
<1>8. CASE Serve
  <2>1. UNCHANGED <<cache, updates, since>> /\ Targets' = Targets
    BY <1>8, ServeSteps DEF views
  <2> QED BY <1>8, <2>1, PromisedServe
<1> QED BY <1>3, <1>4, <1>5, <1>6, <1>7, <1>8, ChannelSteps

-----------------------------------------------------------------------------
(* A view shows what the local store has; one that is current shows at least *)
(* what the server had when it was created.                                  *)
Synced ==
  /\ \A q \in Targets : /\ view[q].doc = cache[q]
                        /\ view[q].current => view[q].doc >= since[q]
  /\ \A l \in attached : floor[l] = since[QueryOf[l]]

LEMMA SnapshotIsSynced ==
  ASSUME TypeOK, TypeOK', Paired, Quiet, ResponsesAreCounted, Promised, Synced,
         Read, ReadSnapshot, Head(toClient).kind = "snapshot", NEW q \in Targets
  PROVE  view'[q].doc = cache'[q] /\ (view'[q].current => view'[q].doc >= since[q])
<1>0. /\ q \in Query /\ cache[q] \in Nat /\ cache'[q] \in Nat /\ since[q] \in Nat
      /\ updates[q] \in Nat
  BY VersionType DEF Targets, TypeOK
<1>1. /\ view'[q].doc = cache'[q] /\ cache'[q] >= cache[q] /\ cache'[q] >= updates[q]
      /\ IsActiveTarget(q) \/ view'[q].current = view[q].current
  BY <1>0, SnapshotViews
<1>2. CASE ~IsActiveTarget(q)
  BY <1>0, <1>1, <1>2 DEF Synced
<1>3. CASE IsActiveTarget(q)
  <2>1. /\ toClient # <<>> /\ 1 \in DOMAIN toClient /\ toClient[1].kind = "snapshot"
        /\ stream = "Open" /\ \A i \in DOMAIN toClient : i >= 1
    BY QueueType DEF Read, TypeOK, Quiet
  <2>2. outstanding[q] = Cardinality(Requests(q)) + Cardinality(Responses(q))
    BY <1>0, <2>1 DEF ResponsesAreCounted
  <2>3. /\ Cardinality(Requests(q)) \in Nat /\ Cardinality(Responses(q)) \in Nat
        /\ IsFiniteSet(Requests(q)) /\ IsFiniteSet(Responses(q))
    BY <1>0, CountType
  <2>4. Cardinality(Requests(q)) = 0 /\ Cardinality(Responses(q)) = 0
    BY <1>3, <2>2, <2>3 DEF IsActiveTarget
  <2>5. Requests(q) = {} /\ Responses(q) = {}
    BY <2>3, <2>4, FS_EmptySet
  <2>6. Latest(q, 1)
    BY <2>5 DEF Latest, Response, Responses
  <2>7. Knows(q, 1, since[q])
    BY <2>1, <2>5, <2>6 DEF Promised, AtSnapshots
  <2>8. cache[q] >= since[q] \/ updates[q] >= since[q]
    <3>1. \A i \in DOMAIN toClient : i \in Nat /\ ~(i < 1)
      BY <2>1, QueueType DEF TypeOK
    <3> QED BY <2>7, <3>1 DEF Knows
  <2> QED BY <1>0, <1>1, <2>8
<1> QED BY <1>2, <1>3

LEMMA SyncedStep ==
  ASSUME TypeOK, TypeOK', Paired, Quiet, ResponsesAreCounted, Promised, Synced, [Next]_vars
  PROVE  Synced'
<1>0. \A l \in attached : QueryOf[l] \in Targets /\ QueryOf[l] \in Query /\ l \in Listener
  BY DEF Paired, Targets, TypeOK
<1>1. CASE UNCHANGED views
  BY <1>1 DEF views, Synced, Targets
<1>2. CASE GoOffline /\ UNCHANGED <<attached, cache, since, floor>>
  <2>1. /\ Targets' = Targets /\ \A q \in Targets : view'[q].doc = view[q].doc
        /\ view' = view \/ \A q \in Targets : ~view'[q].current
    BY <1>2, OfflineViews
  <2> QED BY <1>2, <2>1 DEF Synced
<1>3. CASE Read /\ ReadSnapshot
  <2>1. UNCHANGED <<attached, since, floor>> /\ Targets' = Targets
    BY <1>3, SnapshotViews DEF Read
  <2>2. CASE Head(toClient).kind = "snapshot"
    BY <1>3, <2>1, <2>2, SnapshotIsSynced DEF Synced
  <2>3. CASE Head(toClient).kind # "snapshot"
    <3>1. UNCHANGED <<view, cache>>
      BY <1>3, <2>3 DEF Read, ReadResponse, ReadDoc, ReadCurrent
    <3> QED BY <2>1, <3>1 DEF Synced
  <2> QED BY <2>2, <2>3
<1>4. ASSUME NEW l \in Listener, Add(l) PROVE Synced'
  <2> DEFINE q == QueryOf[l]
  <2>1. /\ q \in Query /\ attached' = attached \cup {l} /\ Targets' = Targets \cup {q}
        /\ \A p \in Query \ {q} : view'[p] = view[p] /\ since'[p] = since[p]
        /\ q \in Targets => view'[q] = view[q] /\ since'[q] = since[q]
        /\ q \notin Targets => view'[q] = [doc |-> cache[q], current |-> FALSE]
        /\ floor' = [floor EXCEPT ![l] = since'[q]]
    BY <1>4, AddViews
  <2>2. cache' = cache /\ floor \in [Listener -> Version] /\ Targets \subseteq Query
    BY <1>4, AddStream DEF TypeOK, Targets
  <2> HIDE DEF q
  <2>3. ASSUME NEW p \in Targets'
        PROVE  view'[p].doc = cache'[p] /\ (view'[p].current => view'[p].doc >= since'[p])
    <3>1. CASE p \in Targets
      <4>1. view'[p] = view[p] /\ since'[p] = since[p]
        BY <2>1, <2>2, <3>1
      <4> QED BY <2>2, <3>1, <4>1 DEF Synced
    <3>2. CASE p \notin Targets
      BY <2>1, <2>2, <2>3, <3>2
    <3> QED BY <3>1, <3>2
  <2>4. ASSUME NEW k \in attached' PROVE floor'[k] = since'[QueryOf[k]]
    <3>1. CASE k = l
      BY <2>1, <2>2, <3>1 DEF q
    <3>2. CASE k # l
      <4>1. k \in attached /\ QueryOf[k] \in Targets /\ QueryOf[k] \in Query /\ k \in Listener
        BY <1>0, <2>1, <2>4, <3>2
      <4>2. floor'[k] = floor[k] /\ since'[QueryOf[k]] = since[QueryOf[k]]
        BY <2>1, <2>2, <3>2, <4>1
      <4> QED BY <4>1, <4>2 DEF Synced
    <3> QED BY <3>1, <3>2
  <2> QED BY <2>3, <2>4 DEF Synced
<1>5. ASSUME NEW l \in Listener, Detach(l) PROVE Synced'
  <2> DEFINE q == QueryOf[l]
             stays == \E k \in attached \ {l} : QueryOf[k] = q
  <2>1. /\ attached' = attached \ {l} /\ \A p \in Query \ {q} : view'[p] = view[p]
        /\ stays => view' = view /\ Targets' = Targets
        /\ ~stays => Targets' = Targets \ {q}
        /\ UNCHANGED <<cache, since, floor>>
    BY <1>5, DetachViews
  <2> HIDE DEF stays, q
  <2>2. \A p \in Targets' : p \in Targets /\ p \in Query /\ view'[p] = view[p]
    BY <2>1 DEF Targets
  <2> QED BY <2>1, <2>2 DEF Synced
<1> QED BY <1>1, <1>2, <1>3, <1>4, <1>5, ViewSteps

LEMMA FreshStep ==
  ASSUME TypeOK, TypeOK', Paired, Paired', InTurn, Synced', SyncedIsFresh, [Next]_vars
  PROVE  SyncedIsFresh'
<1> SUFFICES ASSUME NEW l \in Listener
             PROVE  /\ \A i \in DOMAIN inbox'[l] :
                         ~inbox'[l][i].fromCache => inbox'[l][i].doc >= floor'[l]
                    /\ (told'[l] # Silent /\ ~told'[l].fromCache) => told'[l].doc >= floor'[l]
                    /\ (l \in attached' /\ view'[QueryOf[l]].current) =>
                         view'[QueryOf[l]].doc >= floor'[l]
  BY DEF SyncedIsFresh
<1>1. inbox[l] \in Seq(Event)
  BY DEF TypeOK
<1>2. ASSUME l \in attached', view'[QueryOf[l]].current
      PROVE  view'[QueryOf[l]].doc >= floor'[l]
  <2>1. QueryOf[l] \in Targets'
    BY <1>2 DEF Paired
  <2> QED BY <1>2, <2>1 DEF Synced
<1>3. /\ \A i \in DOMAIN inbox[l] : ~inbox[l][i].fromCache => inbox[l][i].doc >= floor[l]
      /\ (told[l] # Silent /\ ~told[l].fromCache) => told[l].doc >= floor[l]
  BY DEF SyncedIsFresh
<1>4. \/ floor'[l] = floor[l]
      \/ inbox[l] = <<>> /\ told[l] = Silent
  <2>1. CASE UNCHANGED floor
    BY <2>1
  <2>2. ASSUME RunTask, NEW k \in Listener, k = Head(tasks).l, Add(k)
        PROVE  \/ floor'[l] = floor[l]
               \/ inbox[l] = <<>> /\ told[l] = Silent
    <3>1. floor' = [floor EXCEPT ![k] = since'[QueryOf[k]]] /\ floor \in [Listener -> Version]
      BY <2>2, AddViews DEF TypeOK
    <3>2. CASE k # l
      BY <3>1, <3>2
    <3>3. CASE k = l
      <4>1. tasks # <<>> /\ Head(tasks) = tasks[1] /\ 1 \in DOMAIN tasks
        BY <2>2, QueueType DEF RunTask, TypeOK
      <4>2. CASE tasks[1].add
        BY <2>2, <3>3, <4>1, <4>2 DEF InTurn
      <4>3. CASE ~tasks[1].add
        <5>1. Detach(k)
          BY <2>2, <4>1, <4>3 DEF RunTask
        <5>2. floor' = floor
          BY <5>1, DetachViews
        <5> QED BY <5>2
      <4> QED BY <4>2, <4>3
    <3> QED BY <3>2, <3>3
  <2>3. \A k \in Listener : Detach(k) => floor' = floor
    BY DetachViews
  <2>4. UNCHANGED views => floor' = floor
    BY DEF views
  <2>5. Read => floor' = floor
    BY DEF Read
  <2> QED BY <2>1, <2>2, <2>3, <2>4, <2>5, ViewSteps
<1>5. CASE RunEvent(l)
  <2>1. /\ inbox[l] # <<>> /\ inbox' = [inbox EXCEPT ![l] = Tail(@)] /\ floor' = floor
        /\ told' = told \/ told' = [told EXCEPT ![l] = Head(inbox[l])]
    BY <1>5 DEF RunEvent, views
  <2>2. inbox'[l] = Tail(inbox[l]) /\ (told'[l] = told[l] \/ told'[l] = Head(inbox[l]))
    BY <2>1 DEF TypeOK
  <2>3. /\ \A i \in DOMAIN inbox'[l] : i + 1 \in DOMAIN inbox[l] /\ inbox'[l][i] = inbox[l][i + 1]
        /\ 1 \in DOMAIN inbox[l] /\ Head(inbox[l]) = inbox[l][1]
    <3>1. /\ Len(inbox[l]) \in Nat \ {0} /\ DOMAIN inbox[l] = 1 .. Len(inbox[l])
          /\ DOMAIN inbox'[l] = 1 .. Len(inbox[l]) - 1 /\ Head(inbox[l]) = inbox[l][1]
          /\ \A i \in 1 .. Len(inbox[l]) - 1 : inbox'[l][i] = inbox[l][i + 1]
      <4>1. PICK s \in Seq(Event) : s = inbox[l] /\ s # <<>> /\ inbox'[l] = Tail(s)
        BY <1>1, <2>1, <2>2
      <4>2. /\ Head(s) = s[1] /\ Len(s) \in Nat \ {0}
            /\ DOMAIN s = 1 .. Len(s) /\ DOMAIN Tail(s) = 1 .. Len(s) - 1
            /\ \A i \in 1 .. Len(s) - 1 : Tail(s)[i] = s[i + 1]
        BY <4>1, QueueType
      <4> QED BY <4>1, <4>2
    <3> QED BY <3>1
  <2> QED BY <1>2, <1>3, <2>1, <2>2, <2>3
<1>6. CASE told'[l] = told[l] /\ inbox'[l] = inbox[l]
  BY <1>2, <1>3, <1>4, <1>6
<1>7. CASE told'[l] = told[l] /\ l \in attached' /\ Tells(l)
  <2> DEFINE e == [doc |-> view'[QueryOf[l]].doc, fromCache |-> ~view'[QueryOf[l]].current]
  <2>1. inbox'[l] = Append(inbox[l], e)
    BY <1>7 DEF Tells
  <2>2. view'[QueryOf[l]] \in View
    <3>1. QueryOf[l] \in Targets'
      BY <1>7 DEF Paired
    <3> QED BY <3>1 DEF Targets, TypeOK
  <2>3. view'[QueryOf[l]].doc \in Version /\ view'[QueryOf[l]].current \in BOOLEAN
    BY <2>2, ViewType
  <2>4. e \in Event /\ e.doc = view'[QueryOf[l]].doc /\ (~e.fromCache => view'[QueryOf[l]].current)
    BY <2>3 DEF Event
  <2> HIDE DEF e
  <2>5. ~e.fromCache => e.doc >= floor'[l]
    BY <1>2, <1>7, <2>4
  <2>6. \A i \in DOMAIN inbox'[l] :
          \/ i \in DOMAIN inbox[l] /\ inbox'[l][i] = inbox[l][i]
          \/ inbox'[l][i] = e
    BY <1>1, <2>1, <2>4, AppendFacts
  <2> QED BY <1>2, <1>3, <1>4, <1>7, <2>5, <2>6
<1> QED BY <1>5, <1>6, <1>7, EventSteps

-----------------------------------------------------------------------------
(* The inductive invariant.                                                  *)
IInv ==
  /\ TypeOK /\ Paired /\ Untold /\ Quiet /\ ResponsesAreCounted /\ Timed
  /\ InTurn /\ AnsweredMuted
  /\ Bounded /\ Asked /\ Promised /\ Synced /\ SyncedIsFresh

LEMMA Initially == Init => IInv
<1> SUFFICES ASSUME Init PROVE IInv
  OBVIOUS
<1>1. TypeOK
  <2>1. /\ result \in [Query -> Version] /\ cache \in [Query -> Version]
        /\ updates \in [Query -> Version] /\ outstanding \in [Query -> Nat]
        /\ since \in [Query -> Version] /\ floor \in [Listener -> Version]
    <3>1. {0, 1} \subseteq Version
      BY VersionType
    <3> QED BY <3>1, VersionType DEF Init, Zero
  <2>2. /\ tasks \in Seq(Task) /\ toServer \in Seq(Request) /\ toClient \in Seq(Message)
        /\ inbox \in [Listener -> Seq(Event)] /\ told \in [Listener -> Event \cup {Silent}]
        /\ view \in [Query -> View \cup {NoView}] /\ held \in [Query -> View \cup {NoView}]
    BY DEF Init
  <2>3. pending \in [Query -> BOOLEAN] /\ marked \in [Query -> BOOLEAN]
    BY DEF Init, None
  <2>4. /\ muted \subseteq Listener /\ raised \subseteq Listener /\ attached \subseteq Listener
    BY DEF Init
  <2>5. timer = FALSE /\ failed = FALSE /\ idle = FALSE /\ dirty = FALSE /\ left = FALSE
    BY DEF Init
  <2>6. /\ online \in {"Unknown", "Online", "Offline"}
        /\ stream \in {"Initial", "Starting", "Backoff", "Open", "Error"}
    BY DEF Init
  <2> QED BY <2>1, <2>2, <2>3, <2>4, <2>5, <2>6 DEF TypeOK
<1>2. Targets = {}
  BY DEF Init, Targets
<1>3. Paired /\ Untold /\ Quiet /\ ResponsesAreCounted
  BY <1>2 DEF Init, Paired, Untold, Quiet, ResponsesAreCounted
<1>4. Timed
  BY <1>2 DEF Init, Timed, Started
<1>5. InTurn /\ AnsweredMuted
  BY OnceAssumption DEF Init, InTurn, AnsweredMuted
<1>6. Bounded
  <2>1. \A q \in Query : result[q] \in {0, 1} /\ since[q] = 0 /\ updates[q] = 0
    BY DEF Init, Zero
  <2> QED BY <2>1 DEF Init, Bounded
<1>7. Asked /\ Promised
  BY <1>2 DEF Init, Asked, Promised
<1>8. Synced /\ SyncedIsFresh
  BY <1>2 DEF Init, Synced, SyncedIsFresh
<1> QED BY <1>1, <1>3, <1>4, <1>5, <1>6, <1>7, <1>8 DEF IInv

LEMMA Steps == IInv /\ [Next]_vars => IInv'
<1> SUFFICES ASSUME IInv, [Next]_vars PROVE IInv'
  OBVIOUS
<1> USE DEF IInv
<1>1. TypeOK'
  BY TypeStep
<1>2. Paired' /\ Untold'
  BY PairedStep
<1>3. Quiet' /\ ResponsesAreCounted'
  BY CountStep
<1>4. Timed'
  BY TimedStep
<1>5. InTurn' /\ AnsweredMuted'
  BY InTurnStep, AnsweredStep
<1>6. Bounded' /\ Asked' /\ Promised'
  BY <1>1, BoundedStep, AskedStep, PromisedStep
<1>7. Synced'
  BY <1>1, SyncedStep
<1>8. SyncedIsFresh'
  BY <1>1, <1>2, <1>7, FreshStep
<1> QED BY <1>1, <1>2, <1>3, <1>4, <1>5, <1>6, <1>7, <1>8

LEMMA Invariant == Spec => []IInv
  BY Initially, Steps, PTL DEF Spec

(* The client knows how many responses each target is still owed, and none   *)
(* of the read path's assertions fails.                                      *)
THEOREM StreamSound == Spec => []StreamIsSound
<1>1. IInv => StreamIsSound
  BY DEF IInv, StreamIsSound, AssertionsHold, Timed, Paired, Untold
<1> QED BY <1>1, Invariant, PTL

(* An answer to an earlier listen is never presented as one to this listen.  *)
THEOREM Fresh == Spec => []SyncedIsFresh
<1>1. IInv => SyncedIsFresh
  BY DEF IInv
<1> QED BY <1>1, Invariant, PTL

(* Who waits in the unknown state is timed, unless the last listener left    *)
(* before the stream was open.                                               *)
THEOREM Clock == Spec => []UnknownIsTimed
<1>1. IInv => UnknownIsTimed
  BY DEF IInv, Timed, UnknownIsTimed
<1> QED BY <1>1, Invariant, PTL

(* A get that was answered is not answered again.                            *)
THEOREM Answered == Spec => AnsweredOnce
<1>1. IInv /\ [Next]_vars => [\A l \in Once : told[l] # Silent => told'[l] = told[l]]_vars
  BY AnsweredStep DEF IInv
<1> QED BY <1>1, Invariant, PTL DEF Spec, AnsweredOnce
=============================================================================
