------------------------- MODULE ChatRoomSendProofs -------------------------
(* What holds of ChatRoomSend for every set of devices and messages and for  *)
(* every clock skew.                                                         *)
EXTENDS ChatRoomSend, FiniteSetTheorems, WellFoundedInduction, TLAPS

(* The insertion point of a message lies within the array, so the insertion  *)
(* yields a sequence of the old messages and the new one.                    *)
LEMMA InsertedType ==
  ASSUME NEW s \in Seq(MsgId), NEW m \in MsgId
  PROVE  /\ Inserted(s, m) \in Seq(MsgId)
         /\ \A i \in DOMAIN Inserted(s, m) :
              Inserted(s, m)[i] = m \/ \E j \in DOMAIN s : Inserted(s, m)[i] = s[j]
<1> DEFINE K == {i \in DOMAIN s : createdAt[s[i]] >= createdAt[m]}
           k == Cardinality(K)
           r == [i \in 1 .. Len(s) + 1 |-> IF i <= k THEN s[i]
                                           ELSE IF i = k + 1 THEN m ELSE s[i - 1]]
<1>1. Len(s) \in Nat /\ DOMAIN s = 1 .. Len(s)
  OBVIOUS
<1>2. k \in Nat /\ k <= Len(s)
  <2>1. IsFiniteSet(1 .. Len(s)) /\ Cardinality(1 .. Len(s)) = Len(s)
    <3> DEFINE n == Len(s)
    <3>1. n \in Nat
      BY <1>1
    <3> HIDE DEF n
    <3>2. n \in Int /\ 1 \in Int
      BY <3>1
    <3>3. IsFiniteSet(1 .. n) /\ Cardinality(1 .. n) = (IF 1 > n THEN 0 ELSE n - 1 + 1)
      BY ONLY <3>2, FS_Interval
    <3>4. IsFiniteSet(1 .. n) /\ Cardinality(1 .. n) = n
      BY <3>1, <3>3
    <3> QED BY <3>4 DEF n
  <2>2. K \subseteq 1 .. Len(s)
    BY <1>1
  <2>3. IsFiniteSet(K) /\ Cardinality(K) <= Cardinality(1 .. Len(s))
    BY <2>1, <2>2, FS_Subset
  <2>4. Cardinality(K) \in Nat
    BY <2>3, FS_CardinalityType
  <2> QED BY <2>1, <2>3, <2>4
<1> HIDE DEF K, k
<1>3. \A i \in 1 .. Len(s) + 1 :
        /\ r[i] \in MsgId
        /\ r[i] = m \/ \E j \in DOMAIN s : r[i] = s[j]
  <2> SUFFICES ASSUME NEW i \in 1 .. Len(s) + 1
               PROVE  r[i] = m \/ \E j \in DOMAIN s : r[i] = s[j]
    OBVIOUS
  <2>1. CASE i <= k
    BY <2>1, <1>1, <1>2
  <2>2. CASE i = k + 1
    BY <2>2, <1>1, <1>2
  <2>3. CASE i > k + 1
    <3>1. i - 1 \in DOMAIN s
      BY <2>3, <1>1, <1>2
    <3>2. r[i] = s[i - 1]
      BY <2>3, <1>1, <1>2
    <3> QED BY <3>1, <3>2
  <2> QED BY <2>1, <2>2, <2>3, <1>1, <1>2
<1>4. r \in Seq(MsgId) /\ DOMAIN r = 1 .. Len(s) + 1
  BY <1>1, <1>3
<1> QED BY <1>3, <1>4 DEF Inserted, K, k

-----------------------------------------------------------------------------
(* A disturbance is not forgotten.                                           *)
Kinds == {"overlap", "reject", "kill"}
LEMMA WorseKinds ==
  ASSUME NEW K \in SUBSET Kinds, disturbed \subseteq Kinds
  PROVE  /\ Worse(K) \subseteq Kinds
         /\ Worse(K) = {} => disturbed = {} /\ K = {}
  BY DEF Worse, Kinds

(* Types of the parts of a mutation queue.                                   *)
LEMMA QueueType ==
  ASSUME NEW q \in Seq(Write), q # <<>>
  PROVE  /\ Head(q) \in Write
         /\ Tail(q) \in Seq(Write) /\ Len(Tail(q)) = Len(q) - 1
         /\ \A i \in DOMAIN Tail(q) : i + 1 \in DOMAIN q /\ Tail(q)[i] = q[i + 1]
         /\ 1 \in DOMAIN q /\ Head(q) = q[1]
  OBVIOUS

(* Killing the app keeps the queue and takes the completion blocks away.     *)
LEMMA KilledQueue ==
  ASSUME NEW q \in Seq(Write)
  PROVE  LET r == [i \in DOMAIN q |-> [op |-> q[i].op, id |-> q[i].id, cb |-> FALSE]]
         IN  /\ r \in Seq(Write)
             /\ DOMAIN r = DOMAIN q /\ Len(r) = Len(q)
             /\ \A i \in DOMAIN q : r[i].op = q[i].op /\ r[i].id = q[i].id
<1> DEFINE r == [i \in DOMAIN q |-> [op |-> q[i].op, id |-> q[i].id, cb |-> FALSE]]
<1>1. Len(q) \in Nat /\ DOMAIN q = 1 .. Len(q)
  OBVIOUS
<1>2. \A i \in DOMAIN q : /\ r[i] \in Write
                          /\ r[i].op = q[i].op /\ r[i].id = q[i].id
  <2> SUFFICES ASSUME NEW i \in DOMAIN q
               PROVE  r[i] \in Write /\ r[i].op = q[i].op /\ r[i].id = q[i].id
    OBVIOUS
  <2>1. q[i] \in Write
    BY <1>1
  <2>2. r[i] = [op |-> q[i].op, id |-> q[i].id, cb |-> FALSE]
    OBVIOUS
  <2> HIDE DEF r
  <2> QED BY <2>1, <2>2 DEF Write
<1>3. r \in Seq(Write) /\ Len(r) = Len(q)
  BY <1>1, <1>2
<1> QED BY <1>2, <1>3

(* What the queue operations do to the ids a queue names.                    *)
LEMMA IdsAppend ==
  ASSUME NEW q \in Seq(Write), NEW w \in Write, NEW op
  PROVE  Ids(Append(q, w), op) = Ids(q, op) \cup (IF w.op = op THEN {w.id} ELSE {})
<1> DEFINE r == Append(q, w)
<1>1. /\ Len(q) \in Nat /\ DOMAIN q = 1 .. Len(q)
      /\ DOMAIN r = 1 .. Len(q) + 1
      /\ r[Len(q) + 1] = w
      /\ \A i \in DOMAIN q : r[i] = q[i]
  OBVIOUS
<1>2. DOMAIN r = DOMAIN q \cup {Len(q) + 1}
  BY <1>1
<1> HIDE DEF r
<1>3. Ids(r, op) \subseteq Ids(q, op) \cup (IF w.op = op THEN {w.id} ELSE {})
  BY <1>1, <1>2 DEF Ids
<1>4. Ids(q, op) \subseteq Ids(r, op)
  BY <1>1, <1>2 DEF Ids
<1>5. (IF w.op = op THEN {w.id} ELSE {}) \subseteq Ids(r, op)
  BY <1>1, <1>2 DEF Ids
<1> QED BY <1>3, <1>4, <1>5 DEF r

LEMMA IdsTail ==
  ASSUME NEW q \in Seq(Write), q # <<>>, NEW op
  PROVE  Ids(q, op) = Ids(Tail(q), op) \cup
                      (IF Head(q).op = op THEN {Head(q).id} ELSE {})
<1> DEFINE r == Tail(q)
<1>1. /\ 1 \in DOMAIN q /\ Head(q) = q[1]
      /\ \A i \in DOMAIN r : i + 1 \in DOMAIN q /\ r[i] = q[i + 1]
      /\ \A j \in DOMAIN q : j = 1 \/ \E i \in DOMAIN r : r[i] = q[j]
  <2>1. \A j \in DOMAIN q : j # 1 => j - 1 \in DOMAIN r /\ r[j - 1] = q[j]
    OBVIOUS
  <2> QED BY <2>1, QueueType
<1> HIDE DEF r
<1>2. Ids(q, op) \subseteq Ids(r, op) \cup (IF q[1].op = op THEN {q[1].id} ELSE {})
  <2> SUFFICES ASSUME NEW j \in DOMAIN q, q[j].op = op, j # 1
               PROVE  q[j].id \in Ids(r, op)
    BY Zenon DEF Ids
  <2>1. PICK i \in DOMAIN r : r[i] = q[j]
    BY <1>1
  <2> QED BY <2>1 DEF Ids
<1>3. Ids(r, op) \subseteq Ids(q, op)
  BY <1>1 DEF Ids
<1>4. (IF q[1].op = op THEN {q[1].id} ELSE {}) \subseteq Ids(q, op)
  BY <1>1 DEF Ids
<1> QED BY <1>1, <1>2, <1>3, <1>4 DEF r

LEMMA IdsKilled ==
  ASSUME NEW q \in Seq(Write), NEW op
  PROVE  Ids([i \in DOMAIN q |-> [op |-> q[i].op, id |-> q[i].id, cb |-> FALSE]], op)
           = Ids(q, op)
<1> DEFINE r == [i \in DOMAIN q |-> [op |-> q[i].op, id |-> q[i].id, cb |-> FALSE]]
<1>1. DOMAIN r = DOMAIN q /\ \A i \in DOMAIN q : r[i].op = q[i].op /\ r[i].id = q[i].id
  OBVIOUS
<1> HIDE DEF r
<1>2. Ids(r, op) = Ids(q, op)
  BY <1>1 DEF Ids
<1> QED BY <1>2 DEF r
-----------------------------------------------------------------------------
(* The write that the server applies next is in the queue.                   *)
LEMMA UnappliedType ==
  ASSUME TypeOK, NEW d \in Device, applied[d] < Len(writes[d])
  PROVE  /\ applied[d] + 1 \in DOMAIN writes[d]
         /\ Unapplied(d) \in Write
<1>1. writes[d] \in Seq(Write) /\ applied[d] \in Nat
  BY DEF TypeOK
<1> QED BY <1>1 DEF Unapplied

(* Every reachable state is well typed.                                      *)
THEOREM TypeCorrect == Spec => []TypeOK
<1>1. Init => TypeOK
  BY DEF Init, TypeOK
<1>2. TypeOK /\ [Next]_vars => TypeOK'
  <2> SUFFICES ASSUME TypeOK, [Next]_vars PROVE TypeOK'
    OBVIOUS
  <2> USE DEF TypeOK, server, display
  <2>1. ASSUME NEW d \in Device, OpenRoom(d) PROVE TypeOK'
    BY <2>1 DEF OpenRoom
  <2>2. ASSUME NEW d \in Device, CloseRoom(d) PROVE TypeOK'
    BY <2>2 DEF CloseRoom, ShutScreen
  <2>3. ASSUME NEW d \in Device, NEW m \in MsgId, TapSend(d, m) PROVE TypeOK'
    <3>1. Cardinality(Tapped) \in Nat
      <4>1. IsFiniteSet(Tapped)
        BY MsgIdAssumption, FS_Subset DEF Tapped
      <4> QED BY <4>1, FS_CardinalityType
    <3>2. sentAt' \in [MsgId -> Nat] /\ createdAt' \in [MsgId -> Nat]
      <4> DEFINE n == Cardinality(Tapped) + 1
      <4>1. n \in Nat /\ Skew[d] \in Nat
        BY <3>1, SkewAssumption
      <4>2. sentAt' = [sentAt EXCEPT ![m] = n]
        BY <2>3 DEF TapSend, WritesAtTap
      <4>3. createdAt' = [createdAt EXCEPT ![m] = sentAt'[m] + Skew[d]]
        BY <2>3 DEF TapSend, WritesAtTap
      <4> HIDE DEF n
      <4>4. sentAt' \in [MsgId -> Nat]
        BY <4>1, <4>2
      <4>5. sentAt'[m] + Skew[d] \in Nat
        BY <4>1, <4>4
      <4> QED BY <4>3, <4>4, <4>5
    <3>3. blocks' \in [Device -> SUBSET Block]
      BY <2>3 DEF TapSend, WritesAtTap, Block, Op
    <3>4. disturbed' \subseteq Kinds
      BY <2>3, WorseKinds DEF TapSend, Kinds
    <3> QED BY <2>3, <3>2, <3>3, <3>4 DEF TapSend, WritesAtTap, Kinds
  <2>4. ASSUME NEW d \in Device, NEW b \in blocks[d], RunBlock(d, b) PROVE TypeOK'
    <3>1. [op |-> b.op, id |-> b.id, cb |-> TRUE] \in Write
      BY <2>4 DEF Block, Write
    <3>2. writes' \in [Device -> Seq(Write)]
      BY <2>4, <3>1 DEF RunBlock
    <3>3. \A e \in Device : Len(writes[e]) <= Len(writes'[e])
      BY <2>4, <3>1 DEF RunBlock
    <3>4. \A e \in Device : applied'[e] <= Len(writes'[e])
      BY <2>4, <3>2, <3>3 DEF RunBlock
    <3> QED BY <2>4, <3>2, <3>4 DEF RunBlock
  <2>5. ASSUME NEW d \in Device, ApplyMessage(d) PROVE TypeOK'
    <3>1. applied[d] < Len(writes[d])
      BY <2>5 DEF ApplyMessage, HasUnapplied
    <3>2. Unapplied(d) \in Write
      BY <3>1, UnappliedType
    <3>3. Unapplied(d).id \in MsgId
      BY <3>2 DEF Write
    <3>4. applied' \in [Device -> Nat] /\ writes' = writes
      BY <2>5 DEF ApplyMessage
    <3>5. \A e \in Device : applied'[e] <= Len(writes'[e])
      BY <2>5, <3>1, <3>4 DEF ApplyMessage
    <3> QED BY <2>5, <3>3, <3>4, <3>5 DEF ApplyMessage
  <2>6. ASSUME NEW d \in Device, ApplyLatest(d) PROVE TypeOK'
    <3>1. applied[d] < Len(writes[d])
      BY <2>6 DEF ApplyLatest, HasUnapplied
    <3>2. Unapplied(d) \in Write
      BY <3>1, UnappliedType
    <3>3. Unapplied(d).id \in MsgId
      BY <3>2 DEF Write
    <3>4. applied' \in [Device -> Nat] /\ writes' = writes
      BY <2>6 DEF ApplyLatest
    <3>5. \A e \in Device : applied'[e] <= Len(writes'[e])
      BY <2>6, <3>1, <3>4 DEF ApplyLatest
    <3> QED BY <2>6, <3>3, <3>4, <3>5 DEF ApplyLatest
  <2>7. ASSUME NEW d \in Device, Acknowledge(d) PROVE TypeOK'
    <3>1. /\ Head(writes[d]) \in Write
          /\ Tail(writes[d]) \in Seq(Write) /\ Len(Tail(writes[d])) = Len(writes[d]) - 1
      BY <2>7, QueueType DEF Acknowledge
    <3>2. blocks' \in [Device -> SUBSET Block]
      BY <2>7, <3>1 DEF Acknowledge, Completion, Block, Op, Write
    <3>3. applied' \in [Device -> Nat] /\ \A e \in Device : applied'[e] <= Len(writes'[e])
      BY <2>7, <3>1 DEF Acknowledge
    <3> QED BY <2>7, <3>1, <3>2, <3>3 DEF Acknowledge
  <2>8. ASSUME NEW d \in Device, Reconnect(d) PROVE TypeOK'
    BY <2>8 DEF Reconnect
  <2>13. ASSUME NEW d \in Device, RejectWrite(d) PROVE TypeOK'
    <3>1. /\ Head(writes[d]) \in Write
          /\ Tail(writes[d]) \in Seq(Write) /\ Len(Tail(writes[d])) \in Nat
      BY <2>13, QueueType DEF RejectWrite
    <3>2. \A e \in Device : applied'[e] <= Len(writes'[e])
      BY <2>13, <3>1 DEF RejectWrite
    <3>3. disturbed' \subseteq Kinds
      BY <2>13, WorseKinds DEF RejectWrite, Kinds
    <3> QED BY <2>13, <3>1, <3>2, <3>3 DEF RejectWrite, Write, Kinds
  <2>14. ASSUME NEW d \in Device, Kill(d) PROVE TypeOK'
    <3>1. writes' \in [Device -> Seq(Write)]
      BY <2>14, KilledQueue DEF Kill
    <3>2. \A e \in Device : applied'[e] <= Len(writes'[e])
      BY <2>14, KilledQueue DEF Kill
    <3>3. disturbed' \subseteq Kinds
      BY <2>14, WorseKinds DEF Kill, Kinds
    <3> QED BY <2>14, <3>1, <3>2, <3>3 DEF Kill, ShutScreen, Kinds
  <2>9. ASSUME NEW d \in Device, NEW m \in MsgId, DeliverAdded(d, m) PROVE TypeOK'
    <3>1. Inserted(messages[d], m) \in Seq(MsgId)
      BY InsertedType
    <3> QED BY <2>9, <3>1 DEF DeliverAdded
  <2>10. ASSUME NEW d \in Device, NEW m \in MsgId, DeliverRemoved(d, m) PROVE TypeOK'
    BY <2>10 DEF DeliverRemoved
  <2>11. ASSUME NEW d \in Device, ListenerFails(d) PROVE TypeOK'
    BY <2>11 DEF ListenerFails
  <2>12. CASE UNCHANGED vars
    BY <2>12 DEF vars
  <2> QED BY <2>1, <2>2, <2>3, <2>4, <2>5, <2>6, <2>7, <2>8, <2>9, <2>10,
             <2>11, <2>12, <2>13, <2>14 DEF Next, Send, Run, Apply, Deliver
<1> QED BY <1>1, <1>2, PTL DEF Spec
-----------------------------------------------------------------------------
(* What the server has applied and the device does not know of yet: when it  *)
(* is acknowledged, its completion block may point the room at the message.  *)
AppliedIsStored ==
  \A d \in Device : \A i \in 1 .. applied[d] :
    writes[d][i].op = "setMessage" => writes[d][i].id \in stored

LEMMA AppliedStep ==
  ASSUME TypeOK, AppliedIsStored, [Next]_vars
  PROVE  AppliedIsStored'
<1> USE DEF AppliedIsStored, server, display
<1>1. ASSUME NEW d \in Device,
             \/ OpenRoom(d) \/ CloseRoom(d) \/ Send(d) \/ Deliver(d) \/ ListenerFails(d)
      PROVE  UNCHANGED <<writes, applied, stored>>
  BY <1>1 DEF OpenRoom, CloseRoom, Send, TapSend, Deliver, DeliverAdded, DeliverRemoved,
              ListenerFails
<1>2. ASSUME NEW d \in Device, NEW b \in blocks[d], RunBlock(d, b) PROVE AppliedIsStored'
  <2> DEFINE w == [op |-> b.op, id |-> b.id, cb |-> TRUE]
  <2>1. writes' = [writes EXCEPT ![d] = Append(@, w)]
    BY <1>2 DEF RunBlock
  <2> HIDE DEF w
  <2>2. \A e \in Device : \A i \in 1 .. applied[e] : writes'[e][i] = writes[e][i]
    BY <2>1 DEF TypeOK
  <2>3. applied' = applied /\ stored' = stored
    BY <1>2 DEF RunBlock
  <2> QED BY <2>2, <2>3
<1>3. ASSUME NEW d \in Device, ApplyMessage(d) PROVE AppliedIsStored'
  <2>1. stored' = stored \cup {Unapplied(d).id} /\ writes' = writes
    BY <1>3 DEF ApplyMessage
  <2>2. \A e \in Device : \A i \in 1 .. applied'[e] :
          i \in 1 .. applied[e] \/ (e = d /\ i = applied[d] + 1)
    BY <1>3 DEF ApplyMessage, TypeOK
  <2> QED BY <2>1, <2>2 DEF Unapplied
<1>4. ASSUME NEW d \in Device, ApplyLatest(d) PROVE AppliedIsStored'
  <2>1. stored' = stored /\ writes' = writes /\ Unapplied(d).op # "setMessage"
    BY <1>4 DEF ApplyLatest
  <2>2. \A e \in Device : \A i \in 1 .. applied'[e] :
          i \in 1 .. applied[e] \/ (e = d /\ i = applied[d] + 1)
    BY <1>4 DEF ApplyLatest, TypeOK
  <2> QED BY <2>1, <2>2 DEF Unapplied
<1>5. ASSUME NEW d \in Device, Acknowledge(d) PROVE AppliedIsStored'
  <2>1. stored' = stored /\ applied' = [applied EXCEPT ![d] = @ - 1]
    BY <1>5 DEF Acknowledge
  <2>2. \A e \in Device : e # d => writes'[e] = writes[e] /\ applied'[e] = applied[e]
    BY <1>5 DEF Acknowledge, TypeOK
  <2>3. \A i \in 1 .. applied'[d] :
          i + 1 \in 1 .. applied[d] /\ writes'[d][i] = writes[d][i + 1]
    <3>1. \A i \in DOMAIN Tail(writes[d]) : Tail(writes[d])[i] = writes[d][i + 1]
      BY <1>5, QueueType DEF Acknowledge, TypeOK
    <3>2. applied[d] <= Len(writes[d]) /\ applied[d] \in Nat /\ writes[d] \in Seq(Write)
      BY DEF TypeOK
    <3>3. writes'[d] = Tail(writes[d]) /\ applied'[d] = applied[d] - 1
      BY <1>5 DEF Acknowledge, TypeOK
    <3>4. \A i \in 1 .. applied'[d] : i \in DOMAIN Tail(writes[d])
      BY <1>5, <3>2, <3>3 DEF Acknowledge
    <3> QED BY <3>1, <3>2, <3>3, <3>4
  <2> QED BY <2>1, <2>2, <2>3
<1>6. ASSUME NEW d \in Device, Reconnect(d) PROVE AppliedIsStored'
  BY <1>6 DEF Reconnect, TypeOK
<1>7. ASSUME NEW d \in Device, RejectWrite(d) PROVE AppliedIsStored'
  <2>1. \A e \in Device : \A i \in 1 .. applied[e] : writes'[e][i] = writes[e][i]
    BY <1>7 DEF RejectWrite, TypeOK
  <2> QED BY <1>7, <2>1 DEF RejectWrite
<1>8. ASSUME NEW d \in Device, Kill(d) PROVE AppliedIsStored'
  <2>1. \A e \in Device : \A i \in 1 .. applied'[e] :
          e # d /\ i \in 1 .. applied[e] /\ writes'[e] = writes[e]
    BY <1>8 DEF Kill, TypeOK
  <2>2. stored' = stored
    BY <1>8 DEF Kill
  <2>3. \A e \in Device : \A i \in 1 .. applied'[e] :
          writes'[e][i].op = "setMessage" => writes'[e][i].id \in stored
    BY <2>1
  <2> QED BY <2>2, <2>3
<1>9. CASE UNCHANGED vars
  BY <1>9 DEF vars
<1> QED BY <1>1, <1>2, <1>3, <1>4, <1>5, <1>6, <1>7, <1>8, <1>9 DEF Next, Run, Apply
-----------------------------------------------------------------------------
(* LatestIsStored is not inductive: a pointer that is still on its way must  *)
(* name a stored message too, and so must what is applied.                   *)
LatestInv == LatestIsStored /\ PendingLatestIsStored /\ AppliedIsStored

(* The head of the queue, when it is applied, is a stored message or a       *)
(* pointer.                                                                  *)
LEMMA AppliedHead ==
  ASSUME TypeOK, AppliedIsStored, NEW d \in Device, Acknowledge(d)
  PROVE  /\ Head(writes[d]) \in Write
         /\ Head(writes[d]).op = "setMessage" => Head(writes[d]).id \in stored
<1>1. writes[d] \in Seq(Write) /\ writes[d] # <<>> /\ 1 \in 1 .. applied[d]
  BY DEF TypeOK, Acknowledge
<1>2. Head(writes[d]) \in Write /\ Head(writes[d]) = writes[d][1]
  BY <1>1, QueueType
<1> QED BY <1>1, <1>2 DEF AppliedIsStored

LEMMA LatestInvStep ==
  ASSUME TypeOK, LatestInv, [Next]_vars
  PROVE  LatestInv'
<1>0. AppliedIsStored /\ AppliedIsStored'
  BY AppliedStep DEF LatestInv
<1> SUFFICES (LatestIsStored /\ PendingLatestIsStored)'
  BY <1>0 DEF LatestInv
<1> DEFINE Goal == (LatestIsStored /\ PendingLatestIsStored)'
<1> USE DEF LatestInv, LatestIsStored, PendingLatestIsStored, server, display
<1>1. ASSUME NEW d \in Device, OpenRoom(d) PROVE Goal
  BY <1>1 DEF OpenRoom
<1>2. ASSUME NEW d \in Device, CloseRoom(d) PROVE Goal
  BY <1>2 DEF CloseRoom, ShutScreen
<1>3. ASSUME NEW d \in Device, NEW m \in MsgId, TapSend(d, m) PROVE Goal
  BY <1>3 DEF TapSend, WritesAtTap, TypeOK
<1>4. ASSUME NEW d \in Device, NEW b \in blocks[d], RunBlock(d, b) PROVE Goal
  <2> DEFINE w == [op |-> b.op, id |-> b.id, cb |-> TRUE]
  <2>1. w \in Write /\ w.op = b.op /\ w.id = b.id /\ writes[d] \in Seq(Write)
    <3>1. b \in Block /\ writes[d] \in Seq(Write)
      BY DEF TypeOK
    <3>2. w.op = b.op /\ w.id = b.id
      OBVIOUS
    <3>3. w \in Write
      BY <3>1 DEF Block, Write
    <3> QED BY <3>1, <3>2, <3>3
  <2>2. writes' = [writes EXCEPT ![d] = Append(@, w)]
    BY <1>4 DEF RunBlock
  <2> HIDE DEF w
  <2>3. Ids(Append(writes[d], w), "setLatestMessage") \subseteq stored
    BY <2>1, IdsAppend
  <2>4. \A e \in Device : Ids(writes'[e], "setLatestMessage") \subseteq stored
    BY <2>2, <2>3 DEF TypeOK
  <2>5. \A e \in Device : \A c \in blocks'[e] :
          c.op = "setLatestMessage" => c.id \in stored
    BY <1>4 DEF RunBlock, TypeOK
  <2> QED BY <1>4, <2>4, <2>5 DEF RunBlock
<1>5. ASSUME NEW d \in Device, ApplyMessage(d) PROVE Goal
  BY <1>5 DEF ApplyMessage
<1>6. ASSUME NEW d \in Device, ApplyLatest(d) PROVE Goal
  <2>1. applied[d] + 1 \in DOMAIN writes[d] /\ Unapplied(d) \in Write
    BY <1>6, UnappliedType DEF ApplyLatest, HasUnapplied
  <2>2. Unapplied(d).id \in Ids(writes[d], "setLatestMessage")
    BY <1>6, <2>1 DEF ApplyLatest, Unapplied, Ids
  <2> QED BY <1>6, <2>2 DEF ApplyLatest
<1>13. ASSUME NEW d \in Device, Acknowledge(d) PROVE Goal
  <2>1. writes[d] \in Seq(Write) /\ writes[d] # <<>>
    BY <1>13 DEF Acknowledge, TypeOK
  <2>2. Ids(Tail(writes[d]), "setLatestMessage") \subseteq stored
    BY <2>1, IdsTail
  <2>3. \A e \in Device : Ids(writes'[e], "setLatestMessage") \subseteq stored
    BY <1>13, <2>2 DEF Acknowledge, TypeOK
  <2>4. \A b \in Completion(d, Head(writes[d])) : b.id \in stored
    BY <1>0, <1>13, AppliedHead DEF Completion
  <2>5. \A e \in Device : \A c \in blocks'[e] :
          c.op = "setLatestMessage" => c.id \in stored
    BY <1>13, <2>4 DEF Acknowledge, TypeOK
  <2> QED BY <1>13, <2>3, <2>5 DEF Acknowledge
<1>14. ASSUME NEW d \in Device, Reconnect(d) PROVE Goal
  BY <1>14 DEF Reconnect
<1>7. ASSUME NEW d \in Device, RejectWrite(d) PROVE Goal
  <2>1. writes[d] \in Seq(Write) /\ writes[d] # <<>>
    BY <1>7 DEF RejectWrite, TypeOK
  <2>2. Ids(Tail(writes[d]), "setLatestMessage") \subseteq stored
    BY <2>1, IdsTail
  <2>3. \A e \in Device : Ids(writes'[e], "setLatestMessage") \subseteq stored
    BY <1>7, <2>2 DEF RejectWrite, TypeOK
  <2> QED BY <1>7, <2>3 DEF RejectWrite
<1>8. ASSUME NEW d \in Device, Kill(d) PROVE Goal
  <2>1. \A e \in Device : Ids(writes'[e], "setLatestMessage") \subseteq stored
    BY <1>8, IdsKilled DEF Kill, TypeOK
  <2>2. \A e \in Device : \A c \in blocks'[e] :
          c.op = "setLatestMessage" => c.id \in stored
    BY <1>8 DEF Kill, TypeOK
  <2> QED BY <1>8, <2>1, <2>2 DEF Kill
<1>9. ASSUME NEW d \in Device, NEW m \in MsgId, DeliverAdded(d, m) PROVE Goal
  BY <1>9 DEF DeliverAdded
<1>10. ASSUME NEW d \in Device, NEW m \in MsgId, DeliverRemoved(d, m) PROVE Goal
  BY <1>10 DEF DeliverRemoved
<1>11. ASSUME NEW d \in Device, ListenerFails(d) PROVE Goal
  BY <1>11 DEF ListenerFails
<1>12. CASE UNCHANGED vars
  BY <1>12 DEF vars
<1> QED BY <1>1, <1>2, <1>3, <1>4, <1>5, <1>6, <1>7, <1>8, <1>9, <1>10, <1>11,
           <1>12, <1>13, <1>14 DEF Next, Send, Run, Apply, Deliver

LEMMA LatestInvInit == Init => LatestInv
  BY DEF Init, LatestInv, LatestIsStored, PendingLatestIsStored, AppliedIsStored, Ids

(* The chat list can always fetch the message that latestMessageId names:    *)
(* for any number of devices, and through kills and refused writes.          *)
THEOREM LatestAlwaysStored == Spec => []LatestIsStored
<1>1. LatestInv => LatestIsStored
  BY DEF LatestInv
<1> QED BY <1>1, LatestInvInit, LatestInvStep, TypeCorrect, PTL DEF Spec

(* Every state and step of the devices maps to the abstract log of the room. *)
THEOREM ImplementsMessageLog == Spec => LogSpec
<1>1. Init => Log!Init
  BY DEF Init, Log!Init
<1>2. TypeOK /\ LatestInv /\ [Next]_vars => [Log!Next]_(Log!vars)
  <2> SUFFICES ASSUME TypeOK, LatestInv, [Next]_vars PROVE [Log!Next]_(Log!vars)
    OBVIOUS
  <2> USE DEF Log!vars, server, display
  <2>1. ASSUME NEW d \in Device, ApplyMessage(d) PROVE [Log!Next]_(Log!vars)
    <3> DEFINE m == Unapplied(d).id
    <3>1. m \in MsgId
      BY <2>1, UnappliedType DEF ApplyMessage, HasUnapplied, Write
    <3>2. stored' = stored \cup {m} /\ latestMessageId' = latestMessageId
      BY <2>1 DEF ApplyMessage
    <3> HIDE DEF m
    <3>3. CASE m \in stored
      BY <3>2, <3>3
    <3>4. CASE m \notin stored
      BY <3>1, <3>2, <3>4 DEF Log!Next, Log!Publish
    <3> QED BY <3>3, <3>4
  <2>2. ASSUME NEW d \in Device, ApplyLatest(d) PROVE [Log!Next]_(Log!vars)
    <3>1. applied[d] + 1 \in DOMAIN writes[d]
      BY <2>2, UnappliedType DEF ApplyLatest, HasUnapplied
    <3>2. Unapplied(d).id \in stored
      BY <2>2, <3>1 DEF ApplyLatest, Unapplied, Ids, LatestInv, PendingLatestIsStored
    <3>3. latestMessageId' = Unapplied(d).id /\ stored' = stored
      BY <2>2 DEF ApplyLatest
    <3> QED BY <3>2, <3>3 DEF Log!Next, Log!Point, TypeOK
  <2>3. ASSUME NEW d \in Device,
               \/ OpenRoom(d) \/ CloseRoom(d) \/ Send(d) \/ Run(d) \/ Acknowledge(d)
               \/ Reconnect(d) \/ RejectWrite(d) \/ Kill(d) \/ Deliver(d)
               \/ ListenerFails(d)
        PROVE  UNCHANGED <<stored, latestMessageId>>
    BY <2>3 DEF OpenRoom, CloseRoom, Send, TapSend, Run, RunBlock, Acknowledge, Reconnect,
                RejectWrite, Kill, Deliver, DeliverAdded, DeliverRemoved, ListenerFails
  <2>4. CASE UNCHANGED vars
    BY <2>4 DEF vars
  <2> QED BY <2>1, <2>2, <2>3, <2>4 DEF Next, Apply
<1> QED BY <1>1, <1>2, LatestInvInit, LatestInvStep, TypeCorrect, PTL
        DEF Spec, LogSpec, Log!Spec
-----------------------------------------------------------------------------
LEMMA ShownIsExplainedStep ==
  ASSUME TypeOK, AppliedIsStored, ShownIsExplained, [Next]_vars
  PROVE  ShownIsExplained'
<1> USE DEF ShownIsExplained, server, display
<1>1. ASSUME NEW d \in Device, OpenRoom(d) PROVE ShownIsExplained'
  BY <1>1 DEF OpenRoom, Shown, Queued
<1>2. ASSUME NEW d \in Device, CloseRoom(d) PROVE ShownIsExplained'
  <2>1. \A e \in Device : Shown(e)' \subseteq Shown(e)
    BY <1>2 DEF CloseRoom, ShutScreen, Shown, TypeOK
  <2> QED BY <1>2, <2>1 DEF CloseRoom, Queued
<1>3. ASSUME NEW d \in Device, NEW m \in MsgId, TapSend(d, m) PROVE ShownIsExplained'
  BY <1>3 DEF TapSend, WritesAtTap, Shown, Queued
<1>4. ASSUME NEW d \in Device, NEW b \in blocks[d], RunBlock(d, b)
      PROVE  ShownIsExplained'
  <2> DEFINE w == [op |-> b.op, id |-> b.id, cb |-> TRUE]
  <2>1. w \in Write /\ writes[d] \in Seq(Write)
    <3>1. b \in Block /\ writes[d] \in Seq(Write)
      BY DEF TypeOK
    <3> QED BY <3>1 DEF Block, Write
  <2>2. writes' = [writes EXCEPT ![d] = Append(@, w)]
    BY <1>4 DEF RunBlock
  <2> HIDE DEF w
  <2>3. Ids(writes[d], "setMessage") \subseteq Ids(Append(writes[d], w), "setMessage")
    BY <2>1, IdsAppend
  <2>4. \A e \in Device : Queued(e) \subseteq Queued(e)'
    BY <2>2, <2>3 DEF TypeOK, Queued
  <2>5. \A e \in Device : Shown(e)' = Shown(e)
    BY <1>4 DEF RunBlock, Shown
  <2> QED BY <1>4, <2>4, <2>5 DEF RunBlock
<1>5. ASSUME NEW d \in Device, ApplyMessage(d) PROVE ShownIsExplained'
  BY <1>5 DEF ApplyMessage, Shown, Queued
<1>6. ASSUME NEW d \in Device, ApplyLatest(d) PROVE ShownIsExplained'
  BY <1>6 DEF ApplyLatest, Shown, Queued
<1>13. ASSUME NEW d \in Device, Acknowledge(d) PROVE ShownIsExplained'
  <2>1. writes[d] \in Seq(Write) /\ writes[d] # <<>>
    BY <1>13 DEF Acknowledge, TypeOK
  <2>2. Queued(d) \subseteq Ids(Tail(writes[d]), "setMessage") \cup stored
    BY <1>13, <2>1, IdsTail, AppliedHead DEF Queued
  <2>3. \A e \in Device : Queued(e) \subseteq Queued(e)' \cup stored
    BY <1>13, <2>2 DEF Acknowledge, TypeOK, Queued
  <2>4. \A e \in Device : Shown(e)' = Shown(e)
    BY <1>13 DEF Acknowledge, Shown
  <2> QED BY <1>13, <2>3, <2>4 DEF Acknowledge
<1>14. ASSUME NEW d \in Device, Reconnect(d) PROVE ShownIsExplained'
  BY <1>14 DEF Reconnect, Shown, Queued
<1>7. ASSUME NEW d \in Device, RejectWrite(d) PROVE ShownIsExplained'
  <2>1. writes[d] \in Seq(Write) /\ writes[d] # <<>>
    BY <1>7 DEF RejectWrite, TypeOK
  <2>2. Queued(d) \subseteq Ids(Tail(writes[d]), "setMessage") \cup rejected'
    BY <1>7, <2>1, IdsTail DEF RejectWrite, Queued
  <2>3. \A e \in Device : Queued(e) \subseteq Queued(e)' \cup rejected'
    BY <1>7, <2>2 DEF RejectWrite, TypeOK, Queued
  <2>4. \A e \in Device : Shown(e)' = Shown(e)
    BY <1>7 DEF RejectWrite, Shown
  <2>5. rejected \subseteq rejected' /\ stored' = stored
    BY <1>7 DEF RejectWrite
  <2> QED BY <2>3, <2>4, <2>5
<1>8. ASSUME NEW d \in Device, Kill(d) PROVE ShownIsExplained'
  <2>1. \A e \in Device : Queued(e)' = Queued(e)
    <3>1. Ids(writes'[d], "setMessage") = Ids(writes[d], "setMessage")
      BY <1>8, IdsKilled DEF Kill, TypeOK
    <3>2. \A e \in Device : e # d => writes'[e] = writes[e]
      BY <1>8 DEF Kill, TypeOK
    <3> QED BY <3>1, <3>2 DEF Queued
  <2>2. \A e \in Device : Shown(e)' \subseteq Shown(e)
    BY <1>8 DEF Kill, ShutScreen, Shown, TypeOK
  <2> QED BY <1>8, <2>1, <2>2 DEF Kill
<1>9. ASSUME NEW d \in Device, NEW m \in MsgId, DeliverAdded(d, m)
      PROVE  ShownIsExplained'
  <2>1. messages[d] \in Seq(MsgId)
    BY DEF TypeOK
  <2>2. \A i \in DOMAIN Inserted(messages[d], m) :
          Inserted(messages[d], m)[i] \in Shown(d) \cup {m}
    BY <2>1, InsertedType DEF Shown
  <2>3. messages' = [messages EXCEPT ![d] = Inserted(messages[d], m)]
    BY <1>9 DEF DeliverAdded
  <2>4. Shown(d)' \subseteq Shown(d) \cup {m}
    BY <2>2, <2>3 DEF Shown, TypeOK
  <2>5. \A e \in Device : e # d => Shown(e)' = Shown(e)
    BY <2>3 DEF Shown, TypeOK
  <2>6. m \in stored \cup Queued(d)
    BY <1>9 DEF DeliverAdded
  <2>7. \A e \in Device : Queued(e)' = Queued(e)
    BY <1>9 DEF DeliverAdded, Queued
  <2>8. stored' = stored /\ rejected' = rejected
    BY <1>9 DEF DeliverAdded
  <2> QED BY <2>4, <2>5, <2>6, <2>7, <2>8
<1>10. ASSUME NEW d \in Device, NEW m \in MsgId, DeliverRemoved(d, m)
       PROVE  ShownIsExplained'
  BY <1>10 DEF DeliverRemoved, Shown, Queued
<1>11. ASSUME NEW d \in Device, ListenerFails(d) PROVE ShownIsExplained'
  BY <1>11 DEF ListenerFails, Shown, Queued
<1>12. CASE UNCHANGED vars
  BY <1>12 DEF vars, Shown, Queued
<1> QED BY <1>1, <1>2, <1>3, <1>4, <1>5, <1>6, <1>7, <1>8, <1>9, <1>10, <1>11,
           <1>12, <1>13, <1>14 DEF Next, Send, Run, Apply, Deliver

(* A message on screen is on the server, in this device's queue, or refused: *)
(* nothing else can leave a ghost in the conversation.                       *)
THEOREM ShownAlwaysExplained == Spec => []ShownIsExplained
<1>1. Init => ShownIsExplained
  BY DEF Init, ShownIsExplained, Shown
<1>2. LatestInv => AppliedIsStored
  BY DEF LatestInv
<1> QED BY <1>1, <1>2, LatestInvInit, LatestInvStep, ShownIsExplainedStep, TypeCorrect, PTL
        DEF Spec

-----------------------------------------------------------------------------
(* What the screens show.                                                    *)

(* The newest first, as the sort leaves them.                                *)
Sorted(s) == \A i, j \in DOMAIN s : i < j => createdAt[s[i]] >= createdAt[s[j]]
Distinct(s) == \A i, j \in DOMAIN s : s[i] = s[j] => i = j

(* The messages that are not older than m come first, so that the array is   *)
(* cut where m belongs.                                                      *)
LEMMA CutIsPrefix ==
  ASSUME NEW s \in Seq(MsgId), NEW m \in MsgId, Sorted(s), createdAt \in [MsgId -> Nat]
  PROVE  LET k == Cardinality({i \in DOMAIN s : createdAt[s[i]] >= createdAt[m]})
         IN  /\ k \in 0 .. Len(s)
             /\ \A i \in 1 .. Len(s) : i <= k <=> createdAt[s[i]] >= createdAt[m]
<1> DEFINE K == {i \in DOMAIN s : createdAt[s[i]] >= createdAt[m]}
           R == {i \in Nat : i > 0 /\ i \notin K}
<1>1. /\ Len(s) \in Nat /\ DOMAIN s = 1 .. Len(s) /\ K \subseteq 1 .. Len(s)
      /\ \A i \in DOMAIN s : createdAt[s[i]] \in Nat /\ createdAt[m] \in Nat
  OBVIOUS
<1>2. ASSUME NEW i \in K, NEW j \in 1 .. Len(s), j < i PROVE j \in K
  BY <1>1, <1>2 DEF Sorted
<1>3. PICK p \in R : \A i \in R : p <= i
  <2>1. R \in SUBSET Nat /\ R # {}
    <3>1. Len(s) + 1 \in R
      BY <1>1
    <3> QED BY <3>1
  <2>2. PICK p \in R : \A i \in R : <<i, p>> \notin OpToRel(<, Nat)
    <3> HIDE DEF R
    <3> QED BY <2>1, WFMin, NatLessThanWellFounded
  <2>3. ASSUME NEW i \in R PROVE p <= i
    <3>1. i \in Nat /\ p \in Nat /\ ~(i < p)
      BY <2>1, <2>2 DEF OpToRel
    <3> QED BY <3>1
  <2> QED BY <2>3
<1>4. ASSUME NEW i \in 1 .. Len(s) PROVE i \in K <=> i < p
  <2>1. p \in Nat /\ p > 0 /\ p \notin K /\ i \in Nat /\ i > 0
    BY <1>1, <1>3
  <2>2. CASE i \in K
    <3>1. p \in 1 .. Len(s) /\ p < i => p \in K
      BY <1>2, <2>2
    <3>2. i # p
      BY <2>1, <2>2
    <3> HIDE DEF K
    <3> QED BY <1>1, <2>1, <2>2, <3>1, <3>2
  <2>3. CASE i \notin K
    <3>1. i \in R
      BY <2>1, <2>3
    <3>2. p <= i
      BY <1>3, <3>1
    <3> HIDE DEF K, R
    <3> QED BY <2>1, <2>3, <3>2
  <2> QED BY <2>2, <2>3
<1>5. p \in 1 .. Len(s) + 1 /\ K = 1 .. p - 1
  <2>1. Len(s) + 1 \in R
    BY <1>1
  <2>2. p \in Nat /\ p > 0 /\ p <= Len(s) + 1
    BY <1>1, <1>3, <2>1
  <2>3. K \subseteq 1 .. p - 1
    BY <1>1, <1>4, <2>2
  <2>4. 1 .. p - 1 \subseteq K
    <3> SUFFICES ASSUME NEW i \in 1 .. p - 1 PROVE i \in K
      OBVIOUS
    <3>1. i \in 1 .. Len(s) /\ i < p
      BY <1>1, <2>2
    <3> QED BY <1>4, <3>1
  <2> QED BY <1>1, <2>2, <2>3, <2>4
<1>6. Cardinality(1 .. p - 1) = p - 1
  BY <1>1, <1>5, FS_Interval
<1>7. Cardinality(K) = p - 1
  BY <1>5, <1>6
<1>8. /\ Cardinality(K) \in 0 .. Len(s)
      /\ \A i \in 1 .. Len(s) : i <= Cardinality(K) <=> i \in K
  <2> HIDE DEF K
  <2> QED BY <1>1, <1>4, <1>5, <1>7
<1>9. \A i \in 1 .. Len(s) : i \in K <=> createdAt[s[i]] >= createdAt[m]
  BY <1>1
<1> HIDE DEF K
<1> QED BY <1>8, <1>9 DEF K

(* A message joins a sorted array without duplicates: so it stays.           *)
LEMMA InsertedOrder ==
  ASSUME NEW s \in Seq(MsgId), NEW m \in MsgId, createdAt \in [MsgId -> Nat],
         Sorted(s), Distinct(s), \A i \in DOMAIN s : s[i] # m
  PROVE  Sorted(Inserted(s, m)) /\ Distinct(Inserted(s, m))
<1> DEFINE k == Cardinality({i \in DOMAIN s : createdAt[s[i]] >= createdAt[m]})
           r == Inserted(s, m)
           old(i) == IF i <= k THEN i ELSE i - 1
<1>1. /\ Len(s) \in Nat /\ DOMAIN s = 1 .. Len(s)
      /\ k \in 0 .. Len(s)
      /\ \A i \in 1 .. Len(s) : i <= k <=> createdAt[s[i]] >= createdAt[m]
      /\ \A i \in DOMAIN s : createdAt[s[i]] \in Nat /\ createdAt[m] \in Nat
  BY CutIsPrefix
<1>2. r = [i \in 1 .. Len(s) + 1 |-> IF i <= k THEN s[i]
                                     ELSE IF i = k + 1 THEN m ELSE s[i - 1]]
  BY DEF Inserted
<1> HIDE DEF k, r
<1>3. DOMAIN r = 1 .. Len(s) + 1 /\ k + 1 \in DOMAIN r /\ r[k + 1] = m
  BY <1>1, <1>2
<1>4. \A i \in DOMAIN r : i # k + 1 => old(i) \in DOMAIN s /\ r[i] = s[old(i)]
  BY <1>1, <1>2, <1>3
<1>5. \A i, j \in DOMAIN r : i # k + 1 /\ j # k + 1 /\ i < j => old(i) < old(j)
  BY <1>1, <1>3
<1>6. ASSUME NEW i \in DOMAIN r, NEW j \in DOMAIN r, i < j
      PROVE  createdAt[r[i]] >= createdAt[r[j]]
  <2>1. CASE i # k + 1 /\ j # k + 1
    <3>1. old(i) \in DOMAIN s /\ old(j) \in DOMAIN s /\ old(i) < old(j)
      BY <1>4, <1>5, <1>6, <2>1
    <3>2. r[i] = s[old(i)] /\ r[j] = s[old(j)]
      BY <1>4, <2>1
    <3> HIDE DEF old
    <3> QED BY <3>1, <3>2 DEF Sorted
  <2>2. CASE i = k + 1
    <3>1. old(j) = j - 1 /\ j - 1 \in DOMAIN s /\ j - 1 > k /\ r[j] = s[j - 1]
      BY <1>1, <1>2, <1>3, <1>6, <2>2
    <3> QED BY <1>1, <1>3, <2>2, <3>1
  <2>3. CASE j = k + 1
    <3>1. i \in DOMAIN s /\ i <= k /\ r[i] = s[i]
      BY <1>1, <1>2, <1>3, <1>6, <2>3
    <3> QED BY <1>1, <1>3, <2>3, <3>1
  <2> QED BY <2>1, <2>2, <2>3
<1>7. ASSUME NEW i \in DOMAIN r, NEW j \in DOMAIN r, r[i] = r[j] PROVE i = j
  <2>1. CASE i # k + 1 /\ j # k + 1
    <3>1. old(i) \in DOMAIN s /\ old(j) \in DOMAIN s /\ s[old(i)] = s[old(j)]
      BY <1>4, <1>7, <2>1
    <3>2. old(i) = old(j)
      <4> HIDE DEF old
      <4> QED BY <3>1 DEF Distinct
    <3>3. i \in Nat /\ j \in Nat
      BY <1>3
    <3> QED BY <1>1, <2>1, <3>2, <3>3
  <2>2. CASE i = k + 1
    BY <1>3, <1>4, <1>7, <2>2
  <2>3. CASE j = k + 1
    BY <1>3, <1>4, <1>7, <2>3
  <2> QED BY <2>1, <2>2, <2>3
<1> QED BY <1>6, <1>7 DEF Sorted, Distinct, r

-----------------------------------------------------------------------------
(* Where the setData of a message is: in a block, in a mutation queue, or    *)
(* gone for good without the server having it.                               *)
Waits(d, m) == [op |-> "setMessage", id |-> m] \in blocks[d]
Carries(d, m) == Waits(d, m) \/ m \in Queued(d)
Gone(m) == sentAt[m] > 0 /\ m \notin stored /\ \A d \in Device : ~Carries(d, m)

(* It is in one place at most, as ids are fresh.                             *)
CarriedOnce ==
  \A m \in MsgId :
    /\ m \in stored => sentAt[m] > 0
    /\ \A d \in Device : Carries(d, m) =>
         /\ sentAt[m] > 0 /\ ~(Waits(d, m) /\ m \in Queued(d))
         /\ \A e \in Device \ {d} : ~Carries(e, m)

(* What no step takes back; a write that leaves its queue is stored or gone. *)
Kept ==
  /\ stored \subseteq stored'
  /\ \A m \in MsgId :
       /\ sentAt[m] > 0 => sentAt'[m] = sentAt[m] /\ createdAt'[m] = createdAt[m]
       /\ Gone(m) => Gone(m)'
  /\ \A d \in Device : \A m \in Queued(d) : m \in stored' \/ m \in Queued(d)' \/ Gone(m)'

LEMMA QueuedType ==
  ASSUME TypeOK, NEW d \in Device
  PROVE  Queued(d) \subseteq MsgId /\ writes[d] \in Seq(Write)
<1>1. writes[d] \in Seq(Write)
  BY DEF TypeOK
<1>2. ASSUME NEW i \in DOMAIN writes[d] PROVE writes[d][i].id \in MsgId
  <2>1. writes[d][i] \in Write
    BY <1>1
  <2> QED BY <2>1 DEF Write
<1> QED BY <1>1, <1>2 DEF Queued, Ids

(* A step that starts no write.                                              *)
LEMMA CarryShrinks ==
  ASSUME TypeOK, CarriedOnce, sentAt' = sentAt, createdAt' = createdAt,
         \A d \in Device : \A m \in MsgId : /\ Waits(d, m)' => Waits(d, m)
                                            /\ m \in Queued(d)' => m \in Queued(d),
         stored \subseteq stored',
         \A m \in stored' : m \in stored \/ \E d \in Device : m \in Queued(d)
  PROVE  CarriedOnce' /\ Kept
<1>1. \A d \in Device : \A m \in MsgId : Carries(d, m)' => Carries(d, m)
  BY DEF Carries
<1>2. \A m \in MsgId : m \in stored' => sentAt[m] > 0
  BY DEF CarriedOnce, Carries
<1>3. CarriedOnce'
  BY <1>1, <1>2 DEF CarriedOnce
<1>4. ASSUME NEW m \in MsgId, Gone(m) PROVE Gone(m)'
  BY <1>1, <1>4 DEF Gone, Carries
<1>5. ASSUME NEW d \in Device, NEW m \in Queued(d), m \notin stored', m \notin Queued(d)'
      PROVE  Gone(m)'
  <2>1. m \in MsgId
    BY QueuedType
  <2>2. /\ sentAt[m] > 0 /\ ~Waits(d, m)
        /\ \A e \in Device \ {d} : ~Carries(e, m)
    BY <2>1 DEF CarriedOnce, Carries
  <2> QED BY <1>1, <1>5, <2>1, <2>2 DEF Gone, Carries
<1> QED BY <1>3, <1>4, <1>5 DEF Kept

LEMMA CarryStep ==
  ASSUME TypeOK, CarriedOnce, [Next]_vars
  PROVE  CarriedOnce' /\ Kept
<1> USE DEF server, display
<1>1. CASE UNCHANGED <<sentAt, createdAt, blocks, writes, stored>>
  BY <1>1, CarryShrinks DEF Waits, Queued
<1>2. ASSUME NEW d \in Device,
             \/ OpenRoom(d) \/ CloseRoom(d) \/ ApplyLatest(d) \/ Reconnect(d) \/ Deliver(d)
             \/ ListenerFails(d)
      PROVE  UNCHANGED <<sentAt, createdAt, blocks, writes, stored>>
  BY <1>2 DEF OpenRoom, CloseRoom, ApplyLatest, Reconnect, Deliver, DeliverAdded,
     DeliverRemoved, ListenerFails
<1>3. ASSUME NEW d \in Device, NEW m \in MsgId, TapSend(d, m) PROVE CarriedOnce' /\ Kept
  <2>1. /\ sentAt[m] = 0 /\ UNCHANGED <<writes, stored>>
        /\ blocks' = [blocks EXCEPT ![d] = blocks[d] \cup {[op |-> "setMessage", id |-> m]}]
        /\ \A n \in MsgId : n # m => sentAt'[n] = sentAt[n] /\ createdAt'[n] = createdAt[n]
    BY <1>3 DEF TapSend, WritesAtTap, TypeOK
  <2>2. sentAt'[m] > 0
    <3>1. sentAt'[m] = Cardinality(Tapped) + 1
      BY <1>3 DEF TapSend, TypeOK
    <3>2. Cardinality(Tapped) \in Nat
      BY MsgIdAssumption, FS_Subset, FS_CardinalityType DEF Tapped
    <3> QED BY <3>1, <3>2
  <2>3. /\ \A e \in Device : Queued(e)' = Queued(e)
        /\ \A e \in Device : ~Carries(e, m)
        /\ m \notin stored
    BY <2>1 DEF Queued, CarriedOnce
  <2>4. /\ \A e \in Device : \A n \in MsgId : n # m => (Waits(e, n)' <=> Waits(e, n))
        /\ \A e \in Device : Waits(e, m)' <=> e = d
    <3>1. ASSUME NEW e \in Device, NEW n \in MsgId, n # m PROVE Waits(e, n)' <=> Waits(e, n)
      <4>1. [op |-> "setMessage", id |-> n] # [op |-> "setMessage", id |-> m]
        BY <3>1
      <4> QED BY <2>1, <4>1 DEF Waits, TypeOK
    <3>2. ASSUME NEW e \in Device PROVE Waits(e, m)' <=> e = d
      BY <2>1, <2>3 DEF Waits, Carries, TypeOK
    <3> QED BY <3>1, <3>2
  <2>5. /\ \A e \in Device : \A n \in MsgId : n # m => (Carries(e, n)' <=> Carries(e, n))
        /\ \A e \in Device : Carries(e, m)' <=> e = d
    BY <2>3, <2>4 DEF Carries
  <2>6. CarriedOnce'
    <3> SUFFICES ASSUME NEW n \in MsgId
                 PROVE  /\ n \in stored' => sentAt'[n] > 0
                        /\ \A e \in Device : Carries(e, n)' =>
                             /\ sentAt'[n] > 0 /\ ~(Waits(e, n)' /\ n \in Queued(e)')
                             /\ \A f \in Device \ {e} : ~Carries(f, n)'
      BY DEF CarriedOnce
    <3>1. CASE n = m
      BY <2>1, <2>2, <2>3, <2>5, <3>1 DEF Carries
    <3>2. CASE n # m
      BY <2>1, <2>3, <2>4, <2>5, <3>2 DEF CarriedOnce
    <3> QED BY <3>1, <3>2
  <2>7. ASSUME NEW n \in MsgId, sentAt[n] > 0 PROVE n # m
    BY <2>1, <2>7
  <2> QED BY <2>1, <2>3, <2>5, <2>6, <2>7 DEF Kept, Gone
<1>4. ASSUME NEW d \in Device, NEW b \in blocks[d], RunBlock(d, b)
      PROVE  CarriedOnce' /\ Kept
  <2> DEFINE w == [op |-> b.op, id |-> b.id, cb |-> TRUE]
  <2>1. b \in Block /\ b.id \in MsgId /\ b.op \in Op /\ b = [op |-> b.op, id |-> b.id]
    BY DEF TypeOK, Block
  <2>2. /\ w \in Write /\ w.op = b.op /\ w.id = b.id
        /\ writes' = [writes EXCEPT ![d] = Append(writes[d], w)]
        /\ blocks' = [blocks EXCEPT ![d] = blocks[d] \ {b}]
        /\ UNCHANGED <<sentAt, createdAt, stored>>
    BY <1>4, <2>1 DEF RunBlock, Write, TypeOK
  <2> HIDE DEF w
  <2>3. Queued(d)' = Queued(d) \cup (IF b.op = "setMessage" THEN {b.id} ELSE {})
    <3>1. writes'[d] = Append(writes[d], w)
      BY <2>2 DEF TypeOK
    <3> QED BY <2>2, <3>1, QueuedType, IdsAppend DEF Queued
  <2>4. \A e \in Device : e # d => Queued(e)' = Queued(e)
    BY <2>2 DEF Queued, TypeOK
  <2>5. \A e \in Device : \A n \in MsgId :
          Waits(e, n)' <=> /\ Waits(e, n)
                           /\ ~(e = d /\ b.op = "setMessage" /\ b.id = n)
    <3> SUFFICES ASSUME NEW e \in Device, NEW n \in MsgId
                 PROVE  Waits(e, n)' <=> /\ Waits(e, n)
                                         /\ ~(e = d /\ b.op = "setMessage" /\ b.id = n)
      OBVIOUS
    <3>1. [op |-> "setMessage", id |-> n] = b <=> b.op = "setMessage" /\ b.id = n
      BY <2>1
    <3>2. e # d => blocks'[e] = blocks[e]
      BY <2>2 DEF TypeOK
    <3>3. blocks'[d] = blocks[d] \ {b}
      BY <2>2 DEF TypeOK
    <3> QED BY <3>1, <3>2, <3>3 DEF Waits
  <2>6. CASE b.op # "setMessage"
    <3>1. \A e \in Device : Queued(e)' = Queued(e)
      BY <2>3, <2>4, <2>6
    <3> QED BY <2>2, <2>5, <3>1, CarryShrinks
  <2>7. CASE b.op = "setMessage"
    <3> DEFINE m == b.id
    <3>1. /\ m \in MsgId /\ Waits(d, m)
          /\ Queued(d)' = Queued(d) \cup {m}
          /\ \A n \in MsgId : n # m => (Waits(d, n)' <=> Waits(d, n))
          /\ ~Waits(d, m)'
          /\ \A e \in Device : \A n \in MsgId : e # d => (Waits(e, n)' <=> Waits(e, n))
      BY <2>1, <2>3, <2>5, <2>7 DEF Waits
    <3> HIDE DEF m
    <3>2. \A e \in Device : \A n \in MsgId : Carries(e, n)' <=> Carries(e, n)
      BY <2>4, <3>1 DEF Carries
    <3>3. CarriedOnce'
      <4> SUFFICES ASSUME NEW n \in MsgId
                   PROVE  /\ n \in stored' => sentAt'[n] > 0
                          /\ \A e \in Device : Carries(e, n)' =>
                               /\ sentAt'[n] > 0 /\ ~(Waits(e, n)' /\ n \in Queued(e)')
                               /\ \A f \in Device \ {e} : ~Carries(f, n)'
        BY DEF CarriedOnce
      <4>1. \A e \in Device : ~(Waits(e, n)' /\ n \in Queued(e)')
        BY <2>4, <3>1 DEF CarriedOnce, Carries
      <4> QED BY <2>2, <3>2, <4>1 DEF CarriedOnce
    <3>4. \A e \in Device : Queued(e) \subseteq Queued(e)'
      BY <2>4, <3>1
    <3> QED BY <2>2, <3>2, <3>3, <3>4 DEF Kept, Gone
  <2> QED BY <2>6, <2>7
<1>5. ASSUME NEW d \in Device, ApplyMessage(d) PROVE CarriedOnce' /\ Kept
  <2>1. /\ stored' = stored \cup {Unapplied(d).id}
        /\ UNCHANGED <<sentAt, createdAt, blocks, writes>>
    BY <1>5 DEF ApplyMessage
  <2>2. Unapplied(d).id \in Queued(d)
    <3>1. applied[d] + 1 \in DOMAIN writes[d]
      BY <1>5, UnappliedType DEF ApplyMessage, HasUnapplied
    <3> QED BY <1>5, <3>1 DEF ApplyMessage, Unapplied, Queued, Ids
  <2>3. \A e \in Device : \A m \in MsgId : /\ Waits(e, m)' <=> Waits(e, m)
                                           /\ m \in Queued(e)' <=> m \in Queued(e)
    BY <2>1 DEF Waits, Queued
  <2> QED BY <2>1, <2>2, <2>3, CarryShrinks
<1>6. ASSUME NEW d \in Device, Acknowledge(d) \/ RejectWrite(d) PROVE CarriedOnce' /\ Kept
  <2>1. /\ UNCHANGED <<sentAt, createdAt, stored>> /\ writes[d] # <<>>
        /\ writes' = [writes EXCEPT ![d] = Tail(writes[d])]
        /\ blocks' = blocks \/
             blocks' = [blocks EXCEPT ![d] = blocks[d] \cup Completion(d, Head(writes[d]))]
    BY <1>6 DEF Acknowledge, RejectWrite
  <2>2. Queued(d)' \subseteq Queued(d)
    <3>1. writes'[d] = Tail(writes[d])
      BY <2>1 DEF TypeOK
    <3> QED BY <2>1, <3>1, QueuedType, IdsTail DEF Queued
  <2>3. \A e \in Device : e # d => Queued(e)' = Queued(e)
    BY <2>1 DEF Queued, TypeOK
  <2>4. \A m \in MsgId : [op |-> "setMessage", id |-> m] \notin Completion(d, Head(writes[d]))
    BY DEF Completion
  <2>5. \A e \in Device : \A m \in MsgId : Waits(e, m)' => Waits(e, m)
    BY <2>1, <2>4 DEF Waits, TypeOK
  <2> QED BY <2>1, <2>2, <2>3, <2>5, CarryShrinks
<1>7. ASSUME NEW d \in Device, Kill(d) PROVE CarriedOnce' /\ Kept
  <2>1. UNCHANGED <<sentAt, createdAt, stored>> /\ blocks' = [blocks EXCEPT ![d] = {}]
    BY <1>7 DEF Kill
  <2>2. \A e \in Device : Queued(e)' = Queued(e)
    <3>1. Ids(writes'[d], "setMessage") = Ids(writes[d], "setMessage")
      BY <1>7, IdsKilled DEF Kill, TypeOK
    <3>2. \A e \in Device : e # d => writes'[e] = writes[e]
      BY <1>7 DEF Kill, TypeOK
    <3> QED BY <3>1, <3>2 DEF Queued
  <2>3. \A e \in Device : \A m \in MsgId : Waits(e, m)' => Waits(e, m)
    BY <2>1 DEF Waits, TypeOK
  <2> QED BY <2>1, <2>2, <2>3, CarryShrinks
<1>8. CASE UNCHANGED vars
  BY <1>1, <1>8 DEF vars
<1> QED BY <1>1, <1>2, <1>3, <1>4, <1>5, <1>6, <1>7, <1>8 DEF Next, Send, Run, Apply

-----------------------------------------------------------------------------
(* Why a screen keeps its order and shows nothing twice: whatever it shows   *)
(* or has seen was sent, a message it shows and no longer sees is gone for   *)
(* good, so it is never added again, and a closed screen is empty.           *)
Sent(d, m) == m \in stored \cup Queued(d) \/ Gone(m)
ScreenSound(d) ==
  /\ \A m \in seen[d] \cup Shown(d) : Sent(d, m)
  /\ screen[d] = "listening" => \A m \in Shown(d) \ seen[d] : Gone(m)
  /\ screen[d] = "closed" => messages[d] = <<>> /\ seen[d] = {}
  /\ Sorted(messages[d]) /\ Distinct(messages[d])

(* A message that was sent keeps its createdAt, and stays sent.              *)
LEMMA SentStays ==
  ASSUME TypeOK, CarriedOnce, Kept, NEW d \in Device, NEW m \in MsgId, Sent(d, m)
  PROVE  createdAt'[m] = createdAt[m] /\ Sent(d, m)'
<1>1. sentAt[m] > 0
  BY DEF Sent, Gone, CarriedOnce, Carries
<1> QED BY <1>1 DEF Sent, Kept

(* A screen whose array does not change.                                     *)
LEMMA ScreenStays ==
  ASSUME TypeOK, CarriedOnce, Kept, NEW d \in Device, ScreenSound(d),
         messages'[d] = messages[d], seen'[d] \subseteq seen[d],
         screen'[d] = "listening" => \A m \in Shown(d) \ seen'[d] : Gone(m),
         screen'[d] = "closed" => screen[d] = "closed"
  PROVE  ScreenSound(d)'
<1>1. /\ messages[d] \in Seq(MsgId) /\ seen[d] \subseteq MsgId
      /\ Shown(d) \subseteq MsgId /\ Shown(d)' = Shown(d)
  BY DEF TypeOK, Shown
<1>2. \A m \in seen'[d] \cup Shown(d)' : Sent(d, m)'
  BY <1>1, SentStays DEF ScreenSound
<1>3. screen'[d] = "listening" => \A m \in Shown(d)' \ seen'[d] : Gone(m)'
  BY <1>1 DEF Kept
<1>4. screen'[d] = "closed" => messages'[d] = <<>> /\ seen'[d] = {}
  BY DEF ScreenSound
<1>5. \A i \in DOMAIN messages[d] : createdAt'[messages[d][i]] = createdAt[messages[d][i]]
  BY <1>1, SentStays DEF ScreenSound, Shown
<1>6. Sorted(messages[d])' /\ Distinct(messages[d])'
  BY <1>5 DEF ScreenSound, Sorted, Distinct
<1> QED BY <1>2, <1>3, <1>4, <1>6 DEF ScreenSound

(* A change of type .added: the message was not on the screen.               *)
LEMMA ScreenAdds ==
  ASSUME TypeOK, CarriedOnce, Kept, NEW d \in Device, ScreenSound(d),
         NEW m \in MsgId, DeliverAdded(d, m)
  PROVE  ScreenSound(d)'
<1>1. /\ messages[d] \in Seq(MsgId) /\ createdAt \in [MsgId -> Nat]
      /\ screen[d] = "listening" /\ screen'[d] = "listening" /\ createdAt' = createdAt
      /\ messages'[d] = Inserted(messages[d], m) /\ seen'[d] = seen[d] \cup {m}
      /\ m \in stored \cup Queued(d) /\ m \notin seen[d]
  BY DEF DeliverAdded, TypeOK
<1>2. m \notin Shown(d)
  BY <1>1 DEF ScreenSound, Gone, Carries
<1>3. Sorted(Inserted(messages[d], m)) /\ Distinct(Inserted(messages[d], m))
  BY <1>1, <1>2, InsertedOrder DEF ScreenSound, Shown
<1>4. Sorted(messages[d])' /\ Distinct(messages[d])'
  BY <1>1, <1>3 DEF Sorted, Distinct
<1>5. Shown(d)' \subseteq Shown(d) \cup {m} /\ Shown(d) \subseteq MsgId
  <2>1. \A i \in DOMAIN Inserted(messages[d], m) :
          Inserted(messages[d], m)[i] = m
            \/ \E j \in DOMAIN messages[d] : Inserted(messages[d], m)[i] = messages[d][j]
    BY <1>1, InsertedType
  <2>2. Shown(d) \subseteq MsgId
    BY <1>1 DEF Shown
  <2>3. Shown(d)' = {Inserted(messages[d], m)[i] : i \in DOMAIN Inserted(messages[d], m)}
    BY <1>1 DEF Shown
  <2> QED BY <2>1, <2>2, <2>3 DEF Shown
<1>6. seen[d] \subseteq MsgId
  BY DEF TypeOK
<1>7. Sent(d, m)
  BY <1>1 DEF Sent
<1>8. \A n \in seen'[d] \cup Shown(d)' : Sent(d, n)'
  BY <1>1, <1>5, <1>6, <1>7, SentStays DEF ScreenSound
<1>9. \A n \in Shown(d)' \ seen'[d] : Gone(n)'
  BY <1>1, <1>5 DEF ScreenSound, Kept
<1> QED BY <1>1, <1>4, <1>8, <1>9 DEF ScreenSound

LEMMA ScreenStep ==
  ASSUME TypeOK, CarriedOnce, \A d \in Device : ScreenSound(d), [Next]_vars
  PROVE  \A d \in Device : ScreenSound(d)'
<1>0. Kept
  BY CarryStep
<1> SUFFICES ASSUME NEW e \in Device PROVE ScreenSound(e)'
  OBVIOUS
<1> USE DEF server, display
<1>1. CASE UNCHANGED <<screen[e], messages[e], seen[e]>>
  BY <1>0, <1>1, ScreenStays DEF ScreenSound
<1>2. ASSUME NEW d \in Device, OpenRoom(d) PROVE ScreenSound(e)'
  <2>1. CASE e = d
    <3>1. /\ screen[e] = "closed" /\ screen'[e] = "listening"
          /\ messages'[e] = messages[e] /\ seen'[e] = seen[e]
      BY <1>2, <2>1 DEF OpenRoom, TypeOK
    <3>2. Shown(e) = {}
      BY <3>1 DEF ScreenSound, Shown
    <3> QED BY <1>0, <3>1, <3>2, ScreenStays
  <2>2. CASE e # d
    BY <1>1, <1>2, <2>2 DEF OpenRoom, TypeOK
  <2> QED BY <2>1, <2>2
<1>3. ASSUME NEW d \in Device, ShutScreen(d) PROVE ScreenSound(e)'
  <2>1. CASE e = d
    <3>1. messages'[e] = <<>> /\ seen'[e] = {} /\ screen'[e] = "closed"
      BY <1>3, <2>1 DEF ShutScreen, TypeOK
    <3> QED BY <3>1 DEF ScreenSound, Shown, Sorted, Distinct
  <2>2. CASE e # d
    BY <1>1, <1>3, <2>2 DEF ShutScreen, TypeOK
  <2> QED BY <2>1, <2>2
<1>4. ASSUME NEW d \in Device, NEW m \in MsgId, DeliverAdded(d, m) PROVE ScreenSound(e)'
  <2>1. CASE e = d
    BY <1>0, <1>4, <2>1, ScreenAdds
  <2>2. CASE e # d
    BY <1>1, <1>4, <2>2 DEF DeliverAdded, TypeOK
  <2> QED BY <2>1, <2>2
<1>5. ASSUME NEW d \in Device, NEW m \in MsgId, DeliverRemoved(d, m) PROVE ScreenSound(e)'
  <2>1. CASE e = d
    <3>1. /\ messages'[e] = messages[e] /\ seen'[e] = seen[e] \ {m}
          /\ screen'[e] = "listening" /\ screen[e] = "listening"
          /\ m \in seen[e] /\ m \notin stored \cup Queued(e)
      BY <1>5, <2>1 DEF DeliverRemoved, TypeOK
    <3>2. Gone(m)
      BY <3>1 DEF ScreenSound, Sent
    <3>3. \A n \in Shown(e) \ seen'[e] : Gone(n)
      BY <3>1, <3>2 DEF ScreenSound
    <3> QED BY <1>0, <3>1, <3>3, ScreenStays
  <2>2. CASE e # d
    BY <1>1, <1>5, <2>2 DEF DeliverRemoved, TypeOK
  <2> QED BY <2>1, <2>2
<1>6. ASSUME NEW d \in Device, ListenerFails(d) PROVE ScreenSound(e)'
  <2>1. CASE e = d
    <3>1. messages'[e] = messages[e] /\ seen'[e] = {} /\ screen'[e] = "failed"
      BY <1>6, <2>1 DEF ListenerFails, TypeOK
    <3> QED BY <1>0, <3>1, ScreenStays
  <2>2. CASE e # d
    BY <1>1, <1>6, <2>2 DEF ListenerFails, TypeOK
  <2> QED BY <2>1, <2>2
<1>7. ASSUME NEW d \in Device,
             \/ Send(d) \/ Run(d) \/ Apply(d) \/ Acknowledge(d) \/ Reconnect(d)
             \/ RejectWrite(d)
      PROVE  UNCHANGED <<screen[e], messages[e], seen[e]>>
  BY <1>7 DEF Send, TapSend, Run, RunBlock, Apply, ApplyMessage, ApplyLatest, Acknowledge,
     Reconnect, RejectWrite
<1>8. CASE UNCHANGED vars
  BY <1>1, <1>8 DEF vars
<1>9. ASSUME NEW d \in Device, CloseRoom(d) \/ Kill(d) PROVE ShutScreen(d)
  BY <1>9 DEF CloseRoom, Kill
<1> QED BY <1>1, <1>2, <1>3, <1>4, <1>5, <1>6, <1>7, <1>8, <1>9 DEF Next, Deliver

(* What every reachable state satisfies.                                     *)
Screens == CarriedOnce /\ \A d \in Device : ScreenSound(d)

LEMMA ScreensInvariant == Spec => []Screens
<1>1. Init => Screens
  <2> SUFFICES ASSUME Init PROVE Screens
    OBVIOUS
  <2>1. CarriedOnce
    BY DEF Init, CarriedOnce, Carries, Waits, Queued, Ids
  <2>2. \A d \in Device : messages[d] = <<>> /\ seen[d] = {} /\ screen[d] = "closed"
    BY DEF Init
  <2>3. \A d \in Device : ScreenSound(d)
    BY <2>2 DEF ScreenSound, Shown, Sorted, Distinct
  <2> QED BY <2>1, <2>3 DEF Screens
<1>2. TypeOK /\ Screens /\ [Next]_vars => Screens'
  BY CarryStep, ScreenStep DEF Screens
<1> QED BY <1>1, <1>2, TypeCorrect, PTL DEF Spec

(* A screen never shows a message twice, though the SDK reports a local      *)
(* write before the server has it and every reopening replays the room.      *)
THEOREM NothingShownTwice == Spec => []ShownOnce
<1>1. Screens => ShownOnce
  BY DEF Screens, ScreenSound, ShownOnce, Distinct
<1> QED BY <1>1, ScreensInvariant, PTL

(* Two screens show two messages of different createdAt in the same order,   *)
(* whatever the order in which the listener's changes reached them, however  *)
(* far the clocks of the devices are apart; of two messages with the same    *)
(* createdAt nothing is said.                                                *)
THEOREM ScreensAgreeButForTies == Spec => []ScreensAgreeUnlessTied
<1>1. TypeOK /\ Screens => ScreensAgreeUnlessTied
  <2> SUFFICES ASSUME TypeOK, Screens, NEW m \in MsgId, NEW n \in MsgId,
                      createdAt[m] # createdAt[n],
                      NEW d \in Device, NEW e \in Device,
                      Above(d, m, n), Above(e, n, m)
               PROVE  FALSE
    BY DEF ScreensAgreeUnlessTied
  <2>1. ASSUME NEW f \in Device, NEW a \in MsgId, NEW b \in MsgId, Above(f, a, b)
        PROVE  createdAt[a] >= createdAt[b]
    BY <2>1 DEF Above, Screens, ScreenSound, Sorted
  <2>2. createdAt[m] >= createdAt[n] /\ createdAt[n] >= createdAt[m]
    BY <2>1
  <2>3. createdAt[m] \in Nat /\ createdAt[n] \in Nat
    BY DEF TypeOK
  <2> QED BY <2>2, <2>3
<1> QED BY <1>1, ScreensInvariant, TypeCorrect, PTL

-----------------------------------------------------------------------------
(* The room's latest message, as long as nothing disturbs the sends: either  *)
(* nothing is waiting and the room names its newest message, or one message, *)
(* the last one tapped, is somewhere on its way and no device has any other. *)
Msg(m) == [op |-> "setMessage", id |-> m]
Ptr(m) == [op |-> "setLatestMessage", id |-> m]
Queue(b) == <<[op |-> b.op, id |-> b.id, cb |-> TRUE]>>

Last(m) == sentAt[m] > 0 /\ \A n \in MsgId : sentAt[n] <= sentAt[m]

Way(d, m) ==
  \/ blocks[d] = {Msg(m)} /\ writes[d] = <<>>
  \/ blocks[d] = {} /\ writes[d] = Queue(Msg(m))
  \/ m \in stored /\ blocks[d] = {Ptr(m)} /\ writes[d] = <<>>
  \/ /\ m \in stored /\ blocks[d] = {} /\ writes[d] = Queue(Ptr(m))
     /\ applied[d] > 0 => latestMessageId = m

Settled == Quiescent /\ (stored # {} => Newest(latestMessageId))
Alone(d, m) ==
  /\ Last(m) /\ Way(d, m)
  /\ \A e \in Device \ {d} : blocks[e] = {} /\ writes[e] = <<>>

Lone == disturbed = {} => Settled \/ \E d \in Device, m \in MsgId : Alone(d, m)

(* The order of taps counts the tapped messages.                             *)
Counted == \A m \in MsgId : sentAt[m] <= Cardinality(Tapped)

LEMMA TappedFinite == IsFiniteSet(Tapped) /\ Cardinality(Tapped) \in Nat
<1>1. IsFiniteSet(Tapped)
  BY MsgIdAssumption, FS_Subset DEF Tapped
<1> QED BY <1>1, FS_CardinalityType

LEMMA CountedTap ==
  ASSUME TypeOK, Counted, NEW d \in Device, NEW m \in MsgId, TapSend(d, m)
  PROVE  Counted' /\ Last(m)'
<1> DEFINE c == Cardinality(Tapped)
<1>1. /\ c \in Nat /\ sentAt[m] = 0 /\ sentAt \in [MsgId -> Nat]
      /\ sentAt' = [sentAt EXCEPT ![m] = c + 1]
  BY TappedFinite DEF TapSend, TypeOK
<1>2. \A n \in MsgId : sentAt[n] <= c
  BY DEF Counted
<1> HIDE DEF c
<1>3. \A n \in MsgId : sentAt'[n] \in Nat /\ sentAt'[n] <= c + 1 /\ sentAt'[m] = c + 1
  BY <1>1, <1>2
<1>4. Tapped' = Tapped \cup {m} /\ m \notin Tapped
  BY <1>1 DEF Tapped
<1>5. Cardinality(Tapped') = c + 1
  BY <1>4, TappedFinite, FS_AddElement DEF c
<1> QED BY <1>1, <1>3, <1>5 DEF Counted, Last

LEMMA CountedStep ==
  ASSUME TypeOK, Counted, [Next]_vars PROVE Counted'
<1>1. CASE sentAt' = sentAt
  BY <1>1 DEF Counted, Tapped
<1>2. ASSUME NEW d \in Device, NEW m \in MsgId, TapSend(d, m) PROVE Counted'
  BY <1>2, CountedTap
<1>3. ASSUME NEW d \in Device,
             \/ OpenRoom(d) \/ CloseRoom(d) \/ Run(d) \/ Apply(d) \/ Acknowledge(d)
             \/ Reconnect(d) \/ RejectWrite(d) \/ Kill(d) \/ Deliver(d) \/ ListenerFails(d)
      PROVE  sentAt' = sentAt
  BY <1>3 DEF OpenRoom, CloseRoom, Run, RunBlock, Apply, ApplyMessage, ApplyLatest,
     Acknowledge, Reconnect, RejectWrite, Kill, Deliver, DeliverAdded, DeliverRemoved,
     ListenerFails
<1> QED BY <1>1, <1>2, <1>3 DEF Next, Send, vars

LEMMA LoneStep ==
  ASSUME TypeOK, AppliedIsStored, Counted, Lone, [Next]_vars
  PROVE  Lone'
<1> SUFFICES ASSUME disturbed' = {} PROVE (Settled \/ \E d \in Device, m \in MsgId : Alone(d, m))'
  BY DEF Lone
<1> DEFINE Goal == Settled' \/ \E d \in Device, m \in MsgId : Alone(d, m)'
<1> SUFFICES Goal
  OBVIOUS
<1> USE DEF server, display
<1>00. ASSUME NEW K \in SUBSET Kinds, disturbed' = Worse(K) PROVE disturbed = {} /\ K = {}
  BY <1>00, WorseKinds DEF TypeOK, Kinds
<1>0. disturbed = {}
  <2>1. ASSUME NEW d \in Device, NEW m \in MsgId, TapSend(d, m) PROVE disturbed = {}
    BY <1>00, <2>1 DEF TapSend, Kinds
  <2>2. ASSUME NEW d \in Device, RejectWrite(d) PROVE disturbed = {}
    BY <1>00, <2>2 DEF RejectWrite, Kinds
  <2>3. ASSUME NEW d \in Device, Kill(d) PROVE disturbed = {}
    BY <1>00, <2>3 DEF Kill, Kinds
  <2> QED
    BY <2>1, <2>2, <2>3
       DEF Next, vars, OpenRoom, CloseRoom, Send, Run, RunBlock, Apply, ApplyMessage,
           ApplyLatest, Acknowledge, Reconnect, Deliver, DeliverAdded, DeliverRemoved,
           ListenerFails
<1>1. Settled \/ \E d \in Device, m \in MsgId : Alone(d, m)
  BY <1>0 DEF Lone
<1>2. CASE UNCHANGED <<sentAt, blocks, writes, applied, stored, latestMessageId>>
  <2>1. Settled => Settled'
    BY <1>2 DEF Settled, Quiescent, Newest
  <2>2. \A d \in Device, m \in MsgId : Alone(d, m) => Alone(d, m)'
    BY <1>2 DEF Alone, Last, Way
  <2> QED BY <1>1, <2>1, <2>2
<1>3. ASSUME NEW d \in Device,
             OpenRoom(d) \/ CloseRoom(d) \/ Deliver(d) \/ ListenerFails(d)
      PROVE  UNCHANGED <<sentAt, blocks, writes, applied, stored, latestMessageId>>
  BY <1>3 DEF OpenRoom, CloseRoom, Deliver, DeliverAdded, DeliverRemoved, ListenerFails
<1>4. ASSUME NEW d \in Device, NEW m \in MsgId, TapSend(d, m) PROVE Goal
  <2>1. Quiescent
    BY <1>00, <1>4 DEF TapSend, Kinds
  <2>2. /\ writes' = writes /\ blocks'[d] = {Msg(m)}
        /\ \A e \in Device \ {d} : blocks'[e] = blocks[e]
    BY <1>4, <2>1 DEF TapSend, WritesAtTap, Msg, Quiescent, TypeOK
  <2>3. Last(m)'
    BY <1>4, CountedTap
  <2>4. Alone(d, m)'
    BY <2>1, <2>2, <2>3 DEF Alone, Way, Quiescent
  <2> QED BY <2>4
<1>5. ASSUME NEW d \in Device, (blocks[d] # {} \/ writes[d] # <<>>)
      PROVE  \E m \in MsgId : Alone(d, m)
  BY <1>1, <1>5 DEF Settled, Quiescent, Alone
<1>6. \A d \in Device : writes[d] = <<>> => applied[d] = 0
  BY DEF TypeOK
<1>7. ASSUME NEW b
      PROVE  /\ Len(Queue(b)) = 1 /\ Queue(b)[1] = [op |-> b.op, id |-> b.id, cb |-> TRUE]
             /\ Head(Queue(b)) = Queue(b)[1] /\ Tail(Queue(b)) = <<>> /\ Queue(b) # <<>>
  <2> DEFINE w == [op |-> b.op, id |-> b.id, cb |-> TRUE]
  <2>1. Queue(b) = <<w>>
    BY DEF Queue
  <2> HIDE DEF w
  <2>2. Len(<<w>>) = 1 /\ <<w>>[1] = w /\ Head(<<w>>) = w /\ <<w>> # <<>>
    OBVIOUS
  <2>3. Tail(<<w>>) = <<>>
    OBVIOUS
  <2> QED BY <2>1, <2>2, <2>3 DEF w
<1>8. ASSUME NEW d \in Device, NEW b \in blocks[d], RunBlock(d, b) PROVE Goal
  <2>1. PICK m \in MsgId : Alone(d, m)
    BY <1>5, <1>8
  <2>2. /\ UNCHANGED <<sentAt, applied, stored, latestMessageId>>
        /\ blocks'[d] = blocks[d] \ {b}
        /\ writes'[d] = Append(writes[d], [op |-> b.op, id |-> b.id, cb |-> TRUE])
        /\ \A e \in Device \ {d} : blocks'[e] = blocks[e] /\ writes'[e] = writes[e]
    BY <1>8 DEF RunBlock, TypeOK
  <2>3. /\ blocks[d] = {b} /\ writes[d] = <<>>
        /\ b = Msg(m) \/ (b = Ptr(m) /\ m \in stored)
    BY <2>1, <1>8 DEF Alone, Way
  <2>4. blocks'[d] = {} /\ writes'[d] = Queue(b)
    BY <2>2, <2>3 DEF Queue
  <2>5. applied'[d] = 0
    BY <1>6, <2>2, <2>3
  <2>6. Way(d, m)'
    <3>1. b = Msg(m) => blocks'[d] = {} /\ writes'[d] = Queue(Msg(m))
      BY <2>4
    <3>2. b = Ptr(m) /\ m \in stored =>
            /\ m \in stored' /\ blocks'[d] = {} /\ writes'[d] = Queue(Ptr(m))
            /\ ~(applied'[d] > 0)
      BY <2>2, <2>4, <2>5
    <3> QED BY <2>3, <3>1, <3>2 DEF Way
  <2>7. Last(m)'
    BY <2>1, <2>2 DEF Alone, Last
  <2> QED BY <2>1, <2>2, <2>6, <2>7 DEF Alone
<1>9. ASSUME NEW d \in Device, HasUnapplied(d)
      PROVE  \E m \in MsgId : /\ Alone(d, m) /\ blocks[d] = {} /\ applied[d] = 0
                              /\ \/ writes[d] = Queue(Msg(m)) /\ Unapplied(d).op = "setMessage"
                                 \/ /\ m \in stored /\ writes[d] = Queue(Ptr(m))
                                    /\ Unapplied(d).op = "setLatestMessage"
                              /\ Unapplied(d).id = m
  <2>1. /\ writes[d] # <<>> /\ applied[d] \in Nat /\ applied[d] < Len(writes[d])
        /\ writes[d] \in Seq(Write)
    BY <1>9 DEF HasUnapplied, TypeOK
  <2>2. PICK m \in MsgId : Alone(d, m)
    BY <1>5, <2>1
  <2>3. CASE blocks[d] = {} /\ writes[d] = Queue(Msg(m))
    <3>1. Len(writes[d]) = 1 /\ writes[d][1] = [op |-> Msg(m).op, id |-> m, cb |-> TRUE]
      BY <1>7, <2>3 DEF Msg
    <3>2. applied[d] = 0
      BY <2>1, <3>1
    <3>3. Unapplied(d).op = "setMessage" /\ Unapplied(d).id = m
      BY <3>1, <3>2 DEF Unapplied, Msg
    <3> QED BY <2>2, <2>3, <3>2, <3>3
  <2>4. CASE m \in stored /\ blocks[d] = {} /\ writes[d] = Queue(Ptr(m))
    <3>1. Len(writes[d]) = 1 /\ writes[d][1] = [op |-> Ptr(m).op, id |-> m, cb |-> TRUE]
      BY <1>7, <2>4 DEF Ptr
    <3>2. applied[d] = 0
      BY <2>1, <3>1
    <3>3. Unapplied(d).op = "setLatestMessage" /\ Unapplied(d).id = m
      BY <3>1, <3>2 DEF Unapplied, Ptr
    <3> QED BY <2>2, <2>4, <3>2, <3>3
  <2> QED BY <2>1, <2>2, <2>3, <2>4 DEF Alone, Way
<1>10. ASSUME NEW d \in Device, ApplyMessage(d) PROVE Goal
  <2>1. PICK m \in MsgId : Alone(d, m) /\ blocks[d] = {} /\ writes[d] = Queue(Msg(m))
    BY <1>9, <1>10 DEF ApplyMessage
  <2>2. UNCHANGED <<sentAt, blocks, writes>>
    BY <1>10 DEF ApplyMessage
  <2> QED BY <2>1, <2>2 DEF Alone, Way, Last
<1>11. ASSUME NEW d \in Device, ApplyLatest(d) PROVE Goal
  <2>1. PICK m \in MsgId : /\ Alone(d, m) /\ blocks[d] = {} /\ writes[d] = Queue(Ptr(m))
                           /\ m \in stored /\ Unapplied(d).id = m
    BY <1>9, <1>11 DEF ApplyLatest
  <2>2. UNCHANGED <<sentAt, blocks, writes, stored>> /\ latestMessageId' = m
    BY <1>11, <2>1 DEF ApplyLatest
  <2> QED BY <2>1, <2>2 DEF Alone, Way, Last
<1>12. ASSUME NEW d \in Device, Acknowledge(d) PROVE Goal
  <2>1. PICK m \in MsgId : Alone(d, m)
    BY <1>5, <1>12 DEF Acknowledge
  <2>2. /\ UNCHANGED <<sentAt, stored, latestMessageId>> /\ applied[d] > 0
        /\ writes[d] # <<>>
        /\ blocks'[d] = blocks[d] \cup Completion(d, Head(writes[d]))
        /\ writes'[d] = Tail(writes[d])
        /\ \A e \in Device \ {d} : blocks'[e] = blocks[e] /\ writes'[e] = writes[e]
    BY <1>12 DEF Acknowledge, TypeOK
  <2>3. CASE blocks[d] = {} /\ writes[d] = Queue(Msg(m))
    <3>1. Head(writes[d]) = [op |-> "setMessage", id |-> m, cb |-> TRUE]
      BY <1>7, <2>3 DEF Msg
    <3>2. m \in stored
      BY <1>12, <3>1, AppliedHead
    <3>3. blocks'[d] = {Ptr(m)} /\ writes'[d] = <<>>
      <4>1. Completion(d, Head(writes[d])) = {Ptr(m)}
        BY <3>1 DEF Completion, Ptr
      <4> QED BY <1>7, <2>2, <2>3, <4>1
    <3> QED BY <2>1, <2>2, <3>2, <3>3 DEF Alone, Way, Last
  <2>4. CASE /\ m \in stored /\ blocks[d] = {} /\ writes[d] = Queue(Ptr(m))
             /\ latestMessageId = m
    <3>1. Head(writes[d]) = [op |-> "setLatestMessage", id |-> m, cb |-> TRUE]
      BY <1>7, <2>4 DEF Ptr
    <3>2. blocks'[d] = {} /\ writes'[d] = <<>>
      <4>1. Completion(d, Head(writes[d])) = {}
        BY <3>1 DEF Completion
      <4> QED BY <1>7, <2>2, <2>4, <4>1
    <3>3. Quiescent'
      BY <2>1, <2>2, <3>2 DEF Alone, Quiescent
    <3>4. Newest(latestMessageId)'
      BY <2>1, <2>2, <2>4 DEF Alone, Last, Newest, TypeOK
    <3> QED BY <3>3, <3>4 DEF Settled
  <2> QED BY <2>1, <2>2, <2>3, <2>4 DEF Alone, Way
<1>13. ASSUME NEW d \in Device, Reconnect(d) PROVE Goal
  <2>1. /\ UNCHANGED <<sentAt, blocks, writes, stored, latestMessageId>>
        /\ applied'[d] = 0 /\ writes[d] # <<>>
    BY <1>6, <1>13 DEF Reconnect, TypeOK
  <2>2. PICK m \in MsgId : Alone(d, m)
    BY <1>5, <2>1
  <2>3. Way(d, m)'
    BY <2>1, <2>2 DEF Alone, Way
  <2> QED BY <2>1, <2>2, <2>3 DEF Alone, Last
<1>14. ASSUME NEW d \in Device, RejectWrite(d) \/ Kill(d) PROVE FALSE
  <2>1. CASE RejectWrite(d)
    BY <1>00, <2>1 DEF RejectWrite, Kinds
  <2>2. CASE Kill(d)
    BY <1>00, <2>2 DEF Kill, Kinds
  <2> QED BY <1>14, <2>1, <2>2
<1>15. CASE UNCHANGED vars
  BY <1>2, <1>15 DEF vars
<1> HIDE DEF Goal
<1> QED BY <1>2, <1>3, <1>4, <1>8, <1>10, <1>11, <1>12, <1>13, <1>14, <1>15
        DEF Next, Send, Run, Apply

(* When sends do not overlap, none is refused and no app is killed, the room *)
(* names its newest message whenever everything has settled.                 *)
THEOREM LatestWhenUndisturbed == Spec => []LatestIsNewestIfUndisturbed
<1>1. Init => Counted /\ Lone
  BY TappedFinite DEF Init, Counted, Lone, Settled, Quiescent
<1>2. TypeOK /\ LatestInv /\ Counted /\ Lone /\ [Next]_vars => Counted' /\ Lone'
  BY CountedStep, LoneStep DEF LatestInv
<1>3. Lone => LatestIsNewestIfUndisturbed
  <2>1. \A b : Queue(b) # <<>>
    BY DEF Queue
  <2>2. \A d \in Device, m \in MsgId : Quiescent => ~Way(d, m)
    BY <2>1 DEF Way, Quiescent
  <2> QED BY <2>2 DEF Lone, Settled, Alone, LatestIsNewestIfUndisturbed
<1> QED BY <1>1, <1>2, <1>3, LatestInvInit, LatestInvStep, TypeCorrect, PTL DEF Spec
=============================================================================
