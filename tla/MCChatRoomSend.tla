--------------------------- MODULE MCChatRoomSend ---------------------------
(* Two devices, the second with its clock one tap ahead, so that messages of *)
(* different devices can carry the same or the opposite createdAt.           *)
EXTENDS ChatRoomSend, TLC

CONSTANTS d1, d2, m1, m2, m3
MCSkew == [d \in Device |-> IF d = d2 THEN 1 ELSE 0]

(* Both send; only the first does; both may send any message.                *)
BothSend == [d \in Device |-> IF d = d1 THEN {m1, m2} ELSE {m3}]
FirstSends == [d \in Device |-> IF d = d1 THEN {m1, m2} ELSE {}]
AnySends == [d \in Device |-> {m1, m2}]

(* The messages of the first device are interchangeable.                     *)
MCSymmetry == Permutations({m1, m2})
=============================================================================
