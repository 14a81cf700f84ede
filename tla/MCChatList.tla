----------------------------- MODULE MCChatList -----------------------------
EXTENDS ChatList

CONSTANTS r1, r2, u1, u2

(* Every room with a partner of its own, or two rooms with the same one.     *)
MCOwnPartner == [r \in Room |-> IF r = r1 THEN u1 ELSE u2]
MCSamePartner == [r \in Room |-> u1]
=============================================================================
