--------------------------- MODULE MCUserIdCheck ---------------------------
(* One user signs up; the other has an account with the ID x.                *)
EXTENDS UserIdCheck

CONSTANTS newcomer, member, x, y
MCStartId == [u \in User |-> IF u = member THEN x ELSE NoId]
=============================================================================
