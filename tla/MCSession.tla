----------------------------- MODULE MCSession -----------------------------
(* A room of the first user with somebody who never signs in on this device, *)
(* foreign to the second user.                                               *)
EXTENDS Session, TLC

CONSTANTS u1, u2, other
MCMembers == other :> {u1}
=============================================================================
