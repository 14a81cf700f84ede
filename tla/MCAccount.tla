----------------------------- MODULE MCAccount -----------------------------
(* Two users take turns on one device; nothing tells them apart.             *)
EXTENDS Account, TLC

Users == Permutations(User)
=============================================================================
