-------------------------- MODULE MCWritePipeline ---------------------------
(* Two users, the runs differ in writes and pipeline: three writes and a     *)
(* pipeline of two let batches wait outside it while two are on their way.   *)
EXTENDS WritePipeline, TLC

(* The users are alike: no liveness property uses this.                      *)
Users == Permutations(User)
=============================================================================
