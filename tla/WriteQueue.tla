----------------------------- MODULE WriteQueue -----------------------------
(* What setData and updateData promise the app, whatever the network, the    *)
(* signed-in user and the process do: a user's writes leave the local queue  *)
(* in the order in which they entered it, each answered once it has been     *)
(* committed or refused; a write is first committed after those ahead of it. *)
(* A refused write may still be committed, by a copy sent earlier.           *)
EXTENDS Naturals, Sequences

CONSTANTS User, Write

VARIABLES
  queued,    \* per user: the local writes, oldest first
  committed, \* the writes the server has applied at least once
  refused,   \* the writes the server has refused at least once
  answer     \* what the completion block of a write was told

vars == <<queued, committed, refused, answer>>

Init ==
  /\ queued = [u \in User |-> <<>>]
  /\ committed = {} /\ refused = {}
  /\ answer = [w \in Write |-> "none"]

Enqueue(u, w) ==
  /\ queued' = [queued EXCEPT ![u] = Append(@, w)]
  /\ UNCHANGED <<committed, refused, answer>>

(* The writes of a user that may be committed now.                           *)
Due(u) == {queued[u][i] : i \in {j \in DOMAIN queued[u] :
                                   \A k \in 1 .. j - 1 : queued[u][k] \in committed}}

Commit(w) ==
  /\ w \in refused \/ \E u \in User : w \in Due(u)
  /\ committed' = committed \cup {w}
  /\ UNCHANGED <<queued, refused, answer>>

Refuse(w) ==
  /\ \E u \in User : w \in Due(u)
  /\ refused' = refused \cup {w}
  /\ UNCHANGED <<queued, committed, answer>>

(* The oldest write of a user leaves the queue; its completion block, if it  *)
(* still lives, learns what became of it.                                    *)
Settle(u, verdict) ==
  /\ queued[u] # <<>>
  /\ Head(queued[u]) \in IF verdict = "ok" THEN committed ELSE refused
  /\ queued' = [queued EXCEPT ![u] = Tail(@)]
  /\ answer' \in {answer, [answer EXCEPT ![Head(queued[u])] = verdict]}
  /\ UNCHANGED <<committed, refused>>

Next ==
  \/ \E u \in User, w \in Write : Enqueue(u, w)
  \/ \E w \in Write : Commit(w) \/ Refuse(w)
  \/ \E u \in User, verdict \in {"ok", "error"} : Settle(u, verdict)

Spec == Init /\ [][Next]_vars
=============================================================================
