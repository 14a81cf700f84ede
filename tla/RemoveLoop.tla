----------------------------- MODULE RemoveLoop -----------------------------
(* The loop that ChatListViewController and UserListViewController use to    *)
(* take rows out of an array:                                                *)
(*   for (index, row) in rows.enumerated() { if ... rows.remove(at: index) } *)
(* enumerated() goes over a copy of the array, while remove(at:) shortens    *)
(* the array itself: each index after the first removal is stale.            *)
EXTENDS Integers, Sequences, FiniteSets, SequencesExt

(* Nothing removed, or a crash, of an array of rows.                         *)
Untouched(rows) == [rows |-> rows, trapped |-> FALSE]

(* Mutant of Removed: the row behind the one that was met.                   *)
RemovedNext(acc, i) == IF acc.trapped \/ i >= Len(acc.rows)
                       THEN [acc EXCEPT !.trapped = TRUE]
                       ELSE [acc EXCEPT !.rows = RemoveAt(@, i + 1)]

(* remove(at: i) of the array as it is now; beyond its end the app crashes.  *)
Removed(acc, i) == IF acc.trapped \/ i > Len(acc.rows)
                   THEN [acc EXCEPT !.trapped = TRUE]
                   ELSE [acc EXCEPT !.rows = RemoveAt(@, i)]

(* The loop over the indices of the copy, which meets the condition at hits: *)
(* loop[i] is the array after the first i of them.                           *)
RemovedEach(rows, hits) ==
  LET loop[i \in 0 .. Len(rows)] ==
        IF i = 0 THEN Untouched(rows)
        ELSE IF i \in hits THEN Removed(loop[i - 1], i) ELSE loop[i - 1]
  IN  loop[Len(rows)]
=============================================================================
