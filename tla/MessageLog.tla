----------------------------- MODULE MessageLog -----------------------------
(* What the server side of one chat room promises its readers, whatever the  *)
(* sending devices do: stored messages are never taken back, and the room's  *)
(* latestMessageId is empty or the id of a message that is already stored,   *)
(* so that ChatListViewController can always fetch the message it names.     *)
CONSTANTS MsgId,   \* document ids of the messages of the room
          NoMsg    \* latestMessageId of a room without a message ("")

VARIABLES stored,           \* ids of the message documents
          latestMessageId   \* the field of the room document

vars == <<stored, latestMessageId>>

Init == stored = {} /\ latestMessageId = NoMsg

(* A message document is created.                                            *)
Publish(m) == /\ m \notin stored
              /\ stored' = stored \cup {m}
              /\ UNCHANGED latestMessageId

(* The room is pointed at a stored message, the newest one or an older one.  *)
Point(m) == /\ m \in stored
            /\ latestMessageId' = m
            /\ UNCHANGED stored

Next == \E m \in MsgId : Publish(m) \/ Point(m)

Spec == Init /\ [][Next]_vars
=============================================================================
