---------------------------- MODULE ChatRoomSend ----------------------------
(* One chat room: ChatRoomViewController on each member's device sends and   *)
(* shows messages through MessageAccessor and ChatRoomAccessor.              *)
(*                                                                           *)
(* A tap on Send schedules a block on the concurrent global queue; the block *)
(* hands setData to the SDK, which puts it in the device's FIFO mutation     *)
(* queue, kept on disk.  When the server acknowledges it, the completion     *)
(* block schedules the second write, latestMessageId of the room.  The       *)
(* completion block lives in memory only: it is lost when the app is killed. *)
(* The server applies a device's writes in order, ahead of what the device   *)
(* knows; when the connection is lost in between, they are sent once more    *)
(* (WritePipeline is the SDK's part of this in detail).                      *)
EXTENDS Integers, Sequences, FiniteSets

CONSTANTS Device,    \* the devices on which a member has the room
          MsgId,     \* message ids randomString can return, never the same twice
          NoMsg,     \* the empty latestMessageId of a new room
          Sends,     \* bound: the messages that each device's member may send
          Skew,      \* how far each device's clock is ahead of real time
          MaxAhead,  \* bound: writes applied and not yet acknowledged
          MaxFlight  \* bound: sends under way at a time

ASSUME NoMsgAssumption == NoMsg \notin MsgId
ASSUME SendsAssumption == Sends \in [Device -> SUBSET MsgId]
ASSUME SkewAssumption == Skew \in [Device -> Nat]
ASSUME MsgIdAssumption == IsFiniteSet(MsgId)
ASSUME MaxAheadAssumption == MaxAhead \in Nat \ {0}

VARIABLES
  sentAt,          \* history: the place of a message in the order of taps; 0: none
  createdAt,       \* Message.createdAt, by the clock of the sending device
  blocks,          \* per device: blocks waiting on DispatchQueue.global
  writes,          \* per device: the SDK's mutation queue, oldest first
  applied,         \* per device: how many of writes the server has applied
  stored,          \* server: the message documents
  latestMessageId, \* server: the field of the room document
  rejected,        \* messages whose setData the server refused
  screen,          \* per device: the room's view controller and its listener
  messages,        \* per device: ChatRoomViewController.messages, as displayed
  seen,            \* per device: documents of the listener's last snapshot
  disturbed        \* history: the worst that happened to sends in flight so far

vars == <<sentAt, createdAt, blocks, writes, applied, stored, latestMessageId, rejected,
          screen, messages, seen, disturbed>>
server == <<applied, stored, latestMessageId, rejected>>
display == <<screen, messages, seen>>

Op == {"setMessage", "setLatestMessage"}
Block == [op : Op, id : MsgId]
Write == [op : Op, id : MsgId, cb : BOOLEAN]  \* cb: completion block alive

Tapped == {m \in MsgId : sentAt[m] > 0}

(* Ids of the messages that a mutation queue stores or points the room at.   *)
Ids(q, op) == {q[i].id : i \in {j \in DOMAIN q : q[j].op = op}}

(* Messages whose setData is in a device's mutation queue: the SDK shows     *)
(* them to local listeners before the server has them.                       *)
Queued(d) == Ids(writes[d], "setMessage")

(* Nothing of any send is waiting on any device.                             *)
Quiescent == \A d \in Device : blocks[d] = {} /\ writes[d] = <<>>

(* Messages whose send is under way: one of its two writes is waiting.       *)
InFlight == UNION {{b.id : b \in blocks[d]}
                   \cup Ids(writes[d], "setMessage")
                   \cup Ids(writes[d], "setLatestMessage") : d \in Device}
MaySend(d, m) ==
  m \in Sends[d] /\ screen[d] # "closed" /\ Cardinality(InFlight) < MaxFlight

(* What is worth noting after a disturbance of kind K, at most one kind, the  *)
(* graver kinds last: a refused write loses a message, a kill loses blocks.  *)
Worse(K) ==
  IF "kill" \in disturbed \cup K THEN {"kill"}
  ELSE IF "reject" \in disturbed \cup K THEN {"reject"} ELSE disturbed \cup K

(* The block a tap schedules; its mutant schedules both writes at once.      *)
WritesAtTapBoth(m) == {[op |-> o, id |-> m] : o \in Op}
WritesAtTap(m) == {[op |-> "setMessage", id |-> m]}

(* The block that the completion of setMessage schedules, if the completion  *)
(* block is alive; that of setLatestMessage only logs.  The mutant also      *)
(* needs the screen, as a weak self would.                                   *)
CompletionOnScreen(d, w) ==
  IF w.cb /\ w.op = "setMessage" /\ screen[d] # "closed"
  THEN {[op |-> "setLatestMessage", id |-> w.id]} ELSE {}
Completion(d, w) ==
  IF w.cb /\ w.op = "setMessage" THEN {[op |-> "setLatestMessage", id |-> w.id]} ELSE {}

(* Mutant of Inserted: append without the sort.                              *)
InsertedLast(s, m) == Append(s, m)

(* messages.append, then sort by createdAt, newest first: as messages is     *)
(* sorted before, m ends up behind every message that is not older.          *)
Inserted(s, m) ==
  LET k == Cardinality({i \in DOMAIN s : createdAt[s[i]] >= createdAt[m]})
  IN  [i \in 1 .. Len(s) + 1 |-> IF i <= k THEN s[i]
                                 ELSE IF i = k + 1 THEN m ELSE s[i - 1]]
-----------------------------------------------------------------------------
Init ==
  /\ sentAt = [m \in MsgId |-> 0]
  /\ createdAt = [m \in MsgId |-> 0]
  /\ blocks = [d \in Device |-> {}]
  /\ writes = [d \in Device |-> <<>>]
  /\ applied = [d \in Device |-> 0]
  /\ stored = {} /\ latestMessageId = NoMsg /\ rejected = {}
  /\ screen = [d \in Device |-> "closed"]
  /\ messages = [d \in Device |-> <<>>]
  /\ seen = [d \in Device |-> {}]
  /\ disturbed = {}

(* The room is opened from the chat list: a new view controller with an      *)
(* empty array registers its listener.                                       *)
OpenRoom(d) ==
  /\ screen[d] = "closed"
  /\ screen' = [screen EXCEPT ![d] = "listening"]
  /\ UNCHANGED <<sentAt, createdAt, blocks, writes, server, messages, seen, disturbed>>

(* Mutant of ShutScreen: the array outlives the listener.                    *)
ShutListener(d) ==
  /\ screen' = [screen EXCEPT ![d] = "closed"]
  /\ seen' = [seen EXCEPT ![d] = {}]
  /\ UNCHANGED messages

(* Mutant of ShutScreen: the listener outlives the array.                    *)
ShutArray(d) ==
  /\ screen' = [screen EXCEPT ![d] = "closed"]
  /\ messages' = [messages EXCEPT ![d] = <<>>]
  /\ UNCHANGED seen

ShutScreen(d) ==
  /\ screen' = [screen EXCEPT ![d] = "closed"]
  /\ messages' = [messages EXCEPT ![d] = <<>>]
  /\ seen' = [seen EXCEPT ![d] = {}]

(* Back to the chat list: the controller is released, and its listener holds *)
(* it weakly.  Sends in flight go on.                                        *)
CloseRoom(d) ==
  /\ screen[d] # "closed"
  /\ ShutScreen(d)
  /\ UNCHANGED <<sentAt, createdAt, blocks, writes, server, disturbed>>

(* Mutant of TapSend: the message is displayed before it is written.         *)
TapSendOptimistic(d, m) ==
  /\ sentAt[m] = 0 /\ MaySend(d, m)
  /\ sentAt' = [sentAt EXCEPT ![m] = Cardinality(Tapped) + 1]
  /\ createdAt' = [createdAt EXCEPT ![m] = sentAt'[m] + Skew[d]]
  /\ blocks' = [blocks EXCEPT ![d] = @ \cup {[op |-> "setMessage", id |-> m]}]
  /\ messages' = [messages EXCEPT ![d] = <<m>> \o @]
  /\ disturbed' = Worse(IF Quiescent THEN {} ELSE {"overlap"})
  /\ UNCHANGED <<writes, server, screen, seen>>

(* tappedSendButton / addMessageToFirestore: a fresh id, createdAt from the  *)
(* local clock, and MessageAccessor.setMessage puts its block on the queue.  *)
TapSend(d, m) ==
  /\ sentAt[m] = 0 /\ MaySend(d, m)
  /\ sentAt' = [sentAt EXCEPT ![m] = Cardinality(Tapped) + 1]
  /\ createdAt' = [createdAt EXCEPT ![m] = sentAt'[m] + Skew[d]]
  /\ blocks' = [blocks EXCEPT ![d] = @ \cup WritesAtTap(m)]
  /\ disturbed' = Worse(IF Quiescent THEN {} ELSE {"overlap"})
  /\ UNCHANGED <<writes, server, display>>

(* Mutant of RunBlock: the block gives up when the screen is closed.         *)
RunBlockOnScreen(d, b) ==
  /\ b \in blocks[d]
  /\ blocks' = [blocks EXCEPT ![d] = @ \ {b}]
  /\ writes' = IF screen[d] = "closed" THEN writes ELSE
       [writes EXCEPT ![d] = Append(@, [op |-> b.op, id |-> b.id, cb |-> TRUE])]
  /\ UNCHANGED <<sentAt, createdAt, server, display, disturbed>>

(* The concurrent queue runs any of its blocks: the write joins the SDK's    *)
(* mutation queue with its completion block.                                 *)
RunBlock(d, b) ==
  /\ b \in blocks[d]
  /\ blocks' = [blocks EXCEPT ![d] = @ \ {b}]
  /\ writes' = [writes EXCEPT ![d] =
                  Append(@, [op |-> b.op, id |-> b.id, cb |-> TRUE])]
  /\ UNCHANGED <<sentAt, createdAt, server, display, disturbed>>

(* The oldest write of a device that the server has not applied.             *)
HasUnapplied(d) == applied[d] < MaxAhead /\ applied[d] < Len(writes[d])
Unapplied(d) == writes[d][applied[d] + 1]

(* setData on the message document.                                          *)
ApplyMessage(d) ==
  /\ HasUnapplied(d) /\ Unapplied(d).op = "setMessage"
  /\ stored' = stored \cup {Unapplied(d).id}
  /\ applied' = [applied EXCEPT ![d] = @ + 1]
  /\ UNCHANGED <<sentAt, createdAt, blocks, writes, latestMessageId, rejected,
                 display, disturbed>>

(* updateData on the room document: the last write wins.                     *)
ApplyLatest(d) ==
  /\ HasUnapplied(d) /\ Unapplied(d).op = "setLatestMessage"
  /\ latestMessageId' = Unapplied(d).id
  /\ applied' = [applied EXCEPT ![d] = @ + 1]
  /\ UNCHANGED <<sentAt, createdAt, blocks, writes, stored, rejected, display, disturbed>>

(* The device learns that its oldest write was applied: the completion block *)
(* of setMessage calls setLatestMessage.                                     *)
Acknowledge(d) ==
  /\ applied[d] > 0 /\ writes[d] # <<>>
  /\ blocks' = [blocks EXCEPT ![d] = @ \cup Completion(d, Head(writes[d]))]
  /\ writes' = [writes EXCEPT ![d] = Tail(@)]
  /\ applied' = [applied EXCEPT ![d] = @ - 1]
  /\ UNCHANGED <<sentAt, createdAt, stored, latestMessageId, rejected, display, disturbed>>

(* The connection is lost with acknowledgements on it: the writes that wait  *)
(* for them are sent and applied once more.                                  *)
Reconnect(d) ==
  /\ applied[d] > 0
  /\ applied' = [applied EXCEPT ![d] = 0]
  /\ UNCHANGED <<sentAt, createdAt, blocks, writes, stored, latestMessageId, rejected,
                 display, disturbed>>

(* Mutant of RejectWrite: the completion does not look at the error.         *)
RejectWriteGoesOn(d) ==
  /\ writes[d] # <<>> /\ applied[d] = 0 /\ Head(writes[d]).op = "setMessage"
  /\ rejected' = rejected \cup {Head(writes[d]).id}
  /\ blocks' = [blocks EXCEPT ![d] = @ \cup
                  {[op |-> "setLatestMessage", id |-> Head(writes[d]).id]}]
  /\ writes' = [writes EXCEPT ![d] = Tail(@)]
  /\ disturbed' = Worse({"reject"})
  /\ UNCHANGED <<sentAt, createdAt, applied, stored, latestMessageId, display>>

(* The server refuses a write; by then those before it are acknowledged, so  *)
(* it is the oldest one.  The completion block returns early.                *)
RejectWrite(d) ==
  /\ writes[d] # <<>> /\ applied[d] = 0
  /\ rejected' = IF Head(writes[d]).op = "setMessage"
                 THEN rejected \cup {Head(writes[d]).id} ELSE rejected
  /\ writes' = [writes EXCEPT ![d] = Tail(@)]
  /\ disturbed' = Worse({"reject"})
  /\ UNCHANGED <<sentAt, createdAt, blocks, applied, stored, latestMessageId, display>>

(* The app is killed: waiting blocks and completion blocks are gone, the     *)
(* mutation queue survives on disk and is sent after the next start, also    *)
(* what the server has applied already.                                      *)
Kill(d) ==
  /\ ShutScreen(d)
  /\ blocks' = [blocks EXCEPT ![d] = {}]
  /\ writes' = [writes EXCEPT ![d] =
                  [i \in DOMAIN @ |->
                     [op |-> @[i].op, id |-> @[i].id, cb |-> FALSE]]]
  /\ applied' = [applied EXCEPT ![d] = 0]
  /\ disturbed' = Worse({"kill"})
  /\ UNCHANGED <<sentAt, createdAt, stored, latestMessageId, rejected>>

(* A change of type .added: the message is appended and the array sorted.    *)
DeliverAdded(d, m) ==
  /\ screen[d] = "listening"
  /\ m \in (stored \cup Queued(d)) \ seen[d]
  /\ seen' = [seen EXCEPT ![d] = @ \cup {m}]
  /\ messages' = [messages EXCEPT ![d] = Inserted(@, m)]
  /\ UNCHANGED <<sentAt, createdAt, blocks, writes, server, screen, disturbed>>

(* A change of type .removed, after a local write was refused: ignored.      *)
DeliverRemoved(d, m) ==
  /\ screen[d] = "listening"
  /\ m \in seen[d] \ (stored \cup Queued(d))
  /\ seen' = [seen EXCEPT ![d] = @ \ {m}]
  /\ UNCHANGED <<sentAt, createdAt, blocks, writes, server, screen, messages, disturbed>>

(* The listener ends with an error: an alert, and no further changes.        *)
ListenerFails(d) ==
  /\ screen[d] = "listening"
  /\ screen' = [screen EXCEPT ![d] = "failed"]
  /\ seen' = [seen EXCEPT ![d] = {}]
  /\ UNCHANGED <<sentAt, createdAt, blocks, writes, server, messages, disturbed>>

Send(d) == \E m \in MsgId : TapSend(d, m)
Run(d) == \E b \in blocks[d] : RunBlock(d, b)
Apply(d) == ApplyMessage(d) \/ ApplyLatest(d)
Deliver(d) == \E m \in MsgId : DeliverAdded(d, m) \/ DeliverRemoved(d, m)

Next == \E d \in Device :
          \/ OpenRoom(d) \/ CloseRoom(d) \/ Send(d) \/ Run(d)
          \/ Apply(d) \/ Acknowledge(d) \/ Reconnect(d) \/ RejectWrite(d) \/ Kill(d)
          \/ Deliver(d) \/ ListenerFails(d)

Spec == Init /\ [][Next]_vars

(* The queue runs its blocks, an online device gets its writes through, not  *)
(* every connection is lost before an acknowledgement, and the SDK delivers  *)
(* pending changes.  Users, failures and kills owe nothing.                  *)
Fairness == \A d \in Device :
              /\ WF_vars(Run(d)) /\ WF_vars(Deliver(d))
              /\ WF_vars(Apply(d)) /\ SF_vars(Acknowledge(d))

FairSpec == Spec /\ Fairness
-----------------------------------------------------------------------------
TypeOK ==
  /\ sentAt \in [MsgId -> Nat]
  /\ createdAt \in [MsgId -> Nat]
  /\ blocks \in [Device -> SUBSET Block]
  /\ writes \in [Device -> Seq(Write)]
  /\ applied \in [Device -> Nat]
  /\ \A d \in Device : applied[d] <= Len(writes[d])
  /\ stored \subseteq MsgId
  /\ latestMessageId \in MsgId \cup {NoMsg}
  /\ rejected \subseteq MsgId
  /\ screen \in [Device -> {"closed", "listening", "failed"}]
  /\ messages \in [Device -> Seq(MsgId)]
  /\ seen \in [Device -> SUBSET MsgId]
  /\ disturbed \subseteq {"overlap", "reject", "kill"}

Shown(d) == {messages[d][i] : i \in DOMAIN messages[d]}

(* The room never names a message that cannot be fetched: setLatestMessage   *)
(* is issued by the completion of setMessage only (ChatRoomViewController    *)
(* 176-186), so the chat list's getMessage always finds a document.          *)
LatestIsStored == latestMessageId \in stored \cup {NoMsg}

(* A pointer still on its way, in a block or in the mutation queue, names a  *)
(* stored message, across kills and refusals.                                *)
PendingLatestIsStored ==
  \A d \in Device :
    /\ \A b \in blocks[d] : b.op = "setLatestMessage" => b.id \in stored
    /\ Ids(writes[d], "setLatestMessage") \subseteq stored

(* What a screen shows is a message of the server, a write of this device    *)
(* still in its queue, or a refused write, which stays on screen because     *)
(* .removed is ignored (line 134): no other ghost.                           *)
ShownIsExplained ==
  \A d \in Device : Shown(d) \subseteq stored \cup Queued(d) \cup rejected

(* No message is displayed twice, though the SDK reports a local write       *)
(* before the server confirms it and every reopening replays the whole room. *)
ShownOnce ==
  \A d \in Device : \A i, j \in DOMAIN messages[d] :
    messages[d][i] = messages[d][j] => i = j

(* On the screen of d, m is displayed above n.                               *)
Above(d, m, n) ==
  \E i, j \in DOMAIN messages[d] : i < j /\ messages[d][i] = m /\ messages[d][j] = n

(* Any two screens put two messages of different createdAt in the same       *)
(* order, whatever the order in which the changes reached them (append, then *)
(* sort: 123-129).  Nothing is promised of two messages with one createdAt,  *)
(* which two devices send when the clock of one is ahead: the sort leaves    *)
(* them in the order of arrival, which may be another one on each screen.    *)
ScreensAgreeUnlessTied ==
  \A m, n \in MsgId : createdAt[m] # createdAt[n] =>
    \A d, e \in Device : ~(Above(d, m, n) /\ Above(e, n, m))

(* Newest(m): m was tapped after every other stored message.                 *)
Newest(m) == m \in stored /\ \A n \in stored : sentAt[n] <= sentAt[m]

(* When sends do not overlap, none is refused and no app is killed, the room *)
(* names its newest message once everything has settled.                     *)
LatestIsNewestIfUndisturbed ==
  (Quiescent /\ disturbed = {} /\ stored # {}) => Newest(latestMessageId)

(* ChatRoom.swift:44 takes latestMessage for the last message of the room;   *)
(* the code does not keep that when two sends overlap.                       *)
LatestIsNewest ==
  (Quiescent /\ disturbed \subseteq {"overlap"} /\ stored # {})
     => Newest(latestMessageId)

(* Stored messages are never taken back and the pointer never returns to     *)
(* empty: the room's server side implements MessageLog.                      *)
Log == INSTANCE MessageLog WITH MsgId <- MsgId, NoMsg <- NoMsg, stored <- stored,
                                latestMessageId <- latestMessageId
LogSpec == Log!Spec

(* A stored message reaches every screen that keeps listening, also one      *)
(* opened long after it was sent.                                            *)
StoredIsShown ==
  \A d \in Device : \A m \in MsgId :
    (m \in stored /\ screen[d] = "listening")
       ~> (m \in Shown(d) \/ screen[d] # "listening")

(* A tapped message comes to rest: stored, or refused, or its device was     *)
(* killed.  Completion blocks and queues lose nothing by themselves.         *)
TapIsSettled ==
  \A m \in MsgId :
    (sentAt[m] > 0) ~> (m \in stored \cup rejected \/ "kill" \in disturbed)

(* A room with a message gets a latest message, unless a write was refused   *)
(* or an app was killed between the two writes.                              *)
StoredIsPointed ==
  (stored # {}) ~> (latestMessageId # NoMsg \/ disturbed \cap {"kill", "reject"} # {})
=============================================================================
