------------------------------ MODULE ChatList ------------------------------
(* ChatListViewController of one signed-in user: a snapshot listener on the  *)
(* rooms of the user starts, for every changed room, a fetch of the partner  *)
(* and then a fetch of the latest message; the completions come back in any  *)
(* order and edit the array behind the table.                                *)
EXTENDS RemoveLoop

CONSTANTS Room,     \* documents of the chatRooms collection
          User,     \* the other users
          Partner,  \* the member of each room that is not the signed-in user
          MaxTime,  \* bound: writes to room documents (creations and messages)
          MaxLaunch \* bound: starts of the app

ASSUME PartnerAssumption == Partner \in [Room -> User]
ASSUME BoundAssumption == MaxTime \in Nat /\ MaxLaunch \in Nat \ {0}

None == -1   \* no document, or none delivered to the listener
Empty == 0   \* a room whose latestMessageId is empty

VARIABLES
  now,       \* server: time of the last write to a room document
  created,   \* server: time of a room's createdAt, None before it exists
  latest,    \* server: time of the message latestMessageId names, or Empty
  seen,      \* listener: latest of each room in the last snapshot, or None
  listener,  \* "waiting" for its first snapshot, "live", or "failed"
  tasks,     \* changes whose fetches are still under way
  chatRooms, \* the array behind the table
  prompt,    \* promptMessageLabel is visible
  trapped,   \* remove(at:) was called beyond the end: the app has crashed
  launches,  \* starts of the app so far
  raced,     \* history: two changes of one partner were under way together
  lost       \* history: rooms with a failed fetch and no later success

vars == <<now, created, latest, seen, listener, tasks, chatRooms, prompt, trapped,
          launches, raced, lost>>
app == <<seen, listener, tasks, chatRooms, prompt, trapped, launches, raced, lost>>
server == <<now, created, latest>>

Time == 1 .. MaxTime
Row == [room : Room, latest : {Empty} \cup Time]
Task == [room : Room, latest : {Empty} \cup Time,
         type : {"added", "modified"}, step : {"user", "message"}]

(* promptMessageLabel is shown for a snapshot of no documents.               *)
PromptFor(S) == S = {}

(* A success makes up for a failed fetch when it is for the last version.    *)
Healed(t) == IF t.latest = seen[t.room] THEN lost \ {t.room} ELSE lost

(* The value copied into the array: the room as the snapshot reported it.    *)
RowOfNow(t) == [room |-> t.room, latest |-> latest[t.room]]    \* mutant: read again
RowOf(t) == [room |-> t.room, latest |-> t.latest]

(* chatListdateReturn: the latest message's time, else the room's.           *)
Date(row) == IF row.latest = Empty THEN created[row.room] ELSE row.latest

(* append, then chatRoomsSort: newest first, so that the row ends up behind  *)
(* every row of the sorted array that is not older.                          *)
Listed(rows, row) ==
  LET k == Cardinality({i \in DOMAIN rows : Date(rows[i]) >= Date(row)})
  IN  [i \in 1 .. Len(rows) + 1 |-> IF i <= k THEN rows[i]
                                    ELSE IF i = k + 1 THEN row ELSE rows[i - 1]]

RowsWith(rows, u) == {i \in DOMAIN rows : Partner[rows[i].room] = u}

(* Mutants of RemovedByPartner: nothing removed; the rows of the others      *)
(* removed.                                                                  *)
RemovedNone(rows, u) == Untouched(rows)
RemovedOthers(rows, u) == RemovedEach(rows, DOMAIN rows \ RowsWith(rows, u))

(* Before a modified room is listed, the rows of its partner are removed.    *)
RemovedByPartner(rows, u) == RemovedEach(rows, RowsWith(rows, u))

(* A row of the same document is in the array.                               *)
HasAnyRow(t) == chatRooms # <<>>   \* mutant: any row will do
HasRow(t) == \E i \in DOMAIN chatRooms : chatRooms[i].room = t.room
-----------------------------------------------------------------------------
Init == /\ now = 0
        /\ created = [r \in Room |-> None]
        /\ latest = [r \in Room |-> Empty]
        /\ seen = [r \in Room |-> None]
        /\ listener = "waiting" /\ tasks = {} /\ chatRooms = <<>>
        /\ prompt = FALSE /\ trapped = FALSE
        /\ launches = 1 /\ raced = FALSE /\ lost = {}

(* UserDetailViewController.chatStart, on this device or the partner's: a    *)
(* room without a message.  Nothing checks that the pair has no room yet.    *)
CreateRoom(r) ==
  /\ created[r] = None /\ now < MaxTime
  /\ now' = now + 1
  /\ created' = [created EXCEPT ![r] = now']
  /\ UNCHANGED <<latest, app>>

(* A member's message is stored and setLatestMessage points the room at it.  *)
SendMessage(r) ==
  /\ created[r] # None /\ now < MaxTime
  /\ now' = now + 1
  /\ latest' = [latest EXCEPT ![r] = now']
  /\ UNCHANGED <<created, app>>

(* Mutant of Changed: only new rooms are reported.                           *)
ChangedNew == {r \in Room : created[r] # None /\ seen[r] = None}

(* Rooms whose document differs from what the listener last reported.        *)
Changed == {r \in Room : created[r] # None /\ seen[r] # latest[r]}

(* The listener's callback: the prompt is shown when a snapshot brings no    *)
(* change, and every change starts the fetch of its partner.  A snapshot may *)
(* lag behind the server and skips the versions in between.                  *)
Snapshot(S) ==
  /\ listener \in {"waiting", "live"} /\ ~trapped
  /\ S \subseteq Changed
  /\ S # {} \/ listener = "waiting"
  /\ listener' = "live"
  /\ prompt' = PromptFor(S)
  /\ seen' = [r \in Room |-> IF r \in S THEN latest[r] ELSE seen[r]]
  /\ LET new == {[room |-> r, latest |-> latest[r], step |-> "user",
                  type |-> IF seen[r] = None THEN "added" ELSE "modified"] : r \in S}
     IN  /\ tasks' = tasks \cup new
         /\ raced' = (raced \/ \E n \in new, o \in tasks' :
                                o # n /\ Partner[o.room] = Partner[n.room])
  /\ UNCHANGED <<server, chatRooms, trapped, launches, lost>>

(* The listener ends with an error, or is never registered because           *)
(* setCurrentUser left no current user.                                      *)
ListenerFails ==
  /\ listener \in {"waiting", "live"} /\ ~trapped
  /\ listener' = "failed"
  /\ UNCHANGED <<server, seen, tasks, chatRooms, prompt, trapped, launches, raced, lost>>

(* getApecificUser answers for a room without a message: listed unless a row *)
(* of the same document is there.                                            *)
UserFetchedEmpty(t) ==
  /\ t \in tasks /\ ~trapped /\ t.step = "user" /\ t.latest = Empty
  /\ tasks' = tasks \ {t}
  /\ chatRooms' = IF HasRow(t) THEN chatRooms ELSE Listed(chatRooms, RowOf(t))
  /\ lost' = Healed(t)
  /\ UNCHANGED <<server, seen, listener, prompt, trapped, launches, raced>>

(* getApecificUser answers for a room with a message: getMessage follows.    *)
UserFetched(t) ==
  /\ t \in tasks /\ ~trapped /\ t.step = "user" /\ t.latest # Empty
  /\ tasks' = (tasks \ {t}) \cup {[t EXCEPT !.step = "message"]}
  /\ UNCHANGED <<server, seen, listener, chatRooms, prompt, trapped, launches, raced, lost>>

(* getMessage answers: a modified room's rows are removed, by its partner,   *)
(* then the room is appended and the array sorted.                           *)
MessageFetched(t) ==
  /\ t \in tasks /\ ~trapped /\ t.step = "message"
  /\ tasks' = tasks \ {t}
  /\ LET kept == IF t.type = "modified"
                 THEN RemovedByPartner(chatRooms, Partner[t.room])
                 ELSE Untouched(chatRooms)
     IN  /\ trapped' = kept.trapped
         /\ chatRooms' = IF kept.trapped THEN <<>> ELSE Listed(kept.rows, RowOf(t))
  /\ lost' = Healed(t)
  /\ UNCHANGED <<server, seen, listener, prompt, launches, raced>>

(* Either fetch fails or finds no document: an alert or nothing, no retry.   *)
FetchFails(t) ==
  /\ t \in tasks /\ ~trapped
  /\ tasks' = tasks \ {t}
  /\ lost' = lost \cup {t.room}
  /\ UNCHANGED <<server, seen, listener, chatRooms, prompt, trapped, launches, raced>>

(* The app is closed or has crashed, and starts again.                       *)
Relaunch ==
  /\ launches < MaxLaunch
  /\ launches' = launches + 1
  /\ seen' = [r \in Room |-> None]
  /\ listener' = "waiting" /\ tasks' = {} /\ chatRooms' = <<>>
  /\ prompt' = FALSE /\ trapped' = FALSE
  /\ raced' = FALSE /\ lost' = {}
  /\ UNCHANGED server

Fetched(t) == UserFetchedEmpty(t) \/ UserFetched(t) \/ MessageFetched(t)

Next == \/ \E r \in Room : CreateRoom(r) \/ SendMessage(r)
        \/ \E S \in SUBSET Room : Snapshot(S)
        \/ \E t \in tasks : Fetched(t) \/ FetchFails(t)
        \/ ListenerFails \/ Relaunch

Spec == Init /\ [][Next]_vars

(* The listener reports what the server holds, and of the fetches of a room  *)
(* one after the other is answered.                                          *)
Answered(r) == \E t \in tasks : t.room = r /\ (Fetched(t) \/ FetchFails(t))
Fairness == \A r \in Room :
              /\ WF_vars(\E S \in SUBSET Room : r \in S /\ Snapshot(S))
              /\ WF_vars(Answered(r))

FairSpec == Spec /\ Fairness
-----------------------------------------------------------------------------
TypeOK ==
  /\ now \in 0 .. MaxTime
  /\ created \in [Room -> {None} \cup Time]
  /\ latest \in [Room -> {Empty} \cup Time]
  /\ seen \in [Room -> {None, Empty} \cup Time]
  /\ listener \in {"waiting", "live", "failed"}
  /\ tasks \subseteq Task
  /\ chatRooms \in Seq(Row)
  /\ prompt \in BOOLEAN /\ trapped \in BOOLEAN
  /\ launches \in 1 .. MaxLaunch
  /\ raced \in BOOLEAN /\ lost \subseteq Room

RowsOf(r) == {i \in DOMAIN chatRooms : chatRooms[i].room = r}
Pending(r) == \E t \in tasks : t.room = r
Injective(f) == \A x, y \in DOMAIN f : f[x] = f[y] => x = y

(* What the code relies on without checking it: a partner has one room, and  *)
(* the fetches of a partner's rooms do not overlap.                          *)
Orderly == ~raced /\ Injective(Partner)

(* Once the fetches of a room are done, it has exactly one row and the row   *)
(* shows what the listener last reported, if changes are Orderly and the     *)
(* room's last fetch succeeded.  A failed fetch is made good by the room's   *)
(* next change.                                                              *)
SettledRoomHasItsRow ==
  \A r \in Room :
    (Orderly /\ seen[r] # None /\ ~Pending(r) /\ r \notin lost)
      => \E i \in DOMAIN chatRooms : RowsOf(r) = {i} /\ chatRooms[i].latest = seen[r]

(* The rows are always newest first, whatever completed in which order.      *)
NewestFirst ==
  \A i, j \in DOMAIN chatRooms : i < j => Date(chatRooms[i]) >= Date(chatRooms[j])

(* remove(at:) inside the loop stays within the array as long as no partner  *)
(* has two rows, and there are two only when changes were not Orderly.       *)
CrashOnlyAfterRace == trapped => ~Orderly

(* No row shows a version of a room that the listener has not reported.      *)
RowsWereReported ==
  \A i \in DOMAIN chatRooms : chatRooms[i].latest <= seen[chatRooms[i].room]

(* The prompt to start a chat never stands over a list with rows.            *)
PromptOnlyWhenEmpty == prompt => chatRooms = <<>> /\ tasks = {}

(* What holds of the list in every state, whatever was fetched in which      *)
(* order: types, order, no version the listener has not reported, no prompt  *)
(* over rows.                                                                *)
ListIsSound == TypeOK /\ NewestFirst /\ RowsWereReported /\ PromptOnlyWhenEmpty

(* With Orderly changes a listed room keeps a row until the app is closed.   *)
ListedStaysListed ==
  [][\A r \in Room : (RowsOf(r) # {} /\ Orderly' /\ launches' = launches)
                       => RowsOf(r)' # {}]_vars

(* A room the listener has reported gets its row, unless a fetch failed or   *)
(* changes were not Orderly: then the removal loop may take another room's   *)
(* row, and nothing brings it back until that room changes.                  *)
ReportedIsListed ==
  \A r \in Room :
    (seen[r] # None) ~>
      (RowsOf(r) # {} \/ r \in lost \/ ~Orderly \/ seen[r] = None)

(* What is written to a room, by its creation or by a message, comes to the  *)
(* list: after a snapshot, two fetches and the edit of the array, also when  *)
(* it was written before the launch, between two snapshots, or while an      *)
(* older version was being fetched, the room has a row that is no older.     *)
(* The exceptions are a listener that failed, a crash, a failed fetch of the *)
(* room, and changes that were not Orderly.                                  *)
WrittenIsListed ==
  \A r \in Room, v \in {Empty} \cup Time :
    (created[r] # None /\ latest[r] = v) ~>
      \/ \E i \in RowsOf(r) : chatRooms[i].latest >= v
      \/ listener = "failed" \/ trapped \/ r \in lost \/ ~Orderly

(* "When a chat room is modified, the chat room as it was before the change  *)
(* is removed" (ChatListViewController.swift:165), and nothing else is: the  *)
(* other rooms keep their rows.                                              *)
OtherRowsStay ==
  [][\A t \in tasks : (MessageFetched(t) /\ ~trapped')
       => \A r \in Room \ {t.room} : RowsOf(r) # {} => RowsOf(r)' # {}]_vars
=============================================================================
