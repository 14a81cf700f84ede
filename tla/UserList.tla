------------------------------ MODULE UserList ------------------------------
(* UserListViewController of one signed-in user, Me: the other users with    *)
(* whom Me has no chat room yet.  A snapshot listener on all users edits the *)
(* array showAllUsers, and each of its snapshots registers one more listener *)
(* on the rooms of Me, whose snapshots take the partners out of the array    *)
(* and only then copy it, filtered by the search bar, to the table.          *)
EXTENDS RemoveLoop, Bags

CONSTANTS User,       \* documents of the users collection
          Me,         \* the signed-in user
          MaxTime,    \* bound: writes to user and room documents
          MaxAppear   \* bound: appearances of the screen without a listener

ASSUME MeAssumption == Me \in User
ASSUME UserAssumption == IsFiniteSet(User)
ASSUME BoundAssumption == MaxTime \in Nat /\ MaxAppear \in Nat

VARIABLES
  now,           \* server: time of the last write
  joined,        \* server: User.createdAt, None before the user signs up
  version,       \* server: time of the last write to a user document, or None
  room,          \* server: time of the last write to the room with Me, or None
  appears,       \* times viewWillAppear has found no listener
  userRegs,      \* blocks on the global queue that register a users listener
  userListener,  \* the accessor's handle is set
  userListeners, \* registered users listeners
  roomRegs,      \* blocks on the global queue that register a rooms listener
  roomListeners, \* registered rooms listeners
  showAllUsers,  \* the array the listeners edit
  users,         \* the array behind the table
  searchText,    \* the users that the text of the search bar matches
  trapped,       \* remove(at:) was called beyond the end: the app has crashed
  failed         \* history: a listener has ended with an error

server == <<now, joined, version, room>>
registry == <<appears, userRegs, userListener, userListeners, roomRegs, roomListeners>>
vars == <<server, registry, showAllUsers, users, searchText, trapped, failed>>

None == -1
Other == User \ {Me}
Time == 0 .. MaxTime
Row == [user : Other, version : Time]

(* A listener and the documents of its last snapshot.                        *)
Listener == [first : BOOLEAN, seen : [User -> {None} \cup Time]]
NewListener == [first |-> TRUE, seen |-> [u \in User |-> None]]
After(doc) == [first |-> FALSE, seen |-> doc]

(* One listener more, or one less, in a bag of them.                         *)
Registered(listeners, l) == listeners (+) SetToBag({l})
Ended(listeners, l) == listeners (-) SetToBag({l})

(* A snapshot brings every change since the last one, skipping versions in   *)
(* between; one that lags is one taken before the server's next write.  Only *)
(* the first snapshot comes without a change.                                *)
Changed(l, doc) == {u \in User : doc[u] # None /\ l.seen[u] # doc[u]}
Reports(l, doc) == Changed(l, doc) # {} \/ l.first

RowsOf(rows, u) == {i \in DOMAIN rows : rows[i].user = u}
RowOf(u) == [user |-> u, version |-> version[u]]

(* The rows of a modified user are removed by uid, in a loop over indices.   *)
(* Mutant: nothing removed.                                                  *)
WithoutNone(acc, u) == acc
Without(acc, u) ==
  IF acc.trapped THEN acc ELSE RemovedEach(acc.rows, RowsOf(acc.rows, u))

(* One change: the rows of a user who is not new are removed, and the user   *)
(* is appended by the users callback, but not by the rooms callback.         *)
WithChange(acc, u, new, appended) ==
  LET kept == IF u \in new THEN acc ELSE Without(acc, u)
  IN  IF u \notin appended \/ kept.trapped THEN kept
      ELSE [kept EXCEPT !.rows = Append(@, RowOf(u))]

(* The SDK sorts the changes of a snapshot by type and document; whatever    *)
(* the names of the documents are, some order comes out: any is taken here.  *)
Orders(S) == Bijection(1 .. Cardinality(S), S)

(* A callback goes through them: loop[i] is the array after the first i.     *)
Edited(order, new, appended) ==
  LET loop[i \in 0 .. Len(order)] ==
        IF i = 0 THEN Untouched(showAllUsers)
        ELSE WithChange(loop[i - 1], order[i], new, appended)
  IN  loop[Len(order)]

(* Stable sort by createdAt, newest first: the row at i ends up behind those *)
(* that are newer, or as new and in front of it.                             *)
Sorted(rows) ==
  LET Before(i, j) == LET a == joined[rows[i].user]
                          b == joined[rows[j].user]
                      IN  a > b \/ (a = b /\ i <= j)
      Place(j) == Cardinality({i \in DOMAIN rows : Before(i, j)})
  IN  [k \in DOMAIN rows |-> rows[CHOOSE j \in DOMAIN rows : Place(j) = k]]

(* userSearch: the rows whose name or ID contains the text, among the first  *)
(* i of the array and among all.                                             *)
Found(rows, text) ==
  LET found[i \in 0 .. Len(rows)] ==
        IF i = 0 THEN <<>>
        ELSE IF rows[i].user \in text THEN Append(found[i - 1], rows[i]) ELSE found[i - 1]
  IN  found[Len(rows)]

(* Rooms listeners a users snapshot registers; mutant: only the first one.   *)
NestedFirst(l) == IF l.first THEN 1 ELSE 0
Nested(l) == 1
-----------------------------------------------------------------------------
Init ==
  /\ now = 0
  /\ joined = [u \in User |-> IF u = Me THEN 0 ELSE None]
  /\ version = joined
  /\ room = [u \in User |-> None]
  /\ appears = 0 /\ userRegs = 0 /\ userListener = FALSE
  /\ userListeners = EmptyBag /\ roomRegs = 0 /\ roomListeners = EmptyBag
  /\ showAllUsers = <<>> /\ users = <<>> /\ searchText = User
  /\ trapped = FALSE /\ failed = FALSE

app == <<registry, showAllUsers, users, searchText, trapped, failed>>
Tick == now < MaxTime /\ now' = now + 1

(* createUserToFirestore on another device.                                  *)
SignUp(u) ==
  /\ joined[u] = None /\ Tick
  /\ joined' = [joined EXCEPT ![u] = now']
  /\ version' = [version EXCEPT ![u] = now']
  /\ UNCHANGED <<room, app>>

(* A user, Me included, writes the profile.                                  *)
EditProfile(u) ==
  /\ joined[u] # None /\ Tick
  /\ version' = [version EXCEPT ![u] = now']
  /\ UNCHANGED <<joined, room, app>>

(* chatStart by Me or by the partner, or a message in the room they have.    *)
WriteRoom(u) ==
  /\ u # Me /\ joined[u] # None /\ Tick
  /\ room' = [room EXCEPT ![u] = now']
  /\ UNCHANGED <<joined, version, app>>

(* viewWillAppear, reloadUserList: the handle is nil until the block on the  *)
(* global queue has run, also when the screen appears again before that.     *)
Appear ==
  /\ ~trapped /\ ~userListener /\ appears < MaxAppear
  /\ appears' = appears + 1
  /\ userRegs' = userRegs + 1
  /\ showAllUsers' = <<>> /\ users' = <<>>
  /\ UNCHANGED <<server, userListener, userListeners, roomRegs, roomListeners,
                 searchText, trapped, failed>>

RegisterUsers ==
  /\ ~trapped /\ userRegs > 0
  /\ userRegs' = userRegs - 1
  /\ userListener' = TRUE
  /\ userListeners' = Registered(userListeners, NewListener)
  /\ UNCHANGED <<server, appears, roomRegs, roomListeners, showAllUsers, users,
                 searchText, trapped, failed>>

(* The users listener's callback: every change edits the array, which is     *)
(* sorted; the table waits for the rooms listener that is registered now.    *)
UsersSnapshot(l) ==
  /\ ~trapped /\ Reports(l, version)
  /\ userListeners' = Registered(Ended(userListeners, l), After(version))
  /\ \E order \in Orders(Changed(l, version)) :
       LET edited == Edited(order, {u \in User : u = Me \/ l.seen[u] = None}, Other)
       IN  showAllUsers' = Sorted(edited.rows) /\ trapped' = edited.trapped
  /\ roomRegs' = roomRegs + Nested(l)
  /\ UNCHANGED <<server, appears, userRegs, userListener, roomListeners, users,
                 searchText, failed>>

RegisterRooms ==
  /\ ~trapped /\ roomRegs > 0
  /\ roomRegs' = roomRegs - 1
  /\ roomListeners' = Registered(roomListeners, NewListener)
  /\ UNCHANGED <<server, appears, userRegs, userListener, userListeners,
                 showAllUsers, users, searchText, trapped, failed>>

(* A rooms listener's callback: the partners of the changed rooms are taken  *)
(* out, and the rest is shown.                                               *)
RoomsSnapshot(l) ==
  /\ ~trapped /\ Reports(l, room)
  /\ roomListeners' = Registered(Ended(roomListeners, l), After(room))
  /\ \E order \in Orders(Changed(l, room)) :
       LET edited == Edited(order, {}, {})
       IN  /\ showAllUsers' = edited.rows
           /\ trapped' = edited.trapped
           /\ users' = IF edited.trapped THEN users ELSE Found(edited.rows, searchText)
  /\ UNCHANGED <<server, appears, userRegs, userListener, userListeners,
                 roomRegs, searchText, failed>>

(* A listener ends with an error: an alert, or for a rooms listener nothing. *)
(* Bound: one listener fails.                                                *)
UsersFail(l) ==
  /\ ~trapped /\ ~failed /\ failed' = TRUE
  /\ userListeners' = Ended(userListeners, l)
  /\ UNCHANGED <<server, appears, userRegs, userListener, roomRegs,
                 roomListeners, showAllUsers, users, searchText, trapped>>

RoomsFail(l) ==
  /\ ~trapped /\ ~failed /\ failed' = TRUE
  /\ roomListeners' = Ended(roomListeners, l)
  /\ UNCHANGED <<server, appears, userRegs, userListener, userListeners,
                 roomRegs, showAllUsers, users, searchText, trapped>>

(* searchBar(_:textDidChange:): the table shows the array as it is now.      *)
Search(text) ==
  /\ ~trapped
  /\ searchText' = text
  /\ users' = Found(showAllUsers, text)
  /\ UNCHANGED <<server, registry, showAllUsers, trapped, failed>>

Texts == {User} \cup {{u} : u \in Other}

Next == \/ \E u \in User : SignUp(u) \/ EditProfile(u) \/ WriteRoom(u)
        \/ Appear \/ RegisterUsers \/ RegisterRooms
        \/ \E l \in BagToSet(userListeners) :
             UsersFail(l) \/ UsersSnapshot(l)
        \/ \E l \in BagToSet(roomListeners) :
             RoomsFail(l) \/ RoomsSnapshot(l)
        \/ \E text \in Texts : Search(text)

Spec == Init /\ [][Next]_vars
-----------------------------------------------------------------------------
TypeOK ==
  /\ now \in Time
  /\ joined \in [User -> {None} \cup Time] /\ version \in [User -> {None} \cup Time]
  /\ room \in [User -> {None} \cup Time]
  /\ appears \in 0 .. MaxAppear /\ userRegs \in 0 .. MaxAppear
  /\ userListener \in BOOLEAN /\ roomRegs \in Nat
  /\ IsABag(userListeners) /\ BagToSet(userListeners) \subseteq Listener
  /\ IsABag(roomListeners) /\ BagToSet(roomListeners) \subseteq Listener
  /\ showAllUsers \in Seq(Row) /\ users \in Seq(Row)
  /\ searchText \subseteq User
  /\ trapped \in BOOLEAN /\ failed \in BOOLEAN

Single == appears <= 1

(* The loops that remove by index never leave the array, unless the screen   *)
(* appeared again before its listener was registered: then every user is     *)
(* reported twice.                                                           *)
CrashOnlyIfRegisteredTwice == trapped => ~Single

(* No user has two rows, though a modified user is appended again and rooms  *)
(* are reported by every listener that was ever nested.                      *)
ListedOnce ==
  \A u \in Other : Single => Cardinality(RowsOf(showAllUsers, u)) <= 1

(* The table is newest first, whichever listener wrote it last.              *)
NewestFirst ==
  \A i, j \in DOMAIN users : i < j => joined[users[i].user] >= joined[users[j].user]

(* What holds of the array and of the table in every state.                  *)
TableIsSound == TypeOK /\ ListedOnce /\ NewestFirst

(* Nothing is waiting to be registered or reported.                          *)
Settled ==
  /\ userRegs = 0 /\ roomRegs = 0 /\ userListeners # EmptyBag
  /\ \A l \in BagToSet(userListeners) : Changed(l, version) = {} /\ ~l.first
  /\ \A l \in BagToSet(roomListeners) : Changed(l, room) = {} /\ ~l.first

(* When everything is reported the table shows exactly the users that match  *)
(* the search and have no room with Me, as they are now.                     *)
SettledTableIsRight ==
  (Settled /\ Single /\ ~failed) =>
    {users[i] : i \in DOMAIN users} =
      {RowOf(u) : u \in {v \in Other \cap searchText : joined[v] # None /\ room[v] = None}}
=============================================================================
