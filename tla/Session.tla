------------------------------ MODULE Session ------------------------------
(* Who is signed in, and who the app believes is signed in: sign-up, login   *)
(* and logout against the two lists.  Auth and the accessors (UserAccessor,  *)
(* ChatRoomAccessor: one object each for the whole process) keep a copy of   *)
(* the user each; listeners, lookups and fetches started for one user go on  *)
(* after a logout, since logging out removes the listeners whose handles are *)
(* known and clears the chat list, and nothing else.  Each initial state is  *)
(* also the state of a relaunched process.                                   *)
EXTENDS Naturals, FiniteSets

CONSTANTS User, Room,
          NoUser,        \* nil in place of a user, a uid or a handle
          Members,       \* the users of each room, as ChatRoom.members
          MaxSession,    \* bound: sign-ins, the one of the launch included
          MaxReload,     \* bound: reloads of the user list
          MaxSnapshot    \* bound: snapshots of the users listeners

ASSUME NoUserAssumption == NoUser \notin User
ASSUME MembersAssumption == Members \in [Room -> SUBSET User]
ASSUME BoundAssumption ==
  MaxSession \in Nat \ {0} /\ MaxReload \in Nat /\ MaxSnapshot \in Nat

VARIABLES
  accounts,    \* Auth accounts
  docs,        \* users whose document exists
  auth,        \* Auth.auth().currentUser
  signUp,      \* the sign-up whose user document is being written
  currentUid,  \* UserAccessor.currentUid
  cached,      \* UserAccessor.currentUser
  listUser,    \* ChatListViewController.currentUser
  screen,      \* the screen in front: login (or sign-up), detail or a tab
  session,     \* number of times a user entered the tabs
  lookups,     \* setCurrentUser calls whose answer is outstanding
  queue,       \* addSnapshotListener blocks waiting on DispatchQueue.global
  listeners,   \* registered listeners
  handle,      \* the handle each accessor property holds
  reloads,     \* reloads of the user list so far
  snapshots,   \* users snapshots so far
  table,       \* user list: those for whom it was edited since its reload
  fetches,     \* chat list: changes whose user or message is being fetched
  rows,        \* chat list: the rows listed
  late,        \* history: what was outstanding at some logout
  doubled,     \* history: what was registered beside one of its kind
  trouble      \* history: lookups and listeners that did not succeed

server == <<accounts, docs>>
user == <<auth, signUp, currentUid, cached, listUser, screen, session>>
listening == <<queue, listeners, handle, reloads, snapshots>>
list == <<fetches, rows>>
history == <<late, doubled, trouble>>
vars == <<server, user, lookups, listening, table, list, history>>

Kind == {"chatList", "users", "userRooms"}
Lookup == [uid : User, session : Nat]
(* nth tells registrations of a kind in one session apart: the reload of the *)
(* user list, the users snapshot that made it.                               *)
Listener == [kind : Kind, uid : User, session : Nat, nth : Nat]
Row == [room : Room, by : User, session : Nat]

(* A block that registers a listener of a kind for a user.                   *)
Block(k, u, s, n) == [kind |-> k, uid |-> u, session |-> s, nth |-> n]

(* What is outstanding, which a logout neither ends nor removes.             *)
Late == {b.kind : b \in queue} \cup (IF lookups # {} THEN {"lookup"} ELSE {})
        \cup (IF fetches # {} THEN {"fetch"} ELSE {})

(* A listener of kind k is registered while another one is queued or         *)
(* listens: the property of the accessor will keep the handle of one.        *)
Doubling(k) == {k} \cap {b.kind : b \in queue \cup listeners}

(* Bound: one failed lookup or listener.                                     *)
CanFail == trouble = {}

(* fetchChatroomsInfoFromFirestore: without a user nothing is registered.    *)
Listens(u, s) == IF u = NoUser THEN {} ELSE {Block("chatList", u, s, 0)}
-----------------------------------------------------------------------------
(* viewDidLoad of the chat list: the user whom Auth remembers is looked up;  *)
(* without one the login screen is shown.                                    *)
Init ==
  /\ accounts \in SUBSET User /\ docs \in SUBSET accounts
  /\ auth \in accounts \cup {NoUser} /\ currentUid = auth
  /\ screen = IF auth = NoUser THEN "login" ELSE "list"
  /\ session = IF auth = NoUser THEN 0 ELSE 1
  /\ lookups = {l \in [uid : User, session : {1}] : l.uid = auth}
  /\ cached = NoUser /\ listUser = NoUser /\ signUp = NoUser
  /\ queue = {} /\ listeners = {} /\ reloads = 0 /\ snapshots = 0 /\ table = {}
  /\ handle = [k \in Kind |-> NoUser]
  /\ fetches = {} /\ rows = {}
  /\ late = {} /\ doubled = {} /\ trouble = {}

(* tappedRegisterButton, the image stored: createUser makes the account and  *)
(* signs it in, and the write of the user document is issued, under the HUD. *)
(* An address that has an account is refused.                                *)
CreateAccount(u) ==
  /\ screen = "login" /\ signUp = NoUser /\ u \notin accounts
  /\ accounts' = accounts \cup {u}
  /\ auth' = u /\ signUp' = u
  /\ UNCHANGED <<docs, currentUid, cached, listUser, screen, session, lookups, listening,
                 table, list, history>>

(* The user document is written: on to the details of the profile.           *)
UserWritten ==
  /\ signUp # NoUser
  /\ docs' = docs \cup {signUp}
  /\ signUp' = NoUser /\ screen' = "detail"
  /\ UNCHANGED <<accounts, auth, currentUid, cached, listUser, session, lookups, listening,
                 table, list, history>>

(* The write fails: an alert, and the account stays, signed in.              *)
UserRefused ==
  /\ signUp # NoUser
  /\ signUp' = NoUser
  /\ UNCHANGED <<server, auth, currentUid, cached, listUser, screen, session, lookups,
                 listening, table, list, history>>

(* reloaChatListViewController: setCurrentUser sets currentUid and looks the *)
(* user up.                                                                  *)
Reload(u) ==
  /\ session < MaxSession /\ session' = session + 1
  /\ screen' = "list"
  /\ currentUid' = u
  /\ lookups' = lookups \cup {[uid |-> u, session |-> session']}
  /\ UNCHANGED <<server, signUp, cached, listUser, listening, table, list, history>>

(* goChatListView, from the detail screen: dismissed to the chat list.       *)
GoToList == screen = "detail" /\ Reload(auth) /\ UNCHANGED auth

(* tappedLoginButton, signIn succeeded: the login screen reloads the chat    *)
(* list that presented it.                                                   *)
SignIn(u) == screen = "login" /\ signUp = NoUser /\ u \in accounts /\ auth' = u /\ Reload(u)

(* Mutant of Removed: the handles of the user list are forgotten.            *)
RemovedHere == {handle["chatList"]}
(* removeAllChatRoomListener and removeUserListener.                         *)
Removed == {handle[k] : k \in Kind}

(* tappedLogoutButton: currentUid, the cached user and the chat list's user  *)
(* stay, and so does whatever is outstanding.                                *)
SignOut ==
  /\ screen = "list"
  /\ auth' = NoUser /\ screen' = "login"
  /\ listeners' = listeners \ Removed
  /\ handle' = [k \in Kind |-> NoUser]
  /\ rows' = {}
  /\ late' = late \cup Late
  /\ UNCHANGED <<server, signUp, currentUid, cached, listUser, session, lookups, queue,
                 reloads, snapshots, table, fetches, doubled, trouble>>
-----------------------------------------------------------------------------
(* setCurrentUser completes with c in the cache: the chat list takes c and   *)
(* listens for c's rooms.                                                    *)
Complete(l, c) ==
  /\ lookups' = lookups \ {l}
  /\ listUser' = c
  /\ queue' = queue \cup Listens(c, l.session)
  /\ UNCHANGED <<server, auth, signUp, currentUid, screen, session, listeners, handle,
                 reloads, snapshots, table, list, late, doubled>>

(* Mutant of LookupSucceeds: the completion takes the user it had.           *)
LookupSucceedsStale(l) ==
  /\ l.uid \in docs
  /\ cached' = l.uid
  /\ Complete(l, IF listUser = NoUser THEN l.uid ELSE listUser)
  /\ UNCHANGED trouble

(* The user document arrives: it becomes the cached user, whoever is signed  *)
(* in by now.                                                                *)
LookupSucceeds(l) ==
  /\ l.uid \in docs
  /\ cached' = l.uid
  /\ Complete(l, l.uid)
  /\ UNCHANGED trouble

(* getDocument fails: the completion runs all the same, and the chat list    *)
(* takes the user that is still in the cache.                                *)
LookupFails(l) ==
  /\ CanFail
  /\ Complete(l, cached)
  /\ trouble' = trouble \cup {"lookup"}
  /\ UNCHANGED cached

(* The user document does not exist: setCurrentUser returns without calling  *)
(* its completion.                                                           *)
LookupMissing(l) ==
  /\ l.uid \notin docs
  /\ lookups' = lookups \ {l}
  /\ UNCHANGED <<server, user, listening, table, list, history>>

(* The block on the global queue adds the listener and keeps its handle in   *)
(* place of the one before.                                                  *)
Register(b) ==
  /\ queue' = queue \ {b}
  /\ listeners' = listeners \cup {b}
  /\ handle' = [handle EXCEPT ![b.kind] = b]
  /\ UNCHANGED <<server, user, lookups, reloads, snapshots, table, list, history>>

(* A listener ends with an error; its handle stays.                          *)
ListenerFails(l) ==
  /\ CanFail
  /\ listeners' = listeners \ {l}
  /\ trouble' = trouble \cup {"listener"}
  /\ UNCHANGED <<server, user, lookups, queue, handle, reloads, snapshots, table, list,
                 late, doubled>>
-----------------------------------------------------------------------------
(* Mutant of MayList: whoever is signed in.                                  *)
MayListAny(l, r) == auth # NoUser
(* handleAddedDocumentChange: rooms without the user signed in are left out. *)
MayList(l, r) == auth \in Members[r]

(* A room exists once its users do.  An account is in no room while it still *)
(* signs up: nobody else can list it, and it has not listed anybody.         *)
Exists(r) == /\ Members[r] \subseteq accounts
             /\ ~(screen = "login" /\ auth \in Members[r])

(* A room of the chat list's listener changes: its partner and its message   *)
(* are fetched for the user signed in now.  A room that is listed or being   *)
(* fetched in this session is not reported again here (a bound).             *)
RoomChanged(l, r) ==
  /\ l.kind = "chatList" /\ Exists(r) /\ l.uid \in Members[r] /\ MayList(l, r)
  /\ LET row == [room |-> r, by |-> auth, session |-> session]
     IN  /\ row \notin fetches \cup rows
         /\ fetches' = fetches \cup {row}
  /\ UNCHANGED <<server, user, lookups, listening, table, rows, history>>

(* The last fetch answers: the row is appended, whoever is signed in by now. *)
Fetched(f) ==
  /\ fetches' = fetches \ {f}
  /\ rows' = rows \cup {f}
  /\ UNCHANGED <<server, user, lookups, listening, table, history>>

FetchFails(f) ==
  /\ fetches' = fetches \ {f}
  /\ UNCHANGED <<server, user, lookups, listening, table, rows, history>>

(* A snapshot of the users: the users callback edits the list and registers  *)
(* a listener for the rooms of the user it was itself registered for.        *)
UsersChanged(l) ==
  /\ l.kind = "users" /\ snapshots < MaxSnapshot
  /\ snapshots' = snapshots + 1
  /\ table' = table \cup {l.uid}
  /\ queue' = queue \cup {Block("userRooms", l.uid, l.session, snapshots')}
  /\ doubled' = doubled \cup Doubling("userRooms")
  /\ UNCHANGED <<server, user, lookups, listeners, handle, reloads, list, late, trouble>>

(* A snapshot of these rooms: the nested callback takes users off the list.  *)
RoomsChanged(l) ==
  /\ l.kind = "userRooms"
  /\ table' = table \cup {l.uid}
  /\ UNCHANGED <<server, user, lookups, listening, list, history>>
-----------------------------------------------------------------------------
(* Back to the chat list: viewWillAppear takes a cached user that differs.   *)
AppearList ==
  /\ screen = "users" /\ screen' = "list"
  /\ listUser' = IF NoUser \in {listUser, cached} THEN listUser ELSE cached
  /\ UNCHANGED <<server, auth, signUp, currentUid, cached, session, lookups, listening,
                 table, list, history>>

(* Mutant of UsersFor: the cached user, which may still be the one before.   *)
UsersForCached == IF cached = NoUser THEN currentUid ELSE cached
(* Whom the users are listed for.                                            *)
UsersFor == currentUid

(* reloadUserList: the list is emptied, and a users listener is asked for.   *)
ReloadUsers ==
  /\ reloads < MaxReload /\ reloads' = reloads + 1
  /\ table' = {}
  /\ LET asked == {Block("users", u, session, reloads') : u \in {UsersFor} \ {NoUser}}
     IN  /\ queue' = queue \cup asked
         /\ doubled' = IF asked = {} THEN doubled ELSE doubled \cup Doubling("users")

(* viewWillAppear of the user list: it reloads as long as no handle is known *)
(* (line 47), so once more when it appears again before the block has run.   *)
AppearUsers ==
  /\ screen = "list" /\ screen' = "users"
  /\ \/ handle["users"] = NoUser /\ ReloadUsers
     \/ handle["users"] # NoUser /\ UNCHANGED <<reloads, table, queue, doubled>>
  /\ UNCHANGED <<server, auth, signUp, currentUid, cached, listUser, session, lookups,
                 listeners, handle, snapshots, list, late, trouble>>

Next ==
  \/ \E u \in User : CreateAccount(u) \/ SignIn(u)
  \/ UserWritten \/ UserRefused \/ GoToList \/ SignOut \/ AppearList \/ AppearUsers
  \/ \E l \in lookups : LookupSucceeds(l) \/ LookupFails(l) \/ LookupMissing(l)
  \/ \E b \in queue : Register(b)
  \/ \E l \in listeners : \/ ListenerFails(l) \/ UsersChanged(l) \/ RoomsChanged(l)
                          \/ \E r \in Room : RoomChanged(l, r)
  \/ \E f \in fetches : Fetched(f) \/ FetchFails(f)

Spec == Init /\ [][Next]_vars
-----------------------------------------------------------------------------
TypeOK ==
  /\ accounts \subseteq User /\ docs \subseteq accounts
  /\ {auth, signUp, currentUid, cached, listUser} \subseteq User \cup {NoUser}
  /\ screen \in {"login", "detail", "list", "users"}
  /\ session \in 0 .. MaxSession /\ reloads \in 0 .. MaxReload
  /\ snapshots \in 0 .. MaxSnapshot /\ table \subseteq User
  /\ lookups \subseteq Lookup
  /\ queue \subseteq Listener /\ listeners \subseteq Listener
  /\ handle \in [Kind -> Listener \cup {NoUser}]
  /\ fetches \subseteq Row /\ rows \subseteq Row
  /\ late \subseteq Kind \cup {"lookup", "fetch"} /\ doubled \subseteq Kind
  /\ trouble \subseteq {"lookup", "listener"}
  /\ screen \in {"list", "users"} => auth \in accounts /\ currentUid = auth

(* A row fetched for somebody else than the user signed in, with that user's *)
(* idea of who the partner is, is only ever a row whose fetch was under way  *)
(* at a logout: the late listeners of others list nothing, because of the    *)
(* guards of lines 100-108 of ChatListViewController.                        *)
RowsAreMine ==
  /\ TypeOK
  /\ \A r \in rows : (r.by = auth /\ auth \in Members[r.room]) \/ "fetch" \in late

(* Nothing that decides about listening is outstanding.                      *)
Settled == lookups = {} /\ queue = {}

(* Once all is settled the list shows the name of and listens to the user    *)
(* signed in, unless that user has no document, a lookup failed or was       *)
(* outstanding at a logout, or the listener ended with an error.             *)
ListensForMe ==
  (/\ screen \in {"list", "users"} /\ auth \in docs
   /\ Settled /\ trouble = {} /\ late \cap {"lookup", "chatList"} = {})
    => /\ listUser = auth
       /\ \E l \in listeners : l = handle["chatList"] /\ l.uid = auth

(* A listener that has outlived the session it was registered for.           *)
Outlives(l) == l.session < session \/ screen \in {"login", "detail"}

(* What a listener of kind k comes from, its own kind included.              *)
Origin(k) == CASE k = "chatList"  -> {"lookup", "chatList"}
               [] k = "users"     -> {"users"}
               [] k = "userRooms" -> {"users", "userRooms"}

(* A logout misses a listener only when it, or what it comes from, was       *)
(* outstanding, or was registered beside another whose handle took the place *)
(* of its own: a second reload of the user list before the block of the      *)
(* first has run (line 47), a second snapshot of the users (line 108).       *)
OnlyLateOrDoubledOutlive ==
  \A l \in listeners : Outlives(l) => Origin(l.kind) \cap (late \cup doubled) # {}

(* The table of the user list is edited, since it was last emptied, for the  *)
(* user signed in alone: by the users callback, which leaves that user out,  *)
(* and by the callbacks for the rooms.  The exceptions are the listeners     *)
(* that a logout misses; they go on editing the table of the next user.      *)
UserListIsMine ==
  screen = "users" => table \subseteq {auth} \/ Origin("userRooms") \cap (late \cup doubled) # {}
=============================================================================
