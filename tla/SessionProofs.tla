---------------------------- MODULE SessionProofs ----------------------------
(* What holds of Session for every set of users and of rooms and for any     *)
(* number of sessions.                                                       *)
EXTENDS Session, TLAPS

(* The user in front of the tabs.                                            *)
InTabs == screen \in {"list", "users"}

(* A session is the one that is going on.                                    *)
Current(s) == s = session /\ InTabs

(* Whose account is signing up: the screens behind the login have an account *)
(* signed in, and the document being written is that account's.              *)
SigningUp ==
  /\ signUp # NoUser => signUp \in accounts /\ auth = signUp /\ screen = "login"
  /\ screen = "detail" => auth \in accounts

TypeInv == TypeOK /\ SigningUp

(* The fetches carry the invariant from the listener to the row; on the      *)
(* login screen whoever is signed in next finds neither.                     *)
FetchesAreMine ==
  \/ "fetch" \in late
  \/ /\ \A f \in fetches \cup rows : f.by = auth /\ auth \in Members[f.room]
     /\ screen = "login" => fetches \cup rows = {}

Registered == queue \cup listeners
Of(k) == {l \in Registered : l.kind = k}

(* The lookups are the current session's.                                    *)
LookupsAreMine ==
  "lookup" \in late \/ \A l \in lookups : l.uid = auth /\ Current(l.session)

(* A session has one users listener, with its handle kept.                   *)
UsersAreMine ==
  \/ "users" \in late \cup doubled
  \/ /\ \A l \in Of("users") : l.uid = auth /\ Current(l.session)
     /\ \A l, m \in Of("users") : l = m
     /\ \A l \in listeners : l.kind = "users" => l = handle["users"]
     /\ handle["users"] # NoUser => InTabs

(* A session has one lookup and then one listener of the chat list.          *)
ChatListIsMine ==
  late \cap {"lookup", "chatList"} = {} =>
    /\ \A l \in Of("chatList") :
         /\ Current(l.session) /\ lookups = {}
         /\ trouble = {} => l.uid = auth
    /\ \A l, m \in Of("chatList") : l = m
    /\ \A l \in listeners : l.kind = "chatList" => l = handle["chatList"]

(* Neither a users nor a rooms listener was missed by a logout so far.       *)
NoneMissed == Origin("userRooms") \cap (late \cup doubled) = {}

(* A session has one rooms listener of the user list, with its handle kept.  *)
RoomsAreMine ==
  NoneMissed =>
    /\ \A l \in Of("userRooms") : l.uid = auth /\ Current(l.session)
    /\ \A l, m \in Of("userRooms") : l = m
    /\ \A l \in listeners : l.kind = "userRooms" => l = handle["userRooms"]

(* The table is the signed-in user's, or nobody is about to edit it before   *)
(* it is emptied.                                                            *)
TableIsMine ==
  NoneMissed =>
    \/ table \subseteq {auth}
    \/ /\ screen # "users" /\ handle["users"] = NoUser
       /\ Of("users") = {} /\ Of("userRooms") = {}

(* From the lookup to the listener, somebody is always on the way.           *)
WillListen ==
  (/\ InTabs /\ auth \in docs
   /\ trouble = {} /\ late \cap {"lookup", "chatList"} = {}) =>
    \/ lookups # {}
    \/ /\ listUser = auth /\ cached = auth
       /\ \E l \in Of("chatList") :
            l.uid = auth /\ (l \in queue \/ l = handle["chatList"])

IInv ==
  /\ TypeInv /\ FetchesAreMine
  /\ LookupsAreMine /\ UsersAreMine /\ ChatListIsMine /\ RoomsAreMine
  /\ TableIsMine /\ WillListen
-----------------------------------------------------------------------------
LEMMA LateType == TypeOK => Late \subseteq Kind \cup {"lookup", "fetch"}
<1>1. TypeOK => \A b \in queue : b.kind \in Kind
  BY DEF TypeOK, Listener
<1> QED BY <1>1 DEF Late

LEMMA TypeStep ==
  ASSUME TypeInv, [Next]_vars
  PROVE  TypeInv'
<1> USE NoUserAssumption, MembersAssumption, BoundAssumption
        DEF TypeInv, TypeOK, SigningUp, Kind, Lookup, Listener, Row, Block, Listens
<1> USE DEF server, user, listening, list, history
<1>1. ASSUME NEW u \in User, CreateAccount(u) PROVE TypeInv'
  BY <1>1 DEF CreateAccount
<1>2. ASSUME NEW u \in User, SignIn(u) PROVE TypeInv'
  BY <1>2 DEF SignIn, Reload
<1>3. CASE UserWritten
  BY <1>3 DEF UserWritten
<1>4. CASE UserRefused
  BY <1>4 DEF UserRefused
<1>5. CASE GoToList
  BY <1>5 DEF GoToList, Reload
<1>6. CASE SignOut
  <2>1. late' \subseteq Kind \cup {"lookup", "fetch"}
    BY <1>6, LateType DEF SignOut
  <2>2. handle' \in [Kind -> Listener \cup {NoUser}] /\ listeners' \subseteq listeners
    BY <1>6 DEF SignOut
  <2>3. signUp = NoUser /\ signUp' = NoUser /\ auth' = NoUser /\ screen' = "login"
    BY <1>6 DEF SignOut
  <2> QED BY <1>6, <2>1, <2>2, <2>3 DEF SignOut
<1>7. CASE AppearList
  BY <1>7 DEF AppearList
<1>8. CASE AppearUsers
  <2>1. CASE ReloadUsers
    <3>1. reloads' \in 0 .. MaxReload /\ reloads' \in Nat /\ table' \subseteq User
      BY <2>1 DEF ReloadUsers
    <3>2. \A u \in User : Block("users", u, session, reloads') \in Listener
      BY <3>1
    <3>3. queue' \subseteq Listener
      BY <2>1, <3>2 DEF ReloadUsers, UsersFor
    <3>4. doubled' \subseteq Kind
      BY <2>1 DEF ReloadUsers, Doubling
    <3> QED BY <1>8, <3>1, <3>3, <3>4 DEF AppearUsers
  <2>2. CASE UNCHANGED <<reloads, table, queue, doubled>>
    BY <1>8, <2>2 DEF AppearUsers
  <2> QED BY <1>8, <2>1, <2>2 DEF AppearUsers
<1>9. ASSUME NEW l \in lookups, LookupSucceeds(l) PROVE TypeInv'
  BY <1>9 DEF LookupSucceeds, Complete
<1>10. ASSUME NEW l \in lookups, LookupFails(l) PROVE TypeInv'
  BY <1>10 DEF LookupFails, Complete
<1>11. ASSUME NEW l \in lookups, LookupMissing(l) PROVE TypeInv'
  BY <1>11 DEF LookupMissing
<1>12. ASSUME NEW b \in queue, Register(b) PROVE TypeInv'
  BY <1>12 DEF Register
<1>13. ASSUME NEW l \in listeners, ListenerFails(l) PROVE TypeInv'
  BY <1>13 DEF ListenerFails
<1>14. ASSUME NEW l \in listeners, UsersChanged(l) PROVE TypeInv'
  <2>1. l \in Listener /\ snapshots' \in 0 .. MaxSnapshot /\ snapshots' \in Nat
    BY <1>14 DEF UsersChanged
  <2>2. queue' \subseteq Listener /\ table' \subseteq User
    BY <1>14, <2>1 DEF UsersChanged
  <2>3. doubled' \subseteq Kind
    BY <1>14 DEF UsersChanged, Doubling
  <2> QED BY <1>14, <2>1, <2>2, <2>3 DEF UsersChanged
<1>15. ASSUME NEW l \in listeners, NEW r \in Room, RoomChanged(l, r) PROVE TypeInv'
  BY <1>15 DEF RoomChanged, MayList, Exists
<1>16. ASSUME NEW f \in fetches, Fetched(f) PROVE TypeInv'
  BY <1>16 DEF Fetched
<1>17. ASSUME NEW f \in fetches, FetchFails(f) PROVE TypeInv'
  BY <1>17 DEF FetchFails
<1>18. ASSUME NEW l \in listeners, RoomsChanged(l) PROVE TypeInv'
  BY <1>18 DEF RoomsChanged
<1>19. CASE UNCHANGED vars
  BY <1>19 DEF vars
<1> QED
  BY <1>1, <1>2, <1>3, <1>4, <1>5, <1>6, <1>7, <1>8, <1>9, <1>10, <1>11, <1>12, <1>13,
     <1>14, <1>15, <1>16, <1>17, <1>18, <1>19 DEF Next

LEMMA FetchesStep ==
  ASSUME TypeInv, FetchesAreMine, [Next]_vars
  PROVE  FetchesAreMine'
<1> USE DEF FetchesAreMine, server, user, listening, list, history
<1>1. ASSUME NEW u \in User, CreateAccount(u) PROVE FetchesAreMine'
  BY <1>1 DEF CreateAccount
<1>2. ASSUME NEW u \in User, SignIn(u) PROVE FetchesAreMine'
  BY <1>2 DEF SignIn, Reload
<1>3. CASE GoToList
  BY <1>3 DEF GoToList, Reload
<1>4. CASE SignOut
  BY <1>4 DEF SignOut, Late
<1>5. ASSUME NEW l \in listeners, NEW r \in Room, RoomChanged(l, r)
      PROVE  FetchesAreMine'
  BY <1>5 DEF RoomChanged, MayList, Exists
<1>6. ASSUME NEW f \in fetches, Fetched(f) \/ FetchFails(f) PROVE FetchesAreMine'
  BY <1>6 DEF Fetched, FetchFails
<1>7. CASE UserWritten \/ AppearList \/ AppearUsers
  BY <1>7 DEF UserWritten, AppearList, AppearUsers
<1>8. CASE UNCHANGED <<auth, screen, fetches, rows, late>>
  BY <1>8
<1>9. \A l \in lookups :
         LookupSucceeds(l) \/ LookupFails(l) \/ LookupMissing(l)
           => UNCHANGED <<auth, screen, fetches, rows, late>>
  BY DEF LookupSucceeds, LookupFails, LookupMissing, Complete
<1>10. /\ UserRefused \/ UNCHANGED vars => UNCHANGED <<auth, screen, fetches, rows, late>>
       /\ \A b \in queue : Register(b) => UNCHANGED <<auth, screen, fetches, rows, late>>
       /\ \A l \in listeners :
            ListenerFails(l) \/ UsersChanged(l) \/ RoomsChanged(l)
              => UNCHANGED <<auth, screen, fetches, rows, late>>
  BY DEF UserRefused, Register, ListenerFails, UsersChanged, RoomsChanged, vars
<1> QED
  BY <1>1, <1>2, <1>3, <1>4, <1>5, <1>6, <1>7, <1>8, <1>9, <1>10 DEF Next

LEMMA LookupsStep ==
  ASSUME TypeInv, LookupsAreMine, [Next]_vars
  PROVE  LookupsAreMine'
<1> USE DEF TypeInv, SigningUp, LookupsAreMine, Current, InTabs,
           server, user, listening, list, history
<1> DEFINE
  Others == UNCHANGED <<auth, screen, session, lookups, late>>
<1>1. ASSUME NEW u \in User, CreateAccount(u) PROVE LookupsAreMine'
  BY <1>1 DEF CreateAccount
<1>2. ASSUME NEW u \in User, SignIn(u) PROVE LookupsAreMine'
  BY <1>2 DEF SignIn, Reload
<1>3. CASE UserWritten
  BY <1>3 DEF UserWritten
<1>4. CASE GoToList
  BY <1>4 DEF GoToList, Reload
<1>5. CASE SignOut
  BY <1>5 DEF SignOut, Late, Removed
<1>6. CASE AppearList
  BY <1>6 DEF AppearList
<1>7. CASE AppearUsers
  BY <1>7 DEF AppearUsers, ReloadUsers, UsersFor
<1>8. ASSUME NEW l \in lookups, LookupSucceeds(l) PROVE LookupsAreMine'
  BY <1>8 DEF LookupSucceeds, Complete, Listens
<1>9. ASSUME NEW l \in lookups, LookupFails(l) PROVE LookupsAreMine'
  BY <1>9 DEF LookupFails, Complete, Listens
<1>10. ASSUME NEW l \in lookups, LookupMissing(l) PROVE LookupsAreMine'
  BY <1>10 DEF LookupMissing
<1>11. CASE Others
  BY <1>11
<1>12. /\ UserRefused \/ UNCHANGED vars => Others
       /\ \A b \in queue : Register(b) => Others
       /\ \A l \in listeners :
            ListenerFails(l) \/ UsersChanged(l) \/ RoomsChanged(l) => Others
       /\ \A l \in listeners, r \in Room : RoomChanged(l, r) => Others
       /\ \A f \in fetches : Fetched(f) \/ FetchFails(f) => Others
  BY DEF UserRefused, Register, ListenerFails, UsersChanged, RoomsChanged, RoomChanged,
         Fetched, FetchFails, vars
<1> QED BY <1>1, <1>2, <1>3, <1>4, <1>5, <1>6, <1>7, <1>8, <1>9, <1>10, <1>11,
           <1>12 DEF Next

LEMMA UsersStep ==
  ASSUME TypeInv, UsersAreMine, [Next]_vars
  PROVE  UsersAreMine'
<1> USE DEF TypeInv, TypeOK, SigningUp, Kind, UsersAreMine, Current, InTabs, Of,
           Registered, Block, server, user, listening, list, history
<1> DEFINE
  Others == UNCHANGED <<auth, screen, session, queue, listeners, handle, late, doubled>>
<1>1. ASSUME NEW u \in User, CreateAccount(u) PROVE UsersAreMine'
  BY <1>1 DEF CreateAccount
<1>2. ASSUME NEW u \in User, SignIn(u) PROVE UsersAreMine'
  BY <1>2 DEF SignIn, Reload
<1>3. CASE UserWritten
  BY <1>3 DEF UserWritten
<1>4. CASE GoToList
  BY <1>4 DEF GoToList, Reload
<1>5. CASE SignOut
  BY <1>5 DEF SignOut, Late, Removed
<1>6. CASE AppearList
  BY <1>6 DEF AppearList
<1>7. CASE AppearUsers
  BY <1>7 DEF AppearUsers, ReloadUsers, UsersFor, Doubling
<1>8. ASSUME NEW l \in lookups, LookupSucceeds(l) PROVE UsersAreMine'
  BY <1>8 DEF LookupSucceeds, Complete, Listens
<1>9. ASSUME NEW l \in lookups, LookupFails(l) PROVE UsersAreMine'
  BY <1>9 DEF LookupFails, Complete, Listens
<1>10. ASSUME NEW b \in queue, Register(b) PROVE UsersAreMine'
  BY <1>10 DEF Register
<1>11. ASSUME NEW l \in listeners, ListenerFails(l) PROVE UsersAreMine'
  BY <1>11 DEF ListenerFails
<1>12. ASSUME NEW l \in listeners, UsersChanged(l) PROVE UsersAreMine'
  BY <1>12 DEF UsersChanged
<1>13. CASE Others
  BY <1>13
<1>14. /\ UserRefused \/ UNCHANGED vars => Others
       /\ \A l \in lookups : LookupMissing(l) => Others
       /\ \A l \in listeners : RoomsChanged(l) => Others
       /\ \A l \in listeners, r \in Room : RoomChanged(l, r) => Others
       /\ \A f \in fetches : Fetched(f) \/ FetchFails(f) => Others
  BY DEF UserRefused, LookupMissing, RoomsChanged, RoomChanged, Fetched, FetchFails, vars
<1> QED BY <1>1, <1>2, <1>3, <1>4, <1>5, <1>6, <1>7, <1>8, <1>9, <1>10, <1>11,
           <1>12, <1>13, <1>14 DEF Next

LEMMA ChatListStep ==
  ASSUME TypeInv, LookupsAreMine, ChatListIsMine, [Next]_vars
  PROVE  ChatListIsMine'
<1> USE DEF TypeInv, TypeOK, SigningUp, Kind, Lookup, Listener,
           LookupsAreMine, ChatListIsMine, Current, InTabs, Of,
           Registered, Block, server, user, listening, list, history
<1> DEFINE
  Others == UNCHANGED <<auth, screen, session, lookups, queue, listeners, handle,
                      late, trouble>>
<1>1. ASSUME NEW u \in User, CreateAccount(u) PROVE ChatListIsMine'
  BY <1>1 DEF CreateAccount
<1>2. ASSUME NEW u \in User, SignIn(u) PROVE ChatListIsMine'
  BY <1>2 DEF SignIn, Reload
<1>3. CASE UserWritten
  BY <1>3 DEF UserWritten
<1>4. CASE GoToList
  BY <1>4 DEF GoToList, Reload
<1>5. CASE SignOut
  BY <1>5 DEF SignOut, Late, Removed
<1>6. CASE AppearList
  BY <1>6 DEF AppearList
<1>7. CASE AppearUsers
  BY <1>7 DEF AppearUsers, ReloadUsers, UsersFor
<1>8. ASSUME NEW l \in lookups, LookupSucceeds(l) PROVE ChatListIsMine'
  BY <1>8 DEF LookupSucceeds, Complete, Listens
<1>9. ASSUME NEW l \in lookups, LookupFails(l) PROVE ChatListIsMine'
  BY <1>9 DEF LookupFails, Complete, Listens
<1>10. ASSUME NEW l \in lookups, LookupMissing(l) PROVE ChatListIsMine'
  BY <1>10 DEF LookupMissing
<1>11. ASSUME NEW b \in queue, Register(b) PROVE ChatListIsMine'
  BY <1>11 DEF Register
<1>12. ASSUME NEW l \in listeners, ListenerFails(l) PROVE ChatListIsMine'
  BY <1>12 DEF ListenerFails
<1>13. ASSUME NEW l \in listeners, UsersChanged(l) PROVE ChatListIsMine'
  BY <1>13 DEF UsersChanged
<1>14. CASE Others
  BY <1>14
<1>15. /\ UserRefused \/ UNCHANGED vars => Others
       /\ \A l \in listeners : RoomsChanged(l) => Others
       /\ \A l \in listeners, r \in Room : RoomChanged(l, r) => Others
       /\ \A f \in fetches : Fetched(f) \/ FetchFails(f) => Others
  BY DEF UserRefused, RoomsChanged, RoomChanged, Fetched, FetchFails, vars
<1> QED BY <1>1, <1>2, <1>3, <1>4, <1>5, <1>6, <1>7, <1>8, <1>9, <1>10, <1>11,
           <1>12, <1>13, <1>14, <1>15 DEF Next

LEMMA RoomsStep ==
  ASSUME TypeInv, UsersAreMine, RoomsAreMine, [Next]_vars
  PROVE  RoomsAreMine'
<1> USE DEF TypeInv, TypeOK, SigningUp, Kind, Listener,
           UsersAreMine, RoomsAreMine, NoneMissed, Origin, Current, InTabs, Of,
           Registered, Block, server, user, listening, list, history
<1> DEFINE
  Others == UNCHANGED <<auth, screen, session, queue, listeners, handle, late, doubled>>
<1>1. ASSUME NEW u \in User, CreateAccount(u) PROVE RoomsAreMine'
  BY <1>1 DEF CreateAccount
<1>2. ASSUME NEW u \in User, SignIn(u) PROVE RoomsAreMine'
  BY <1>2 DEF SignIn, Reload
<1>3. CASE UserWritten
  BY <1>3 DEF UserWritten
<1>4. CASE GoToList
  BY <1>4 DEF GoToList, Reload
<1>5. CASE SignOut
  BY <1>5 DEF SignOut, Late, Removed
<1>6. CASE AppearList
  BY <1>6 DEF AppearList
<1>7. CASE AppearUsers
  BY <1>7 DEF AppearUsers, ReloadUsers, UsersFor
<1>8. ASSUME NEW l \in lookups, LookupSucceeds(l) PROVE RoomsAreMine'
  BY <1>8 DEF LookupSucceeds, Complete, Listens
<1>9. ASSUME NEW l \in lookups, LookupFails(l) PROVE RoomsAreMine'
  BY <1>9 DEF LookupFails, Complete, Listens
<1>10. ASSUME NEW b \in queue, Register(b) PROVE RoomsAreMine'
  BY <1>10 DEF Register
<1>11. ASSUME NEW l \in listeners, ListenerFails(l) PROVE RoomsAreMine'
  BY <1>11 DEF ListenerFails
<1>12. ASSUME NEW l \in listeners, UsersChanged(l) PROVE RoomsAreMine'
  BY <1>12 DEF UsersChanged, Doubling
<1>13. CASE Others
  BY <1>13
<1>14. /\ UserRefused \/ UNCHANGED vars => Others
       /\ \A l \in lookups : LookupMissing(l) => Others
       /\ \A l \in listeners : RoomsChanged(l) => Others
       /\ \A l \in listeners, r \in Room : RoomChanged(l, r) => Others
       /\ \A f \in fetches : Fetched(f) \/ FetchFails(f) => Others
  BY DEF UserRefused, LookupMissing, RoomsChanged, RoomChanged, Fetched, FetchFails, vars
<1> QED BY <1>1, <1>2, <1>3, <1>4, <1>5, <1>6, <1>7, <1>8, <1>9, <1>10, <1>11,
           <1>12, <1>13, <1>14 DEF Next

LEMMA TableStep ==
  ASSUME TypeInv, UsersAreMine, RoomsAreMine, TableIsMine, [Next]_vars
  PROVE  TableIsMine'
<1> USE DEF TypeInv, TypeOK, SigningUp, Kind, Listener,
           UsersAreMine, RoomsAreMine, TableIsMine, NoneMissed, Origin, Current, InTabs,
           Of, Registered, Block, server, user, listening, list, history
<1> DEFINE
  Others == UNCHANGED <<auth, screen, queue, listeners, handle, table, late, doubled>>
<1>1. ASSUME NEW u \in User, CreateAccount(u) PROVE TableIsMine'
  BY <1>1 DEF CreateAccount
<1>2. ASSUME NEW u \in User, SignIn(u) PROVE TableIsMine'
  BY <1>2 DEF SignIn, Reload
<1>3. CASE UserWritten
  BY <1>3 DEF UserWritten
<1>4. CASE GoToList
  BY <1>4 DEF GoToList, Reload
<1>5. CASE SignOut
  BY <1>5 DEF SignOut, Late, Removed
<1>6. CASE AppearList
  BY <1>6 DEF AppearList
<1>7. CASE AppearUsers
  BY <1>7 DEF AppearUsers, ReloadUsers, UsersFor
<1>8. ASSUME NEW l \in lookups, LookupSucceeds(l) PROVE TableIsMine'
  BY <1>8 DEF LookupSucceeds, Complete, Listens
<1>9. ASSUME NEW l \in lookups, LookupFails(l) PROVE TableIsMine'
  BY <1>9 DEF LookupFails, Complete, Listens
<1>10. ASSUME NEW b \in queue, Register(b) PROVE TableIsMine'
  BY <1>10 DEF Register
<1>11. ASSUME NEW l \in listeners, ListenerFails(l) PROVE TableIsMine'
  BY <1>11 DEF ListenerFails
<1>12. ASSUME NEW l \in listeners, UsersChanged(l) PROVE TableIsMine'
  BY <1>12 DEF UsersChanged
<1>13. ASSUME NEW l \in listeners, RoomsChanged(l) PROVE TableIsMine'
  BY <1>13 DEF RoomsChanged
<1>14. CASE Others
  BY <1>14
<1>15. /\ UserRefused \/ UNCHANGED vars => Others
       /\ \A l \in lookups : LookupMissing(l) => Others
       /\ \A l \in listeners, r \in Room : RoomChanged(l, r) => Others
       /\ \A f \in fetches : Fetched(f) \/ FetchFails(f) => Others
  BY DEF UserRefused, LookupMissing, RoomChanged, Fetched, FetchFails, vars
<1> QED BY <1>1, <1>2, <1>3, <1>4, <1>5, <1>6, <1>7, <1>8, <1>9, <1>10, <1>11,
           <1>12, <1>13, <1>14, <1>15 DEF Next

LEMMA WillListenStep ==
  ASSUME TypeInv, LookupsAreMine, ChatListIsMine, WillListen, [Next]_vars
  PROVE  WillListen'
<1> USE DEF TypeInv, TypeOK, SigningUp, Kind, Lookup, Listener,
           LookupsAreMine, ChatListIsMine, WillListen,
           Current, InTabs, Of,
           Registered, Block, server, user, listening, list, history
<1> DEFINE
  Others == UNCHANGED <<docs, auth, screen, session, lookups, queue, listeners, handle,
                      listUser, cached, late, trouble>>
<1>1. ASSUME NEW u \in User, CreateAccount(u) PROVE WillListen'
  BY <1>1 DEF CreateAccount
<1>2. ASSUME NEW u \in User, SignIn(u) PROVE WillListen'
  BY <1>2 DEF SignIn, Reload
<1>3. CASE UserWritten
  BY <1>3 DEF UserWritten
<1>4. CASE UserRefused
  BY <1>4 DEF UserRefused
<1>5. CASE GoToList
  BY <1>5 DEF GoToList, Reload
<1>6. CASE SignOut
  BY <1>6 DEF SignOut, Late, Removed
<1>7. CASE AppearList
  BY <1>7 DEF AppearList
<1>8. CASE AppearUsers
  BY <1>8 DEF AppearUsers, ReloadUsers, UsersFor
<1>9. ASSUME NEW l \in lookups, LookupSucceeds(l) PROVE WillListen'
  <2> SUFFICES ASSUME InTabs, auth \in docs, trouble = {},
                      late \cap {"lookup", "chatList"} = {}
               PROVE  WillListen'
    BY <1>9 DEF LookupSucceeds, Complete
  <2> DEFINE b == Block("chatList", auth, l.session, 0)
  <2>1. l.uid = auth /\ listUser' = auth /\ cached' = auth
    BY <1>9 DEF LookupSucceeds, Complete
  <2>2. b \in queue' /\ b.kind = "chatList" /\ b.uid = auth
    BY <1>9, <2>1, NoUserAssumption DEF LookupSucceeds, Complete, Listens
  <2> QED BY <1>9, <2>1, <2>2 DEF LookupSucceeds, Complete
<1>10. ASSUME NEW l \in lookups, LookupFails(l) PROVE WillListen'
  BY <1>10 DEF LookupFails, Complete, Listens
<1>11. ASSUME NEW l \in lookups, LookupMissing(l) PROVE WillListen'
  BY <1>11 DEF LookupMissing
<1>12. ASSUME NEW b \in queue, Register(b) PROVE WillListen'
  BY <1>12 DEF Register
<1>13. ASSUME NEW l \in listeners, ListenerFails(l) PROVE WillListen'
  BY <1>13 DEF ListenerFails
<1>14. ASSUME NEW l \in listeners, UsersChanged(l) PROVE WillListen'
  BY <1>14 DEF UsersChanged
<1>15. CASE Others
  BY <1>15
<1>16. /\ UNCHANGED vars => Others
       /\ \A l \in listeners : RoomsChanged(l) => Others
       /\ \A l \in listeners, r \in Room : RoomChanged(l, r) => Others
       /\ \A f \in fetches : Fetched(f) \/ FetchFails(f) => Others
  BY DEF RoomsChanged, RoomChanged, Fetched, FetchFails, vars
<1> QED BY <1>1, <1>2, <1>3, <1>4, <1>5, <1>6, <1>7, <1>8, <1>9, <1>10, <1>11,
           <1>12, <1>13, <1>14, <1>15, <1>16 DEF Next

LEMMA InvStart == Init => IInv
<1> SUFFICES ASSUME Init PROVE IInv
  OBVIOUS
<1> USE NoUserAssumption, BoundAssumption
        DEF Init, InTabs, Current, Registered, Of
<1>1. TypeInv
  BY DEF TypeInv, TypeOK, SigningUp, Kind, Lookup, Listener
<1>2. FetchesAreMine /\ LookupsAreMine
  BY DEF FetchesAreMine, LookupsAreMine
<1>3. UsersAreMine /\ ChatListIsMine /\ RoomsAreMine /\ TableIsMine
  BY DEF UsersAreMine, ChatListIsMine, RoomsAreMine, TableIsMine, Kind
<1>4. WillListen
  <2> SUFFICES ASSUME InTabs PROVE lookups # {}
    BY DEF WillListen
  <2>1. [uid |-> auth, session |-> 1] \in lookups
    OBVIOUS
  <2> QED BY <2>1
<1> QED BY <1>1, <1>2, <1>3, <1>4 DEF IInv

LEMMA Invariant == Spec => []IInv
<1>1. IInv /\ [Next]_vars => IInv'
  BY TypeStep, FetchesStep, LookupsStep, UsersStep, ChatListStep, RoomsStep,
     TableStep, WillListenStep DEF IInv
<1> QED BY InvStart, <1>1, PTL DEF Spec

(* The chat list shows rows that were fetched for the user who is signed in, *)
(* unless the fetch was under way at a logout (ChatListViewController 94-178)*)
THEOREM RowsMine == Spec => []RowsAreMine
<1>1. IInv => RowsAreMine
  BY DEF IInv, TypeInv, FetchesAreMine, RowsAreMine
<1> QED BY Invariant, <1>1, PTL

(* The user list has been edited for the user who is signed in alone, unless *)
(* a logout has missed what edits it (UserListViewController 43-134).        *)
THEOREM UserListMine == Spec => []UserListIsMine
<1>1. IInv => UserListIsMine
  BY DEF IInv, TableIsMine, NoneMissed, UserListIsMine
<1> QED BY Invariant, <1>1, PTL

(* Once all has settled, the chat list shows and listens to the user who is  *)
(* signed in (ChatListViewController 50-68, ChatRoomAccessor 40-59).         *)
THEOREM Listening == Spec => []ListensForMe
<1>1. IInv => ListensForMe
  BY DEF IInv, WillListen, ChatListIsMine, InTabs, Registered, Of,
         ListensForMe, Settled
<1> QED BY Invariant, <1>1, PTL

(* A logout misses only a listener that it, or what it comes from, was still *)
(* outstanding at a logout or was registered beside another of its kind, so  *)
(* that one handle was lost (UserListViewController 47, 108, UserAccessor    *)
(* 102-115, ChatRoomAccessor 40-60 and 92-98).                               *)
THEOREM OutlivingListeners == Spec => []OnlyLateOrDoubledOutlive
<1>1. IInv => OnlyLateOrDoubledOutlive
  <2> SUFFICES ASSUME IInv, NEW l \in listeners, Outlives(l)
               PROVE  Origin(l.kind) \cap (late \cup doubled) # {}
    BY DEF OnlyLateOrDoubledOutlive
  <2> USE DEF IInv, TypeInv, TypeOK, Listener, Kind, Of, Registered, Current, InTabs,
              Outlives, Origin
  <2>1. CASE l.kind = "chatList"
    BY <2>1 DEF ChatListIsMine
  <2>2. CASE l.kind = "users"
    BY <2>2 DEF UsersAreMine
  <2>3. CASE l.kind = "userRooms"
    BY <2>3 DEF RoomsAreMine, NoneMissed
  <2> QED BY <2>1, <2>2, <2>3
<1> QED BY Invariant, <1>1, PTL
=============================================================================
