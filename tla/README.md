# FreeTalk: a verification project

FreeTalk (`src/iOSApp/FreeTalk`, about 2,800 lines of Swift) is an iOS chat
application on Firebase: sign up, choose a user ID, find people in a list, open a
chat room with one of them, exchange messages, and see the rooms in a list sorted
by their latest message. There is no server code: every device talks to Firestore,
Storage and Auth through singleton accessors, and the documents are all that
devices share. What orders, repeats, delays and loses those calls is the Firestore
SDK, whose C++ core is vendored in the repository
(`src/iOSApp/Pods/FirebaseFirestore/Firestore/core/src`). The repository's tests are
Xcode's empty templates.

This directory models the application, and the two paths of the SDK it stands on,
where several calls are under way together; checks them with TLC and proves the
most important properties with TLAPS. Paths below are relative to
`src/iOSApp/FreeTalk`, or to the SDK's `core/src` when they end in `.cc` or `.h`.

## The system

| Component | State | Operations | Talks to |
|---|---|---|---|
| Chat room (`Controllers/ChatRoomViewController.swift`) | `messages`, its listener | open, send, changes of the listener | `MessageAccessor`, `ChatRoomAccessor` |
| Chat list (`Controllers/ChatListViewController.swift`) | `chatRooms`, `currentUser`, prompt | rooms listener, fetch of partner and message, sort, logout | `ChatRoomAccessor`, `UserAccessor`, `MessageAccessor` |
| User list (`Controllers/UserListViewController.swift`) | `showAllUsers`, `users` | users listener with a rooms listener nested in its callback, search | `UserAccessor`, `ChatRoomAccessor` |
| User detail (`Controllers/UserDetailViewController.swift`) | the partner | `chatStart` creates a room | `ChatRoomAccessor` |
| Sign-up (`Controllers/SignUpViewController.swift`) | text fields, HUD | default image, Auth account, user document | `ProfileImageAccessor`, Auth, `UserAccessor` |
| Sign-up detail and account setting (`SignUpDetailViewController`, `AccountSettingViewController`) | `isUserIdUnique`, check button, fields, picture, HUD | check an ID, register, update, upload | `UserAccessor`, `ProfileImageAccessor` |
| Login (`Controllers/LoginViewController.swift`) | fields, HUD | sign in, reload the chat list | Auth |
| Accessors (`Firestore/`) | listener handles, `currentUid`, `currentUser` | one Firestore call each, issued from a block on `DispatchQueue.global` | Firestore, Storage |
| Models (`Models/`) | value types | defaults of missing fields, membership, `chatListdateReturn` | |
| SDK write path (`core/sync_engine.cc`, `local/local_store.cc`, `local/leveldb_mutation_queue.cc`, `remote/remote_store.cc`, `remote/stream.cc`) | mutation queues on disk, completion blocks, write pipeline, write stream | write, change of user, token, handshake, result, error, idle stop, restart | the backend over gRPC, Auth |
| SDK read path (`core/event_manager.cc`, `core/query_listener.cc`, `remote/remote_event.cc`, `remote/online_state_tracker.cc`) | listeners, views, online state, watch stream, targets | listen, get, remove, watch messages, timeouts, restart | the backend over gRPC |

Nothing in the application locks anything. The interactions are: user taps on the
main thread; blocks on a concurrent global queue that call the SDK; completion
blocks and listener callbacks back on the main thread; and the Firestore documents,
written by every device. The SDK runs its core on one serial worker queue and talks
to a backend that answers on streams. What makes this hard:

- two calls issued in one order can complete in another (`DispatchQueue.global`,
  independent fetches);
- a completion runs long after the tap that caused it, on state that has changed,
  or for a user who has logged out;
- the SDK keeps unsent writes on disk and shows them to local listeners before the
  server has them, but forgets their completion blocks when the app is killed;
- a stream can break after the server has acted and before the client knows, so
  writes are sent again and answers to earlier questions arrive late;
- a call that fails is reported once or not at all, and never repeated by the app;
- check-then-act across the network without a transaction.

### What makes each component correct

- Chat room: the room never names a message that cannot be fetched; the latest
  message is the newest; each message is shown once, in the same order everywhere;
  no message disappears.
- Chat list: one row per room with its last reported version, newest first; a
  change of one room does not disturb another; no index out of range.
- User ID: no two users have the same ID; only a checked ID is registered.
- User list: each user without a room is listed once; search shows a subset of it.
- Session: nothing of the previous user is shown after a logout, and the lists
  listen for the user signed in.
- Account: a user's form and picture go to that user's document only; a picked
  picture is saved; a HUD that is shown is hidden again.
- SDK write path: a user's writes reach the server in order, each is answered once
  and truthfully, across breaks, kills and changes of the user.
- SDK read path: nothing stale is called synced, every get is answered once, every
  listener catches up.

## Modules

| Module | Models | Proved in |
|---|---|---|
| `MessageLog` | abstract: what the server side of a room promises | |
| `ChatRoomSend` | chat room, message and room accessors, mutation queue and server | `ChatRoomSendProofs` |
| `ChatList` | chat list of one signed-in user, rooms changed by both members | `ChatListProofs` |
| `UserList` | user list of one signed-in user: users listener, nested rooms listeners, search | `UserListProofs` |
| `RemoveLoop` | the removal loop by index that `ChatList` and `UserList` share | `ChatListProofs`, `UserListProofs` |
| `UserIdCheck` | user ID on the sign-up and account screens of several users | `UserIdCheckProofs` |
| `Session` | sign-up, login and logout against the two lists and the accessors | `SessionProofs` |
| `Account` | the account screen, its uploads, writes and HUD, across logins | `AccountProofs` |
| `WriteQueue` | abstract: what a write promises the app | |
| `WritePipeline` | the SDK's write path in one process and across kills | `WritePipelineProofs` |
| `WatchListen` | the SDK's read path in one process | `WatchListenProofs` |
| `MC...` | constants of the TLC runs | |

How they fit together: `ChatRoomSend` takes the mutation queue of a device as a
FIFO whose oldest writes the server applies, once or again; `WritePipeline` is
what makes that true, and its refinement of `WriteQueue` is the promise
`ChatRoomSend` uses (order kept, blocks lost only by a kill, a write possibly
applied again after a reconnection). `ChatList`, `UserList` and `Session` take
listeners that report the latest state and gets that are answered once;
`WatchListen` is what makes that true (`CatchesUp`, `AnsweredOnce`,
`GetIsAnswered`, and that a get may be answered from the cache when offline, as
`UserIdCheck` uses it). `ChatList` and `UserList` look at one signed-in user;
`Session` looks at several and abstracts the lists to who is listed for whom.

Operators whose comment calls them a mutant change one definition the way a
plausible slip would; `PROJECT.json` says which property each of them breaks.
Nothing else uses them.

### ChatRoomSend

A device has `blocks` (the global queue), `writes` (the SDK's FIFO mutation queue,
each write with a flag for its completion block), `applied` (how many of its writes
the server has applied without the device knowing), a `screen` with its listener,
`messages` as displayed and `seen`, the documents of the listener's last snapshot.
The server has `stored` and `latestMessageId`.

| Action | Code |
|---|---|
| `TapSend` | `addMessageToFirestore` up to the call of `setMessage` (152-176) |
| `RunBlock` | the block of `setMessage` or `setLatestMessage` hands the write to the SDK |
| `ApplyMessage`, `ApplyLatest` | the server stores the message, or points the room at it: the last write wins |
| `Acknowledge` | the device learns of its oldest write; the completion calls `setLatestMessage` (176-186) |
| `Reconnect` | the connection is lost with acknowledgements on it; the writes are applied again |
| `RejectWrite` | the server refuses the oldest write: the early returns at 177 and 187 |
| `Kill` | blocks, completion blocks and acknowledgements are lost, mutations stay |
| `OpenRoom`, `CloseRoom` | `didSelectRowAt` of the list; release of the controller |
| `DeliverAdded`, `DeliverRemoved`, `ListenerFails` | the three cases of `fetchMassages` (110-141) |

A write applied a second time stores the message it has stored, or points the room
back at an older message: the second is why `LogSpec` allows `Point` at any stored
message. A write can be refused only when those before it are acknowledged. A
snapshot of several changes is several delivery steps. Message ids (20 random
characters) never repeat. Swift's sort is taken to be stable, as it is in the
shipped library.

`sentAt` (the order of taps) and `disturbed` (the gravest of what happened to the
sends: they overlapped, a write was refused, an app was killed) are history: no
action reads them, except that `createdAt` is the tap's place plus the device's clock
`Skew`. So two messages of devices whose clocks differ can have the same `createdAt`.
`Sends` says which of the messages each device's member may send.

### ChatList

Room versions are the times of server writes. `seen` is what the listener has
reported, `tasks` the changes whose fetches are under way (`step` tells which of
the two fetches), `chatRooms` the array. `Snapshot(S)` reports any subset of the
changed rooms, so versions are skipped and snapshots lag; `UserFetchedEmpty`,
`UserFetched` and `MessageFetched` are the completions, in any order;
`RemovedByPartner` is the loop that calls `remove(at:)` with indices of the array
before the loop (`RemovedEach` of `RemoveLoop`), and `trapped` records that it ran
out of range, which ends the app. `Relaunch` starts it again. `raced` and `lost` are
history. A cached answer to one of the fetches is a success (messages never change)
or an error; a snapshot from the cache is one taken earlier. A `setLatestMessage`
that the server refuses after the local listener has shown it is left out here; it
is in `ChatRoomSend`.

The code relies on two things it does not check: a partner has one room, and the
fetches of one partner's rooms do not overlap. `Orderly` names them. The passing
run shows what follows from them; `OtherRowsStay` shows what happens without.

### UserList

`showAllUsers` is the array that listeners edit, `users` the array behind the table.
`userListeners` and `roomListeners` are bags: the screen can register any number of
either. A listener is known by `seen`, the documents of its last snapshot;
`userRegs` and `roomRegs` count the blocks on the global queue that will register
one.

| Action | Code |
|---|---|
| `SignUp`, `EditProfile`, `WriteRoom` | writes of this and other devices to the users collection and to rooms with `Me` |
| `Appear` | `viewWillAppear` and `reloadUserList` when the handle is nil (43-69) |
| `RegisterUsers`, `RegisterRooms` | the blocks of the two accessors; the first sets the handle |
| `UsersSnapshot` | the users callback (67-108): each change removes and appends, the array is sorted, a rooms listener is asked for |
| `RoomsSnapshot` | the rooms callback (108-134): partners are taken out, the table is filled |
| `UsersFail`, `RoomsFail` | the failure cases; Firestore ends the listener |
| `Search` | `textDidChange` |

A snapshot brings the server's documents as they are; one that lags is one taken
before the next write. Its changes are worked off in any order (`Orders`): the SDK
sorts them by type and then by document (`view.cc` 264-275), and the names of the
documents are not modelled, so the orders taken include the SDK's. `Edited` is the
callback's loop over them, with the removal loop of `RemoveLoop` inside (`Without`);
`Sorted` is the stable sort and `Found` the search. `createdAt` is taken to be the time of the sign-up, whatever
the device's clock says. A text of the search bar is the set of users it matches
(all, or one). `failed` is history. The logout, which resets the handles, is in
`Session`: here a second registration comes only from an appearance before the
first block has run.

### UserIdCheck

Each user has the text `field`, the flag `isUserIdUnique`, the `checkButton`, the
`alert` on screen, and calls under way: `checks`, `writes`, `reads`. A check is
answered by the server (`AnswerFree`, `AnswerTaken`) or, offline, from the local
cache (`AnswerFromCache`: `getDocuments` with the default source); its completion
runs later (`CheckFree`, `CheckTaken`) and does not look at the field. An alert is
not presented while another one is up, and then its handler does not run
(`Presented`). `granted`, `guessed`, `blind` and `late` are history: who was told
that an ID is free, which IDs a cache called free while in use, which were
registered without an answer, and whether an approval or a refreshed field met a
text it is not about. Setting a text field from code may or may not call
`textFieldDidChangeSelection`; both are allowed. The account screen's other fields,
its picture and its HUD are in `Account`.

| Action | Code |
|---|---|
| `Edit`, `TapOK` | the text field; the OK button of an alert |
| `TapCheckEmpty`, `TapCheckOwn`, `TapCheck` | the check button: nothing to check, the user's own ID, a query |
| `AnswerFree`, `AnswerTaken`, `AnswerFromCache`, `CheckFree`, `CheckTaken` | its answer and its completion |
| `TapRegister`, `TapRegisterUnchecked` | the register button of the sign-up and the update button of the account screen with an ID, checked or not |
| `TapRegisterOthers`, `TapRegisterNothing`, `TapLaterNo`, `TapSkip` | registering without an ID: a picture or an introduction is written, which can fail; with nothing at all the user is asked whether to do it later; yes, or the skip button, ends the sign-up (`GoChatListView`) |
| `TapUpdateOthers`, `TapUpdateNoName` | updating without a new ID; the alert on an empty user name |
| `Commit`, `WriteFails`, `UploadFails` | the ends of these writes |
| `ReadAnswered`, `ReadDone` | the account screen reads the user again |

### Session

`auth` is Auth's user. `currentUid`, `cached` (both of `UserAccessor`) and `listUser`
(of the chat list) are copies of it that the code keeps and does not always renew.
`lookups` are `setCurrentUser` calls, `queue` the `addSnapshotListener` blocks on the
global queue, `listeners` what is registered, `handle` the one registration that each
accessor property remembers, `fetches` and `rows` the chat list's. `table` says for
whom the user list was edited since it was last emptied.

| Action | Code |
|---|---|
| `CreateAccount`, `UserWritten`, `UserRefused`, `GoToList` | `createUserToFirestore` and its completion; `goChatListView` |
| `SignIn` | `tappedLoginButton`, then `reloaChatListViewController` (`Reload`) |
| `SignOut` | `tappedLogoutButton` (221-239): removes the listeners with known handles and clears the rows |
| `LookupSucceeds`, `LookupFails`, `LookupMissing` | the three ways of `setCurrentUser` (27-58): new user, the cached user, never |
| `Register`, `ListenerFails` | the accessors' blocks; a listener that ends |
| `RoomChanged`, `Fetched`, `FetchFails` | `handleAddedDocumentChange`: its guards (96-108), its last fetch |
| `UsersChanged`, `RoomsChanged` | the callbacks of the user list; a users snapshot edits the list and registers a nested rooms listener, whose snapshots edit it again |
| `AppearList`, `AppearUsers` | the two `viewWillAppear`; the second reloads the user list (`ReloadUsers`) as long as no handle is known, so twice when it appears again before the first block has run |

Each initial state is also the state of a relaunched process: any accounts, any of
them without a document, and whoever Auth remembers. A relaunch during a session
loses everything outstanding and is one of them. Each reload and each users snapshot
registers a listener of its own (`nth`). `late` records which kinds of call were
outstanding at some logout, `doubled` which kinds of listener were registered beside
another of their kind, `trouble` which lookups or listeners failed; the properties
name them as the only exceptions. A room is created from the list of users, so it
exists only once its members have accounts, and not while one of them still signs up
(`Exists`). Bounds: one such failure (`CanFail`), `MaxSession` sign-ins, `MaxReload`
reloads of the user list, `MaxSnapshot` users snapshots.

### Account

The account screen is one controller for the life of the process. `formUser` is
whose texts it shows, `image` whose picture, `modified` the flag
`modifeldProfileImage`; `hud` is PKHUD's one HUD, which takes all touches. `lookups`
and `loads` are under way, `upload` carries the data its update will write, `writes`
are the `setUserData` calls. `profile` and `picture` say whose texts and picture each
document has; a user's text and picture stand for that user.

| Action | Code |
|---|---|
| `AppearScreen`, `LeaveScreen` | `viewWillAppear` (89-99): another user than the cached one is looked up under the HUD |
| `LookupSucceeds`, `LookupFails`, `LookupMissing` | `setCurrentUser`; its completion fills the form (`currentUser.didSet`, 34-58) |
| `ImageLoaded`, `ImageFails` | the image load in `didSet`: both hide the HUD, the first clears the flag |
| `PickImage` | the image picker |
| `TapUpdate`, `TapUpload`, `UploadEnds` | `tappedAccountUpdate` without and with a picture (209-301) |
| `WriteSucceeds`, `WriteFails` | `updateUserToFirestore`: texts and picture to the document of `currentUid` |
| `SignIn`, `SignOut` | login and logout, which leave the screen as it is |

`trouble` is history: `late` (a lookup outstanding at a logout), `early` (the screen
opened before the session's lookup was answered), `lookup`, `image`, `overtaken` (a
picture picked while something would overwrite it), `upload` (the picture was not
uploaded, 287-301) and `uncovered` (the HUD hidden over something else). `unsaved`
records a picture picked, until it is uploaded and the write that names it is made.

### WriteQueue and WritePipeline

`WriteQueue` is the promise: a user's writes leave the local queue in the order in
which they entered it, each is answered at most once, and truthfully; a write is
first committed after those ahead of it. It does not promise that a write is
committed once, and a write refused in one stream may still be committed by a copy
sent on an earlier one.

`WritePipeline` has the app's side (`auth`, `tasks` on the worker queue), the disk
(`queue` per user, `nextId`), the memory of the process (`callbacks`, `pipeline`,
`stream`, `handshake`, `idle`, `closeCount`), the network (`toServer`, `toClient`,
`token`), and the backend (`abandoned`, `committed`, `refused`).

| Action | Code |
|---|---|
| `IssueWrite`, `ChangeCredential`, `TokenGranted`, `TokenFails` | enqueue a task each: `WriteMutations`, the Auth notification, `GetToken` |
| `RunTask` | the worker queue runs `HandleWrite`, `HandleCredentialChange` or `HandleToken` |
| `BackoffElapses`, `IdleElapses` | the two timers of `Stream` |
| `ReadHello`, `ReadResult`, `ReadStatus` | `OnWriteStreamHandshakeComplete`, `OnWriteStreamMutationResult`, `OnWriteStreamClose` (`CloseWithError`) |
| `ConnectivityChanges` | `RestartNetwork` on a change of connectivity or a return to the foreground |
| `Kill` | the process ends and `FirestoreClient::Initialize` runs in the next one |
| `AcceptHandshake`, `Commit`, `Refuse`, `RefuseHandshake`, `Break`, `CommitLate` | the backend and the network |

`FillWritePipeline` (`Refill`, `Start`, `Timer`) is the tail of most handlers and part
of each of their actions. What is abstracted: `Healthy` counts as `Open` (it differs in
resetting the backoff's delay); the stream token that each result carries (the
handshake does not send it, `remote/write_stream.cc` 81, so a new stream has nothing
to recognise repeated writes by); the size of a delay; AppCheck
completes at once with an empty token. A permanent status comes in response to a
request; every other end of a stream, `ABORTED` included, is transient. A request of
a stream that has ended may be applied late, in the order of its stream
(`abandoned`). `owner` and `alive` are history.

### WatchListen

One get or listener per element of `Listener`; `Once` are the gets. A query's result
is the version at which it last changed, 0 while it is empty. `view` is the view of
each query with a listener, and its domain is `listen_targets_`; `attached` and
`raised` are EventManager's and QueryListener's; `online`, `timer` and `failed` are
`OnlineStateTracker`'s; `outstanding`, `pending`, `marked` and `updates` are
`WatchChangeAggregator`'s.

| Action | Code |
|---|---|
| `Listens`, `Removes` | the app's calls, which enqueue a task; a removal mutes at once |
| `RunTask` | `Add` (EventManager, SyncEngine, RemoteStore::Listen) or `Detach` (the reverse) |
| `RunEvent` | the main queue calls the app's block; a get first removes its listener |
| `TimerFires`, `BackoffElapses`, `IdleElapses` | the tracker's clock and the stream's timers |
| `StreamOpens`, `FailsSilent`, `FailsLive`, `RestartNetwork` | `OnWatchStreamOpen`, `OnWatchStreamClose`, `RestartNetwork` |
| `Read` | `OnWatchStreamChange`: a response, a document, "current" or a snapshot |
| `Change`, `Serve...` | other clients and the backend |

Assumed of the backend: it answers requests in order, sends a document only for
targets it holds, and marks a global snapshot only when all targets of the stream
are current. The resume token of a request is the cached version. Left out: limbo
resolution (documents do not leave a result), refused listens, existence filters and
the target reset they cause, and this device's unsent writes on top of the view
(`ChatRoomSend` has those). The cache is one for all users, as documents are. Streams
fail and networks restart without limit; the bound `MaxInbox` is on the calls of the
app's blocks that wait on the main queue when a live stream ends (`FewWait`).
`since` and `floor` are history: how new the result was when a view was created and
when a listener was attached to it; `left` records that the last listener left a
stream that was not open.

## Runs

| Run | Bounds | What it shows |
|---|---|---|
| `ChatRoomSend_safety` | 2 devices, one sends two messages and the other one, 2 sends at a time, the clock of the other one tap ahead, 1 write applied ahead, symmetric in the two | the room names only stored messages (`LatestIsStored`); `ShownIsExplained`, `ShownOnce`, `ScreensAgreeUnlessTied`; the newest message is named when nothing overlaps, is refused or is killed (`LatestIsNewestIfUndisturbed`); `LogSpec`: implements `MessageLog` |
| `ChatRoomSend_liveness` | 2 devices, one of them sends, 2 messages, one clock ahead, `FairSpec` | `StoredIsShown`, `TapIsSettled`, `StoredIsPointed` |
| `ChatRoomSend_latest` | 2 devices, 2 messages | violated: `LatestIsNewest` |
| `ChatList_rows` | 2 rooms of 2 partners, 4 writes, 2 launches, `FairSpec` | `ListIsSound`, `SettledRoomHasItsRow`, `CrashOnlyAfterRace`, `ListedStaysListed`; `ReportedIsListed`, `WrittenIsListed` |
| `ChatList_other_row` | 2 rooms of 1 partner, 4 writes, 1 launch | violated: `OtherRowsStay` |
| `UserList_table` | 3 users, 3 writes, 2 appearances, 1 failed listener | `TableIsSound`, `CrashOnlyIfRegisteredTwice`, `SettledTableIsRight` |
| `UserIdCheck_ids` | a newcomer and a member, 2 IDs, 1 call per user | `SharedOnlyIfGrantedTwice`, `BlindOnlyIfLate` |
| `Session_safety` | 2 users, a room of one of them with somebody else, 2 sign-ins, 2 reloads of the user list, 2 users snapshots, 1 failure | `RowsAreMine`, `UserListIsMine`, `ListensForMe`, `OnlyLateOrDoubledOutlive` |
| `Account_safety` | 2 users, 2 sign-ins, 2 taps on the update button, any failures, symmetric | `DocumentsAreOwn`, `PictureIsOwn`, `PickedStays`, `HudIsOwed` |
| `WritePipeline_safety` | 2 users, 3 writes, a pipeline of 2, 1 fault, 2 user changes, symmetric | `PipelineIsSound`, `AnswersAreTrue`, `BlockIsOwed`, `SentAsOwner`; `KeepsPromise`: implements `WriteQueue` |
| `WritePipeline_liveness` | 2 users, 2 writes, a pipeline of 1, 1 fault, 2 user changes, `FairSpec` | `QueuedIsSettled` |
| `WatchListen_listen` | a listener and a get of one query, 1 change, any failures of streams and restarts of the network, 1 call waiting on the main queue when a live stream ends, `FairSpec` | `StreamIsSound`, `SyncedIsFresh`, `UnknownIsTimed`; `AnsweredOnce`; `GetIsAnswered`, `CatchesUp` |

Some invariants are conjunctions of named parts that one run checks together, the
type invariant among them: `ListIsSound`
(`NewestFirst`, `RowsWereReported`, `PromptOnlyWhenEmpty`), `TableIsSound`
(`ListedOnce`, `NewestFirst`), `RowsAreMine`, `DocumentsAreOwn` (`ProfileIsOwn`), `PipelineIsSound` (`PipelineIsFront`,
`ResultsLineUp`, `AssertionsHold`), `StreamIsSound` (`ResponsesAreCounted`,
`AssertionsHold`). `AssertionsHold` says that the `HARD_ASSERT`s of the modelled SDK
functions hold, each named with its line. The types of all modules
are proved.

Why the bounds are enough: three messages, two of them under way at a time, give two
senders, an overlap and a third send after it; two devices give a sender and a
reader, and two senders; a clock that is one tap ahead gives messages of equal
`createdAt` and one that sorts before an older one. Two rooms
are enough for one to disturb the other, and four writes for two overlapping changes
of a listed room, a doubled row and the crash of the next removal loop. In
`UserList` two other users are needed for an order and for a wrong row to be removed;
three writes for a sign-up, a room and an edit after it. Two users and two IDs give
an ID wanted by both and an ID edited away; with one call per user an answer can
still be late, because the text changes while the call is under way; a refresh of the
account screen (`AccountSettingViewController.swift` 282) that overtakes a second
check takes two calls, and is in the proofs only. In `Session`
and `Account` two sign-ins are a user and the next one, and every late call of the
first falls into the session of the second; the room is the first user's with
somebody who never signs in here, so that a row of it is foreign to the second. Two
reloads are two appearances before the first block has run, or one of each user. In `WritePipeline` a pipeline of two with three
writes has a batch answered, one on its way and one waiting outside; two user changes
are away and back; one fault, of any kind at any time, falls together with them. In
`WatchListen` what is delicate happens to one target: a get that joins or takes over
a listener's view, or watches again what was just left; what waits on the main queue
only delays what the app is told. A second query made the
instance too large for a run and added nothing that the one target does not have,
except that a stream stays up for it.

The deadlock check is on for `ChatRoomSend` and `UserIdCheck`. It is off where the
system really stops: `ChatList` and `UserList` when the app has crashed and the write
and launch bounds are used up, `Session` and `Account` at the bounds on sign-ins,
`WritePipeline` and `WatchListen` when nothing is left to write or to read.

**Fairness.** `ChatRoomSend`: the queue runs each block (libdispatch runs what is
submitted), an online device gets the oldest write applied, not every connection is
lost before its acknowledgement (strong fairness: `Reconnect` may happen again and
again), and the listener delivers each document. `ChatList`: the listener reports
what changed, and the fetches of each room are answered one after the other, in any
order and possibly with an error. `WritePipeline`: the worker queue runs, tokens
arrive, the backoff timer fires, an open stream makes progress in both directions.
`WatchListen`: queues run, timers fire, tokens arrive, what was sent is read, and a
stream on which the backend sends nothing fails in the end (gRPC's keepalive,
`remote/grpc_connection.cc` 300-310). That is why `GetIsAnswered` needs no working
network. It has one exception, which it states: streams that come alive and end
again for ever. The online state goes back to Unknown each time, with its count of
failures at zero (`online_state_tracker.cc` 82-90, `remote_store.cc` 264-286), so
neither a snapshot nor the timer has to come; TLC shows such a behaviour when the
exception is dropped. Users, failures, kills, idle stops and relaunches
owe nothing. The others are checked for safety only; `SettledTableIsRight` and
`ListensForMe` say what has been reached when the queues are empty.

### What the code does not keep

Two runs end in a violation of what a comment of the code says:

- `LatestIsNewest` (`Models/ChatRoom.swift:44`): of two overlapping sends, the
  older one's pointer can be written last; the list then shows and sorts by the
  older message.
- `OtherRowsStay` (`ChatListViewController.swift:165`): the removal loop removes by
  partner, so a row of another room with the same partner disappears.

The passing properties name their exceptions, and each exception is something the
code lets happen:

- `Orderly` in `ChatList`: completions are not compared by version, so when two
  changes of a room overlap the old row can stay, and once a room has two rows the
  loop's stale indices can remove another partner's row or end the app.
- `SettledTableIsRight`: before the nested rooms listener has answered, a change of a
  partner's profile or a search offers a partner with whom a room exists.
- `SharedOnlyIfGrantedTwice`: two users check before either registers, or one checks
  offline: both are told that the ID is free (`SignUpDetailViewController.swift:125`).
- `ScreensAgreeUnlessTied`: messages of equal `createdAt` stay in the order in which
  they arrived on a screen, their sender's own first (`ChatRoomViewController.swift`
  123-129), so two screens can show them in different orders.
- `BlindOnlyIfLate`: a late answer approves another text than the one it is about.
- `RowsAreMine`: a fetch in flight at a logout lists a room of the previous user.
- `ListensForMe`: after a failed lookup the list listens for the previous user; for
  an account without a document it does not listen at all. Both are exempted, so
  this property names the two cases and does not catch them.
- `OnlyLateOrDoubledOutlive`: what outlives a logout is a registration that was still
  on the global queue, and the listener whose handle another of its kind has
  replaced. The comment at `UserListViewController.swift:46` says that the listener
  is deleted at a logout: the one of a second reload before the first block has run
  (47), and every nested rooms listener but the last (108), are not.
- `UserListIsMine`: those listeners go on editing the table of the next user.
- `ProfileIsOwn`, `PictureIsOwn`: a form that was not refreshed for the user signed in
  is saved to that user's document; so is the picture of the user before when the
  user's own cannot be loaded.
- `PickedStays`: an image that arrives after a picture was picked replaces it; so does
  the image of the next lookup after a failed upload, which hides the HUD and leaves
  the picture on the screen, picked and not saved.
- `HudIsOwed`: after a lookup that failed or found no document nothing hides the HUD;
  the property exempts it.
- `GetIsAnswered`: a network that flaps for ever (above).
- `UnknownIsTimed` (`online_state_tracker.cc:47`, "We have a timeout for OnlineState
  to reach Online or Offline"): not when the last listener left before the stream was
  open, which stops the clock (`remote_store.cc` 187), and a new one found the stream
  started (160-167). The new one then waits for the stream to fail.

## Proofs

Proved for every set of devices, messages, users, IDs, rooms, queries and listeners,
every clock skew, every size of the pipeline and every number of calls, faults and
sign-ins, from the named assumptions of the modules only. Those are: the empty id is
no message and no user ID, and the markers (no user, no view, the default picture,
the hello message) are none of the things they stand beside; clocks are ahead by a
natural number; the sets of messages, of queries and of users
on the user list are finite; bounds are natural
numbers, and positive where a bound of nothing would leave no room for the first
step; users start with different IDs; a room has one other member.

Each invariant below is proved from an inductive one, `IInv` in most modules, whose
parts were checked by TLC on the instance of the module's run before they were
proved. What follows says which parts, and why the property does not carry itself.

`ChatRoomSendProofs`

- `TypeCorrect`: `Spec => []TypeOK`. `InsertedType` bounds the insertion by the
  cardinality of a subset of the array's indices; `QueueType`, `UnappliedType` and
  `KilledQueue` handle the mutation queue.
- `LatestAlwaysStored`: `LatestIsStored` is not inductive, as a pointer may be on
  its way, and a message acknowledged only after it was applied. `LatestInv` adds
  `PendingLatestIsStored` (pointers in blocks and in mutation queues name stored
  messages) and `AppliedIsStored` (the messages among the writes that the server has
  applied are stored). A pointer enters only by `Acknowledge`, whose message is the
  head of the applied writes (`AppliedHead`); `AppliedStep` carries the second part
  through queue operations; `stored` never shrinks.
- `ImplementsMessageLog`: `Spec => LogSpec` by step simulation; `ApplyMessage` is
  `Publish`, or a stutter when the message is applied again; `ApplyLatest` is `Point`
  by `LatestInv`; every other action stutters.
- `ShownAlwaysExplained`: every way out of a mutation queue leads into `stored` (by
  `AppliedIsStored`) or `rejected`.
- `NothingShownTwice`, `ScreensAgreeButForTies`: a change of the listener says nothing of
  what the screen has. `ScreenSound` ties the screen to what the listener has seen: a
  message shown and no longer seen is `Gone`, that is sent, not stored and in no
  device's hands; and `CarriedOnce` says that a `setMessage` is in one place at most,
  so what is gone never comes back to be shown again. `Sorted` and `Distinct`
  of `messages` are kept because what is not older than the inserted message is a
  front of the sorted array. Of two shared messages with different `createdAt` the
  order is then the same everywhere; of equal ones nothing is claimed.
- `LatestWhenUndisturbed`: `Lone`. While nothing overlapped, everything has settled
  on the newest message, or one device has the last message somewhere on its `Way`
  (block, queue, acknowledgement, pointer's block, pointer's queue) and nobody else
  has anything. `Counted` makes the last tap the newest: the order of taps counts
  the tapped messages.

`UserIdCheckProofs`

- `TypeCorrect`.
- `SharingNeedsTwoGrants`: `GrantInv`. Its core is
  `GrantMeetsOwner`: when the server grants an ID nobody else has it, so whoever
  has it later was granted it too, or registered it blindly; a cache's grant of an
  ID in use is exempt.
- `BlindNeedsLate`: `LateInv`. While nothing came late, a set flag is about the ID
  in the field, or about the user's own ID, which the account screen does not write
  and a new user does not have.

`SessionProofs`

- `RowsMine`: `FetchesAreMine` carries a row from the listener through its fetch.
  It needs `SigningUp` on top of the types: the screens behind the login have an
  account signed in, and the document being written is that account's. It was not
  inductive while a listener could report a room of an account that is still
  signing up; such a room does not exist, which is what `Exists` says.
- `OutlivingListeners`: `UsersAreMine`, `ChatListIsMine` and `RoomsAreMine` say for
  each kind that a session's blocks and listeners are one, with its handle kept,
  unless a block of that kind, or what it comes from, was late or was registered
  beside another. The list's is never doubled: it needs `LookupsAreMine`, as a
  lookup's completion registers it, and a session looks up once.
- `UserListMine`: `TableIsMine`: as long as no logout could miss a listener
  (`NoneMissed`), whoever edits the table is a listener of this session, by the
  invariants of `OutlivingListeners`, and the reload of the next session empties what
  the last one left.
- `Listening`: `WillListen`: from the lookup to the listener somebody is on the way.

`AccountProofs`

- `Documents`, `Pictures`, `Picked`, `Hud` have three scopes: `InOrder` (no lookup
  failed, came late or was overtaken), `Covered` (nor did the HUD go too early) and
  `Undisturbed` (nor did an image fail to load). In the first, `LookupsAreOwn`: all
  lookups are the session's and the screen has the user's form or a lookup to fill
  it. In the second, `FormIsOwn`: a form without the HUD over it is the user's, and
  an upload keeps the HUD there; `WritesAreOwn` carries it to the document. In the
  third, `ImageIsOwn` and `PicturesAreOwn` do the same for the picture.
- `PickIsAlone` strengthens `PickedStays`: nothing is outstanding over a picked
  picture that could replace it.

`WritePipelineProofs`

- `PipelineSound`: `PipelineIsFront` is kept by a result only if the result is about
  the first batch and the queue has no other copy of it. Hence `QueuesAscend` (ids
  ascend, and none is given out while a queue has it) and `ResultsAreOurs` (the k-th
  response is about the k-th batch, the requests are the batches after them), which
  holds only after the handshake; `HelloIsAlone` is its counterpart before it.
  `OneTokenAtATime` is the assertion that a token finds the stream starting.
- `AnswersTrue`: from `ResultsAreOurs`, with the server's side of it: a response
  "done" is about a committed write.
- `BlocksOwed`: a step that settles the front batch notifies its block (`Settles`);
  every other step leaves the blocks alone, but for a new write and a kill.
- `OwnersSent`: `SentAsOwner` needs to know which user each task on the worker queue
  will find: `TasksInOrder`, a sequence of users that the changes on the queue step
  through.
- `Refinement`: `Spec => KeepsPromise` by step simulation. `Commit` of the stream
  commits the first uncommitted write of its queue, by `ResultsAreOurs` and
  `PipelineIsFront`; `CommitLate` needs `LateInOrder`: a late write of an ended
  stream has been settled, or what is queued ahead of it is committed or ahead of it
  in that stream.

`WatchListenProofs`

- `StreamSound`: `ResponsesAreCounted` is inductive with the types once the requests
  and responses on the way are counted as sets of indices, whose cardinality a send,
  a reading and a response change by one. The assertions follow from `Paired` (the
  targets are the queries of the attached listeners), `Untold` and `Timed`.
- `Clock`: `Timed`, which relates the online state, the timer and the stream.
- `Fresh`: `SyncedIsFresh` says that a view marked current shows no less than the
  server had when the view was created, whatever was asked on the same target before.
  A view becomes current only at a snapshot with no response outstanding, hence
  (by the count) with no request of the target on the way. `Promised` is about that
  moment: once the requests are answered, the client `Knows` at each snapshot on the
  channel at least what the server had at the creation, from the cache, the updates
  of the target and the documents ahead of that snapshot; and the server holds no
  more than the client knows after the last message (`Ahead`). `Asked` ties the
  version that a request names to the cache, `Bounded` says that nothing is ahead of
  the server and that documents come in order.
- `Answered`: `AnsweredOnce`, an action property: a get that was answered is muted
  (`AnsweredMuted`), and a listener is added once and before it is told anything
  (`InTurn`).

`ChatListProofs`

- The removal loop: `UpTo` is induction over the turns of a loop, for a set of turns,
  from the well-foundedness of `<`. `LoopExists` and `LoopIs` say that the recursive
  function inside `RemovedEach` is defined and obeys its equation at each turn. By
  `LoopOutcome` an array is left that is made of rows of the old one, in their order,
  whatever the hits are and whether or not the loop trapped; by `OneHit` a loop with
  one hit removes exactly that row and does not trap. The loop is the filter it stands for when at most one index
  matches, and only then. `ListedIs` is the insertion.
- `ListStaysSound`: `NewestFirst` compares rows by `Date`, which reads `created`; a
  row's room was created before (`SeenIsPast`, through `RowsWereReported`), so a
  creation moves no row. `RowsWereReported` needs the same of the fetches
  (`TasksWereReported`), and `SeenIsPast` so that a report never goes back.
- `NoCrashWhenOrderly`, `SettledRoomIsListed`: `OneFetchOneRow` and `FetchedIsListed`,
  while changes are `Orderly`: a room has one fetch, for what was reported last, and
  one row; a fetch of an added room finds none. Each carries the other: one fetch
  keeps the row single, and a single row keeps the loop at one hit.
- `RowsAreKept`: the action property; the rows of other rooms survive the loop
  because a partner has one room (`ByOwnPartner`).

`UserListProofs`

- The loops: `RemovalRuns`, `EditRuns` and `SearchRuns` give a run of the recursive
  functions inside `RemovedEach`, `Edited` and `Found` (from `LoopExists`), and
  `UpTo` is the induction over its turns. What they do to an array is said by the
  rows it `Has` and by `InOrder`: removing keeps the order and adds nothing whatever
  the hits are (`RemovalKeepsOrder`, `EditKeepsOrder`); where users have one row each
  a callback replaces exactly the users that changed, in any order of the changes,
  and does not trap (`OneEdit`). `SortedIs`: the places of the rows are a permutation,
  by a count of those in front, and the sorted array has the same rows, in order.
  `FoundIs` is the search. Bags: `RegisteredIs`, `EndedIs`, `OneInBag`.
- `TableStaysSound`: the table's order needs `ArraysInOrder` (both arrays, since each
  can be copied to the other's place) and `HaveJoined`, that a row's user has signed
  up, so that a sign-up moves no row; it needs nothing of how often the screen
  appeared. The types need that there are no more registrations than appearances.
- `NoCrashWhenRegisteredOnce` and the single rows (`ListedOnce`): `RowsOnce`. A second
  row could only come from an added user who has one already. `OneListener` says that
  one appearance leads to one users listener, and `RowsWereReported` that its last
  snapshot names every row, so a user it has not seen has none. The loop then meets
  one row at most, and stays in the array.
- `SettledIsRight`: `ReportedIsListed` (whoever the users listener has reported is in
  the array, except partners), `RoomsFollow` (a listed partner has a rooms listener,
  registered or to come, that has yet to report the room; a first one exists as soon
  as there are rows) and `TableFollows` (the table shows the search of the array, or
  a rooms listener's first snapshot is to come). A rooms write leaves no gap, as its
  time is later than what any listener has seen (`SeenIsPast`).

Only model-checked: everything about liveness,
which is out of this prover's reach: `StoredIsShown`, `TapIsSettled`, `StoredIsPointed`,
`ReportedIsListed` and `WrittenIsListed` of `ChatList`, `QueuedIsSettled`, `GetIsAnswered`, `CatchesUp`.

## Plan

Done: chat room with its abstract log and proofs; chat list with proofs; user ID check with
proofs; user list with proofs; session with proofs; account with proofs; the SDK's
write path with its promise, proofs and refinement; the SDK's read path with proofs.
Every safety property that a passing run checks is stated by a theorem. What is left
are the parts that `PROJECT.json` lists as partly modelled, each with what is missing
in its note.

## Not modelled

- Layout, keyboard, cell display and image caching: no state of their own beyond
  UIKit's and Nuke's. The application and scene delegates are templates.
- The date label of a chat row (`ChatListViewController.swift` 300-340): formatting
  through Foundation's calendars, locale and time zones, a pure function without
  state; a model would restate Foundation.
- The default image and the HUD of the sign-up screen: until the account exists a
  failure leaves nothing behind, and each failure branch hides the HUD. That the
  upload failure on the sign-up detail screen leaves its HUD up
  (`SignUpDetailViewController.swift:149`) is plain from the branch.
- The parts of the SDK that the app does not call (transactions, bundles,
  multi-tab persistence, `disableNetwork`) or that the read path leaves out (above).
- The other vendored pods under `src/iOSApp/Pods`: gRPC, BoringSSL, abseil, leveldb
  and the rest are several hundred thousand lines of C and C++ of general-purpose
  libraries, against 2,800 lines of application. The models take from them a stream
  that delivers in order until it breaks, a store that keeps what was written and a
  token of the current user.
