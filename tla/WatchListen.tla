----------------------------- MODULE WatchListen -----------------------------
(* The read path of the Firestore SDK in one process: getDocument(s) and     *)
(* addSnapshotListener attach listeners to the view of a query, RemoteStore  *)
(* keeps the watch stream and counts the responses it still owes a target,   *)
(* OnlineStateTracker decides when to give up and answer from the cache.     *)
(* A query's result is known by the version at which it last changed, 0 when *)
(* it is empty.  Documents do not leave a result, so that nothing is in      *)
(* limbo, and listens are not refused.                                       *)
EXTENDS Integers, Sequences, FiniteSets, SequencesExt

CONSTANTS Query,
          Listener,   \* the calls of the app that listen, each made once
          Once,       \* those of them that are getDocument or getDocuments
          QueryOf,    \* the query of each
          Silent,     \* in place of an event: none yet
          NoView,     \* in place of a view or a target: none
          MaxVersion, \* bound: changes of results on the server
          MaxInbox    \* bound: events on the main queue when a live stream ends

ASSUME OnceAssumption == Once \subseteq Listener
ASSUME QueryOfAssumption == QueryOf \in [Listener -> Query]
ASSUME QueryAssumption == IsFiniteSet(Query)
ASSUME MaxVersionAssumption == MaxVersion \in Nat \ {0}

VARIABLES
  result,      \* server: the version of each query's result
  tasks,       \* the worker queue: listeners to add and to remove
  muted,       \* listeners whose events are dropped
  inbox,       \* per listener: the events on the main queue
  told,        \* per listener: the last event the app was told
  attached,    \* the listeners EventManager knows
  raised,      \* those whose initial event has been raised
  view,        \* per query: the view; listen_targets_ are the queries with one
  cache,       \* the version of each query's result in the local store
  online,      \* OnlineStateTracker::state_
  timer,       \* online_state_timer_ runs
  failed,      \* watch_stream_failures_ is not 0
  stream,      \* Stream::state_, Healthy counted as Open
  idle,        \* the idleness timer runs
  outstanding, \* per target: outstanding_responses_
  pending,     \* per target: has_pending_changes_
  marked,      \* per target: current_ of its TargetState
  updates,     \* pending_document_updates_: per query a version, or 0
  toServer, toClient,
  held,        \* server: the targets of the stream, and what they were sent
  dirty,       \* server: something was sent since the last snapshot
  since,       \* history: result when the query's view was created
  floor,       \* history: since of its view when a listener was attached
  left         \* history: before this stream was open its last listener left

app == <<muted, inbox, told>>
views == <<attached, raised, view, cache, since, floor>>
tracker == <<online, timer, failed>>
aggregator == <<outstanding, pending, marked, updates>>
channel == <<toServer, toClient>>
backend == <<held, dirty>>
vars == <<result, tasks, app, views, tracker, stream, idle, aggregator, channel,
          backend, left>>

Version == 0 .. MaxVersion
View == [doc : Version, current : BOOLEAN]
ASSUME NoViewAssumption == NoView \notin Version \cup View
Event == [doc : Version, fromCache : BOOLEAN]
Task == [l : Listener, add : BOOLEAN]
Request == [q : Query, known : Version \cup {NoView}]
Message == [kind : {"added", "removed", "current"}, q : Query]
           \cup [kind : {"doc"}, q : Query, v : Version] \cup [kind : {"snapshot"}]

Targets == {q \in Query : view[q] # NoView}
Started == stream \in {"Starting", "Backoff", "Open"}
Zero == [q \in Query |-> 0]
None == [q \in Query |-> FALSE]

(* Mutant of RaisesFirst: being offline is no reason to answer.              *)
RaisesFirstSynced(l, v, o) == v.current \/ (l \notin Once /\ v.doc > 0)

(* ShouldRaiseInitialEvent: a get waits for the server unless offline, a     *)
(* listener only with an empty result.                                       *)
RaisesFirst(l, v, o) ==
  v.current \/ o = "Offline" \/ (l \notin Once /\ v.doc > 0)

(* Mutant of Raises: after the first event only a change of the sync state   *)
(* is told.                                                                  *)
RaisesOnSync(l, old, new, o) ==
  IF l \notin raised THEN RaisesFirst(l, new, o) ELSE new.current # old.current

(* The events that the change of the views from old to new raises: first     *)
(* ones, and for listeners that had theirs a change of the documents, for a  *)
(* get also a change of the sync state.                                      *)
Raises(l, old, new, o) ==
  IF l \notin raised THEN RaisesFirst(l, new, o)
  ELSE new.doc # old.doc \/ (l \in Once /\ new.current # old.current)

(* The listeners of set L are sent their view.                               *)
Post(L, v) ==
  /\ raised' = raised \cup L
  /\ inbox' = [l \in Listener |->
                 IF l \in L THEN Append(inbox[l], [doc |-> v[QueryOf[l]].doc,
                                                   fromCache |-> ~v[QueryOf[l]].current])
                            ELSE inbox[l]]

(* UpdateState of the tracker, to a state other than Offline.                *)
UpdateState(o) == online' = o /\ timer' = FALSE /\ failed' = FALSE

(* Mutant of HandleWatchStreamStart: the client stays as it was, untimed.    *)
HandleWatchStreamStartLater == UNCHANGED tracker

(* HandleWatchStreamStart: the first attempt is timed.                       *)
HandleWatchStreamStart ==
  IF failed THEN UNCHANGED tracker
  ELSE online' = "Unknown" /\ timer' = TRUE /\ UNCHANGED failed

(* Offline: no view is current any longer, and who waits is answered.        *)
GoOffline ==
  LET now == [q \in Query |->
                IF q \in Targets THEN [doc |-> view[q].doc, current |-> FALSE] ELSE NoView]
  IN  /\ online' = "Offline"
      /\ IF online = "Offline" THEN UNCHANGED <<view, raised, inbox>>
         ELSE /\ view' = now
              /\ Post({l \in attached : Raises(l, view[QueryOf[l]], now[QueryOf[l]],
                                               "Offline")}, now)

(* A new gRPC stream owes the client nothing and knows no target.            *)
NewChannel ==
  /\ outstanding' = Zero /\ pending' = None /\ marked' = None /\ updates' = Zero
  /\ toServer' = <<>> /\ toClient' = <<>>
  /\ held' = [q \in Query |-> NoView] /\ dirty' = FALSE /\ left' = FALSE
-----------------------------------------------------------------------------
Init ==
  /\ result \in [Query -> {0, 1}]
  /\ cache \in [Query -> {0, 1}] /\ \A q \in Query : cache[q] <= result[q]
  /\ tasks = <<>> /\ muted = {} /\ inbox = [l \in Listener |-> <<>>]
  /\ told = [l \in Listener |-> Silent]
  /\ attached = {} /\ raised = {} /\ view = [q \in Query |-> NoView]
  /\ online = "Unknown" /\ timer = FALSE /\ failed = FALSE
  /\ stream = "Initial" /\ idle = FALSE
  /\ outstanding = Zero /\ pending = None /\ marked = None /\ updates = Zero
  /\ toServer = <<>> /\ toClient = <<>>
  /\ held = [q \in Query |-> NoView] /\ dirty = FALSE
  /\ since = Zero /\ floor = [l \in Listener |-> 0]
  /\ left = FALSE

(* Somebody writes a document of the query's result.                         *)
Change(q) ==
  /\ result[q] < MaxVersion
  /\ result' = [result EXCEPT ![q] = @ + 1]
  /\ UNCHANGED <<tasks, app, views, tracker, stream, idle, aggregator, channel,
                 backend, left>>

(* The app listens, or gets.                                                 *)
Listens(l) ==
  /\ l \notin attached \cup muted /\ told[l] = Silent
  /\ \A i \in DOMAIN tasks : tasks[i].l # l
  /\ tasks' = Append(tasks, [l |-> l, add |-> TRUE])
  /\ UNCHANGED <<result, app, views, tracker, stream, idle, aggregator, channel,
                 backend, left>>

(* Mutant of Muted: what is already on the main queue is still told.         *)
Unmuted(l) == UNCHANGED muted

(* ListenerRegistration::Remove mutes at once, and detaches later.           *)
Muted(l) == muted' = muted \cup {l}
Unregister(l) == Muted(l) /\ tasks' = Append(tasks, [l |-> l, add |-> FALSE])

(* The app removes a listener.                                               *)
Removes(l) ==
  /\ l \notin Once \cup muted
  /\ l \in attached \/ \E i \in DOMAIN tasks : tasks[i].l = l
  /\ Unregister(l)
  /\ UNCHANGED <<result, inbox, told, views, tracker, stream, idle, aggregator,
                 channel, backend, left>>

(* The main queue tells the app; a get first removes its listener.           *)
RunEvent(l) ==
  /\ inbox[l] # <<>>
  /\ inbox' = [inbox EXCEPT ![l] = Tail(@)]
  /\ IF l \in muted THEN UNCHANGED <<told, muted, tasks>>
     ELSE /\ told' = [told EXCEPT ![l] = Head(inbox[l])]
          /\ IF l \in Once THEN Unregister(l) ELSE UNCHANGED <<muted, tasks>>
  /\ UNCHANGED <<result, views, tracker, stream, idle, aggregator, channel,
                 backend, left>>
-----------------------------------------------------------------------------
(* A watch or unwatch request: one more response is owed by the server.      *)
Send(q, known) ==
  /\ toServer' = Append(toServer, [q |-> q, known |-> known])
  /\ outstanding' = [outstanding EXCEPT ![q] = @ + 1]
  /\ UNCHANGED <<pending, marked, updates, toClient>>

(* Start of the stream and of the tracker's clock.                           *)
StartWatchStream ==
  /\ stream' = IF stream = "Error" THEN "Backoff" ELSE "Starting"
  /\ HandleWatchStreamStart

(* AddQueryListener: an existing view is shown; for a new one the cached     *)
(* result is, and the target is watched.                                     *)
Add(l) ==
  LET q == QueryOf[l]
      now == [view EXCEPT ![q] = IF @ = NoView THEN [doc |-> cache[q], current |-> FALSE]
                                               ELSE @]
  IN  /\ attached' = attached \cup {l}
      /\ view' = now
      /\ since' = IF q \in Targets THEN since ELSE [since EXCEPT ![q] = result[q]]
      /\ floor' = [floor EXCEPT ![l] = since'[q]]
      /\ IF q \in Targets \/ stream \in {"Starting", "Backoff"}
         THEN UNCHANGED <<tracker, stream, idle, aggregator, channel>>
         ELSE IF stream = "Open"
         THEN /\ Send(q, cache[q]) /\ idle' = FALSE
              /\ UNCHANGED <<tracker, stream>>
         ELSE StartWatchStream /\ UNCHANGED <<idle, aggregator, channel>>
      /\ Post(IF RaisesFirst(l, now[q], online') THEN {l} ELSE {}, now)
      /\ UNCHANGED <<result, told, muted, cache, backend, left>>

(* Mutant of StopListening: the answer to an unwatch is not waited for.      *)
StopListeningAtOnce(q, rest) ==
  /\ IF stream = "Open"
     THEN /\ toServer' = Append(toServer, [q |-> q, known |-> NoView])
          /\ idle' = (rest = {})
          /\ UNCHANGED <<aggregator, toClient>>
     ELSE UNCHANGED <<idle, aggregator, channel>>
  /\ IF rest = {} /\ stream # "Open" THEN UpdateState("Unknown") ELSE UNCHANGED tracker

(* StopListening, with the last target gone: an open stream idles, of any    *)
(* other nothing is known.                                                   *)
StopListening(q, rest) ==
  /\ IF stream = "Open"
     THEN Send(q, NoView) /\ idle' = (rest = {})
     ELSE UNCHANGED <<idle, aggregator, channel>>
  /\ IF rest = {} /\ stream # "Open" THEN UpdateState("Unknown") ELSE UNCHANGED tracker

(* RemoveQueryListener: with its last listener the view goes.                *)
Detach(l) ==
  LET q == QueryOf[l]
  IN  /\ attached' = attached \ {l}
      /\ IF \E k \in attached \ {l} : QueryOf[k] = q
         THEN UNCHANGED <<view, tracker, idle, aggregator, channel>>
         ELSE /\ view' = [view EXCEPT ![q] = NoView]
              /\ StopListening(q, Targets \ {q})
      /\ left' = (left \/ (Targets' = {} /\ stream # "Open"))
      /\ UNCHANGED <<result, app, raised, cache, since, floor, stream, backend>>

RunTask ==
  /\ tasks # <<>>
  /\ tasks' = Tail(tasks)
  /\ LET t == Head(tasks) IN IF t.add THEN Add(t.l) ELSE Detach(t.l)

(* The tracker's clock runs out.                                             *)
TimerFires ==
  /\ timer /\ timer' = FALSE
  /\ GoOffline
  /\ UNCHANGED <<result, tasks, muted, told, attached, cache, since, floor, failed,
                 stream, idle, aggregator, channel, backend, left>>

BackoffElapses ==
  /\ stream = "Backoff" /\ stream' = "Starting"
  /\ UNCHANGED <<result, tasks, app, views, tracker, idle, aggregator, channel,
                 backend, left>>

(* The tokens arrive: the stream is open before the network has answered,    *)
(* and every target is watched.                                              *)
StreamOpens ==
  /\ stream = "Starting" /\ stream' = "Open"
  /\ toServer' = SetToSeq({[q |-> q, known |-> cache[q]] : q \in Targets})
  /\ outstanding' = [q \in Query |-> IF q \in Targets THEN 1 ELSE 0]
  /\ UNCHANGED <<result, tasks, app, views, tracker, idle, pending, marked, updates,
                 toClient, backend, left>>

(* OnWatchStreamClose with an error: a stream still needed starts again, and *)
(* the tracker gives up unless the lost stream was alive.                    *)
StreamFails ==
  /\ stream \in {"Starting", "Open"} /\ idle' = FALSE
  /\ NewChannel
  /\ IF Targets = {}
     THEN /\ stream' = "Error" /\ UpdateState("Unknown")
          /\ UNCHANGED <<view, raised, inbox>>
     ELSE /\ stream' = "Backoff"
          /\ IF online = "Online"
             THEN /\ online' = "Unknown" /\ timer' = TRUE
                  /\ UNCHANGED <<failed, view, raised, inbox>>
             ELSE failed' = TRUE /\ timer' = FALSE /\ GoOffline
  /\ UNCHANGED <<result, tasks, muted, told, attached, cache, since, floor>>

(* Bound: streams that have come alive fail, and networks restart, any number*)
(* of times, but not while more than MaxInbox events wait on the main queue. *)
FewWait == \A l \in Listener : Len(inbox[l]) <= MaxInbox
(* A stream fails before it has brought anything, or after that.             *)
FailsSilent == online # "Online" /\ StreamFails
FailsLive == online = "Online" /\ FewWait /\ StreamFails

(* The idleness timer stops the stream.                                      *)
IdleElapses ==
  /\ idle /\ idle' = FALSE /\ stream' = "Initial"
  /\ NewChannel /\ UpdateState("Unknown")
  /\ UNCHANGED <<result, tasks, app, views>>

(* RestartNetwork, for new credentials or another network: views stay as     *)
(* they are.                                                                 *)
RestartNetwork ==
  /\ FewWait /\ NewChannel /\ idle' = FALSE
  /\ IF Targets = {} THEN stream' = "Initial" /\ UpdateState("Unknown")
     ELSE stream' = "Starting" /\ online' = "Unknown" /\ timer' = TRUE /\ failed' = FALSE
  /\ UNCHANGED <<result, tasks, app, views>>
-----------------------------------------------------------------------------
(* Mutant of IsActiveTarget: it goes by the listen alone.                    *)
IsListened(q) == q \in Targets

(* Messages are about a target only once all its requests are answered.      *)
IsActiveTarget(q) == outstanding[q] = 0 /\ q \in Targets

(* A response to a request.  With the last one a watched target starts       *)
(* afresh, but for its mark, and an unwatched one is forgotten.              *)
ReadResponse(m) ==
  LET last == outstanding[m.q] = 1
  IN  /\ outstanding' = [outstanding EXCEPT ![m.q] = @ - 1]
      /\ pending' = IF last THEN [pending EXCEPT ![m.q] = FALSE] ELSE pending
      /\ marked' = IF last /\ m.kind = "removed" THEN [marked EXCEPT ![m.q] = FALSE]
                                                 ELSE marked
      /\ UNCHANGED <<updates, view, cache, raised, inbox>>

ReadDoc(m) ==
  /\ IF IsActiveTarget(m.q)
     THEN updates' = [updates EXCEPT ![m.q] = m.v] /\ pending' = [pending EXCEPT ![m.q] = TRUE]
     ELSE UNCHANGED <<updates, pending>>
  /\ UNCHANGED <<outstanding, marked, view, cache, raised, inbox>>

ReadCurrent(m) ==
  /\ IF IsActiveTarget(m.q)
     THEN marked' = [marked EXCEPT ![m.q] = TRUE] /\ pending' = [pending EXCEPT ![m.q] = TRUE]
     ELSE UNCHANGED <<marked, pending>>
  /\ UNCHANGED <<outstanding, updates, view, cache, raised, inbox>>

(* RaiseWatchSnapshot: the documents go to the local store, the targets'     *)
(* marks to the views, and the listeners are told what changed.              *)
ReadSnapshot ==
  LET changed == {q \in Query : IsActiveTarget(q) /\ pending[q]}
      stored == [q \in Query |-> IF updates[q] > cache[q] THEN updates[q] ELSE cache[q]]
      now == [q \in Query |->
                IF q \notin Targets THEN NoView
                ELSE [doc |-> stored[q],
                      current |-> IF q \in changed THEN marked[q] ELSE view[q].current]]
  IN  /\ cache' = stored /\ view' = now
      /\ Post({l \in attached : /\ now[QueryOf[l]] # view[QueryOf[l]]
                                /\ Raises(l, view[QueryOf[l]], now[QueryOf[l]], "Online")},
              now)
      /\ updates' = Zero
      /\ pending' = [q \in Query |-> pending[q] /\ q \notin changed]
      /\ UNCHANGED <<outstanding, marked>>

(* OnWatchStreamChange: any message proves the client online.                *)
Read ==
  /\ toClient # <<>> /\ toClient' = Tail(toClient)
  /\ UpdateState("Online")
  /\ LET m == Head(toClient)
     IN  \/ m.kind \in {"added", "removed"} /\ ReadResponse(m)
         \/ m.kind = "doc" /\ ReadDoc(m)
         \/ m.kind = "current" /\ ReadCurrent(m)
         \/ m.kind = "snapshot" /\ ReadSnapshot
  /\ UNCHANGED <<result, tasks, muted, told, attached, since, floor, stream, idle,
                 toServer, backend, left>>
-----------------------------------------------------------------------------
(* The backend answers the requests in their order, sends what a target does *)
(* not know, says when it is current, and marks the points at which all its  *)
(* targets are.                                                              *)
Answers(m) ==
  /\ stream = "Open"
  /\ toClient' = Append(toClient, m)
  /\ UNCHANGED <<result, tasks, app, views, tracker, stream, idle, aggregator,
                 left>>

ServeRequest ==
  /\ toServer # <<>> /\ toServer' = Tail(toServer)
  /\ LET r == Head(toServer)
     IN  /\ held' = [held EXCEPT ![r.q] = IF r.known = NoView THEN NoView
                                          ELSE [doc |-> r.known, current |-> FALSE]]
         /\ Answers([kind |-> IF r.known = NoView THEN "removed" ELSE "added", q |-> r.q])
  /\ UNCHANGED dirty

ServeDoc(q) ==
  /\ held[q] # NoView /\ held[q].doc < result[q]
  /\ held' = [held EXCEPT ![q].doc = result[q]] /\ dirty' = TRUE
  /\ Answers([kind |-> "doc", q |-> q, v |-> result[q]])
  /\ UNCHANGED toServer

ServeCurrent(q) ==
  /\ held[q] # NoView /\ ~held[q].current /\ held[q].doc = result[q]
  /\ held' = [held EXCEPT ![q] = [doc |-> @.doc, current |-> TRUE]] /\ dirty' = TRUE
  /\ Answers([kind |-> "current", q |-> q])
  /\ UNCHANGED toServer

ServeSnapshot ==
  /\ dirty /\ dirty' = FALSE
  /\ \A q \in Query : held[q] # NoView => held[q] = [doc |-> result[q], current |-> TRUE]
  /\ Answers([kind |-> "snapshot"])
  /\ UNCHANGED <<toServer, held>>

Serve == ServeRequest \/ ServeSnapshot \/ \E q \in Query : ServeDoc(q) \/ ServeCurrent(q)

Next ==
  \/ \E q \in Query : Change(q)
  \/ \E l \in Listener : Listens(l) \/ Removes(l) \/ RunEvent(l)
  \/ RunTask \/ TimerFires \/ BackoffElapses \/ StreamOpens
  \/ FailsSilent \/ FailsLive \/ IdleElapses \/ RestartNetwork
  \/ Read \/ Serve

Spec == Init /\ [][Next]_vars

(* Queues run, timers fire, tokens arrive, what was sent is read, and of a   *)
(* stream that brings nothing gRPC's keepalive tells that it failed.         *)
Fairness ==
  /\ WF_vars(RunTask) /\ \A l \in Listener : WF_vars(RunEvent(l))
  /\ WF_vars(TimerFires) /\ WF_vars(BackoffElapses) /\ WF_vars(StreamOpens)
  /\ WF_vars(Read) /\ WF_vars(Serve \/ FailsSilent)

FairSpec == Spec /\ Fairness
-----------------------------------------------------------------------------
TypeOK ==
  /\ result \in [Query -> Version] /\ cache \in [Query -> Version]
  /\ tasks \in Seq(Task) /\ muted \subseteq Listener
  /\ inbox \in [Listener -> Seq(Event)] /\ told \in [Listener -> Event \cup {Silent}]
  /\ raised \subseteq Listener /\ attached \subseteq Listener
  /\ view \in [Query -> View \cup {NoView}] /\ held \in [Query -> View \cup {NoView}]
  /\ online \in {"Unknown", "Online", "Offline"} /\ {timer, failed, idle} \subseteq BOOLEAN
  /\ stream \in {"Initial", "Starting", "Backoff", "Open", "Error"}
  /\ outstanding \in [Query -> Nat] /\ updates \in [Query -> Version]
  /\ pending \in [Query -> BOOLEAN] /\ marked \in [Query -> BOOLEAN]
  /\ toServer \in Seq(Request) /\ toClient \in Seq(Message)
  /\ dirty \in BOOLEAN
  /\ since \in [Query -> Version] /\ floor \in [Listener -> Version]
  /\ left \in BOOLEAN

(* What is presented as the server's is at least as new as the view it was   *)
(* taken from: no answer to an earlier listen on the same target, still on   *)
(* its way when the target was watched again, passes for one to this listen  *)
(* (remote_event.cc 151-178, 387-394).                                       *)
SyncedIsFresh ==
  \A l \in Listener :
    /\ \A i \in DOMAIN inbox[l] : ~inbox[l][i].fromCache => inbox[l][i].doc >= floor[l]
    /\ (told[l] # Silent /\ ~told[l].fromCache) => told[l].doc >= floor[l]
    /\ (l \in attached /\ view[QueryOf[l]].current) => view[QueryOf[l]].doc >= floor[l]

Requests(q) == {i \in DOMAIN toServer : toServer[i].q = q}
Responses(q) ==
  {i \in DOMAIN toClient : toClient[i].kind \in {"added", "removed"} /\ toClient[i].q = q}

(* A target's count is the requests and responses about it on their way.     *)
ResponsesAreCounted ==
  stream = "Open" =>
    \A q \in Query :
      outstanding[q] = Cardinality(Requests(q)) + Cardinality(Responses(q))

(* No HARD_ASSERT of the read path fails: the stream is not stopped while    *)
(* needed (remote_store.cc 236), the tracker's clock runs only in the        *)
(* unknown state and under a started stream (online_state_tracker.cc 61,     *)
(* 67, 87), no view whose listeners have had nothing is synced               *)
(* (query_listener.cc 145), and views and listeners belong together          *)
(* (sync_engine.cc 108, 165).                                                *)
AssertionsHold ==
  /\ idle => Targets = {} /\ stream = "Open"
  /\ timer => online = "Unknown" /\ Started /\ ~failed
  /\ online = "Online" => ~failed
  /\ Targets = {QueryOf[l] : l \in attached}
  /\ \A l \in attached \ raised : ~view[QueryOf[l]].current

(* What the read path relies on in every state.                              *)
StreamIsSound == TypeOK /\ ResponsesAreCounted /\ AssertionsHold

(* A get is answered once, though its listener may be sent a second event    *)
(* before its removal gets through the worker queue.                         *)
AnsweredOnce ==
  [][\A l \in Once : told[l] # Silent => told'[l] = told[l]]_vars

(* Every get is answered, by the server or, when the client gives up, from   *)
(* the cache, also with a stream that never opens or never brings anything,  *)
(* but for this: streams come alive and break before the answer is complete, *)
(* or the network is restarted, for ever.  Each of them counts as a first    *)
(* attempt (online_state_tracker.cc 83, 102-104), and the client never gives *)
(* up.                                                                       *)
GetIsAnswered ==
  \/ \A l \in Once : (l \in attached) ~> (told[l] # Silent)
  \/ []<><<FailsLive \/ RestartNetwork>>_vars

(* If in the end the stream stays up, a listener that stays is told the      *)
(* final result.                                                             *)
CatchesUp ==
  \A l \in Listener \ Once :
    <>[](stream = "Open" /\ l \in attached /\ l \notin muted)
      => <>[](result[QueryOf[l]] > 0 => told[l] # Silent /\ told[l].doc = result[QueryOf[l]])

(* "We have a timeout for OnlineState to reach Online or Offline"            *)
(* (online_state_tracker.cc:47): who waits in the unknown state does so for  *)
(* a limited time, but for this: the last listener left before the stream    *)
(* was open, which stops the clock (remote_store.cc 187), and a new one,     *)
(* which finds the stream started, does not set it again (160-167).          *)
UnknownIsTimed == (online = "Unknown" /\ Targets # {}) => (timer \/ left)
=============================================================================
