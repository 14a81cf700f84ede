---------------------------- MODULE WritePipeline ----------------------------
(* The write path of the Firestore SDK in one process: SyncEngine and        *)
(* LocalStore keep a queue of batches per user on disk, RemoteStore copies   *)
(* the oldest ones into its write pipeline, and WriteStream sends them over  *)
(* a gRPC stream that breaks, idles and is torn down when the user changes.  *)
(* A result names no batch: it is taken to be about the pipeline's front.    *)
EXTENDS Integers, Sequences, FiniteSets

CONSTANTS User,        \* credentials::User, the unauthenticated one included
          NumWrites,   \* bound: the writes the app issues
          NoUser,      \* no gRPC stream, no owner
          Hello,       \* the handshake request
          MaxPending,  \* kMaxPendingWrites
          MaxFaults,   \* bound: breaks, refused handshakes, kills, restarts
          MaxSwitches  \* bound: credential changes

ASSUME MaxPendingAssumption == MaxPending \in Nat \ {0}
ASSUME NumWritesAssumption == NumWrites \in Nat
ASSUME BoundsAssumption == MaxFaults \in Nat /\ MaxSwitches \in Nat

(* The writes, in the order in which the app issues them.                    *)
Write == 1 .. NumWrites

ASSUME NamesAssumption == NoUser \notin User /\ Hello \notin Write

VARIABLES
  auth,       \* the credentials provider's current user
  tasks,      \* the worker queue: writes, credential changes, tokens
  owner,      \* history: the user signed in when a write was issued
  alive,      \* history: the writes issued by this process
  user,       \* SyncEngine::current_user_
  queue,      \* on disk, per user: the batches of the mutation queue
  nextId,     \* next_batch_id_
  callbacks,  \* mutation_callbacks_, per user
  answer,     \* what the completion block of a write was told
  pipeline,   \* write_pipeline_
  stream,     \* Stream::state_, Healthy counted as Open
  handshake,  \* handshake_complete_
  idle,       \* the idleness timer runs
  closeCount, \* close_count_
  asking,     \* the close counts at which tokens were asked for
  token,      \* the user whose token the gRPC stream carries
  toServer,   \* requests on their way
  toClient,   \* responses on their way, then perhaps the stream's status
  abandoned,  \* writes of streams that ended, still known to the server
  committed,  \* server: the writes applied at least once
  refused,    \* server: the writes refused at least once
  faults, switches

disk == <<queue, nextId, callbacks, answer>>
channel == <<token, toServer, toClient>>
backend == <<abandoned, committed, refused>>
bounds == <<faults, switches>>
app == <<auth, owner, alive>>
vars == <<app, tasks, user, disk, pipeline, stream, handshake, idle, closeCount,
          asking, channel, backend, bounds>>

Batch == [id : Nat, w : Write]
Task == [kind : {"write"}, w : Write]
        \cup [kind : {"change"}, u : User]
        \cup [kind : {"token"}, u : User, count : Nat, ok : BOOLEAN]

Writes(s) == [i \in DOMAIN s |-> s[i].w]
Elems(s) == {s[i] : i \in DOMAIN s}
Started == stream \in {"Starting", "Backoff", "Open"}

(* LoadNextBatchIdFromDb: one more than the highest id of any user.          *)
LoadNextBatchId ==
  LET ids == UNION {{b.id : b \in Elems(queue[u])} : u \in User}
  IN  IF ids = {} THEN 1 ELSE 1 + CHOOSE n \in ids : \A k \in ids : k <= n

(* Mutant of Refill: the search starts at the last batch, not after it.      *)
RefillAgain(p, q) ==
  LET last == IF p = <<>> THEN -1 ELSE p[Len(p)].id
      seen == CHOOSE n \in 0 .. Len(q) : \A i \in DOMAIN q : q[i].id >= last <=> i > n
      upTo == seen + MaxPending - Len(p)
  IN  SubSeq(q, seen + 1, IF Len(q) < upTo THEN Len(q) ELSE upTo)

(* The batches FillWritePipeline adds to pipeline p from the queue q: those  *)
(* after the last one, which GetNextMutationBatch finds by id; the ids of a  *)
(* queue ascend, as its keys on disk do.                                     *)
Refill(p, q) ==
  LET last == IF p = <<>> THEN -1 ELSE p[Len(p)].id
      seen == CHOOSE n \in 0 .. Len(q) : \A i \in DOMAIN q : q[i].id > last <=> i > n
      upTo == seen + MaxPending - Len(p)
  IN  SubSeq(q, seen + 1, IF Len(q) < upTo THEN Len(q) ELSE upTo)

(* AddToWritePipeline sends at once only after the handshake.                *)
SendsAtOnce(st, hs) == st = "Open" /\ hs

(* The idleness timer after a refill: MarkIdle starts it, Write cancels it.  *)
Timer(timer, st, sent, p) ==
  IF sent # <<>> THEN FALSE ELSE timer \/ (st = "Open" /\ p = <<>>)

(* Start: with an error behind it the stream backs off, else it asks for     *)
(* credentials under the close count n.                                      *)
Start(st, n) ==
  IF st = "Error" THEN stream' = "Backoff" /\ UNCHANGED asking
                  ELSE stream' = "Starting" /\ asking' = asking \cup {n}

(* FillWritePipeline, from pipeline p and queue q, with the stream in state  *)
(* st after n closings and the requests r on their way.                      *)
FillWritePipeline(p, q, st, hs, n, timer, r) ==
  LET added == Refill(p, q)
      sent == IF SendsAtOnce(st, hs) THEN Writes(added) ELSE <<>>
  IN  /\ pipeline' = p \o added
      /\ toServer' = r \o sent
      /\ idle' = Timer(timer, st, sent, p \o added)
      /\ IF st \in {"Initial", "Error"} /\ p \o added # <<>>
         THEN Start(st, n)
         ELSE stream' = st /\ UNCHANGED asking
-----------------------------------------------------------------------------
Init ==
  /\ auth \in User /\ user = auth
  /\ tasks = <<>> /\ owner = [w \in Write |-> NoUser] /\ alive = {}
  /\ queue = [u \in User |-> <<>>] /\ nextId = 1
  /\ callbacks = [u \in User |-> {}]
  /\ answer = [w \in Write |-> "none"]
  /\ pipeline = <<>> /\ stream = "Initial" /\ handshake = FALSE /\ idle = FALSE
  /\ closeCount = 0 /\ asking = {}
  /\ token = NoUser /\ toServer = <<>> /\ toClient = <<>>
  /\ abandoned = {} /\ committed = {} /\ refused = {}
  /\ faults = 0 /\ switches = 0

Fault == faults < MaxFaults /\ faults' = faults + 1 /\ UNCHANGED switches

(* The app calls setData or updateData: FirestoreClient::WriteMutations puts *)
(* a task on the worker queue.                                               *)
IssueWrite(w) ==
  /\ w = 1 + Cardinality({v \in Write : owner[v] # NoUser})
  /\ owner' = [owner EXCEPT ![w] = auth]
  /\ alive' = alive \cup {w}
  /\ tasks' = Append(tasks, [kind |-> "write", w |-> w])
  /\ UNCHANGED <<auth, user, disk, pipeline, stream, handshake, idle, closeCount,
                 asking, channel, backend, bounds>>

(* Auth notifies a sign-in, a sign-out or a refreshed token.                 *)
ChangeCredential(u) ==
  /\ switches < MaxSwitches /\ switches' = switches + 1
  /\ auth' = u
  /\ tasks' = Append(tasks, [kind |-> "change", u |-> u])
  /\ UNCHANGED <<owner, alive, user, disk, pipeline, stream, handshake, idle,
                 closeCount, asking, channel, backend, faults>>

(* GetToken completes with a token of the user who is signed in by then: a   *)
(* change on the way makes the provider ask again.                           *)
AnswerToken(n, ok) ==
  /\ n \in asking
  /\ asking' = asking \ {n}
  /\ tasks' = Append(tasks, [kind |-> "token", u |-> auth, count |-> n, ok |-> ok])
  /\ UNCHANGED <<app, user, disk, pipeline, stream, handshake, idle, closeCount,
                 channel, backend>>

TokenGranted == (\E n \in asking : AnswerToken(n, TRUE)) /\ UNCHANGED bounds
TokenFails == (\E n \in asking : AnswerToken(n, FALSE)) /\ Fault

(* The completion block of a batch, if this process has one, is called once. *)
Notify(b, verdict) ==
  LET called == {c \in callbacks[user] : c.id = b.id}
  IN  /\ callbacks' = [callbacks EXCEPT ![user] = @ \ called]
      /\ answer' = [w \in Write |-> IF \E c \in called : c.w = w
                                     THEN verdict ELSE answer[w]]

(* RemoveMutationBatch: the batch is there, or an assertion fails.           *)
Without(q, b) ==
  LET i == CHOOSE i \in 1 .. Len(q) : q[i].id = b.id
  IN  SubSeq(q, 1, i - 1) \o SubSeq(q, i + 1, Len(q))

(* The status of a stream has come to an end; the server may still know the  *)
(* writes of a stream that the client gives up.  The handshake goes alone.   *)
Ended == toClient # <<>> /\ toClient[Len(toClient)] \in {"permanent", "transient"}
Forsaken == IF Ended \/ toServer \in {<<>>, <<Hello>>} THEN abandoned
                                                   ELSE abandoned \cup {toServer}

(* Whether an error of the stream condemns the front of the pipeline; its    *)
(* mutant forgets that the handshake is not a write.                         *)
CondemnsAlways(status) == status = "permanent" /\ pipeline # <<>>
CondemnsFront(status) == status = "permanent" /\ pipeline # <<>> /\ handshake

(* What OnWriteStreamClose does when nothing is condemned; its mutant leaves *)
(* the restart to the next write.                                            *)
RestartNever(n) == stream' = "Error" /\ UNCHANGED asking
RestartIfNeeded(n) ==
  IF pipeline # <<>> THEN Start("Error", n)
                     ELSE stream' = "Error" /\ UNCHANGED asking

(* The stream closes with an error.  A permanent one after the handshake is  *)
(* taken for the refusal of the front batch, which leaves queue and pipeline *)
(* and is answered; the next start does not wait.  Any other is retried.     *)
CloseWithError(status) ==
  /\ closeCount' = closeCount + 1
  /\ token' = NoUser /\ toClient' = <<>> /\ handshake' = FALSE
  /\ IF CondemnsFront(status)
     THEN /\ queue' = [queue EXCEPT ![user] = Without(@, Head(pipeline))]
          /\ Notify(Head(pipeline), "error")
          /\ FillWritePipeline(Tail(pipeline), queue'[user], "Initial", FALSE,
                               closeCount', FALSE, <<>>)
     ELSE /\ idle' = FALSE /\ toServer' = <<>>
          /\ RestartIfNeeded(closeCount')
          /\ UNCHANGED <<queue, callbacks, answer, pipeline>>
  /\ UNCHANGED nextId

(* Mutant of RestartNetwork: the pipeline is exchanged, the stream is kept.  *)
RefillNetwork(u) ==
  /\ UNCHANGED <<closeCount, token, toClient, handshake, abandoned>>
  /\ FillWritePipeline(<<>>, queue[u], stream, handshake, closeCount, idle, toServer)

(* RestartNetwork for user u: the stream is stopped, the pipeline dropped    *)
(* and filled from the user's queue.                                         *)
RestartNetwork(u) ==
  /\ closeCount' = IF Started THEN closeCount + 1 ELSE closeCount
  /\ token' = NoUser /\ toClient' = <<>> /\ handshake' = FALSE
  /\ abandoned' = Forsaken
  /\ FillWritePipeline(<<>>, queue[u], "Initial", FALSE, closeCount', FALSE, <<>>)
-----------------------------------------------------------------------------
(* WriteMutations: the batch is persisted with the next id, the block kept   *)
(* under the current user, the pipeline filled.                              *)
HandleWrite(w) ==
  LET b == [id |-> nextId, w |-> w]
  IN  /\ queue' = [queue EXCEPT ![user] = Append(@, b)]
      /\ nextId' = nextId + 1
      /\ callbacks' = [callbacks EXCEPT ![user] = @ \cup {b}]
      /\ FillWritePipeline(pipeline, queue'[user], stream, handshake, closeCount,
                           idle, toServer)
      /\ UNCHANGED <<user, answer, handshake, closeCount, token, toClient, backend>>

(* Mutant of CallbacksAfter: the blocks of the previous user are dropped.    *)
CallbacksOf(u) == [v \in User |-> IF v = u THEN callbacks[v] ELSE {}]
CallbacksAfter(u) == callbacks

(* HandleCredentialChange: for another user the mutation queue is swapped,   *)
(* which reads the next id anew; then the network is restarted.              *)
HandleCredentialChange(u) ==
  /\ user' = u
  /\ nextId' = IF u # user THEN LoadNextBatchId ELSE nextId
  /\ callbacks' = CallbacksAfter(u)
  /\ RestartNetwork(u)
  /\ UNCHANGED <<queue, answer, committed, refused>>

(* A token asked for before the last closing is dropped.                     *)
TokenIsCurrent(t) == t.count = closeCount

(* ResumeStartWithCredentials: the gRPC stream starts, is open at once, and  *)
(* the handshake is written.                                                 *)
HandleToken(t) ==
  /\ IF ~TokenIsCurrent(t)
     THEN UNCHANGED <<disk, pipeline, stream, handshake, idle, closeCount, asking, channel>>
     ELSE IF t.ok
     THEN /\ stream' = "Open" /\ token' = t.u
          /\ toServer' = <<Hello>> /\ toClient' = <<>> /\ idle' = FALSE
          /\ UNCHANGED <<disk, pipeline, handshake, closeCount, asking>>
     ELSE CloseWithError("transient")
  /\ UNCHANGED <<user, backend>>

RunTask ==
  /\ tasks # <<>>
  /\ tasks' = Tail(tasks)
  /\ LET t == Head(tasks)
     IN  \/ t.kind = "write" /\ HandleWrite(t.w)
         \/ t.kind = "change" /\ HandleCredentialChange(t.u)
         \/ t.kind = "token" /\ HandleToken(t)
  /\ UNCHANGED <<app, bounds>>

BackoffElapses ==
  /\ stream = "Backoff"
  /\ Start("Initial", closeCount)
  /\ UNCHANGED <<app, tasks, user, disk, pipeline, handshake, idle, closeCount,
                 channel, backend, bounds>>

(* The idleness timer stops the stream: a graceful close.                    *)
IdleElapses ==
  /\ idle
  /\ idle' = FALSE /\ stream' = "Initial" /\ handshake' = FALSE
  /\ closeCount' = closeCount + 1
  /\ token' = NoUser /\ toServer' = <<>> /\ toClient' = <<>>
  /\ abandoned' = Forsaken
  /\ UNCHANGED <<app, tasks, user, disk, pipeline, asking, committed, refused, bounds>>

(* The first response of a stream completes the handshake: the pipeline is   *)
(* written, which cancels the idleness timer.                                *)
ReadHello ==
  /\ toClient # <<>> /\ Head(toClient) = "hello"
  /\ toClient' = Tail(toClient)
  /\ handshake' = TRUE
  /\ toServer' = toServer \o Writes(pipeline)
  /\ idle' = (idle /\ pipeline = <<>>)
  /\ UNCHANGED <<app, tasks, user, disk, pipeline, stream, closeCount, asking,
                 token, backend, bounds>>

(* A result is correlated with the front of the pipeline: the block is       *)
(* called, the batch leaves the queue, the pipeline is filled.               *)
ReadResult ==
  /\ toClient # <<>> /\ Head(toClient) = "done"
  /\ pipeline # <<>>
  /\ toClient' = Tail(toClient)
  /\ Notify(Head(pipeline), "ok")
  /\ queue' = [queue EXCEPT ![user] = Without(@, Head(pipeline))]
  /\ FillWritePipeline(Tail(pipeline), queue'[user], stream, handshake, closeCount,
                       idle, toServer)
  /\ UNCHANGED <<app, tasks, user, nextId, handshake, closeCount, token, backend, bounds>>

ReadStatus ==
  /\ toClient # <<>> /\ Head(toClient) \in {"permanent", "transient"}
  /\ CloseWithError(Head(toClient))
  /\ UNCHANGED <<app, tasks, user, backend, bounds>>

Read == ReadHello \/ ReadResult \/ ReadStatus

(* A change of connectivity or a return to the foreground.                   *)
ConnectivityChanges ==
  /\ Fault
  /\ RestartNetwork(user)
  /\ UNCHANGED <<app, tasks, user, disk, committed, refused>>

(* Mutant of QueueAfterKill: the queue lived in memory.                      *)
QueueAfterKillLost == [u \in User |-> <<>>]
QueueAfterKill == queue

(* The process ends and is started again: what was on the worker queue is    *)
(* lost, the mutation queues are read from disk, without their blocks.       *)
Kill ==
  /\ Fault
  /\ tasks' = <<>> /\ alive' = {} /\ user' = auth
  /\ queue' = QueueAfterKill
  /\ nextId' = LoadNextBatchId
  /\ callbacks' = [u \in User |-> {}]
  /\ closeCount' = 0 /\ handshake' = FALSE
  /\ pipeline' = Refill(<<>>, queue'[auth])
  /\ IF pipeline' # <<>> THEN stream' = "Starting" /\ asking' = {0}
                         ELSE stream' = "Initial" /\ asking' = {}
  /\ idle' = FALSE
  /\ token' = NoUser /\ toServer' = <<>> /\ toClient' = <<>>
  /\ abandoned' = Forsaken
  /\ UNCHANGED <<auth, owner, answer, committed, refused>>
-----------------------------------------------------------------------------
(* The backend reads a request of the open stream.                           *)
Reads(r) ==
  /\ token # NoUser /\ ~Ended
  /\ toServer # <<>> /\ Head(toServer) = r

Responds(rest, response) ==
  /\ toServer' = rest
  /\ toClient' = Append(toClient, response)
  /\ UNCHANGED <<app, tasks, user, disk, pipeline, stream, handshake, idle,
                 closeCount, asking, token, abandoned>>

AcceptHandshake ==
  /\ Reads(Hello) /\ Responds(Tail(toServer), "hello")
  /\ UNCHANGED <<committed, refused, bounds>>

RefuseHandshake ==
  /\ Reads(Hello) /\ Responds(<<>>, "permanent") /\ Fault
  /\ UNCHANGED <<committed, refused>>

Commit(w) ==
  /\ Reads(w) /\ Responds(Tail(toServer), "done")
  /\ committed' = committed \cup {w}
  /\ UNCHANGED <<refused, bounds>>

Refuse(w) ==
  /\ Reads(w) /\ Responds(<<>>, "permanent")
  /\ refused' = refused \cup {w}
  /\ UNCHANGED <<committed, bounds>>

(* The connection breaks: responses after the first k are lost, the requests *)
(* on their way may or may not have reached the backend.                     *)
Break(k) ==
  /\ token # NoUser /\ ~Ended /\ Fault
  /\ toClient' = Append(SubSeq(toClient, 1, k), "transient")
  /\ toServer' = <<>> /\ abandoned' = Forsaken
  /\ UNCHANGED <<app, tasks, user, disk, pipeline, stream, handshake, idle,
                 closeCount, asking, token, committed, refused>>

(* The backend applies a write of a stream that has ended, in its order.     *)
CommitLate(s) ==
  /\ s \in abandoned
  /\ committed' = committed \cup {Head(s)}
  /\ abandoned' = (abandoned \ {s}) \cup (IF Len(s) = 1 THEN {} ELSE {Tail(s)})
  /\ UNCHANGED <<app, tasks, user, disk, pipeline, stream, handshake, idle,
                 closeCount, asking, channel, refused, bounds>>

Serve == AcceptHandshake \/ \E w \in Write : Commit(w) \/ Refuse(w)

Next ==
  \/ \E w \in Write : IssueWrite(w)
  \/ \E u \in User : ChangeCredential(u)
  \/ TokenGranted \/ TokenFails \/ RunTask \/ BackoffElapses \/ IdleElapses
  \/ Read \/ ConnectivityChanges \/ Kill
  \/ Serve \/ RefuseHandshake \/ (\E k \in 0 .. Len(toClient) : Break(k))
  \/ \E s \in abandoned : CommitLate(s)

Spec == Init /\ [][Next]_vars

(* The worker queue runs, tokens arrive, the backoff timer fires and an open *)
(* stream makes progress.  Idling, faults and the app owe nothing.           *)
Fairness == /\ WF_vars(RunTask) /\ WF_vars(TokenGranted) /\ WF_vars(BackoffElapses)
            /\ WF_vars(Serve) /\ WF_vars(Read)

FairSpec == Spec /\ Fairness
-----------------------------------------------------------------------------
TypeOK ==
  /\ auth \in User /\ user \in User
  /\ tasks \in Seq(Task)
  /\ owner \in [Write -> User \cup {NoUser}] /\ alive \subseteq Write
  /\ queue \in [User -> Seq(Batch)] /\ nextId \in Nat
  /\ callbacks \in [User -> SUBSET Batch]
  /\ answer \in [Write -> {"none", "ok", "error"}]
  /\ pipeline \in Seq(Batch)
  /\ stream \in {"Initial", "Starting", "Backoff", "Open", "Error"}
  /\ handshake \in BOOLEAN /\ idle \in BOOLEAN
  /\ closeCount \in Nat /\ asking \subseteq Nat
  /\ token \in User \cup {NoUser}
  /\ toServer \in Seq(Write \cup {Hello})
  /\ toClient \in Seq({"hello", "done", "permanent", "transient"})
  /\ abandoned \subseteq Seq(Write)
  /\ committed \subseteq Write /\ refused \subseteq Write
  /\ faults \in 0 .. MaxFaults /\ switches \in 0 .. MaxSwitches

WritesIn(s) == Elems(Writes(s))

(* The pipeline is the oldest part of the current user's queue, never more   *)
(* than kMaxPendingWrites and never a copy of a batch already gone, through  *)
(* refusals, user changes and restarts (remote_store.cc 370-405).            *)
PipelineIsFront ==
  /\ Len(pipeline) <= MaxPending
  /\ Len(pipeline) <= Len(queue[user])
  /\ \A i \in DOMAIN pipeline : pipeline[i] = queue[user][i]

(* As a result names no batch, results and requests on an open stream must   *)
(* line up with the pipeline: first the answered, then the unread ones.      *)
ResultsLineUp ==
  (stream = "Open" /\ handshake /\ ~Ended)
     => Writes(SubSeq(pipeline, Len(toClient) + 1, Len(pipeline))) = toServer

(* A completion block is told the truth: "ok" about a write that the server  *)
(* has applied, an error about one that it has refused.                      *)
AnswersAreTrue ==
  \A w \in Write : /\ answer[w] = "ok" => w \in committed
                   /\ answer[w] = "error" => w \in refused

(* Every completion block of this process is still to come, across changes   *)
(* of the user, refusals and restarts of the network: none is dropped.       *)
BlockIsOwed ==
  \A w \in alive :
    \/ answer[w] # "none"
    \/ [kind |-> "write", w |-> w] \in Elems(tasks)
    \/ \E u \in User : \E b \in callbacks[u] : b.w = w /\ b \in Elems(queue[u])

(* A write travels under the token of the user who was signed in when the    *)
(* app issued it, though tokens are fetched and users changed behind the     *)
(* worker queue's back (stream.cc 145-155).                                  *)
SentAsOwner == \A r \in Elems(toServer) \ {Hello} : owner[r] = token

(* No HARD_ASSERT of the write path fails: the stream is not stopped while   *)
(* needed (remote_store.cc 456), no result meets an empty pipeline (437), a  *)
(* live token finds the stream starting (stream.cc 171), a response an open  *)
(* one (253), a settled batch is in the queue (local_store.cc 237).          *)
AssertionsHold ==
  /\ idle => (pipeline = <<>> /\ Started)
  /\ toClient # <<>> => stream = "Open"
  /\ (toClient # <<>> /\ Head(toClient) = "done") => (pipeline # <<>> /\ handshake)
  /\ (toClient # <<>> /\ Head(toClient) = "hello") => ~handshake
  /\ \A t \in Elems(tasks) :
       (t.kind = "token" /\ t.count = closeCount) => stream = "Starting"
  /\ pipeline # <<>> => Head(pipeline) \in Elems(queue[user])

(* What the write path relies on in every state.                             *)
PipelineIsSound == TypeOK /\ PipelineIsFront /\ ResultsLineUp /\ AssertionsHold

(* The write path implements WriteQueue.                                     *)
Promise == INSTANCE WriteQueue WITH
  queued <- [u \in User |-> Writes(queue[u])], committed <- committed,
  refused <- refused, answer <- answer, User <- User, Write <- Write
KeepsPromise == Promise!Spec

(* A queued write is answered while its user stays signed in, also after a   *)
(* kill, an idle stop or a failed token; with the user gone it waits.        *)
QueuedIsSettled ==
  \A u \in User : \A w \in Write :
    (w \in WritesIn(queue[u]) /\ auth = u) ~> (w \notin WritesIn(queue[u]) \/ auth # u)
=============================================================================
