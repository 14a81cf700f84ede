----------------------------- MODULE UserIdCheck -----------------------------
(* The user ID that people search for each other by: SignUpDetail- and       *)
(* AccountSettingViewController ask the server whether an ID is free, keep   *)
(* the answer in the flag isUserIdUnique, and write the ID when the user     *)
(* registers.  The server itself does not keep IDs apart.                    *)
EXTENDS Integers, FiniteSets

CONSTANTS User,       \* users of the app, each on a device
          Id,         \* user IDs
          NoId,       \* the empty text field, or no ID registered
          NewUser,    \* users on the sign-up screen; the others have an account
          StartId,    \* the ID each user has at the start
          MaxCalls    \* bound: a user's calls to Firestore under way

ASSUME IdAssumption == NoId \notin Id
ASSUME StartAssumption ==
  /\ NewUser \subseteq User
  /\ StartId \in [User -> Id \cup {NoId}]
  /\ \A u \in NewUser : StartId[u] = NoId
  /\ \A u, v \in User : StartId[u] = StartId[v] => u = v \/ StartId[u] = NoId
ASSUME BoundAssumption == MaxCalls \in Nat

VARIABLES
  userID,          \* server: field userID of each user document
  screen,          \* "signUp", "saving" (HUD over it), "account" or "done"
  field,           \* text of userIdTextField
  isUserIdUnique,  \* the controller's flag
  checkButton,     \* userIdUniqueCheckButton.isEnabled
  alert,           \* the alert on screen: "none", "free", "taken", "info", "later"
  checks,          \* calls of checkUniqueUserId under way
  writes,          \* setUserData calls that have not completed: the ID, or NoId
  cached,          \* UserAccessor.currentUser.userID
  reads,           \* setCurrentUser calls under way: "asked", or the ID read
  granted,         \* history: a check has answered "free" to this user
  guessed,         \* history: IDs a device's cache called free while in use
  blind,           \* history: IDs registered without such an answer
  late             \* history: an approval has met another text than its own

vars == <<userID, screen, field, isUserIdUnique, checkButton, alert, checks,
          writes, cached, reads, granted, guessed, blind, late>>
history == <<granted, guessed, blind, late>>

IdOrNone == Id \cup {NoId}
Asked == "asked"
Check == [id : Id, answer : {"asked", "free", "taken"}]

(* What the SDK reports of a user's own document: the server's value, or a   *)
(* local write that has not reached the server.                              *)
OwnView(u) == {userID[u]} \cup (writes[u] \ {NoId})

(* The controls can be used: no alert and no HUD covers them.                *)
Active(u) == screen[u] \in {"signUp", "account"} /\ alert[u] = "none"

CanCall(u) ==
  Cardinality(checks[u]) + Cardinality(writes[u]) + Cardinality(reads[u]) < MaxCalls

(* present() of an alert while another one is up does nothing.               *)
Presented(u, a) == [alert EXCEPT ![u] = IF @ = "none" THEN a ELSE @]

(* didSet of isUserIdUnique: FALSE enables the button at once, TRUE disables *)
(* it only in the handler of the alert it presents.                          *)
SetButtonOnly(u) == /\ checkButton' = [checkButton EXCEPT ![u] = TRUE]   \* mutant
                    /\ UNCHANGED isUserIdUnique
SetNotUnique(u) == /\ isUserIdUnique' = [isUserIdUnique EXCEPT ![u] = FALSE]
                   /\ checkButton' = [checkButton EXCEPT ![u] = TRUE]
SetUnique(u) == /\ isUserIdUnique' = [isUserIdUnique EXCEPT ![u] = TRUE]
                /\ alert' = Presented(u, "free")
                /\ UNCHANGED checkButton

(* The query finds a document of another user with the ID.                   *)
InUseTwice(u, id) ==   \* mutant: one document is still taken for none
  Cardinality({v \in User \ {u} : userID[v] = id}) > 1
InUse(u, id) == \E v \in User \ {u} : userID[v] = id
-----------------------------------------------------------------------------
Init ==
  /\ userID = StartId /\ cached = StartId /\ field = StartId
  /\ screen = [u \in User |-> IF u \in NewUser THEN "signUp" ELSE "account"]
  /\ isUserIdUnique = [u \in User |-> FALSE]
  /\ checkButton = [u \in User |-> TRUE]
  /\ alert = [u \in User |-> "none"]
  /\ checks = [u \in User |-> {}]
  /\ writes = [u \in User |-> {}]
  /\ reads = [u \in User |-> {}]
  /\ granted = [u \in User |-> {}]
  /\ guessed = {} /\ blind = {} /\ late = FALSE

(* textFieldDidChangeSelection: any edit takes the approval back.            *)
Edit(u, id) ==
  /\ Active(u)
  /\ field' = [field EXCEPT ![u] = id]
  /\ SetNotUnique(u)
  /\ UNCHANGED <<userID, screen, alert, checks, writes, cached, reads, history>>

(* tappedUserIdUniqueCheck with an empty field: an alert only.               *)
TapCheckEmpty(u) ==
  /\ Active(u) /\ checkButton[u] /\ field[u] = NoId
  /\ alert' = Presented(u, "info")
  /\ UNCHANGED <<userID, screen, field, isUserIdUnique, checkButton, checks,
                 writes, cached, reads, history>>

(* The account screen approves the user's own ID without a query.            *)
TapCheckOwn(u) ==
  /\ Active(u) /\ checkButton[u] /\ screen[u] = "account"
  /\ field[u] # NoId /\ field[u] = cached[u]
  /\ SetUnique(u)
  /\ UNCHANGED <<userID, screen, field, checks, writes, cached, reads, history>>

(* checkUniqueUserId: the query is on its way with the text of this moment.  *)
TapCheck(u) ==
  /\ Active(u) /\ checkButton[u] /\ field[u] # NoId
  /\ screen[u] = "account" => field[u] # cached[u]
  /\ CanCall(u)
  /\ checks' = [checks EXCEPT ![u] = @ \cup {[id |-> field[u], answer |-> "asked"]}]
  /\ UNCHANGED <<userID, screen, field, isUserIdUnique, checkButton, alert,
                 writes, cached, reads, history>>

Granted(u, c) ==
  /\ checks' = [checks EXCEPT ![u] = (@ \ {c}) \cup {[id |-> c.id, answer |-> "free"]}]
  /\ granted' = [granted EXCEPT ![u] = @ \cup {c.id}]

(* The server evaluates the query: free if no document has the ID.           *)
AnswerFree(u, c) ==
  /\ c \in checks[u] /\ c.answer = "asked"
  /\ ~InUse(u, c.id)
  /\ \E own \in OwnView(u) : own # c.id
  /\ Granted(u, c)
  /\ UNCHANGED <<userID, screen, field, isUserIdUnique, checkButton, alert,
                 writes, cached, reads, guessed, blind, late>>

(* getDocuments of an offline device falls back to the local cache, which    *)
(* may lack any user document: free, without an error.                       *)
AnswerFromCache(u, c) ==
  /\ c \in checks[u] /\ c.answer = "asked"
  /\ Granted(u, c)
  /\ guessed' = IF InUse(u, c.id) THEN guessed \cup {c.id} ELSE guessed
  /\ UNCHANGED <<userID, screen, field, isUserIdUnique, checkButton, alert,
                 writes, cached, reads, blind, late>>

(* The ID is in use, or the query fails: both are reported as "not unique".  *)
AnswerTaken(u, c) ==
  /\ c \in checks[u] /\ c.answer = "asked"
  /\ checks' = [checks EXCEPT ![u] = (@ \ {c}) \cup {[id |-> c.id, answer |-> "taken"]}]
  /\ UNCHANGED <<userID, screen, field, isUserIdUnique, checkButton, alert,
                 writes, cached, reads, history>>

(* The completion of checkUniqueUserId: it looks at no text field.           *)
CheckFree(u, c) ==
  /\ c \in checks[u] /\ c.answer = "free"
  /\ checks' = [checks EXCEPT ![u] = @ \ {c}]
  /\ SetUnique(u)
  /\ late' = (late \/ field[u] # c.id)
  /\ UNCHANGED <<userID, screen, field, writes, cached, reads, granted, guessed, blind>>

(* Sign-up takes the flag back; the account screen presents an alert whose   *)
(* handler will.                                                             *)
CheckTaken(u, c) ==
  /\ c \in checks[u] /\ c.answer = "taken"
  /\ checks' = [checks EXCEPT ![u] = @ \ {c}]
  /\ IF screen[u] = "account"
     THEN alert' = Presented(u, "taken") /\ UNCHANGED <<isUserIdUnique, checkButton>>
     ELSE SetNotUnique(u) /\ UNCHANGED alert
  /\ UNCHANGED <<userID, screen, field, writes, cached, reads, history>>

(* The OK button of the alert runs its handler.                              *)
TapOK(u) ==
  /\ alert[u] \in {"free", "taken", "info"}
  /\ alert' = [alert EXCEPT ![u] = "none"]
  /\ \/ /\ alert[u] = "free"
        /\ checkButton' = [checkButton EXCEPT ![u] = FALSE]
        /\ UNCHANGED isUserIdUnique
     \/ alert[u] = "taken" /\ SetNotUnique(u)
     \/ alert[u] = "info" /\ UNCHANGED <<isUserIdUnique, checkButton>>
  /\ UNCHANGED <<userID, screen, field, checks, writes, cached, reads, history>>

(* tappedAccountUpdate without a user name: an alert only.                   *)
TapUpdateNoName(u) ==
  /\ Active(u) /\ screen[u] = "account"
  /\ alert' = Presented(u, "info")
  /\ UNCHANGED <<userID, screen, field, isUserIdUnique, checkButton, checks,
                 writes, cached, reads, history>>

(* An ID to register that the flag does not approve: an alert only.          *)
TapRegisterUnchecked(u) ==
  /\ Active(u) /\ field[u] # NoId /\ ~isUserIdUnique[u]
  /\ screen[u] = "account" => field[u] # cached[u]
  /\ alert' = Presented(u, "info")
  /\ UNCHANGED <<userID, screen, field, isUserIdUnique, checkButton, checks,
                 writes, cached, reads, history>>

(* tappedRegister, tappedAccountUpdate: the text of this moment is written;  *)
(* the account screen reads the user again behind the write.                 *)
TapRegister(u) ==
  /\ Active(u) /\ field[u] # NoId /\ isUserIdUnique[u]
  /\ screen[u] = "account" => field[u] # cached[u]
  /\ CanCall(u)
  /\ writes' = [writes EXCEPT ![u] = @ \cup {field[u]}]
  /\ blind' = IF field[u] \in granted[u] THEN blind ELSE blind \cup {field[u]}
  /\ IF screen[u] = "account"
     THEN reads' = [reads EXCEPT ![u] = @ \cup {Asked}] /\ UNCHANGED screen
     ELSE screen' = [screen EXCEPT ![u] = "saving"] /\ UNCHANGED reads
  /\ UNCHANGED <<userID, field, isUserIdUnique, checkButton, alert, checks,
                 cached, granted, guessed, late>>

(* tappedAccountUpdate without a new ID: the other fields are written, and   *)
(* the user is read again.                                                   *)
TapUpdateOthers(u) ==
  /\ Active(u) /\ screen[u] = "account" /\ field[u] \in {NoId, cached[u]}
  /\ CanCall(u)
  /\ writes' = [writes EXCEPT ![u] = @ \cup {NoId}]
  /\ reads' = [reads EXCEPT ![u] = @ \cup {Asked}]
  /\ UNCHANGED <<userID, screen, field, isUserIdUnique, checkButton, alert,
                 checks, cached, history>>

(* tappedRegister without an ID, but with a picture or an introduction: these*)
(* are written, under the HUD.                                               *)
TapRegisterOthers(u) ==
  /\ Active(u) /\ screen[u] = "signUp" /\ field[u] = NoId
  /\ CanCall(u)
  /\ writes' = [writes EXCEPT ![u] = @ \cup {NoId}]
  /\ screen' = [screen EXCEPT ![u] = "saving"]
  /\ UNCHANGED <<userID, field, isUserIdUnique, checkButton, alert, checks,
                 cached, reads, history>>

(* tappedRegister with nothing at all: the user is asked whether to do it    *)
(* later.                                                                    *)
TapRegisterNothing(u) ==
  /\ Active(u) /\ screen[u] = "signUp" /\ field[u] = NoId
  /\ alert' = Presented(u, "later")
  /\ UNCHANGED <<userID, screen, field, isUserIdUnique, checkButton, checks,
                 writes, cached, reads, history>>

(* The answer is no: the screen stays.                                       *)
TapLaterNo(u) ==
  /\ alert[u] = "later"
  /\ alert' = [alert EXCEPT ![u] = "none"]
  /\ UNCHANGED <<userID, screen, field, isUserIdUnique, checkButton, checks,
                 writes, cached, reads, history>>

(* goChatListView: the screen is dismissed, with all that it held (an alert  *)
(* over it included); an answer that it still waits for changes nothing.     *)
GoChatListView(u) ==
  /\ screen' = [screen EXCEPT ![u] = "done"]
  /\ field' = [field EXCEPT ![u] = NoId]
  /\ alert' = [alert EXCEPT ![u] = "none"]
  /\ checks' = [checks EXCEPT ![u] = {}]
  /\ SetNotUnique(u)

(* tappedSkip, or the answer is yes: on to the chat list.                    *)
TapSkip(u) ==
  /\ screen[u] = "signUp" /\ alert[u] \in {"none", "later"}
  /\ GoChatListView(u)
  /\ UNCHANGED <<userID, writes, cached, reads, history>>

(* The server merges the data into the user document, whoever else has the   *)
(* ID; data without an ID leave it alone.                                    *)
Commit(u, id) ==
  /\ id \in writes[u]
  /\ writes' = [writes EXCEPT ![u] = @ \ {id}]
  /\ userID' = [userID EXCEPT ![u] = IF id = NoId THEN @ ELSE id]
  /\ \/ /\ screen[u] = "account"
        /\ alert' = Presented(u, "info")
        /\ UNCHANGED <<screen, field, isUserIdUnique, checkButton, checks>>
     \/ screen[u] # "account" /\ GoChatListView(u)
  /\ UNCHANGED <<cached, reads, history>>

(* The upload that precedes the sign-up write fails: nothing is written, an  *)
(* alert is presented, and the HUD stays.                                    *)
UploadFails(u) ==
  /\ screen[u] = "saving" /\ writes[u] # {}
  /\ writes' = [writes EXCEPT ![u] = {}]
  /\ alert' = Presented(u, "info")
  /\ UNCHANGED <<userID, screen, field, isUserIdUnique, checkButton, checks,
                 cached, reads, history>>

(* The write fails: an alert, and the sign-up screen is usable again.        *)
WriteFails(u, id) ==
  /\ id \in writes[u]
  /\ writes' = [writes EXCEPT ![u] = @ \ {id}]
  /\ alert' = Presented(u, "info")
  /\ screen' = [screen EXCEPT ![u] = IF @ = "saving" THEN "signUp" ELSE @]
  /\ UNCHANGED <<userID, field, isUserIdUnique, checkButton, checks, cached,
                 reads, history>>

(* setCurrentUser reads the document; the value can be old on arrival.       *)
ReadAnswered(u, id) ==
  /\ Asked \in reads[u] /\ id \in OwnView(u)
  /\ reads' = [reads EXCEPT ![u] = (@ \ {Asked}) \cup {id}]
  /\ UNCHANGED <<userID, screen, field, isUserIdUnique, checkButton, alert,
                 checks, writes, cached, history>>

(* Its completion caches the user and shows it; a failed read shows the old  *)
(* one.  Setting the text may or may not call textFieldDidChangeSelection.   *)
ReadDone(u, id) ==
  /\ \/ id \in reads[u] \ {Asked} /\ reads' = [reads EXCEPT ![u] = @ \ {id}]
     \/ id = cached[u] /\ Asked \in reads[u] /\ reads' = [reads EXCEPT ![u] = @ \ {Asked}]
  /\ cached' = [cached EXCEPT ![u] = id]
  /\ field' = [field EXCEPT ![u] = id]
  /\ \/ SetNotUnique(u) /\ UNCHANGED late
     \/ UNCHANGED <<isUserIdUnique, checkButton>> /\ late' = (late \/ field[u] # id)
  /\ UNCHANGED <<userID, screen, alert, checks, writes, granted, guessed, blind>>

Tap(u) == \/ \E id \in IdOrNone : Edit(u, id)
          \/ TapCheckEmpty(u) \/ TapCheckOwn(u) \/ TapCheck(u) \/ TapOK(u)
          \/ TapRegisterUnchecked(u) \/ TapRegister(u) \/ TapUpdateOthers(u)
          \/ TapUpdateNoName(u) \/ TapRegisterOthers(u) \/ TapRegisterNothing(u)
          \/ TapLaterNo(u) \/ TapSkip(u)

Complete(u) == \/ \E c \in checks[u] : \/ AnswerFree(u, c) \/ AnswerTaken(u, c)
                                       \/ AnswerFromCache(u, c)
                                       \/ CheckFree(u, c) \/ CheckTaken(u, c)
               \/ \E id \in IdOrNone : Commit(u, id) \/ WriteFails(u, id)
               \/ UploadFails(u)
               \/ \E id \in IdOrNone : ReadAnswered(u, id) \/ ReadDone(u, id)

Next == \E u \in User : Tap(u) \/ Complete(u)

Spec == Init /\ [][Next]_vars
-----------------------------------------------------------------------------
TypeOK ==
  /\ userID \in [User -> IdOrNone] /\ cached \in [User -> IdOrNone]
  /\ field \in [User -> IdOrNone]
  /\ screen \in [User -> {"signUp", "saving", "account", "done"}]
  /\ isUserIdUnique \in [User -> BOOLEAN] /\ checkButton \in [User -> BOOLEAN]
  /\ alert \in [User -> {"none", "free", "taken", "info", "later"}]
  /\ checks \in [User -> SUBSET Check]
  /\ writes \in [User -> SUBSET IdOrNone]
  /\ reads \in [User -> SUBSET (IdOrNone \cup {Asked})]
  /\ granted \in [User -> SUBSET Id]
  /\ guessed \subseteq Id /\ blind \subseteq Id /\ late \in BOOLEAN

(* Two users share an ID only if a check told both that it was free, or      *)
(* one of them registered it without having been told so, or was told so by  *)
(* the cache of an offline device.                                           *)
SharedOnlyIfGrantedTwice ==
  \A u, v \in User : \A id \in Id :
    (u # v /\ userID[u] = id /\ userID[v] = id)
      => id \in blind \cup guessed \/ (id \in granted[u] /\ id \in granted[v])

(* An ID is registered without an answer of its own only if an answer, or a  *)
(* refreshed field, came late: the flag does not remember which ID it is     *)
(* about (the completions at SignUpDetail 88-97 and AccountSetting 194-206). *)
BlindOnlyIfLate == blind # {} => late
=============================================================================
