------------------------------ MODULE Account ------------------------------
(* The account screen, a tab that lives as long as the process while users   *)
(* log in and out: AccountSettingViewController with UserAccessor's current  *)
(* user, the profile image upload of ProfileImageAccessor, and the one HUD   *)
(* of the app.  The screen shows a form for one user, and saves it to the    *)
(* document of the current uid; lookups, image loads, uploads and writes     *)
(* complete in any order.  The user ID field is UserIdCheck's.               *)
EXTENDS Naturals, Sequences, FiniteSets

CONSTANTS User,
          NoUser,      \* nil in place of a user, or no image
          Default,     \* the default image
          MaxSession,  \* bound: sign-ins, the one of the launch included
          MaxUpdate    \* bound: taps on the update button

ASSUME NoUserAssumption == NoUser \notin User
ASSUME DefaultAssumption == Default \notin User \cup {NoUser}
ASSUME BoundsAssumption == MaxSession \in Nat \ {0} /\ MaxUpdate \in Nat

VARIABLES
  auth,        \* Auth.auth().currentUser
  currentUid,  \* UserAccessor.currentUid
  cached,      \* UserAccessor.currentUser
  session,     \* number of sign-ins so far
  tab,         \* the screen in front
  hud,         \* the HUD is shown, and takes all touches
  formUser,    \* currentUser of the account screen: whose texts the form shows
  image,       \* whose picture, stored or picked, the form shows
  modified,    \* modifeldProfileImage
  lookups,     \* setCurrentUser calls outstanding
  loads,       \* image loads outstanding: the user they are for
  upload,      \* the upload outstanding, with the data its update will write
  updates,     \* number of taps on the update button so far
  writes,      \* setUserData calls outstanding, oldest first
  profile,     \* server: whose texts each user's document has
  picture,     \* server: whose picture the profileImageUrl of each document names
  unsaved,     \* history: a picture was picked, and no write with one made since
  trouble      \* history: what went wrong, or came in an awkward order

signedIn == <<auth, currentUid, session>>
form == <<formUser, image, modified, unsaved>>
server == <<profile, picture>>
vars == <<signedIn, cached, tab, hud, form, lookups, loads, upload, updates, writes,
          server, trouble>>

Lookup == [uid : User, from : {"list", "account"}, session : Nat]
(* of: whose texts; picture: the image to name, NoUser to leave it out.      *)
Update == [of : User, picture : User \cup {Default, NoUser}]
Write == [doc : User, of : User, picture : User \cup {Default, NoUser}]
None == [of |-> NoUser, picture |-> NoUser]

InFront(t) == ~hud /\ tab = t

(* Lookups of the account screen for the user signed in.                     *)
OwnLookups == {l \in lookups : l.from = "account" /\ l.session = session}

(* History: the HUD goes while what it covers is under way.                  *)
Uncovers(rest) ==
  IF hud /\ (upload # None \/ OwnLookups # {} \/ rest # {}) THEN {"uncovered"} ELSE {}
-----------------------------------------------------------------------------
Init ==
  /\ auth \in User \cup {NoUser} /\ currentUid = auth
  /\ session = IF auth = NoUser THEN 0 ELSE 1
  /\ tab = IF auth = NoUser THEN "login" ELSE "list"
  /\ lookups = {l \in [uid : User, from : {"list"}, session : {1}] : l.uid = auth}
  /\ cached = NoUser /\ hud = FALSE
  /\ formUser = NoUser /\ image = NoUser /\ modified = FALSE /\ unsaved = FALSE
  /\ loads = {} /\ upload = None /\ updates = 0 /\ writes = <<>>
  /\ profile = [u \in User |-> u] /\ picture = [u \in User |-> u]
  /\ trouble = {}

(* Login: the chat list looks up the new user.                               *)
SignIn(u) ==
  /\ tab = "login" /\ session < MaxSession
  /\ auth' = u /\ currentUid' = u /\ session' = session + 1
  /\ tab' = "list"
  /\ lookups' = lookups \cup {[uid |-> u, from |-> "list", session |-> session']}
  /\ UNCHANGED <<cached, hud, form, loads, upload, updates, writes, server, trouble>>

(* Logout, from the chat list: nothing of the account screen is reset.       *)
SignOut ==
  /\ InFront("list")
  /\ auth' = NoUser /\ tab' = "login"
  /\ unsaved' = FALSE
  /\ trouble' = IF lookups # {} THEN trouble \cup {"late"} ELSE trouble
  /\ UNCHANGED <<currentUid, session, cached, hud, formUser, image, modified, lookups, loads, upload, updates,
                 writes, server>>

LeaveScreen ==
  /\ InFront("account") /\ tab' = "list"
  /\ UNCHANGED <<signedIn, cached, hud, form, lookups, loads, upload, updates, writes,
                 server, trouble>>

(* setUserAndGetUser: setCurrentUser for the account screen.                 *)
LookUp == /\ currentUid' = auth
          /\ lookups' = lookups \cup {[uid |-> auth, from |-> "account",
                                       session |-> session]}

(* Mutant of NeedsUser: the form is filled at every appearance.              *)
NeedsUserAlways == TRUE
(* Mutant of NeedsUser: the form is filled once.                             *)
NeedsUserOnce == formUser = NoUser
(* viewWillAppear compares the form's user with the cached one.              *)
NeedsUser == formUser # cached

(* The screen appears: another user than the cached one is looked up anew,   *)
(* under the HUD.                                                            *)
AppearScreen ==
  /\ InFront("list") /\ tab' = "account"
  /\ hud' = NeedsUser
  /\ IF NeedsUser THEN LookUp ELSE UNCHANGED <<currentUid, lookups>>
  /\ trouble' = IF \E l \in lookups : l.session = session
                THEN trouble \cup {"early"} ELSE trouble
  /\ UNCHANGED <<auth, session, cached, form, loads, upload, updates, writes, server>>
-----------------------------------------------------------------------------
(* currentUser.didSet: without a user nothing happens; with one the texts    *)
(* are filled in and the image is loaded.                                    *)
FillForm(u) ==
  /\ formUser' = u
  /\ loads' = IF u = NoUser THEN loads ELSE loads \cup {u}
  /\ UNCHANGED <<image, modified>>

(* The completion of setCurrentUser, with u in the cache.                    *)
Complete(l, u) ==
  /\ lookups' = lookups \ {l}
  /\ IF l.from = "account" THEN FillForm(u) ELSE UNCHANGED <<formUser, image, modified, loads>>
  /\ UNCHANGED <<signedIn, tab, hud, unsaved, upload, updates, writes, server>>

LookupSucceeds(l) == cached' = l.uid /\ Complete(l, l.uid) /\ UNCHANGED trouble

(* The user left in the cache is shown.                                      *)
LookupFails(l) ==
  /\ Complete(l, cached)
  /\ trouble' = trouble \cup {"lookup"}
  /\ UNCHANGED cached

(* No document: setCurrentUser never completes.                              *)
LookupMissing(l) ==
  /\ lookups' = lookups \ {l}
  /\ trouble' = trouble \cup {"lookup"}
  /\ UNCHANGED <<signedIn, cached, tab, hud, form, loads, upload, updates, writes, server>>

(* The form shows the stored picture, unmodified.                            *)
Loaded(u) == image' = u /\ modified' = FALSE

(* The image arrives: it is shown, whatever was picked meanwhile and whoever *)
(* the form is for by now; the HUD goes, whoever had it shown.               *)
ImageLoaded(u) ==
  /\ loads' = loads \ {u}
  /\ Loaded(u)
  /\ hud' = FALSE
  /\ trouble' = trouble \cup Uncovers(loads')
  /\ UNCHANGED <<signedIn, cached, tab, formUser, unsaved, lookups, upload, updates,
                 writes, server>>

(* Mutant of ImageFails: the HUD is hidden only with an image.               *)
ImageFailsUnderHud(u) ==
  /\ loads' = loads \ {u}
  /\ trouble' = trouble \cup {"image"}
  /\ UNCHANGED <<signedIn, cached, tab, hud, form, lookups, upload, updates, writes, server>>

(* It cannot be loaded: the HUD goes, and the form keeps its picture.        *)
ImageFails(u) ==
  /\ loads' = loads \ {u}
  /\ hud' = FALSE
  /\ trouble' = trouble \cup {"image"} \cup Uncovers(loads')
  /\ UNCHANGED <<signedIn, cached, tab, form, lookups, upload, updates, writes, server>>

(* A picture is picked.                                                      *)
PickImage ==
  /\ InFront("account")
  /\ image' = auth /\ modified' = TRUE /\ unsaved' = TRUE
  /\ trouble' = IF loads # {} \/ OwnLookups # {} \/ upload # None
                THEN trouble \cup {"overtaken"} ELSE trouble
  /\ UNCHANGED <<signedIn, cached, tab, hud, formUser, lookups, loads, upload, updates,
                 writes, server>>
-----------------------------------------------------------------------------
(* updateUserToFirestore: the data goes to the document of currentUid.       *)
WriteOf(u) ==
  IF currentUid = NoUser THEN <<>>
  ELSE <<[doc |-> currentUid, of |-> u.of, picture |-> u.picture]>>

(* What tappedAccountUpdate uploads: the default image when the form has no  *)
(* picture, the picture when it is modified, and nothing otherwise.          *)
Chosen == IF image = NoUser THEN Default ELSE IF modified THEN image ELSE NoUser

(* The texts of an empty form are those the user types in.                   *)
Texts == IF formUser = NoUser THEN auth ELSE formUser

(* The update button without a picture to upload: the write and the lookup   *)
(* are issued, and the HUD is hidden at once.                                *)
TapUpdate ==
  /\ InFront("account") /\ updates < MaxUpdate
  /\ Chosen = NoUser
  /\ updates' = updates + 1
  /\ writes' = writes \o WriteOf([of |-> Texts, picture |-> NoUser])
  /\ LookUp
  /\ UNCHANGED <<auth, session, cached, tab, hud, form, loads, upload, server, trouble>>

(* With a picture: the HUD stays while it is uploaded.  One at a time (a     *)
(* bound).                                                                   *)
TapUpload ==
  /\ InFront("account") /\ updates < MaxUpdate /\ upload = None
  /\ Chosen # NoUser
  /\ updates' = updates + 1
  /\ upload' = [of |-> Texts, picture |-> Chosen]
  /\ hud' = TRUE
  /\ UNCHANGED <<signedIn, cached, tab, form, lookups, loads, writes, server, trouble>>

(* The upload ends; when it fails the update goes on without a URL, which    *)
(* leaves the stored one alone: the picture stays picked, and not saved,     *)
(* until the lookup's image takes its place.  With nobody signed in          *)
(* setCurrentUser completes at once with the cached user, after the write.   *)
UploadEnds(ok) ==
  /\ upload # None
  /\ writes' = writes \o WriteOf([upload EXCEPT !.picture = IF ok THEN @ ELSE NoUser])
  /\ upload' = None
  /\ hud' = FALSE
  /\ IF auth = NoUser
     THEN currentUid' = NoUser /\ FillForm(cached) /\ UNCHANGED lookups
     ELSE LookUp /\ UNCHANGED <<formUser, image, modified, loads>>
  /\ unsaved' = IF ok THEN FALSE ELSE unsaved
  /\ trouble' = IF ok THEN trouble ELSE trouble \cup {"upload"}
  /\ UNCHANGED <<auth, session, cached, tab, updates, server>>

(* The oldest write is merged into its document.                             *)
WriteSucceeds ==
  /\ writes # <<>>
  /\ LET w == Head(writes)
     IN  /\ profile' = [profile EXCEPT ![w.doc] = w.of]
         /\ picture' = [picture EXCEPT ![w.doc] = IF w.picture = NoUser THEN @ ELSE w.picture]
  /\ writes' = Tail(writes)
  /\ UNCHANGED <<signedIn, cached, tab, hud, form, lookups, loads, upload, updates, trouble>>

(* It is refused: an alert, and the HUD goes, whoever had it shown.          *)
WriteFails ==
  /\ writes # <<>>
  /\ writes' = Tail(writes)
  /\ hud' = FALSE
  /\ trouble' = trouble \cup Uncovers(loads)
  /\ UNCHANGED <<signedIn, cached, tab, form, lookups, loads, upload, updates, server>>

Next ==
  \/ \E u \in User : SignIn(u)
  \/ SignOut \/ AppearScreen \/ LeaveScreen \/ PickImage \/ TapUpdate \/ TapUpload
  \/ \E l \in lookups : LookupSucceeds(l) \/ LookupFails(l) \/ LookupMissing(l)
  \/ \E u \in loads : ImageLoaded(u) \/ ImageFails(u)
  \/ \E ok \in BOOLEAN : UploadEnds(ok)
  \/ WriteSucceeds \/ WriteFails

Spec == Init /\ [][Next]_vars
-----------------------------------------------------------------------------
TypeOK ==
  /\ {auth, currentUid, cached, formUser} \subseteq User \cup {NoUser}
  /\ image \in User \cup {NoUser}
  /\ tab \in {"login", "list", "account"} /\ {hud, modified, unsaved} \subseteq BOOLEAN
  /\ session \in 0 .. MaxSession /\ updates \in 0 .. MaxUpdate
  /\ lookups \subseteq Lookup /\ loads \subseteq User
  /\ upload \in Update \cup {None} /\ writes \in Seq(Write)
  /\ profile \in [User -> User] /\ picture \in [User -> User \cup {Default}]
  /\ trouble \subseteq {"late", "early", "lookup", "image", "overtaken", "upload",
                  "uncovered"}

(* A user's document has the texts of another user's form only if a lookup   *)
(* failed, came late or was overtaken by the opening of the screen, or if    *)
(* something else hid the HUD over a lookup or an upload.                    *)
ProfileIsOwn ==
  (\E u \in User : profile[u] # u) => trouble \cap {"late", "early", "lookup", "uncovered"} # {}

(* What holds of documents and of the form in every state.                   *)
DocumentsAreOwn == TypeOK /\ ProfileIsOwn

(* A user's profile names the picture of another user, or the default image  *)
(* in place of the user's own, only after one of these or a failed load.     *)
PictureIsOwn ==
  (\E u \in User : picture[u] # u)
    => trouble \cap {"late", "early", "lookup", "uncovered", "image"} # {}

(* A picked picture stays on the form, marked as modified, until a write     *)
(* that names it is made.  The image of a lookup replaces it unsaved only if *)
(* its upload failed, if it was picked while a lookup, an image or an upload *)
(* was under way, or if the form was not the cached user's.                  *)
PickedStays ==
  unsaved => \/ modified /\ image = auth
             \/ trouble \cap {"upload", "overtaken", "early", "late", "lookup"} # {}

(* The HUD has something outstanding that will hide it.                      *)
HudIsOwed ==
  hud => \/ OwnLookups # {}
         \/ loads # {} \/ upload # None \/ "lookup" \in trouble
=============================================================================
