--------------------------- MODULE AccountProofs ---------------------------
(* What holds of Account for every set of users, any number of sign-ins and  *)
(* any number of taps on the update button.                                  *)
EXTENDS Account, SequenceTheorems, TLAPS

(* The three scopes of the invariants: nothing went wrong before the form is *)
(* filled; nor did the HUD go too early; nor did an image fail to load.      *)
InOrder == trouble \cap {"late", "early", "lookup"} = {}
Covered == InOrder /\ "uncovered" \notin trouble
Undisturbed == Covered /\ "image" \notin trouble

(* Someone is signed in behind every screen but the login, under the uid     *)
(* that UserAccessor keeps, and the HUD lies over the account screen only.   *)
ScreenIsSound ==
  /\ tab # "login" <=> auth # NoUser
  /\ auth # NoUser => currentUid = auth
  /\ hud => tab = "account"

(* Lookups are for the user signed in, the last of them fills the cache, and *)
(* the account screen has the form of that user or a lookup to fill it.      *)
LookupsAreOwn ==
  InOrder =>
    /\ \A l \in lookups : auth # NoUser /\ l.uid = auth /\ l.session = session
    /\ auth # NoUser => cached = auth \/ lookups # {}
    /\ tab = "account" => cached = auth /\ (formUser = auth \/ OwnLookups # {})

(* Without the HUD the form is the user's; an upload keeps the HUD over it.  *)
FormIsOwn ==
  Covered =>
    /\ tab = "account" \/ OwnLookups # {} => hud \/ formUser = auth
    /\ upload # None => hud /\ formUser = auth /\ upload.of = auth

(* A write has the texts of the user whose document it goes to.              *)
WritesAreOwn == Covered => \A i \in DOMAIN writes : writes[i].of = writes[i].doc

(* Without the HUD the picture is that of the form, and no other is on its   *)
(* way; under it, with nothing else outstanding, the picture is on its way.  *)
ImageIsOwn ==
  Undisturbed =>
    /\ hud \/ image = formUser
    /\ upload # None => image = formUser /\ upload.picture = auth
    /\ ~hud \/ upload # None => loads \subseteq {formUser}
    /\ hud /\ OwnLookups = {} /\ upload = None => formUser \in loads

(* A write names no picture but that of the user whose document it goes to.  *)
PicturesAreOwn ==
  Undisturbed => \A i \in DOMAIN writes : writes[i].picture \in {writes[i].doc, NoUser}

(* Over a picked picture nothing is outstanding that could replace it; its   *)
(* own upload may be under way.                                              *)
PickIsAlone ==
  unsaved /\ InOrder /\ trouble \cap {"overtaken", "upload"} = {} =>
    /\ modified /\ image = auth /\ auth # NoUser
    /\ formUser = auth /\ cached = auth
    /\ loads = {} /\ OwnLookups = {}

IInv ==
  /\ TypeOK /\ ScreenIsSound /\ LookupsAreOwn /\ FormIsOwn /\ WritesAreOwn
  /\ ProfileIsOwn /\ ImageIsOwn /\ PicturesAreOwn /\ PictureIsOwn /\ PickIsAlone /\ HudIsOwed

-----------------------------------------------------------------------------
(* Types.                                                                    *)

LEMMA InitIsSound == Init => IInv
<1> SUFFICES ASSUME Init PROVE IInv
  OBVIOUS
<1>1. /\ auth \in User \cup {NoUser} /\ currentUid = auth
      /\ cached = NoUser /\ hud = FALSE /\ modified = FALSE /\ unsaved = FALSE
      /\ formUser = NoUser /\ image = NoUser
      /\ loads = {} /\ upload = None /\ updates = 0 /\ writes = <<>>
      /\ profile = [u \in User |-> u] /\ picture = [u \in User |-> u] /\ trouble = {}
      /\ session = IF auth = NoUser THEN 0 ELSE 1
      /\ tab = IF auth = NoUser THEN "login" ELSE "list"
      /\ \A l : l \in lookups <=> /\ l \in [uid : User, from : {"list"}, session : {1}]
                                  /\ l.uid = auth
  BY DEF Init
<1>2. NoUser \notin User /\ MaxSession \in Nat \ {0} /\ MaxUpdate \in Nat
  BY NoUserAssumption, BoundsAssumption
<1>3. lookups \subseteq Lookup
  BY <1>1 DEF Lookup
<1>4. auth # NoUser => lookups # {}
  <2> SUFFICES ASSUME auth # NoUser PROVE lookups # {}
    OBVIOUS
  <2>1. [uid |-> auth, from |-> "list", session |-> 1] \in lookups
    BY <1>1
  <2> QED BY <2>1
<1>5. {hud, modified, unsaved} \subseteq BOOLEAN
  BY <1>1
<1>6. TypeOK
  BY <1>1, <1>2, <1>3, <1>5 DEF TypeOK
<1>7. /\ \A l \in lookups : auth # NoUser /\ l.uid = auth /\ l.session = session
      /\ OwnLookups = {}
  BY <1>1, <1>2 DEF OwnLookups
<1>8. ScreenIsSound /\ LookupsAreOwn
  BY <1>1, <1>4, <1>7 DEF ScreenIsSound, LookupsAreOwn
<1>9. /\ FormIsOwn /\ WritesAreOwn /\ ProfileIsOwn /\ ImageIsOwn /\ PicturesAreOwn
      /\ PictureIsOwn /\ PickIsAlone /\ HudIsOwed
  BY <1>1, <1>7 DEF FormIsOwn, WritesAreOwn, ProfileIsOwn, ImageIsOwn, PicturesAreOwn,
     PictureIsOwn, PickIsAlone, HudIsOwed
<1> QED BY <1>6, <1>8, <1>9 DEF IInv

(* Trouble is never forgotten.                                               *)
LEMMA TroubleGrows == ASSUME [Next]_vars PROVE trouble \subseteq trouble'
BY DEF Next, vars, SignIn, SignOut, AppearScreen, LeaveScreen, PickImage, TapUpdate,
   TapUpload, LookupSucceeds, LookupFails, LookupMissing, ImageLoaded, ImageFails,
   UploadEnds, WriteSucceeds, WriteFails

LEMMA ScreenStep == ASSUME TypeOK, ScreenIsSound, [Next]_vars PROVE ScreenIsSound'
<1> USE NoUserAssumption DEF ScreenIsSound, signedIn
<1>1. ASSUME NEW u \in User, SignIn(u) PROVE ScreenIsSound'
  BY <1>1 DEF SignIn
<1>2. CASE SignOut
  BY <1>2 DEF SignOut, InFront
<1>3. CASE AppearScreen
  BY <1>3 DEF AppearScreen, InFront, LookUp
<1>4. CASE LeaveScreen
  BY <1>4 DEF LeaveScreen, InFront
<1>5. CASE TapUpdate \/ TapUpload
  BY <1>5 DEF TapUpdate, TapUpload, InFront, LookUp
<1>6. ASSUME NEW ok \in BOOLEAN, UploadEnds(ok) PROVE ScreenIsSound'
  BY <1>6 DEF UploadEnds, LookUp
<1>7. CASE UNCHANGED <<auth, currentUid, tab>> /\ (hud' = hud \/ hud' = FALSE)
  BY <1>7
<1>8. ASSUME \/ PickImage \/ WriteSucceeds \/ WriteFails \/ UNCHANGED vars
             \/ \E l \in lookups : LookupSucceeds(l) \/ LookupFails(l) \/ LookupMissing(l)
             \/ \E u \in loads : ImageLoaded(u) \/ ImageFails(u)
      PROVE  UNCHANGED <<auth, currentUid, tab>> /\ (hud' = hud \/ hud' = FALSE)
  BY <1>8 DEF PickImage, WriteSucceeds, WriteFails, vars, LookupSucceeds, LookupFails,
     LookupMissing, Complete, ImageLoaded, ImageFails
<1> QED BY <1>1, <1>2, <1>3, <1>4, <1>5, <1>6, <1>7, <1>8 DEF Next

LEMMA TypeStep == ASSUME TypeOK, ScreenIsSound, [Next]_vars PROVE TypeOK'
<1> USE NoUserAssumption, BoundsAssumption DEF TypeOK, signedIn, form, server
<1>1. ASSUME NEW u \in User, SignIn(u) PROVE TypeOK'
  BY <1>1 DEF SignIn, Lookup
<1>2. CASE SignOut
  BY <1>2 DEF SignOut
<1>3. CASE AppearScreen
  BY <1>3 DEF AppearScreen, InFront, LookUp, Lookup, ScreenIsSound, NeedsUser
<1>4. CASE LeaveScreen
  BY <1>4 DEF LeaveScreen
<1>5. CASE PickImage
  BY <1>5 DEF PickImage, InFront, ScreenIsSound
<1>6. CASE TapUpdate
  BY <1>6 DEF TapUpdate, InFront, ScreenIsSound, LookUp, Lookup, WriteOf, Texts, Write
<1>7. CASE TapUpload
  <2>1. upload' \in Update
    <3>1. Texts \in User /\ Chosen \in User \cup {Default, NoUser}
      BY <1>7 DEF TapUpload, InFront, ScreenIsSound, Texts, Chosen
    <3>2. upload' = [of |-> Texts, picture |-> Chosen]
      BY <1>7 DEF TapUpload
    <3> QED BY <3>1, <3>2 DEF Update
  <2>2. {hud', modified', unsaved'} \subseteq BOOLEAN
    BY <1>7 DEF TapUpload
  <2>3. updates' \in 0 .. MaxUpdate
    BY <1>7 DEF TapUpload
  <2> QED BY <1>7, <2>1, <2>2, <2>3 DEF TapUpload
<1>8. ASSUME NEW ok \in BOOLEAN, UploadEnds(ok) PROVE TypeOK'
  <2>1. upload \in Update
    BY <1>8 DEF UploadEnds
  <2>2. writes' \in Seq(Write)
    <3> DEFINE kept == IF ok THEN upload.picture ELSE NoUser
    <3>1. upload.of \in User /\ kept \in User \cup {Default, NoUser}
      BY <2>1 DEF Update
    <3>2. [upload EXCEPT !.picture = IF ok THEN @ ELSE NoUser]
            = [of |-> upload.of, picture |-> kept]
      BY <2>1 DEF Update
    <3> HIDE DEF kept
    <3>3. WriteOf([of |-> upload.of, picture |-> kept]) \in Seq(Write)
      <4> DEFINE w == [doc |-> currentUid, of |-> upload.of, picture |-> kept]
      <4>1. currentUid # NoUser => w \in Write
        BY <3>1 DEF Write
      <4>2. WriteOf([of |-> upload.of, picture |-> kept])
              = IF currentUid = NoUser THEN <<>> ELSE <<w>>
        BY DEF WriteOf
      <4> HIDE DEF w
      <4>3. <<>> \in Seq(Write) /\ (w \in Write => <<w>> \in Seq(Write))
        OBVIOUS
      <4> QED BY <4>1, <4>2, <4>3
    <3> QED BY <1>8, <3>2, <3>3 DEF UploadEnds
  <2>3. UNCHANGED <<auth, session, cached, tab, updates, profile, picture>>
        /\ upload' = None /\ hud' = FALSE /\ UNCHANGED <<image, modified>>
    BY <1>8 DEF UploadEnds, FillForm
  <2>4. /\ currentUid' \in User \cup {NoUser} /\ formUser' \in User \cup {NoUser}
        /\ lookups' \subseteq Lookup /\ loads' \subseteq User
    BY <1>8 DEF UploadEnds, FillForm, LookUp, Lookup
  <2>5. CASE ok
    <3>1. unsaved' = FALSE /\ trouble' = trouble
      BY <1>8, <2>5 DEF UploadEnds
    <3> QED BY <2>2, <2>3, <2>4, <3>1
  <2>6. CASE ~ok
    <3>1. unsaved' = unsaved /\ trouble' = trouble \cup {"upload"}
      BY <1>8, <2>6 DEF UploadEnds
    <3> QED BY <2>2, <2>3, <2>4, <3>1
  <2> QED BY <2>5, <2>6
<1>9. ASSUME NEW l \in lookups, LookupSucceeds(l) \/ LookupFails(l) \/ LookupMissing(l)
      PROVE  TypeOK'
  BY <1>9 DEF LookupSucceeds, LookupFails, LookupMissing, Complete, FillForm, Lookup
<1>10. ASSUME NEW u \in loads, ImageLoaded(u) \/ ImageFails(u) PROVE TypeOK'
  BY <1>10 DEF ImageLoaded, ImageFails, Loaded, Uncovers
<1>11. CASE WriteSucceeds
  <2>1. writes # <<>> /\ writes' = Tail(writes)
    BY <1>11 DEF WriteSucceeds
  <2>2. Head(writes) \in Write /\ Tail(writes) \in Seq(Write)
    BY <2>1, HeadTailProperties
  <2>3. /\ profile' \in [User -> User] /\ picture' \in [User -> User \cup {Default}]
        /\ UNCHANGED <<signedIn, cached, tab, hud, form, lookups, loads, upload, updates,
                       trouble>>
    BY <1>11, <2>2 DEF WriteSucceeds, Write
  <2> QED BY <2>1, <2>2, <2>3
<1>12. CASE WriteFails
  <2>1. writes # <<>> /\ writes' = Tail(writes)
    BY <1>12 DEF WriteFails
  <2>2. Tail(writes) \in Seq(Write)
    BY <2>1, HeadTailProperties
  <2> QED BY <1>12, <2>1, <2>2 DEF WriteFails, Uncovers
<1>13. CASE UNCHANGED vars
  BY <1>13 DEF vars
<1> QED BY <1>1, <1>2, <1>3, <1>4, <1>5, <1>6, <1>7, <1>8, <1>9, <1>10, <1>11, <1>12,
           <1>13 DEF Next

-----------------------------------------------------------------------------
(* The lookups and the form.                                                 *)

LEMMA LookupsStep ==
  ASSUME TypeOK, ScreenIsSound, LookupsAreOwn, [Next]_vars
  PROVE  LookupsAreOwn'
<1> USE NoUserAssumption DEF signedIn, form, InOrder, OwnLookups
<1>1. SUFFICES ASSUME InOrder' PROVE LookupsAreOwn'
  BY DEF LookupsAreOwn
<1>2. InOrder
  BY <1>1, TroubleGrows
<1>3. /\ \A l \in lookups : auth # NoUser /\ l.uid = auth /\ l.session = session
      /\ auth # NoUser => cached = auth \/ lookups # {}
      /\ tab = "account" => cached = auth /\ (formUser = auth \/ OwnLookups # {})
      /\ OwnLookups = {l \in lookups : l.from = "account"}
  BY <1>2 DEF LookupsAreOwn
<1>4. ASSUME NEW u \in User, SignIn(u) PROVE LookupsAreOwn'
  <2>1. lookups = {}
    BY <1>3, <1>4 DEF SignIn, ScreenIsSound
  <2> QED BY <1>4, <2>1 DEF SignIn, LookupsAreOwn
<1>5. CASE SignOut
  <2>1. lookups = {}
    BY <1>1, <1>5 DEF SignOut
  <2> QED BY <1>5, <2>1 DEF SignOut, LookupsAreOwn
<1>6. CASE AppearScreen
  <2>1. lookups = {} /\ auth # NoUser /\ cached = auth
    BY <1>1, <1>3, <1>6 DEF AppearScreen, InFront, ScreenIsSound
  <2>2. UNCHANGED <<auth, session, cached, formUser>>
    BY <1>6 DEF AppearScreen
  <2>3. CASE NeedsUser
    <3>1. lookups' = {[uid |-> auth, from |-> "account", session |-> session]}
      BY <1>6, <2>1, <2>3 DEF AppearScreen, LookUp
    <3> DEFINE l == [uid |-> auth, from |-> "account", session |-> session]
    <3>2. l.uid = auth /\ l.from = "account" /\ l.session = session /\ lookups' = {l}
      BY <3>1
    <3> HIDE DEF l
    <3> QED BY <2>1, <2>2, <3>2 DEF LookupsAreOwn
  <2>4. CASE ~NeedsUser
    BY <1>6, <2>1, <2>2, <2>4 DEF AppearScreen, LookupsAreOwn, NeedsUser
  <2> QED BY <2>3, <2>4
<1>7. CASE TapUpdate
  BY <1>3, <1>7 DEF TapUpdate, InFront, ScreenIsSound, LookUp, LookupsAreOwn
<1>8. ASSUME NEW ok \in BOOLEAN, UploadEnds(ok) PROVE LookupsAreOwn'
  BY <1>3, <1>8 DEF UploadEnds, ScreenIsSound, LookUp, FillForm, LookupsAreOwn
<1>9. ASSUME NEW l \in lookups, LookupSucceeds(l) PROVE LookupsAreOwn'
  <2>1. /\ auth # NoUser /\ cached' = auth /\ lookups' = lookups \ {l}
        /\ l.from = "account" => formUser' = auth
        /\ l.from # "account" => formUser' = formUser
        /\ UNCHANGED <<auth, session, tab>>
    BY <1>3, <1>9 DEF LookupSucceeds, Complete, FillForm
  <2>2. l.from # "account" => OwnLookups' = OwnLookups
    BY <2>1
  <2> QED BY <1>3, <2>1, <2>2 DEF LookupsAreOwn
<1>10. ASSUME NEW l \in lookups, LookupFails(l) \/ LookupMissing(l) PROVE LookupsAreOwn'
  BY <1>1, <1>10 DEF LookupFails, LookupMissing
<1>11. CASE \/ PickImage \/ TapUpload \/ WriteSucceeds \/ WriteFails \/ UNCHANGED vars
            \/ \E u \in loads : ImageLoaded(u) \/ ImageFails(u)
  <2>1. UNCHANGED <<auth, session, cached, tab, formUser, lookups>>
    BY <1>11 DEF PickImage, TapUpload, WriteSucceeds, WriteFails, vars, ImageLoaded, ImageFails
  <2> QED BY <1>3, <2>1 DEF LookupsAreOwn
<1>12. CASE LeaveScreen
  BY <1>3, <1>12 DEF LeaveScreen, LookupsAreOwn
<1> QED BY <1>4, <1>5, <1>6, <1>7, <1>8, <1>9, <1>10, <1>11, <1>12 DEF Next

LEMMA FormStep ==
  ASSUME TypeOK, ScreenIsSound, LookupsAreOwn, FormIsOwn, [Next]_vars
  PROVE  FormIsOwn'
<1> USE NoUserAssumption DEF signedIn, form, InOrder, Covered, OwnLookups
<1>1. SUFFICES ASSUME Covered' PROVE FormIsOwn'
  BY DEF FormIsOwn
<1>2. Covered
  BY <1>1, TroubleGrows
<1>3. /\ \A l \in lookups : auth # NoUser /\ l.uid = auth /\ l.session = session
      /\ tab = "account" => cached = auth /\ (formUser = auth \/ OwnLookups # {})
      /\ tab = "account" \/ OwnLookups # {} => hud \/ formUser = auth
      /\ upload # None => hud /\ formUser = auth /\ upload.of = auth
      /\ OwnLookups = {l \in lookups : l.from = "account"}
      /\ hud => tab = "account"
      /\ tab = "account" => auth # NoUser
  BY <1>2 DEF LookupsAreOwn, FormIsOwn, ScreenIsSound
<1>4. ASSUME NEW u \in User, SignIn(u) PROVE FormIsOwn'
  <2>1. lookups = {} /\ upload = None
    BY <1>3, <1>4 DEF SignIn, ScreenIsSound
  <2>2. OwnLookups' = {} /\ tab' # "account" /\ upload' = None
    BY <1>4, <2>1 DEF SignIn
  <2> QED BY <2>2 DEF FormIsOwn
<1>5. CASE SignOut
  <2>1. lookups' = {} /\ tab' # "account" /\ upload' = None
    BY <1>1, <1>3, <1>5 DEF SignOut, InFront
  <2> QED BY <2>1 DEF FormIsOwn
<1>6. CASE AppearScreen
  <2>1. ~hud /\ upload = None /\ upload' = None /\ auth' = auth /\ formUser' = formUser
    BY <1>3, <1>6 DEF AppearScreen, InFront
  <2>2. cached = auth
    BY <1>1, <1>2, <1>6 DEF AppearScreen, InFront, LookupsAreOwn, ScreenIsSound
  <2>3. hud' = NeedsUser
    BY <1>6 DEF AppearScreen
  <2>4. hud' \/ formUser = auth
    BY <2>2, <2>3 DEF NeedsUser
  <2> QED BY <2>1, <2>4 DEF FormIsOwn
<1>7. CASE LeaveScreen
  BY <1>3, <1>7 DEF LeaveScreen, InFront, FormIsOwn
<1>8. CASE TapUpdate
  BY <1>3, <1>8 DEF TapUpdate, InFront, LookUp, FormIsOwn
<1>9. CASE TapUpload
  <2>1. formUser = auth /\ auth # NoUser
    BY <1>3, <1>9 DEF TapUpload, InFront
  <2>2. upload' = [of |-> auth, picture |-> Chosen] /\ hud' = TRUE
        /\ UNCHANGED <<auth, formUser>>
    BY <1>9, <2>1 DEF TapUpload, Texts
  <2>3. upload'.of = auth
    BY <2>2
  <2> QED BY <2>1, <2>2, <2>3 DEF FormIsOwn
<1>10. ASSUME NEW ok \in BOOLEAN, UploadEnds(ok) PROVE FormIsOwn'
  <2>1. formUser = auth /\ auth # NoUser
    BY <1>3, <1>10 DEF UploadEnds
  <2>2. upload' = None /\ UNCHANGED <<auth, formUser>>
    BY <1>10, <2>1 DEF UploadEnds
  <2> QED BY <2>1, <2>2 DEF FormIsOwn
<1>11. ASSUME NEW l \in lookups, LookupSucceeds(l) PROVE FormIsOwn'
  <2>1. /\ lookups' = lookups \ {l} /\ l.uid = auth
        /\ l.from = "account" => formUser' = auth
        /\ l.from # "account" => formUser' = formUser
        /\ UNCHANGED <<auth, session, tab, hud, upload>>
    BY <1>3, <1>11 DEF LookupSucceeds, Complete, FillForm
  <2> QED BY <1>3, <2>1 DEF FormIsOwn
<1>12. ASSUME NEW l \in lookups, LookupFails(l) \/ LookupMissing(l) PROVE FormIsOwn'
  BY <1>1, <1>12 DEF LookupFails, LookupMissing
<1>13. ASSUME (\E u \in loads : ImageLoaded(u) \/ ImageFails(u)) \/ WriteFails
       PROVE  FormIsOwn'
  <2>1. /\ UNCHANGED <<auth, session, tab, formUser, lookups, upload>> /\ hud' = FALSE
        /\ \E rest : Uncovers(rest) \subseteq trouble'
    BY <1>13 DEF ImageLoaded, ImageFails, WriteFails
  <2>2. ~(hud /\ (upload # None \/ OwnLookups # {}))
    BY <1>1, <2>1 DEF Uncovers
  <2> QED BY <1>3, <2>1, <2>2 DEF FormIsOwn
<1>14. CASE PickImage \/ WriteSucceeds \/ UNCHANGED vars
  <2>1. UNCHANGED <<auth, session, tab, hud, formUser, lookups, upload>>
    BY <1>14 DEF PickImage, WriteSucceeds, vars
  <2> QED BY <1>3, <2>1 DEF FormIsOwn
<1> QED BY <1>4, <1>5, <1>6, <1>7, <1>8, <1>9, <1>10, <1>11, <1>12, <1>13, <1>14 DEF Next

-----------------------------------------------------------------------------
(* The documents.                                                            *)

(* What a step adds to the writes: one of the form, or one of the upload.    *)
LEMMA WritesGrow ==
  ASSUME TypeOK, ScreenIsSound, [Next]_vars
  PROVE  \/ UNCHANGED <<writes, profile, picture>>
         \/ /\ UNCHANGED <<profile, picture>> /\ writes # <<>> /\ writes' = Tail(writes)
         \/ WriteSucceeds
         \/ /\ UNCHANGED <<profile, picture>>
            /\ \E w \in Write :
                 /\ writes' = Append(writes, w) /\ w.doc = currentUid
                 /\ \/ /\ InFront("account") /\ Chosen = NoUser
                       /\ w.of = Texts /\ w.picture = NoUser
                    \/ /\ upload # None
                       /\ w.of = upload.of /\ w.picture \in {upload.picture, NoUser}
<1> USE NoUserAssumption DEF signedIn, form, server
<1>1. ASSUME NEW of \in User, NEW pic \in User \cup {Default, NoUser}
      PROVE  LET w == [doc |-> currentUid, of |-> of, picture |-> pic]
             IN  /\ w.doc = currentUid /\ w.of = of /\ w.picture = pic
                 /\ WriteOf([of |-> of, picture |-> pic])
                      = IF currentUid = NoUser THEN <<>> ELSE <<w>>
                 /\ currentUid # NoUser => w \in Write
  BY DEF WriteOf, Write, TypeOK
<1>2. /\ writes \in Seq(Write) /\ writes \o <<>> = writes
      /\ \A w \in Write : writes \o <<w>> = Append(writes, w)
  BY AppendIsConcat, ConcatEmptySeq DEF TypeOK
<1>3. CASE TapUpdate
  <2>1. Texts \in User
    BY <1>3 DEF TapUpdate, InFront, ScreenIsSound, Texts, TypeOK
  <2>2. /\ InFront("account") /\ Chosen = NoUser /\ UNCHANGED <<profile, picture>>
        /\ writes' = writes \o WriteOf([of |-> Texts, picture |-> NoUser])
    BY <1>3 DEF TapUpdate
  <2> DEFINE w == [doc |-> currentUid, of |-> Texts, picture |-> NoUser]
  <2>3. /\ w.doc = currentUid /\ w.of = Texts /\ w.picture = NoUser
        /\ WriteOf([of |-> Texts, picture |-> NoUser])
             = IF currentUid = NoUser THEN <<>> ELSE <<w>>
        /\ currentUid # NoUser => w \in Write
    BY <1>1, <2>1
  <2> HIDE DEF w
  <2> QED BY <1>2, <2>2, <2>3
<1>4. ASSUME NEW ok \in BOOLEAN, UploadEnds(ok)
      PROVE  \/ UNCHANGED <<writes, profile, picture>>
             \/ /\ UNCHANGED <<profile, picture>>
                /\ \E w \in Write :
                     /\ writes' = Append(writes, w) /\ w.doc = currentUid
                     /\ upload # None
                     /\ w.of = upload.of /\ w.picture \in {upload.picture, NoUser}
  <2>1. /\ upload # None /\ upload \in Update /\ UNCHANGED <<profile, picture>>
        /\ writes' = writes \o WriteOf([upload EXCEPT !.picture = IF ok THEN @ ELSE NoUser])
    BY <1>4 DEF UploadEnds, TypeOK
  <2> DEFINE of == upload.of
             pic == IF ok THEN upload.picture ELSE NoUser
             w == [doc |-> currentUid, of |-> of, picture |-> pic]
  <2>2. /\ of \in User /\ pic \in User \cup {Default, NoUser}
        /\ pic \in {upload.picture, NoUser}
    BY <2>1 DEF Update
  <2>3. [upload EXCEPT !.picture = IF ok THEN @ ELSE NoUser] = [of |-> of, picture |-> pic]
    BY <2>1 DEF Update
  <2> HIDE DEF of, pic
  <2>4. /\ w.doc = currentUid /\ w.of = of /\ w.picture = pic
        /\ WriteOf([of |-> of, picture |-> pic])
             = IF currentUid = NoUser THEN <<>> ELSE <<w>>
        /\ currentUid # NoUser => w \in Write
    BY <1>1, <2>2
  <2>5. writes' = writes \o (IF currentUid = NoUser THEN <<>> ELSE <<w>>)
    BY <2>1, <2>3, <2>4
  <2> HIDE DEF w
  <2>6. CASE currentUid = NoUser
    BY <1>2, <2>1, <2>5, <2>6
  <2>7. CASE currentUid # NoUser
    <3>1. writes' = Append(writes, w) /\ w \in Write
      BY <1>2, <2>4, <2>5, <2>7
    <3> QED BY <2>1, <2>2, <2>4, <3>1 DEF of
  <2> QED BY <2>6, <2>7
<1>5. CASE WriteFails
  BY <1>5 DEF WriteFails
<1>6. ASSUME \/ \E u \in User : SignIn(u)
             \/ SignOut \/ AppearScreen \/ LeaveScreen \/ PickImage \/ TapUpload
             \/ \E l \in lookups : LookupSucceeds(l) \/ LookupFails(l) \/ LookupMissing(l)
             \/ \E u \in loads : ImageLoaded(u) \/ ImageFails(u)
             \/ UNCHANGED vars
      PROVE  UNCHANGED <<writes, profile, picture>>
  BY <1>6 DEF SignIn, SignOut, AppearScreen, LeaveScreen, PickImage, TapUpload,
     LookupSucceeds, LookupFails, LookupMissing, Complete, ImageLoaded, ImageFails, vars
<1> QED BY <1>3, <1>4, <1>5, <1>6 DEF Next

(* Of writes only what holds of each of them has to hold of the next.        *)
LEMMA WritesAll ==
  ASSUME NEW ws \in Seq(Write), NEW S, \A i \in DOMAIN ws : ws[i] \in S
  PROVE  /\ ws # <<>> => Head(ws) \in S /\ Head(ws) \in Write
                         /\ \A i \in DOMAIN Tail(ws) : Tail(ws)[i] \in S
         /\ \A w \in Write \cap S : \A i \in DOMAIN Append(ws, w) : Append(ws, w)[i] \in S
<1>1. DOMAIN ws = 1 .. Len(ws) /\ Len(ws) \in Nat
  BY LenProperties
<1>2. ASSUME ws # <<>>
      PROVE  Head(ws) \in S /\ Head(ws) \in Write /\ \A i \in DOMAIN Tail(ws) : Tail(ws)[i] \in S
  <2>1. /\ Len(ws) \in Nat \ {0} /\ Head(ws) = ws[1] /\ Head(ws) \in Write
        /\ Tail(ws) \in Seq(Write) /\ Len(Tail(ws)) = Len(ws) - 1
        /\ \A i \in 1 .. Len(ws) - 1 : Tail(ws)[i] = ws[i + 1]
    BY <1>1, <1>2, HeadTailProperties
  <2>2. DOMAIN Tail(ws) = 1 .. Len(ws) - 1
    BY <2>1, LenProperties
  <2> QED BY <1>1, <2>1, <2>2
<1>3. ASSUME NEW w \in Write \cap S, NEW i \in DOMAIN Append(ws, w)
      PROVE  Append(ws, w)[i] \in S
  <2>1. /\ Append(ws, w) \in Seq(Write) /\ Len(Append(ws, w)) = Len(ws) + 1
        /\ \A k \in 1 .. Len(ws) : Append(ws, w)[k] = ws[k]
        /\ Append(ws, w)[Len(ws) + 1] = w
    BY AppendProperties
  <2>2. i \in 1 .. Len(ws) + 1
    BY <1>3, <2>1, LenProperties
  <2> QED BY <1>1, <2>1, <2>2
<1> QED BY <1>2, <1>3

LEMMA WritesStep ==
  ASSUME TypeOK, ScreenIsSound, LookupsAreOwn, FormIsOwn, WritesAreOwn, ProfileIsOwn,
         [Next]_vars
  PROVE  WritesAreOwn' /\ (Covered' => \A u \in User : profile'[u] = u)
<1> SUFFICES ASSUME Covered'
             PROVE  /\ \A i \in DOMAIN writes' : writes'[i].of = writes'[i].doc
                    /\ \A u \in User : profile'[u] = u
  BY DEF WritesAreOwn
<1>1. Covered /\ InOrder
  BY TroubleGrows DEF Covered, InOrder
<1> DEFINE Own == {w \in Write : w.of = w.doc}
<1>2. /\ \A i \in DOMAIN writes : writes[i] \in Own
      /\ \A u \in User : profile[u] = u
      /\ writes \in Seq(Write) /\ profile \in [User -> User]
  BY <1>1 DEF WritesAreOwn, ProfileIsOwn, Covered, InOrder, TypeOK
<1>3. SUFFICES /\ \A i \in DOMAIN writes' : writes'[i] \in Own
               /\ \A u \in User : profile'[u] = u
  OBVIOUS
<1> HIDE DEF Own
<1>4. /\ writes # <<>> => Head(writes) \in Own /\ Head(writes) \in Write
                          /\ \A i \in DOMAIN Tail(writes) : Tail(writes)[i] \in Own
      /\ \A w \in Write \cap Own :
           \A i \in DOMAIN Append(writes, w) : Append(writes, w)[i] \in Own
  BY <1>2, WritesAll
<1>5. CASE UNCHANGED <<writes, profile>>
  BY <1>2, <1>5
<1>6. CASE UNCHANGED <<profile, picture>> /\ writes # <<>> /\ writes' = Tail(writes)
  BY <1>2, <1>4, <1>6
<1>7. CASE WriteSucceeds
  <2>1. /\ writes # <<>> /\ writes' = Tail(writes)
        /\ profile' = [profile EXCEPT ![Head(writes).doc] = Head(writes).of]
    BY <1>7 DEF WriteSucceeds
  <2>2. Head(writes).of = Head(writes).doc
    BY <1>4, <2>1 DEF Own
  <2> QED BY <1>2, <1>4, <2>1, <2>2
<1>8. ASSUME NEW w \in Write, writes' = Append(writes, w), w.doc = currentUid,
             UNCHANGED profile,
             \/ InFront("account") /\ w.of = Texts
             \/ upload # None /\ w.of = upload.of
      PROVE  /\ \A i \in DOMAIN writes' : writes'[i] \in Own
             /\ \A u \in User : profile'[u] = u
  <2>1. w.of = auth /\ auth # NoUser
    BY <1>1, <1>8, NoUserAssumption DEF FormIsOwn, InFront, ScreenIsSound, Texts
  <2>2. w \in Own
    BY <1>8, <2>1 DEF Own, ScreenIsSound
  <2> QED BY <1>2, <1>4, <1>8, <2>2
<1> QED BY <1>5, <1>6, <1>7, <1>8, WritesGrow

LEMMA ProfileStep ==
  ASSUME TypeOK, ScreenIsSound, LookupsAreOwn, FormIsOwn, WritesAreOwn, ProfileIsOwn,
         [Next]_vars
  PROVE  ProfileIsOwn'
BY WritesStep DEF ProfileIsOwn, Covered, InOrder

-----------------------------------------------------------------------------
(* The picture.                                                              *)

LEMMA ImageStep ==
  ASSUME TypeOK, TypeOK', ScreenIsSound, LookupsAreOwn, FormIsOwn, ImageIsOwn, [Next]_vars
  PROVE  ImageIsOwn'
<1> USE NoUserAssumption DEF signedIn, form, InOrder, Covered, Undisturbed, OwnLookups
<1>1. SUFFICES ASSUME Undisturbed' PROVE ImageIsOwn'
  BY DEF ImageIsOwn
<1>2. Undisturbed
  BY <1>1, TroubleGrows
<1>3. /\ \A l \in lookups : auth # NoUser /\ l.uid = auth /\ l.session = session
      /\ tab = "account" \/ OwnLookups # {} => hud \/ formUser = auth
      /\ upload # None => hud /\ formUser = auth /\ upload.of = auth
      /\ OwnLookups = {l \in lookups : l.from = "account"}
      /\ hud => tab = "account"
      /\ tab = "account" => auth # NoUser
  BY <1>2 DEF LookupsAreOwn, FormIsOwn, ScreenIsSound
<1>4. /\ hud \/ image = formUser
      /\ upload # None => image = formUser /\ upload.picture = auth
      /\ ~hud \/ upload # None => loads \subseteq {formUser}
      /\ hud /\ OwnLookups = {} /\ upload = None => formUser \in loads
  BY <1>2 DEF ImageIsOwn
<1>5. ASSUME NEW u \in User, SignIn(u) PROVE ImageIsOwn'
  <2>1. ~hud /\ upload = None /\ UNCHANGED <<hud, upload, image, formUser, loads>>
    BY <1>3, <1>5 DEF SignIn
  <2> QED BY <1>4, <2>1 DEF ImageIsOwn
<1>6. CASE SignOut
  <2>1. ~hud /\ upload = None /\ UNCHANGED <<hud, upload, image, formUser, loads>>
    BY <1>3, <1>6 DEF SignOut, InFront
  <2> QED BY <1>4, <2>1 DEF ImageIsOwn
<1>7. CASE AppearScreen
  <2>1. ~hud /\ upload = None /\ UNCHANGED <<upload, image, formUser, loads, session>>
    BY <1>3, <1>7 DEF AppearScreen, InFront
  <2>2. hud' => OwnLookups' # {}
    <3> SUFFICES ASSUME hud' PROVE OwnLookups' # {}
      OBVIOUS
    <3>1. NeedsUser
      BY <1>7 DEF AppearScreen
    <3> DEFINE l == [uid |-> auth, from |-> "account", session |-> session]
    <3>2. l \in lookups' /\ l.from = "account" /\ l.session = session
      BY <1>7, <3>1 DEF AppearScreen, LookUp
    <3> HIDE DEF l
    <3> QED BY <2>1, <3>2
  <2> QED BY <1>4, <2>1, <2>2 DEF ImageIsOwn
<1>8. CASE TapUpdate
  <2>1. ~hud /\ upload = None /\ UNCHANGED <<hud, upload, image, formUser, loads>>
    BY <1>3, <1>8 DEF TapUpdate, InFront
  <2> QED BY <1>4, <2>1 DEF ImageIsOwn
<1>9. CASE TapUpload
  <2>1. /\ ~hud /\ formUser = auth /\ image = auth /\ loads \subseteq {formUser}
        /\ UNCHANGED <<auth, image, formUser, loads>> /\ hud' = TRUE
    BY <1>3, <1>4, <1>9 DEF TapUpload, InFront
  <2>2. Chosen # NoUser /\ upload' = [of |-> Texts, picture |-> Chosen]
    BY <1>9 DEF TapUpload
  <2>3. Chosen = auth /\ upload'.picture = Chosen
    BY <1>3, <1>9, <2>1, <2>2 DEF TapUpload, InFront, Chosen
  <2>4. upload' # None
    <3>1. Texts \in User
      BY <1>9, <2>1 DEF TypeOK, Texts, TapUpload, InFront, ScreenIsSound
    <3>2. upload'.of = Texts /\ None.of = NoUser
      BY <2>2 DEF None
    <3> QED BY <3>1, <3>2
  <2> QED BY <2>1, <2>3, <2>4 DEF ImageIsOwn
<1>10. ASSUME NEW ok \in BOOLEAN, UploadEnds(ok) PROVE ImageIsOwn'
  <2>1. /\ upload' = None /\ hud' = FALSE /\ upload # None /\ auth # NoUser
        /\ UNCHANGED <<image, formUser, loads>>
    BY <1>3, <1>10 DEF UploadEnds
  <2> QED BY <1>4, <2>1 DEF ImageIsOwn
<1>11. ASSUME NEW l \in lookups, LookupSucceeds(l), l.from = "account" PROVE ImageIsOwn'
  <2>1. /\ formUser' = auth /\ loads' = loads \cup {auth}
        /\ UNCHANGED <<image, hud, upload, auth>>
    BY <1>3, <1>11 DEF LookupSucceeds, Complete, FillForm
  <2>2. hud \/ formUser = auth
    BY <1>3, <1>11
  <2> QED BY <1>3, <1>4, <2>1, <2>2 DEF ImageIsOwn
<1>12. ASSUME NEW l \in lookups, LookupSucceeds(l), l.from # "account" PROVE ImageIsOwn'
  <2>1. /\ UNCHANGED <<image, formUser, loads, hud, upload, auth, session>>
        /\ lookups' = lookups \ {l}
    BY <1>12 DEF LookupSucceeds, Complete
  <2>2. OwnLookups' = OwnLookups
    BY <1>12, <2>1
  <2> QED BY <1>4, <2>1, <2>2 DEF ImageIsOwn
<1>13. ASSUME NEW l \in lookups, LookupFails(l) \/ LookupMissing(l) PROVE ImageIsOwn'
  BY <1>1, <1>13 DEF LookupFails, LookupMissing
<1>14. ASSUME NEW u \in loads, ImageLoaded(u) PROVE ImageIsOwn'
  <2>1. /\ loads' = loads \ {u} /\ image' = u /\ hud' = FALSE
        /\ Uncovers(loads') \subseteq trouble' /\ UNCHANGED <<formUser, upload, auth>>
    BY <1>14 DEF ImageLoaded, Loaded
  <2>2. hud => upload = None /\ OwnLookups = {} /\ loads' = {}
    BY <1>1, <2>1 DEF Uncovers
  <2>3. u = formUser
    <3>1. CASE hud
      BY <1>4, <2>1, <2>2, <3>1
    <3>2. CASE ~hud
      BY <1>4, <3>2
    <3> QED BY <3>1, <3>2
  <2>4. upload = None /\ loads' \subseteq {formUser}
    BY <1>3, <1>4, <2>1, <2>2
  <2> QED BY <2>1, <2>3, <2>4 DEF ImageIsOwn
<1>15. ASSUME NEW u \in loads, ImageFails(u) PROVE ImageIsOwn'
  BY <1>1, <1>15 DEF ImageFails
<1>16. CASE WriteFails
  <2>1. /\ UNCHANGED <<loads, image, formUser, upload, auth>> /\ hud' = FALSE
        /\ Uncovers(loads) \subseteq trouble'
    BY <1>16 DEF WriteFails
  <2>2. ~hud
    BY <1>1, <1>4, <2>1 DEF Uncovers
  <2> QED BY <1>3, <1>4, <2>1, <2>2 DEF ImageIsOwn
<1>17. CASE PickImage
  <2>1. ~hud /\ formUser = auth /\ image' = auth
        /\ UNCHANGED <<auth, formUser, hud, upload, loads>>
    BY <1>3, <1>17 DEF PickImage, InFront
  <2> QED BY <1>3, <1>4, <2>1 DEF ImageIsOwn
<1>18. CASE WriteSucceeds \/ LeaveScreen \/ UNCHANGED vars
  <2>1. UNCHANGED <<auth, session, hud, formUser, image, lookups, loads, upload>>
    BY <1>18 DEF WriteSucceeds, LeaveScreen, vars
  <2> QED BY <1>4, <2>1 DEF ImageIsOwn
<1> QED BY <1>5, <1>6, <1>7, <1>8, <1>9, <1>10, <1>11, <1>12, <1>13, <1>14, <1>15, <1>16,
           <1>17, <1>18 DEF Next

LEMMA PicturesStep ==
  ASSUME TypeOK, ScreenIsSound, LookupsAreOwn, FormIsOwn, ImageIsOwn, PicturesAreOwn,
         PictureIsOwn, [Next]_vars
  PROVE  PicturesAreOwn' /\ PictureIsOwn'
<1> SUFFICES ASSUME Undisturbed'
             PROVE  /\ \A i \in DOMAIN writes' :
                         writes'[i].picture \in {writes'[i].doc, NoUser}
                    /\ \A u \in User : picture'[u] = u
  BY DEF PicturesAreOwn, PictureIsOwn, Undisturbed, Covered, InOrder
<1>1. Undisturbed /\ Covered /\ InOrder
  BY TroubleGrows DEF Undisturbed, Covered, InOrder
<1> DEFINE Own == {w \in Write : w.picture \in {w.doc, NoUser}}
<1>2. /\ \A i \in DOMAIN writes : writes[i] \in Own
      /\ \A u \in User : picture[u] = u
      /\ writes \in Seq(Write) /\ picture \in [User -> User \cup {Default}]
  BY <1>1 DEF PicturesAreOwn, PictureIsOwn, Undisturbed, Covered, InOrder, TypeOK
<1>3. SUFFICES /\ \A i \in DOMAIN writes' : writes'[i] \in Own
               /\ \A u \in User : picture'[u] = u
  OBVIOUS
<1> HIDE DEF Own
<1>4. /\ writes # <<>> => Head(writes) \in Own /\ Head(writes) \in Write
                          /\ \A i \in DOMAIN Tail(writes) : Tail(writes)[i] \in Own
      /\ \A w \in Write \cap Own :
           \A i \in DOMAIN Append(writes, w) : Append(writes, w)[i] \in Own
  BY <1>2, WritesAll
<1>5. CASE UNCHANGED <<writes, picture>>
  BY <1>2, <1>5
<1>6. CASE UNCHANGED <<profile, picture>> /\ writes # <<>> /\ writes' = Tail(writes)
  BY <1>2, <1>4, <1>6
<1>7. CASE WriteSucceeds
  <2> DEFINE w == Head(writes)
  <2>1. /\ writes # <<>> /\ writes' = Tail(writes)
        /\ picture' = [picture EXCEPT ![w.doc] = IF w.picture = NoUser THEN picture[w.doc]
                                                                       ELSE w.picture]
    BY <1>7 DEF WriteSucceeds
  <2>2. w.picture \in {w.doc, NoUser}
    BY <1>4, <2>1 DEF Own
  <2> HIDE DEF w
  <2>3. \A u \in User : picture'[u] = u
    BY <1>2, <2>1, <2>2
  <2> QED BY <1>4, <2>1, <2>3
<1>8. ASSUME NEW w \in Write, writes' = Append(writes, w), w.doc = currentUid,
             UNCHANGED picture,
             \/ w.picture = NoUser
             \/ upload # None /\ w.picture \in {upload.picture, NoUser}
      PROVE  /\ \A i \in DOMAIN writes' : writes'[i] \in Own
             /\ \A u \in User : picture'[u] = u
  <2>1. w.picture # NoUser => w.picture = auth /\ auth # NoUser
    <3> SUFFICES ASSUME w.picture # NoUser PROVE w.picture = auth /\ auth # NoUser
      OBVIOUS
    <3>1. upload # None /\ w.picture = upload.picture
      BY <1>8
    <3>2. upload.picture = auth
      BY <1>1, <3>1 DEF ImageIsOwn
    <3>3. hud
      BY <1>1, <3>1 DEF FormIsOwn
    <3> QED BY <3>1, <3>2, <3>3 DEF ScreenIsSound
  <2>2. w \in Own
    BY <1>8, <2>1 DEF Own, ScreenIsSound
  <2> QED BY <1>2, <1>4, <1>8, <2>2
<1> QED BY <1>5, <1>6, <1>7, <1>8, WritesGrow

LEMMA PickStep ==
  ASSUME TypeOK, TypeOK', ScreenIsSound, LookupsAreOwn, PickIsAlone, [Next]_vars
  PROVE  PickIsAlone'
<1> USE NoUserAssumption DEF signedIn, form, InOrder, OwnLookups
<1>1. SUFFICES ASSUME unsaved', InOrder', trouble' \cap {"overtaken", "upload"} = {}
               PROVE  PickIsAlone'
  BY DEF PickIsAlone
<1>2. InOrder /\ trouble \cap {"overtaken", "upload"} = {}
  BY <1>1, TroubleGrows
<1>3. /\ \A l \in lookups : auth # NoUser /\ l.uid = auth /\ l.session = session
      /\ tab = "account" => cached = auth /\ (formUser = auth \/ OwnLookups # {})
      /\ OwnLookups = {l \in lookups : l.from = "account"}
      /\ tab # "login" <=> auth # NoUser
  BY <1>2 DEF LookupsAreOwn, ScreenIsSound
<1>4. CASE PickImage
  <2>1. /\ loads = {} /\ OwnLookups = {} /\ upload = None /\ tab = "account"
        /\ image' = auth /\ modified' = TRUE
        /\ UNCHANGED <<auth, session, cached, formUser, lookups, loads, upload>>
    BY <1>1, <1>4 DEF PickImage, InFront
  <2> QED BY <1>3, <2>1 DEF PickIsAlone
<1>5. CASE unsaved
  <2>0. /\ modified /\ image = auth /\ auth # NoUser /\ formUser = auth /\ cached = auth
        /\ loads = {} /\ OwnLookups = {}
    BY <1>2, <1>5 DEF PickIsAlone
  <2>1. ASSUME \/ WriteSucceeds \/ WriteFails \/ LeaveScreen \/ UNCHANGED vars
               \/ \E u \in loads : ImageLoaded(u) \/ ImageFails(u)
        PROVE  PickIsAlone'
    <3>1. UNCHANGED <<auth, session, cached, formUser, image, modified, lookups, loads, upload>>
      BY <2>0, <2>1 DEF WriteSucceeds, WriteFails, LeaveScreen, vars
    <3> QED BY <2>0, <3>1 DEF PickIsAlone
  <2>2. ASSUME NEW l \in lookups,
               LookupSucceeds(l) \/ LookupFails(l) \/ LookupMissing(l)
        PROVE  PickIsAlone'
    <3>1. LookupSucceeds(l)
      BY <1>1, <2>2 DEF LookupFails, LookupMissing
    <3>2. l.from # "account" /\ l.uid = auth
      BY <1>3, <2>0
    <3>3. /\ cached' = auth /\ lookups' = lookups \ {l}
          /\ UNCHANGED <<auth, session, formUser, image, modified, loads, upload>>
      BY <3>1, <3>2 DEF LookupSucceeds, Complete
    <3> QED BY <2>0, <3>3 DEF PickIsAlone
  <2>3. CASE AppearScreen
    <3>1. ~NeedsUser
      BY <2>0 DEF NeedsUser
    <3>2. UNCHANGED <<auth, session, cached, formUser, image, modified, lookups, loads, upload>>
      BY <2>3, <3>1 DEF AppearScreen
    <3> QED BY <2>0, <3>2 DEF PickIsAlone
  <2>4. ASSUME NEW u \in User, SignIn(u) PROVE FALSE
    BY <1>3, <2>0, <2>4 DEF SignIn
  <2>5. ~TapUpdate
    BY <2>0 DEF TapUpdate, Chosen
  <2>6. ASSUME NEW ok \in BOOLEAN, UploadEnds(ok) PROVE FALSE
    BY <1>1, <2>6 DEF UploadEnds
  <2>7. CASE TapUpload
    <3>1. UNCHANGED <<auth, session, cached, formUser, image, modified, lookups, loads>>
      BY <2>7 DEF TapUpload
    <3> QED BY <2>0, <3>1 DEF PickIsAlone
  <2>8. ~SignOut
    BY <1>1 DEF SignOut
  <2> QED BY <1>4, <2>1, <2>2, <2>3, <2>4, <2>5, <2>6, <2>7, <2>8 DEF Next
<1>6. CASE ~unsaved /\ ~PickImage
  <2>1. unsaved' = unsaved \/ unsaved' = FALSE
    BY <1>6 DEF Next, vars, SignIn, SignOut, AppearScreen, LeaveScreen, TapUpdate,
       TapUpload, LookupSucceeds, LookupFails, LookupMissing, Complete, FillForm,
       ImageLoaded, ImageFails, UploadEnds, WriteSucceeds, WriteFails
  <2> QED BY <1>1, <1>6, <2>1
<1> QED BY <1>4, <1>5, <1>6

LEMMA HudStep ==
  ASSUME TypeOK, TypeOK', ScreenIsSound, HudIsOwed, [Next]_vars
  PROVE  HudIsOwed'
<1> USE NoUserAssumption DEF signedIn, form, OwnLookups
<1>1. SUFFICES ASSUME hud', "lookup" \notin trouble'
               PROVE  OwnLookups' # {} \/ loads' # {} \/ upload' # None
  BY DEF HudIsOwed
<1>2. "lookup" \notin trouble
  BY <1>1, TroubleGrows
<1>3. CASE AppearScreen
  <2>1. NeedsUser
    BY <1>1, <1>3 DEF AppearScreen
  <2> DEFINE l == [uid |-> auth, from |-> "account", session |-> session]
  <2>2. l \in lookups' /\ l.from = "account" /\ l.session = session /\ session' = session
    BY <1>3, <2>1 DEF AppearScreen, LookUp
  <2> HIDE DEF l
  <2> QED BY <2>2
<1>4. CASE TapUpload
  <2>1. Texts \in User /\ upload' = [of |-> Texts, picture |-> Chosen]
    BY <1>4 DEF TapUpload, InFront, ScreenIsSound, Texts, TypeOK
  <2>2. upload'.of = Texts /\ None.of = NoUser
    BY <2>1 DEF None
  <2> QED BY <2>1, <2>2
<1>5. ASSUME NEW l \in lookups, LookupSucceeds(l) PROVE OwnLookups' # {} \/ loads' # {} \/ upload' # None
  <2>1. CASE l.from = "account"
    <3>1. loads' = loads \cup {l.uid}
      BY <1>5, <2>1 DEF LookupSucceeds, Complete, FillForm, TypeOK, Lookup
    <3> QED BY <3>1
  <2>2. CASE l.from # "account"
    <3>1. UNCHANGED <<hud, loads, upload, session>> /\ lookups' = lookups \ {l}
      BY <1>5, <2>2 DEF LookupSucceeds, Complete
    <3>2. OwnLookups' = OwnLookups
      BY <2>2, <3>1
    <3> QED BY <1>1, <1>2, <3>1, <3>2 DEF HudIsOwed
  <2> QED BY <2>1, <2>2
<1>6. ASSUME \/ \E u \in User : SignIn(u)
             \/ SignOut \/ LeaveScreen
             \/ WriteFails
             \/ \E u \in loads : ImageLoaded(u) \/ ImageFails(u)
             \/ \E ok \in BOOLEAN : UploadEnds(ok)
      PROVE  hud' = FALSE
  <2>1. hud \in BOOLEAN
    BY DEF TypeOK
  <2>2. CASE \E u \in User : SignIn(u)
    BY <2>1, <2>2 DEF SignIn, ScreenIsSound
  <2>3. CASE SignOut \/ LeaveScreen
    BY <2>1, <2>3 DEF SignOut, LeaveScreen, InFront
  <2>4. CASE \/ WriteFails
             \/ \E u \in loads : ImageLoaded(u) \/ ImageFails(u)
             \/ \E ok \in BOOLEAN : UploadEnds(ok)
    BY <2>4 DEF WriteFails, ImageLoaded, ImageFails, UploadEnds
  <2> QED BY <1>6, <2>2, <2>3, <2>4
<1>7. ASSUME NEW l \in lookups, LookupFails(l) \/ LookupMissing(l) PROVE FALSE
  BY <1>1, <1>7 DEF LookupFails, LookupMissing
<1>8. CASE TapUpdate
  BY <1>1, <1>8 DEF TapUpdate, InFront
<1>9. CASE PickImage \/ WriteSucceeds \/ UNCHANGED vars
  <2>1. UNCHANGED <<hud, session, lookups, loads, upload>>
    BY <1>9 DEF PickImage, WriteSucceeds, vars
  <2> QED BY <1>1, <1>2, <2>1 DEF HudIsOwed
<1> QED BY <1>1, <1>3, <1>4, <1>5, <1>6, <1>7, <1>8, <1>9 DEF Next
-----------------------------------------------------------------------------
(* The theorems.                                                             *)

LEMMA StepIsSound == IInv /\ [Next]_vars => IInv'
<1> SUFFICES ASSUME IInv, [Next]_vars PROVE IInv'
  OBVIOUS
<1> USE DEF IInv
<1>1. ScreenIsSound' /\ TypeOK'
  BY ScreenStep, TypeStep
<1>2. LookupsAreOwn' /\ FormIsOwn'
  BY LookupsStep, FormStep
<1>3. WritesAreOwn' /\ ProfileIsOwn'
  BY WritesStep, ProfileStep
<1>4. ImageIsOwn' /\ PicturesAreOwn' /\ PictureIsOwn'
  BY <1>1, ImageStep, PicturesStep
<1>5. PickIsAlone' /\ HudIsOwed'
  BY <1>1, PickStep, HudStep
<1> QED BY <1>1, <1>2, <1>3, <1>4, <1>5

LEMMA Invariant == Spec => []IInv
<1>1. Init => IInv
  BY InitIsSound
<1>2. IInv /\ [Next]_vars => IInv'
  BY StepIsSound
<1> QED BY <1>1, <1>2, PTL DEF Spec

(* The texts that the account screen saves go to the document of the user    *)
(* they belong to, unless a lookup failed, came late, or was overtaken by    *)
(* the opening of the screen, or the HUD went while something was under way. *)
THEOREM Documents == Spec => []DocumentsAreOwn
<1>1. IInv => DocumentsAreOwn
  BY DEF IInv, DocumentsAreOwn
<1> QED BY <1>1, Invariant, PTL

(* So does the picture, unless the stored one could not be loaded.           *)
THEOREM Pictures == Spec => []PictureIsOwn
<1>1. IInv => PictureIsOwn
  BY DEF IInv
<1> QED BY <1>1, Invariant, PTL

(* A picked picture stays on the form until a write that names it is made,   *)
(* unless its upload failed or it was picked while the stored one, a lookup  *)
(* or an upload was under way (AccountSettingViewController 34-60, 245-301,  *)
(* 309-323).                                                                 *)
THEOREM Picked == Spec => []PickedStays
<1>1. IInv => PickedStays
  BY DEF IInv, PickedStays, PickIsAlone, InOrder
<1> QED BY <1>1, Invariant, PTL

(* The HUD is never left behind: something outstanding will hide it, but for *)
(* a lookup that found no document or failed.                                *)
THEOREM Hud == Spec => []HudIsOwed
<1>1. IInv => HudIsOwed
  BY DEF IInv
<1> QED BY <1>1, Invariant, PTL
=============================================================================
