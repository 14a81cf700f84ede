-------------------------- MODULE UserIdCheckProofs --------------------------
(* What holds of UserIdCheck for every set of users and IDs and for any      *)
(* number of calls under way.                                                *)
EXTENDS UserIdCheck, TLAPS

LEMMA TypeStep ==
  ASSUME TypeOK, [Next]_vars
  PROVE  TypeOK'
<1> USE DEF TypeOK, IdOrNone, SetNotUnique, SetUnique, Presented, history, Granted
<1>1. ASSUME NEW u \in User, NEW id \in IdOrNone, Edit(u, id) PROVE TypeOK'
  BY <1>1 DEF Edit
<1>2. ASSUME NEW u \in User, TapCheckEmpty(u) PROVE TypeOK'
  BY <1>2 DEF TapCheckEmpty
<1>3. ASSUME NEW u \in User, TapCheckOwn(u) PROVE TypeOK'
  BY <1>3 DEF TapCheckOwn
<1>4. ASSUME NEW u \in User, TapCheck(u) PROVE TypeOK'
  BY <1>4 DEF TapCheck, Check
<1>5. ASSUME NEW u \in User, NEW c \in checks[u], AnswerFree(u, c)
      PROVE  TypeOK'
  <2>1. c.id \in Id /\ [id |-> c.id, answer |-> "free"] \in Check
    BY DEF Check
  <2> QED BY <1>5, <2>1 DEF AnswerFree
<1>6. ASSUME NEW u \in User, NEW c \in checks[u], AnswerFromCache(u, c)
      PROVE  TypeOK'
  <2>1. c.id \in Id /\ [id |-> c.id, answer |-> "free"] \in Check
    BY DEF Check
  <2> QED BY <1>6, <2>1 DEF AnswerFromCache
<1>7. ASSUME NEW u \in User, NEW c \in checks[u], AnswerTaken(u, c)
      PROVE  TypeOK'
  <2>1. [id |-> c.id, answer |-> "taken"] \in Check
    BY DEF Check
  <2> QED BY <1>7, <2>1 DEF AnswerTaken
<1>8. ASSUME NEW u \in User, NEW c \in checks[u], CheckFree(u, c) PROVE TypeOK'
  BY <1>8 DEF CheckFree
<1>9. ASSUME NEW u \in User, NEW c \in checks[u], CheckTaken(u, c)
      PROVE  TypeOK'
  BY <1>9 DEF CheckTaken
<1>10. ASSUME NEW u \in User, TapOK(u) PROVE TypeOK'
  BY <1>10 DEF TapOK
<1>11. ASSUME NEW u \in User, TapRegisterUnchecked(u) PROVE TypeOK'
  BY <1>11 DEF TapRegisterUnchecked
<1>12. ASSUME NEW u \in User, TapRegister(u) PROVE TypeOK'
  BY <1>12 DEF TapRegister
<1>13. ASSUME NEW u \in User, TapUpdateOthers(u) PROVE TypeOK'
  BY <1>13 DEF TapUpdateOthers
<1>14. ASSUME NEW u \in User, TapSkip(u) PROVE TypeOK'
  BY <1>14 DEF TapSkip, GoChatListView, SetNotUnique
<1>15. ASSUME NEW u \in User, NEW id \in IdOrNone, Commit(u, id) PROVE TypeOK'
  BY <1>15 DEF Commit, GoChatListView, SetNotUnique
<1>16. ASSUME NEW u \in User, NEW id \in IdOrNone, WriteFails(u, id) PROVE TypeOK'
  BY <1>16 DEF WriteFails
<1>17. ASSUME NEW u \in User, UploadFails(u) PROVE TypeOK'
  BY <1>17 DEF UploadFails
<1>18. ASSUME NEW u \in User, NEW id \in IdOrNone, ReadAnswered(u, id)
      PROVE  TypeOK'
  BY <1>18 DEF ReadAnswered
<1>19. ASSUME NEW u \in User, NEW id \in IdOrNone, ReadDone(u, id)
      PROVE  TypeOK'
  <2>1. reads' \in [User -> SUBSET (IdOrNone \cup {Asked})]
    BY <1>19 DEF ReadDone
  <2>2. late' \in BOOLEAN
    BY <1>19 DEF ReadDone
  <2>3. isUserIdUnique' \in [User -> BOOLEAN] /\ checkButton' \in [User -> BOOLEAN]
    BY <1>19 DEF ReadDone
  <2>4. cached' \in [User -> IdOrNone] /\ field' \in [User -> IdOrNone]
    BY <1>19 DEF ReadDone
  <2> QED BY <1>19, <2>1, <2>2, <2>3, <2>4 DEF ReadDone
<1>20. ASSUME NEW u \in User, TapUpdateNoName(u) PROVE TypeOK'
  BY <1>20 DEF TapUpdateNoName
<1>21. ASSUME NEW u \in User, TapRegisterOthers(u) PROVE TypeOK'
  BY <1>21 DEF TapRegisterOthers
<1>22. ASSUME NEW u \in User, TapRegisterNothing(u) PROVE TypeOK'
  BY <1>22 DEF TapRegisterNothing
<1>23. ASSUME NEW u \in User, TapLaterNo(u) PROVE TypeOK'
  BY <1>23 DEF TapLaterNo
<1>24. CASE UNCHANGED vars
  BY <1>24 DEF vars
<1> QED BY <1>1, <1>2, <1>3, <1>4, <1>5, <1>6, <1>7, <1>8, <1>9, <1>10, <1>11,
           <1>12, <1>13, <1>14, <1>15, <1>16, <1>17, <1>18, <1>19, <1>20, <1>21, <1>22,
           <1>23, <1>24
        DEF Next, Tap, Complete

(* Every reachable state is well typed.                                      *)
THEOREM TypeCorrect == Spec => []TypeOK
<1>1. Init => TypeOK
  BY StartAssumption DEF Init, TypeOK, IdOrNone
<1> QED BY <1>1, TypeStep, PTL DEF Spec
-----------------------------------------------------------------------------
(* Where an ID in the database can have come from.  GrantMeetsOwner carries  *)
(* the argument: when the server grants an ID nobody else has it, so whoever *)
(* has it later has been granted it too; a grant by the cache is exempt.     *)
FreeIsGranted == \A u \in User : \A c \in checks[u] :
                   c.answer = "free" => c.id \in granted[u]
WritesWereChecked ==
  \A u \in User : writes[u] \subseteq granted[u] \cup blind \cup {NoId}
(* An ID in a document was granted, or blind, or its user's from the start.  *)
IdsWereChecked ==
  \A u \in User : userID[u] \in granted[u] \cup blind \cup {StartId[u]}
GrantMeetsOwner ==
  \A u, v \in User : \A id \in Id :
    (u # v /\ id \in granted[u] /\ userID[v] = id) => id \in blind \cup guessed \cup granted[v]

GrantInv == /\ FreeIsGranted /\ WritesWereChecked /\ IdsWereChecked
            /\ GrantMeetsOwner /\ SharedOnlyIfGrantedTwice

LEMMA GrantInvStep ==
  ASSUME TypeOK, GrantInv, [Next]_vars
  PROVE  GrantInv'
<1> USE DEF GrantInv, FreeIsGranted, WritesWereChecked, IdsWereChecked,
            GrantMeetsOwner, SharedOnlyIfGrantedTwice, TypeOK, history
<1>1. ASSUME NEW u \in User, NEW id \in IdOrNone, Edit(u, id) PROVE GrantInv'
  BY <1>1 DEF Edit, SetNotUnique
<1>2. ASSUME NEW u \in User, TapCheckEmpty(u) PROVE GrantInv'
  BY <1>2 DEF TapCheckEmpty
<1>3. ASSUME NEW u \in User, TapCheckOwn(u) PROVE GrantInv'
  BY <1>3 DEF TapCheckOwn, SetUnique
<1>4. ASSUME NEW u \in User, TapCheck(u) PROVE GrantInv'
  BY <1>4 DEF TapCheck
<1>5. ASSUME NEW u \in User, NEW c \in checks[u], AnswerFree(u, c)
      PROVE  GrantInv'
  BY <1>5 DEF AnswerFree, Granted, InUse
<1>6. ASSUME NEW u \in User, NEW c \in checks[u], AnswerFromCache(u, c)
      PROVE  GrantInv'
  BY <1>6 DEF AnswerFromCache, Granted, InUse
<1>7. ASSUME NEW u \in User, NEW c \in checks[u], AnswerTaken(u, c)
      PROVE  GrantInv'
  BY <1>7 DEF AnswerTaken
<1>8. ASSUME NEW u \in User, NEW c \in checks[u], CheckFree(u, c)
      PROVE  GrantInv'
  BY <1>8 DEF CheckFree, SetUnique
<1>9. ASSUME NEW u \in User, NEW c \in checks[u], CheckTaken(u, c)
      PROVE  GrantInv'
  BY <1>9 DEF CheckTaken, SetNotUnique
<1>10. ASSUME NEW u \in User, TapOK(u) PROVE GrantInv'
  BY <1>10 DEF TapOK, SetNotUnique
<1>11. ASSUME NEW u \in User, TapRegisterUnchecked(u) PROVE GrantInv'
  BY <1>11 DEF TapRegisterUnchecked
<1>12. ASSUME NEW u \in User, TapRegister(u) PROVE GrantInv'
  BY <1>12 DEF TapRegister
<1>13. ASSUME NEW u \in User, TapUpdateOthers(u) PROVE GrantInv'
  BY <1>13 DEF TapUpdateOthers
<1>14. ASSUME NEW u \in User, TapSkip(u) PROVE GrantInv'
  BY <1>14 DEF TapSkip, GoChatListView, SetNotUnique
<1>15. ASSUME NEW u \in User, NEW id \in IdOrNone, Commit(u, id) PROVE GrantInv'
  BY <1>15 DEF Commit, GoChatListView, SetNotUnique
<1>16. ASSUME NEW u \in User, NEW id \in IdOrNone, WriteFails(u, id) PROVE GrantInv'
  BY <1>16 DEF WriteFails
<1>17. ASSUME NEW u \in User, UploadFails(u) PROVE GrantInv'
  BY <1>17 DEF UploadFails
<1>18. ASSUME NEW u \in User, NEW id \in IdOrNone, ReadAnswered(u, id)
      PROVE  GrantInv'
  BY <1>18 DEF ReadAnswered
<1>19. ASSUME NEW u \in User, NEW id \in IdOrNone, ReadDone(u, id)
      PROVE  GrantInv'
  BY <1>19 DEF ReadDone, SetNotUnique
<1>20. ASSUME NEW u \in User, TapUpdateNoName(u) PROVE GrantInv'
  BY <1>20 DEF TapUpdateNoName
<1>21. ASSUME NEW u \in User, TapRegisterOthers(u) PROVE GrantInv'
  BY <1>21 DEF TapRegisterOthers
<1>22. ASSUME NEW u \in User, TapRegisterNothing(u) PROVE GrantInv'
  BY <1>22 DEF TapRegisterNothing
<1>23. ASSUME NEW u \in User, TapLaterNo(u) PROVE GrantInv'
  BY <1>23 DEF TapLaterNo
<1>24. CASE UNCHANGED vars
  BY <1>24 DEF vars
<1> QED BY <1>1, <1>2, <1>3, <1>4, <1>5, <1>6, <1>7, <1>8, <1>9, <1>10, <1>11,
           <1>12, <1>13, <1>14, <1>15, <1>16, <1>17, <1>18, <1>19, <1>20, <1>21, <1>22,
           <1>23, <1>24
        DEF Next, Tap, Complete

LEMMA GrantInvInit == Init => GrantInv
  BY IdAssumption, StartAssumption DEF Init, GrantInv, FreeIsGranted,
     WritesWereChecked, IdsWereChecked, GrantMeetsOwner, SharedOnlyIfGrantedTwice

(* Two users share an ID only if both were granted it, or it was registered  *)
(* on another ID's answer, or a cache granted it while it was in use: the    *)
(* race of two checks, the late answer and the offline check are the only    *)
(* ways to a duplicate.                                                      *)
THEOREM SharingNeedsTwoGrants == Spec => []SharedOnlyIfGrantedTwice
<1>1. GrantInv => SharedOnlyIfGrantedTwice
  BY DEF GrantInv
<1> QED BY <1>1, GrantInvInit, GrantInvStep, TypeCorrect, PTL DEF Spec
-----------------------------------------------------------------------------
(* What keeps an unchecked ID from being registered while no answer is late: *)
(* a set flag is about the ID in the field, or about the user's own ID, for  *)
(* which the account screen writes nothing and which a new user lacks.       *)
FlagIsAboutField ==
  \A u \in User : isUserIdUnique[u] => field[u] \in granted[u] \cup {cached[u]}
NewUserHasNoId ==
  \A u \in User : screen[u] # "account" => cached[u] = NoId /\ reads[u] = {}

LateInv == /\ FreeIsGranted /\ NewUserHasNoId
           /\ ~late => FlagIsAboutField /\ blind = {}

LEMMA LateInvStep ==
  ASSUME TypeOK, LateInv, [Next]_vars
  PROVE  LateInv'
<1> USE DEF LateInv, FreeIsGranted, NewUserHasNoId, FlagIsAboutField, TypeOK,
            history
<1>1. ASSUME NEW u \in User, NEW id \in IdOrNone, Edit(u, id) PROVE LateInv'
  BY <1>1 DEF Edit, SetNotUnique
<1>2. ASSUME NEW u \in User, TapCheckEmpty(u) PROVE LateInv'
  BY <1>2 DEF TapCheckEmpty
<1>3. ASSUME NEW u \in User, TapCheckOwn(u) PROVE LateInv'
  BY <1>3 DEF TapCheckOwn, SetUnique
<1>4. ASSUME NEW u \in User, TapCheck(u) PROVE LateInv'
  BY <1>4 DEF TapCheck
<1>5. ASSUME NEW u \in User, NEW c \in checks[u], AnswerFree(u, c)
      PROVE  LateInv'
  BY <1>5 DEF AnswerFree, Granted, InUse
<1>6. ASSUME NEW u \in User, NEW c \in checks[u], AnswerFromCache(u, c)
      PROVE  LateInv'
  BY <1>6 DEF AnswerFromCache, Granted, InUse
<1>7. ASSUME NEW u \in User, NEW c \in checks[u], AnswerTaken(u, c)
      PROVE  LateInv'
  BY <1>7 DEF AnswerTaken
<1>8. ASSUME NEW u \in User, NEW c \in checks[u], CheckFree(u, c)
      PROVE  LateInv'
  BY <1>8 DEF CheckFree, SetUnique
<1>9. ASSUME NEW u \in User, NEW c \in checks[u], CheckTaken(u, c)
      PROVE  LateInv'
  BY <1>9 DEF CheckTaken, SetNotUnique
<1>10. ASSUME NEW u \in User, TapOK(u) PROVE LateInv'
  BY <1>10 DEF TapOK, SetNotUnique
<1>11. ASSUME NEW u \in User, TapRegisterUnchecked(u) PROVE LateInv'
  BY <1>11 DEF TapRegisterUnchecked
<1>12. ASSUME NEW u \in User, TapRegister(u) PROVE LateInv'
  BY <1>12 DEF TapRegister, Active
<1>13. ASSUME NEW u \in User, TapUpdateOthers(u) PROVE LateInv'
  BY <1>13 DEF TapUpdateOthers
<1>14. ASSUME NEW u \in User, TapSkip(u) PROVE LateInv'
  BY <1>14 DEF TapSkip, GoChatListView, SetNotUnique
<1>15. ASSUME NEW u \in User, NEW id \in IdOrNone, Commit(u, id) PROVE LateInv'
  BY <1>15 DEF Commit, GoChatListView, SetNotUnique
<1>16. ASSUME NEW u \in User, NEW id \in IdOrNone, WriteFails(u, id) PROVE LateInv'
  BY <1>16 DEF WriteFails
<1>17. ASSUME NEW u \in User, UploadFails(u) PROVE LateInv'
  BY <1>17 DEF UploadFails
<1>18. ASSUME NEW u \in User, NEW id \in IdOrNone, ReadAnswered(u, id)
      PROVE  LateInv'
  BY <1>18 DEF ReadAnswered
<1>19. ASSUME NEW u \in User, NEW id \in IdOrNone, ReadDone(u, id)
      PROVE  LateInv'
  BY <1>19 DEF ReadDone, SetNotUnique
<1>20. ASSUME NEW u \in User, TapUpdateNoName(u) PROVE LateInv'
  BY <1>20 DEF TapUpdateNoName
<1>21. ASSUME NEW u \in User, TapRegisterOthers(u) PROVE LateInv'
  BY <1>21 DEF TapRegisterOthers
<1>22. ASSUME NEW u \in User, TapRegisterNothing(u) PROVE LateInv'
  BY <1>22 DEF TapRegisterNothing
<1>23. ASSUME NEW u \in User, TapLaterNo(u) PROVE LateInv'
  BY <1>23 DEF TapLaterNo
<1>24. CASE UNCHANGED vars
  BY <1>24 DEF vars
<1> QED BY <1>1, <1>2, <1>3, <1>4, <1>5, <1>6, <1>7, <1>8, <1>9, <1>10, <1>11,
           <1>12, <1>13, <1>14, <1>15, <1>16, <1>17, <1>18, <1>19, <1>20, <1>21, <1>22,
           <1>23, <1>24
        DEF Next, Tap, Complete

(* While no answer comes late, no ID is registered but one that a check has  *)
(* granted to that user.                                                     *)
THEOREM BlindNeedsLate == Spec => []BlindOnlyIfLate
<1>1. Init => LateInv
  BY StartAssumption DEF Init, LateInv, FreeIsGranted, NewUserHasNoId,
     FlagIsAboutField
<1>2. LateInv => BlindOnlyIfLate
  BY DEF LateInv, BlindOnlyIfLate
<1> QED BY <1>1, <1>2, LateInvStep, TypeCorrect, PTL DEF Spec
=============================================================================
