-------------------------- MODULE UserPages_proofs --------------------------
(* Proofs about the pages of the user himself, page by page: s1, s2, ... stand *)
(* for the variables of the page, in the order of its instance in Pages.       *)
EXTENDS Pages, FiniteSetTheorems, SequenceTheorems, TLAPS

-----------------------------------------------------------------------------
(* The logins of the pentesters: s1 their profiles, s2 the logins, s8 who is   *)
(* being deactivated, s10, s11 and s15 the people on display, s16 the lists on *)
(* their way. The invariant is Directory's.                                    *)

\* "No value" is nobody who is deactivated.
LEMMA NoneIsNobody == None \notin [who : Dir!People, step : {"sent", "inactive", "done", "failed"}]
BY NoneAssumption DEF Dir!People

\* At first everybody who is listed has a profile, and no login is half created.
LEMMA DirectoryInit == Dir!Init => Dir!IInv
<1> SUFFICES ASSUME Dir!Init PROVE Dir!IInv
  OBVIOUS
<1>1. Dir!Listed(s14) \subseteq Dir!Known
  BY DEF Dir!Listed, Dir!Known
<1>2. Dir!Listed(s14) \subseteq Dir!People
  BY DEF Dir!Listed
<1>3. s16 \in Seq(SUBSET Dir!People) /\ \A i \in 1..Len(s16) : s16[i] \subseteq Dir!Known
  BY <1>1, <1>2 DEF Dir!Init
<1>4. Dir!Typed
  BY <1>3 DEF Dir!Init, Dir!Typed, Dir!TypeOK, Dir!Steps, Dir!Views, Dir!People
<1>5. Dir!ShownAreKnown
  BY <1>3 DEF Dir!Init, Dir!ShownAreKnown
<1>6. Dir!DeactivationsAreConfirmed
  BY DEF Dir!Init, Dir!DeactivationsAreConfirmed, Dir!DeactivatedWasConfirmed
<1>7. Dir!AccountsAreSound
  BY DEF Dir!Init, Dir!AccountsAreSound, Dir!HalfCreated, Dir!DeactivatedIsLockedOut
<1> QED BY <1>4, <1>5, <1>6, <1>7 DEF Dir!IInv

\* An answer on its way lists people that are known, and they stay.
LEMMA AnswersKept ==
  ASSUME Dir!IInv, Dir!Known \subseteq Dir!Known',
         \/ s16' = s16
         \/ \E v \in Dir!Views : s16' = Append(s16, Dir!Listed(v))
         \/ \E i \in 1..Len(s16) : s16' = SubSeq(s16, 1, i - 1) \o SubSeq(s16, i + 1, Len(s16))
  PROVE  s16' \in Seq(SUBSET Dir!People) /\ \A i \in 1..Len(s16') : s16'[i] \subseteq Dir!Known'
<1>1. s16 \in Seq(SUBSET Dir!People) /\ \A i \in 1..Len(s16) : s16[i] \subseteq Dir!Known
  BY DEF Dir!IInv, Dir!Typed, Dir!ShownAreKnown
<1>2. ASSUME NEW v \in Dir!Views, s16' = Append(s16, Dir!Listed(v)) PROVE s16' \in Seq(SUBSET
   Dir!Known)
  BY <1>1, <1>2 DEF Dir!Listed, Dir!Known
<1>3. ASSUME NEW i \in 1..Len(s16), s16' = SubSeq(s16, 1, i - 1) \o SubSeq(s16, i + 1, Len(s16))
   PROVE s16' \in Seq(SUBSET Dir!Known)
  BY <1>1, <1>3 
<1>4. ASSUME s16' = s16 PROVE s16' \in Seq(SUBSET Dir!Known)
  BY <1>1, <1>4
<1>5. s16' \in Seq(SUBSET Dir!Known) /\ Dir!Known \subseteq Dir!People
  BY <1>2, <1>3, <1>4 DEF Dir!Known
<1> HIDE DEF Dir!Known
<1> QED BY <1>5

\* A profile is not deleted, and so the lists on their way stay right.
LEMMA KnownStay ==
  ASSUME Dir!IInv, [Dir!Next]_Dir!dvars
  PROVE  /\ Dir!Known \subseteq Dir!Known'
         /\ s16' \in Seq(SUBSET Dir!People) /\ \A i \in 1..Len(s16') : s16'[i] \subseteq Dir!Known'
<1> USE DEF Dir!accounts, Dir!dialog, Dir!panel, Dir!listing
<1>1. s1 \in [Dir!People -> {"none", "active", "inactive"}]
      /\ s8 \in [who : Dir!People, step : {"sent", "inactive", "done", "failed"}] \union {None}
  BY DEF Dir!IInv, Dir!Typed, Dir!TypeOK
<1>2. s1' = s1 \/ Dir!CreateProfile \/ Dir!DeactivateProfile
  BY DEF Dir!Next, Dir!Adding, Dir!ChooseView, Dir!ListArrives, Dir!OpenDialog, Dir!FillIn,
     Dir!CloseDialog, Dir!handleAddPentester, Dir!CreateAccount,
  Dir!AssignRole, Dir!CreationFails, Dir!CleanUp, Dir!PentesterAdded, Dir!AddingFails,
     Dir!openPentester, Dir!DetailArrives, Dir!CloseProfile,
  Dir!AskToDeactivate, Dir!handleDeletePentester, Dir!DisableLogin, Dir!Deactivated,
     Dir!DeactivationFails, Dir!EngagementArrives, Dir!loadWorkload, Dir!dvars
<1>3. Dir!Known \subseteq Dir!Known'
  <2>1. CASE Dir!CreateProfile
    BY <1>1, <2>1 DEF Dir!CreateProfile, Dir!Known
  <2>2. CASE Dir!DeactivateProfile
    BY <1>1, <2>2 DEF Dir!DeactivateProfile, Dir!Known
  <2> QED BY <1>2, <2>1, <2>2 DEF Dir!Known
<1>4. \/ s16' = s16
      \/ \E v \in Dir!Views : s16' = Append(s16, Dir!Listed(v))
      \/ \E i \in 1..Len(s16) : s16' = SubSeq(s16, 1, i - 1) \o SubSeq(s16, i + 1, Len(s16))
  <2>1. s14 \in Dir!Views
    BY DEF Dir!IInv, Dir!Typed, Dir!TypeOK
  <2> QED BY <2>1 DEF Dir!Next, Dir!Adding, Dir!ChooseView, Dir!ListArrives, Dir!OpenDialog,
     Dir!FillIn, Dir!CloseDialog, Dir!handleAddPentester, Dir!CreateAccount,
  Dir!AssignRole, Dir!CreateProfile, Dir!CreationFails, Dir!CleanUp, Dir!PentesterAdded,
     Dir!AddingFails, Dir!openPentester, Dir!DetailArrives, Dir!CloseProfile,
  Dir!AskToDeactivate, Dir!handleDeletePentester, Dir!DisableLogin, Dir!DeactivateProfile,
     Dir!Deactivated, Dir!DeactivationFails, Dir!EngagementArrives, Dir!loadWorkload, Dir!dvars,
     Dir!loadPentesters
<1> QED BY <1>3, <1>4, AnswersKept

\* Every step leaves the profiles, the logins and what is shown of them sound.
LEMMA DirectoryStepSound == Dir!IInv /\ [Dir!Next]_Dir!dvars => Dir!IInv'
<1> SUFFICES ASSUME Dir!IInv, [Dir!Next]_Dir!dvars PROVE Dir!IInv'
  OBVIOUS
<1> DEFINE ListsFine ==
             s16 \in Seq(SUBSET Dir!People) /\ \A i \in 1..Len(s16) : s16[i] \subseteq Dir!Known
<1>1. ListsFine' /\ Dir!Known \subseteq Dir!Known'
  BY KnownStay
<1> HIDE DEF ListsFine
<1>2. ASSUME /\ s15' \subseteq Dir!Known' /\ s10' \subseteq Dir!Known'
             /\ s11' # None => s11'.who \in Dir!Known'
             /\ s8' # None => s8'.who \in Dir!Known'
             /\ Dir!TypeOK' /\ s12' \in BOOLEAN /\ s13' \subseteq Dir!People
             /\ Dir!DeactivationsAreConfirmed' /\ Dir!AccountsAreSound'
      PROVE  Dir!IInv'
  BY <1>1, <1>2 DEF Dir!IInv, Dir!Typed, Dir!ShownAreKnown, Dir!Known, ListsFine
<1>3. /\ s1 \in [Dir!People -> {"none", "active", "inactive"}]
      /\ s2 \in [Dir!People -> {"none", "enabled", "disabled"}]
      /\ \A p \in Dir!Known : p \in Dir!People /\ s1[p] # "none"
      /\ \A p \in Dir!People : s1[p] # "none" => p \in Dir!Known
      /\ \A i \in 1..Len(s16) : s16[i] \subseteq Dir!Known
  BY DEF Dir!IInv, Dir!Typed, Dir!TypeOK, Dir!Known, Dir!ShownAreKnown
<1>4. "new" \in Dir!People
  BY DEF Dir!People
<1> USE DEF Dir!IInv, Dir!Typed, Dir!TypeOK, Dir!ShownAreKnown, Dir!DeactivationsAreConfirmed,
   Dir!DeactivatedWasConfirmed,
            Dir!AccountsAreSound, Dir!HalfCreated, Dir!DeactivatedIsLockedOut, Dir!accounts,
               Dir!dialog, Dir!panel, Dir!listing
<1>5. ASSUME NEW v \in Dir!Views, Dir!ChooseView(v) PROVE Dir!IInv'
  BY <1>1, <1>2, <1>3, <1>5, NoneIsNobody DEF Dir!ChooseView, Dir!Steps
<1>6. ASSUME NEW i \in 1..2, Dir!ListArrives(i) PROVE Dir!IInv'
  BY <1>1, <1>2, <1>3, <1>6, NoneIsNobody DEF Dir!ListArrives, Dir!Steps
<1>7. CASE Dir!OpenDialog
  BY <1>1, <1>2, <1>3, <1>7, NoneIsNobody DEF Dir!OpenDialog, Dir!Steps
<1>8. CASE Dir!FillIn
  BY <1>1, <1>2, <1>3, <1>8, NoneIsNobody DEF Dir!FillIn, Dir!Steps
<1>9. CASE Dir!CloseDialog
  BY <1>1, <1>2, <1>3, <1>9, NoneIsNobody DEF Dir!CloseDialog, Dir!Steps
<1>10. CASE Dir!handleAddPentester
  BY <1>1, <1>2, <1>3, <1>10, NoneIsNobody DEF Dir!handleAddPentester, Dir!Steps
<1>11. CASE Dir!CreateAccount
  BY <1>1, <1>2, <1>3, <1>4, <1>11, NoneIsNobody DEF Dir!CreateAccount, Dir!Steps
<1>12. CASE Dir!AssignRole
  BY <1>1, <1>2, <1>3, <1>12, NoneIsNobody DEF Dir!AssignRole, Dir!Steps
<1>13. CASE Dir!CreateProfile
  BY <1>1, <1>2, <1>3, <1>13, NoneIsNobody DEF Dir!CreateProfile, Dir!Steps
<1>14. CASE Dir!CreationFails
  BY <1>1, <1>2, <1>3, <1>14, NoneIsNobody DEF Dir!CreationFails, Dir!Steps
<1>15. CASE Dir!CleanUp
  BY <1>1, <1>2, <1>3, <1>4, <1>15, NoneIsNobody DEF Dir!CleanUp, Dir!Steps
<1>16. CASE Dir!PentesterAdded
  BY <1>1, <1>2, <1>3, <1>16, NoneIsNobody DEF Dir!PentesterAdded, Dir!Steps
<1>17. CASE Dir!AddingFails
  BY <1>1, <1>2, <1>3, <1>17, NoneIsNobody DEF Dir!AddingFails, Dir!Steps
<1>18. ASSUME NEW p \in Dir!People, Dir!openPentester(p) PROVE Dir!IInv'
  BY <1>1, <1>2, <1>3, <1>18, NoneIsNobody DEF Dir!openPentester, Dir!Steps
<1>19. ASSUME NEW p \in Dir!People, Dir!DetailArrives(p) PROVE Dir!IInv'
  BY <1>1, <1>2, <1>3, <1>19, NoneIsNobody DEF Dir!DetailArrives, Dir!Steps
<1>20. CASE Dir!CloseProfile
  BY <1>1, <1>2, <1>3, <1>20, NoneIsNobody DEF Dir!CloseProfile, Dir!Steps
<1>21. CASE Dir!AskToDeactivate
  BY <1>1, <1>2, <1>3, <1>21, NoneIsNobody DEF Dir!AskToDeactivate, Dir!Steps
<1>22. CASE Dir!handleDeletePentester
  BY <1>1, <1>2, <1>3, <1>22, NoneIsNobody DEF Dir!handleDeletePentester, Dir!Steps
<1>23. CASE Dir!DeactivateProfile
  BY <1>1, <1>2, <1>3, <1>23, NoneIsNobody DEF Dir!DeactivateProfile, Dir!Steps
<1>24. CASE Dir!DisableLogin
  BY <1>1, <1>2, <1>3, <1>4, <1>24, NoneIsNobody DEF Dir!DisableLogin, Dir!Steps
<1>25. CASE Dir!Deactivated
  BY <1>1, <1>2, <1>3, <1>25, NoneIsNobody DEF Dir!Deactivated, Dir!Steps
<1>26. CASE Dir!DeactivationFails
  BY <1>1, <1>2, <1>3, <1>26, NoneIsNobody DEF Dir!DeactivationFails, Dir!Steps
<1>27. CASE Dir!EngagementArrives
  BY <1>1, <1>2, <1>3, <1>27, NoneIsNobody DEF Dir!EngagementArrives, Dir!Steps
<1>28. CASE Dir!loadWorkload
  BY <1>1, <1>2, <1>3, <1>28, NoneIsNobody DEF Dir!loadWorkload, Dir!Steps
<1>29. CASE UNCHANGED Dir!dvars
  BY <1>1, <1>2, <1>3, <1>29 DEF Dir!dvars
<1> QED BY <1>5, <1>6, <1>7, <1>8, <1>9, <1>10, <1>11, <1>12, <1>13, <1>14, <1>15, <1>16, <1>17,
   <1>18, <1>19, <1>20, <1>21, <1>22, <1>23, <1>24, <1>25, <1>26, <1>27, <1>28, <1>29 DEF Dir!Next,
   Dir!Adding

-----------------------------------------------------------------------------
(* The menu and the guards of the pages: s1 the visitor, s3 the role that the  *)
(* menu was told, s4 the page on display, s5 where he goes.                    *)

\* The home of a role is a page.
LEMMA HomesArePages == \A role \in Acc!AppRole : Acc!ROLE_HOME[role] \in Acc!Pages
BY DEF Acc!AppRole, Acc!ROLE_HOME, Acc!Pages, Acc!RoleSections, Acc!AccountSections

\* Whom a section lets in is written in two files, and is the same in both.
LEMMA MenuAgreesWithGuards ==
  ASSUME NEW role \in Acc!AppRole, NEW path, NEW link \in Acc!NavItems(role, path)
  PROVE  role \in Acc!Required(link)
BY DEF Acc!AppRole, Acc!NavItems, Acc!Required, Acc!canVisitPage, Acc!RoleSections,
       Acc!AccountSections

\* Whoever visits has a role, and is on his way to a page.
LEMMA AccessTyped == Acc!Spec => []Acc!TypeOK
<1>1. Acc!Init => Acc!TypeOK
  BY DEF Acc!Init, Acc!TypeOK, Acc!Pages
<1>2. Acc!TypeOK /\ [Acc!Next]_Acc!pvars => Acc!TypeOK'
  <2> SUFFICES ASSUME Acc!TypeOK, [Acc!Next]_Acc!pvars PROVE Acc!TypeOK'
    OBVIOUS
  <2> USE DEF Acc!TypeOK
  <2>1. ASSUME NEW role \in Acc!AppRole, Acc!SignIn(role) PROVE Acc!TypeOK'
    BY <2>1, HomesArePages DEF Acc!SignIn
  <2>2. ASSUME NEW role \in Acc!AppRole \union {None}, Acc!OtherTab(role) PROVE Acc!TypeOK'
    BY <2>2 DEF Acc!OtherTab
  <2>3. ASSUME NEW p \in Acc!Pages, Acc!Follow(p) \/ Acc!Visit(p) PROVE Acc!TypeOK'
    BY <2>3 DEF Acc!Follow, Acc!Visit
  <2>4. CASE Acc!RoleArrives
    BY <2>4 DEF Acc!RoleArrives
  <2>5. CASE Acc!requirePageRole
    <3>1. CASE s1 \in Acc!Required(s5)
      BY <2>5, <3>1 DEF Acc!requirePageRole, Acc!Show, Acc!Outside
    <3>2. CASE s1 = None /\ s1 \notin Acc!Required(s5)
      BY <2>5, <3>2 DEF Acc!requirePageRole, Acc!Show, Acc!Outside
    <3>3. CASE s1 # None /\ s1 \notin Acc!Required(s5)
      <4>1. s5' = Acc!ROLE_HOME[s1] /\ UNCHANGED <<s1, s2, s3, s4>>
        BY <2>5, <3>3 DEF Acc!requirePageRole
      <4> QED BY <3>3, <4>1, HomesArePages
    <3> QED BY <3>1, <3>2, <3>3
  <2>6. CASE Acc!BackendFails
    BY <2>6 DEF Acc!BackendFails, Acc!Show, Acc!Outside
  <2>7. CASE UNCHANGED Acc!pvars
    BY <2>7 DEF Acc!pvars
  <2> QED BY <2>1, <2>2, <2>3, <2>4, <2>5, <2>6, <2>7 DEF Acc!Next
<1> QED BY <1>1, <1>2, PTL DEF Acc!Spec

\* Once the menu knows the role, every link it offers lets him in.
LEMMA LinksLeadIn == Acc!Spec => []Acc!MenuLeadsToPages
<1>1. Acc!TypeOK => Acc!MenuLeadsToPages
  BY MenuAgreesWithGuards DEF Acc!TypeOK, Acc!MenuLeadsToPages
<1> QED BY <1>1, AccessTyped, PTL

-----------------------------------------------------------------------------
(* The session of the browser: s1 is the session at Keycloak, s2 counts the    *)
(* logins, s3 the cookies, s4 and s5 the logins under way, s6 the calls of the *)
(* callers, s8 whether the page leaves, s9 to s12 what ended or came late.     *)

\* Before anybody signs in.
LEMMA SessionInit == Ses!Init => Ses!IInv
<1> SUFFICES ASSUME Ses!Init PROVE Ses!IInv
  OBVIOUS
<1>1. Ses!Idle \in Ses!Calls /\ Ses!Idle.cookies = "keep" /\ Ses!Idle.phase = "idle"
  BY DEF Ses!Idle, Ses!Calls, Ses!Phases
<1>2. Ses!Typed
  BY <1>1 DEF Ses!Init, Ses!Typed, Ses!NoCookies
<1>3. Ses!CallsKeepTheSession /\ Ses!CallsBringNothingBack
  BY <1>1 DEF Ses!Init, Ses!CallsKeepTheSession, Ses!CallsBringNothingBack, Ses!NoCookies
<1> QED BY <1>2, <1>3 DEF Ses!IInv

\* An answer of a proxy brings the cookies of the session there is, and takes none away
\* while that session lives.
LEMMA AnswersAreSound ==
  ASSUME Ses!IInv, NEW a, a \in Ses!Proxies \union {Ses!RefreshRoute}
  PROVE  /\ a \in [ok : BOOLEAN, cookies : {"keep", "set", "delete"}, n : Nat]
         /\ a.cookies = "set" => s3.session # 0 /\ a.n = s3.session /\ a.ok
         /\ s3.session # 0 /\ s3.session = s1 => a.cookies # "delete"
         /\ s3.session # 0 /\ s3.session = s1 =>
              /\ a = Ses!RefreshRoute => a.ok /\ a.cookies = "set"
              /\ ~a.ok => s3.access = "gone"
<1>1. \A ok \in BOOLEAN, cookies \in {"keep", "set", "delete"} :
        Ses!Answer(ok, cookies) \in [ok : BOOLEAN, cookies : {"keep", "set", "delete"}, n : Nat]
  BY DEF Ses!IInv, Ses!Typed, Ses!Answer
<1>2. CASE a = Ses!RefreshRoute
  BY <1>1, <1>2 DEF Ses!RefreshRoute, Ses!refreshAccessToken, Ses!Answer
<1>3. CASE a = Ses!proxyToServiceDeliveryApi
  BY <1>1, <1>3 DEF Ses!proxyToServiceDeliveryApi, Ses!Answer, Ses!RefreshRoute,
     Ses!refreshAccessToken
<1>4. CASE a = Ses!fetchPublicScansApi
  BY <1>1, <1>4 DEF Ses!fetchPublicScansApi, Ses!Answer, Ses!RefreshRoute, Ses!refreshAccessToken
<1>5. CASE a = Ses!authenticatedBackendRequest
  BY <1>1, <1>2, <1>5 DEF Ses!authenticatedBackendRequest, Ses!Answer, Ses!RefreshRoute,
     Ses!refreshAccessToken
<1> QED BY <1>2, <1>3, <1>4, <1>5 DEF Ses!Proxies, Ses!proxyToScansApi

\* A request on its way carries such an answer.
LEMMA SendingKeeps ==
  ASSUME Ses!IInv, NEW c \in Ses!Callers, NEW phase \in Ses!Phases,
         NEW a \in Ses!Proxies \union {Ses!RefreshRoute},
         Ses!Send(c, phase, a), phase = "refresh" => a = Ses!RefreshRoute,
         phase # "renewed", phase = "third" => s6[c].phase = "renewed",
         ~s9 /\ faults = 0 => s1 # 0,
         UNCHANGED <<Ses!keycloak, s3, s8, Ses!history, faults>>
  PROVE  Ses!IInv'
<1>1. /\ a \in [ok : BOOLEAN, cookies : {"keep", "set", "delete"}, n : Nat]
      /\ a.cookies = "set" => s3.session # 0 /\ a.n = s3.session /\ a.ok
      /\ s3.session # 0 /\ s3.session = s1 => a.cookies # "delete"
      /\ s3.session # 0 /\ s3.session = s1 =>
           /\ a = Ses!RefreshRoute => a.ok /\ a.cookies = "set"
           /\ ~a.ok => s3.access = "gone"
  BY AnswersAreSound
<1> DEFINE b == [phase |-> phase, ok |-> a.ok, cookies |-> a.cookies, n |-> a.n]
<1>2. b \in Ses!Calls
  BY <1>1 DEF Ses!Calls
<1>3. s6' = [s6 EXCEPT ![c] = b]
  BY DEF Ses!Send
<1>4. (b.ok <=> a.ok) /\ b.cookies = a.cookies /\ b.n = a.n /\ b.phase = phase
  OBVIOUS
<1> HIDE DEF b
<1>5. Ses!Typed'
  BY <1>2, <1>3 DEF Ses!IInv, Ses!Typed, Ses!keycloak, Ses!history
<1>6. Ses!CallsKeepTheSession'
  BY <1>1, <1>2, <1>3, <1>4 DEF Ses!IInv, Ses!Typed, Ses!CallsKeepTheSession, Ses!keycloak,
     Ses!history
<1>7. Ses!CallsBringNothingBack'
  BY <1>1, <1>2, <1>3, <1>4 DEF Ses!IInv, Ses!Typed, Ses!CallsBringNothingBack, Ses!keycloak,
     Ses!history
<1> QED BY <1>5, <1>6, <1>7 DEF Ses!IInv

\* An answer that arrives sets the cookies it brings, and a call goes on without any.
LEMMA ArrivalKeeps ==
  ASSUME Ses!IInv, NEW c \in Ses!Callers, s6[c].phase # "idle", Ses!Arrives(c) \/ UNCHANGED s3,
         NEW a \in Ses!Calls, s6' = [s6 EXCEPT ![c] = a], a.cookies # "set",
         UNCHANGED <<Ses!keycloak, Ses!history>>, s8' \in BOOLEAN, faults' \in Nat,
         ~s9 /\ faults' = 0 =>
           /\ faults = 0 /\ (s8' => s12)
           /\ a.cookies = "keep" /\ a.phase \notin {"refresh", "third"}
           /\ a.phase = "renewed" => s3'.access # "gone"
  PROVE  Ses!IInv'
<1>1. s3' \in {s3, Ses!setAuthCookies(s6[c].n), Ses!NoCookies}
  BY DEF Ses!IInv, Ses!Typed, Ses!Calls, Ses!Arrives
<1>2. s6[c] \in Ses!Calls
  BY DEF Ses!IInv, Ses!Typed
<1>3. Ses!Typed'
  BY <1>1, <1>2 DEF Ses!IInv, Ses!Typed, Ses!keycloak, Ses!history, Ses!setAuthCookies,
     Ses!NoCookies, Ses!Calls
<1>4. Ses!CallsKeepTheSession'
  <2> SUFFICES ASSUME ~s9, faults' = 0 PROVE Ses!CallsKeepTheSession'
    BY DEF Ses!CallsKeepTheSession, Ses!history
  <2>1. Ses!CallsKeepTheSession /\ faults = 0
    BY DEF Ses!IInv
  <2>2. s6[c] # Ses!Idle
    BY DEF Ses!Idle
  <2>3. s1 # 0
    BY <2>1, <2>2 DEF Ses!CallsKeepTheSession
  <2>4. s3'.session = s1 /\ (s3' = s3 \/ s3'.access = "fresh")
    BY <2>1, <1>2, <2>3 DEF Ses!CallsKeepTheSession, Ses!Arrives, Ses!setAuthCookies, Ses!Calls
  <2> QED BY <2>1, <2>3, <2>4, <1>2 DEF Ses!CallsKeepTheSession, Ses!keycloak, Ses!history,
     Ses!IInv, Ses!Typed
<1>5. Ses!CallsBringNothingBack'
  <2> SUFFICES ASSUME s10, ~s11 PROVE Ses!CallsBringNothingBack'
    BY DEF Ses!CallsBringNothingBack, Ses!history
  <2>1. Ses!CallsBringNothingBack
    BY DEF Ses!IInv
  <2>2. s3'.session = 0
    BY <2>1, <1>2 DEF Ses!CallsBringNothingBack, Ses!Arrives, Ses!NoCookies, Ses!Calls
  <2> QED BY <2>1, <2>2, <1>2 DEF Ses!CallsBringNothingBack, Ses!history, Ses!IInv, Ses!Typed
<1> QED BY <1>3, <1>4, <1>5 DEF Ses!IInv

\* A call that brings no cookies.
LEMMA PlainCalls ==
  /\ Ses!Idle \in Ses!Calls /\ Ses!Idle.cookies = "keep" /\ Ses!Idle.phase = "idle"
  /\ [Ses!Idle EXCEPT !.phase = "waiting"] \in Ses!Calls
  /\ [Ses!Idle EXCEPT !.phase = "waiting"].cookies = "keep"
  /\ [Ses!Idle EXCEPT !.phase = "waiting"].phase = "waiting"
  /\ [Ses!Idle EXCEPT !.phase = "renewed"] \in Ses!Calls
  /\ [Ses!Idle EXCEPT !.phase = "renewed"].cookies = "keep"
  /\ [Ses!Idle EXCEPT !.phase = "renewed"].phase = "renewed"
<1> QED BY DEF Ses!Idle, Ses!Calls, Ses!Phases

\* The page leaves only when the session has ended, a request has failed or a renewed token
\* has expired.
LEMMA LeavingIsLate ==
  Ses!IInv =>
    /\ s8 \in BOOLEAN /\ faults \in Nat
    /\ ~s9 /\ faults = 0 => (s8 => s12)
<1> QED BY DEF Ses!IInv, Ses!Typed, Ses!CallsKeepTheSession

\* Every step keeps the invariant of BrowserSession.
LEMMA SessionStepSound == ASSUME Ses!IInv, [Ses!Next]_Ses!bvars PROVE Ses!IInv'
<1>0. Ses!IInv
  OBVIOUS
<1>1. CASE UNCHANGED Ses!bvars
  BY <1>1 DEF Ses!bvars, Ses!keycloak, Ses!signIn, Ses!history, Ses!IInv, Ses!Typed,
     Ses!CallsKeepTheSession, Ses!CallsBringNothingBack
<1>2. ASSUME NEW c \in Ses!Callers, Ses!authenticatedFetch(c) PROVE Ses!IInv'
  <2>1. PICK a \in Ses!Proxies : Ses!Send(c, "first", a)
    BY <1>2 DEF Ses!authenticatedFetch
  <2>2. UNCHANGED <<Ses!keycloak, s3, s8, Ses!history, faults>>
    BY <1>2 DEF Ses!authenticatedFetch
  <2>3. ~s9 /\ faults = 0 => s1 # 0
    BY <1>2 DEF Ses!authenticatedFetch, Ses!IInv, Ses!CallsKeepTheSession
  <2> QED BY <2>1, <2>2, <2>3, SendingKeeps DEF Ses!Phases
<1>3. ASSUME NEW c \in Ses!Callers, Ses!FirstArrives(c) PROVE Ses!IInv'
  <2>1. \/ s6' = [s6 EXCEPT ![c] = Ses!Idle]
        \/ s6' = [s6 EXCEPT ![c] = [Ses!Idle EXCEPT !.phase = "waiting"]]
    BY <1>3 DEF Ses!FirstArrives, Ses!Done
  <2>2. /\ s6[c].phase # "idle" /\ Ses!Arrives(c)
        /\ UNCHANGED <<Ses!keycloak, s8, Ses!history, faults>>
    BY <1>3 DEF Ses!FirstArrives
  <2> QED BY <2>1, <2>2, LeavingIsLate, PlainCalls, ArrivalKeeps
<1>4. ASSUME NEW c \in Ses!Callers, Ses!Retry(c) PROVE Ses!IInv'
  <2>1. PICK a \in Ses!Proxies : Ses!Send(c, "again", a)
    BY <1>4 DEF Ses!Retry
  <2>2. UNCHANGED <<Ses!keycloak, s3, s8, Ses!history, faults>> /\ s6[c].phase = "waiting"
    BY <1>4 DEF Ses!Retry
  <2>3. ~s9 /\ faults = 0 => s1 # 0
    BY <2>2, PlainCalls DEF Ses!IInv, Ses!CallsKeepTheSession
  <2> QED BY <2>1, <2>2, <2>3, SendingKeeps DEF Ses!Phases
<1>5. ASSUME NEW c \in Ses!Callers, Ses!RetryArrives(c) PROVE Ses!IInv'
  <2>1. s6[c].phase = "again" /\ UNCHANGED <<Ses!keycloak, Ses!history, faults>>
    BY <1>5 DEF Ses!RetryArrives
  <2>2. CASE s6[c].ok
    <3>1. s6' = [s6 EXCEPT ![c] = Ses!Idle] /\ s8' = s8 /\ Ses!Arrives(c)
      BY <1>5, <2>2 DEF Ses!RetryArrives, Ses!Release, Ses!Done
    <3> QED BY <2>1, <3>1, LeavingIsLate, PlainCalls, ArrivalKeeps
  <2>3. CASE ~s6[c].ok /\ s6[c].cookies # "keep"
    <3> DEFINE a == [phase |-> "refresh", ok |-> FALSE, cookies |-> "delete", n |-> 0]
    <3>1. s6' = [s6 EXCEPT ![c] = a] /\ s8' = s8 /\ Ses!Arrives(c)
      BY <1>5, <2>3 DEF Ses!RetryArrives, Ses!Send
    <3>2. a \in Ses!Calls /\ a.cookies = "delete"
      BY DEF Ses!Calls, Ses!Phases
    <3>3. s9 \/ faults # 0
      BY <2>3 DEF Ses!IInv, Ses!Typed, Ses!CallsKeepTheSession, Ses!Calls
    <3> HIDE DEF a
    <3> QED BY <2>1, <3>1, <3>2, <3>3, LeavingIsLate, ArrivalKeeps
  <2>4. CASE ~s6[c].ok /\ s6[c].cookies = "keep"
    <3>1. Ses!Send(c, "refresh", Ses!RefreshRoute) /\ UNCHANGED <<s3, s8>>
      BY <1>5, <2>4 DEF Ses!RetryArrives
    <3>2. ~s9 /\ faults = 0 => s1 # 0
      BY <2>1, PlainCalls DEF Ses!IInv, Ses!CallsKeepTheSession
    <3> QED BY <2>1, <3>1, <3>2, SendingKeeps DEF Ses!Phases
  <2> QED BY <2>2, <2>3, <2>4
<1>6. ASSUME NEW c \in Ses!Callers, Ses!RefreshArrives(c) PROVE Ses!IInv'
  <2>1. s6[c].phase = "refresh" /\ Ses!Arrives(c) /\ UNCHANGED <<Ses!keycloak, Ses!history, faults>>
    BY <1>6 DEF Ses!RefreshArrives
  <2>2. CASE ~s6[c].ok
    <3>1. s6' = [s6 EXCEPT ![c] = Ses!Idle] /\ s8' = TRUE
      BY <1>6, <2>2 DEF Ses!RefreshArrives, Ses!submitLogout, Ses!Done, Ses!Release, Ses!Send
    <3>2. s9 \/ faults # 0
      BY <2>1, <2>2 DEF Ses!IInv, Ses!CallsKeepTheSession
    <3> QED BY <2>1, <3>1, <3>2, LeavingIsLate, PlainCalls, ArrivalKeeps
  <2>3. CASE s6[c].ok
    <3>1. /\ s8' = s8
          /\ \/ s6' = [s6 EXCEPT ![c] = Ses!Idle]
             \/ s6' = [s6 EXCEPT ![c] = [Ses!Idle EXCEPT !.phase = "renewed"]]
      BY <1>6, <2>3 DEF Ses!RefreshArrives, Ses!Release, Ses!Done
    <3>2. ~s9 /\ faults = 0 => s3'.access = "fresh"
      BY <2>1 DEF Ses!Arrives, Ses!setAuthCookies, Ses!IInv, Ses!Typed, Ses!CallsKeepTheSession
    <3>3. CASE s6' = [s6 EXCEPT ![c] = Ses!Idle]
      BY <2>1, <3>1, <3>3, LeavingIsLate, PlainCalls, ArrivalKeeps
    <3>4. CASE s6' = [s6 EXCEPT ![c] = [Ses!Idle EXCEPT !.phase = "renewed"]]
      BY <2>1, <3>1, <3>2, <3>4, LeavingIsLate, PlainCalls, ArrivalKeeps
    <3> QED BY <3>1, <3>3, <3>4
  <2> QED BY <2>2, <2>3
<1>7. ASSUME NEW c \in Ses!Callers, Ses!Third(c) PROVE Ses!IInv'
  <2>1. PICK a \in Ses!Proxies : Ses!Send(c, "third", a)
    BY <1>7 DEF Ses!Third
  <2>2. UNCHANGED <<Ses!keycloak, s3, s8, Ses!history, faults>> /\ s6[c].phase = "renewed"
    BY <1>7 DEF Ses!Third
  <2>3. ~s9 /\ faults = 0 => s1 # 0
    BY <2>2, PlainCalls DEF Ses!IInv, Ses!CallsKeepTheSession
  <2> QED BY <2>1, <2>2, <2>3, SendingKeeps DEF Ses!Phases
<1>8. ASSUME NEW c \in Ses!Callers, Ses!ThirdArrives(c) PROVE Ses!IInv'
  <2>1. /\ s6[c].phase = "third" /\ Ses!Arrives(c)
        /\ s6' = [s6 EXCEPT ![c] = Ses!Idle]
        /\ UNCHANGED <<Ses!keycloak, Ses!history, faults>>
    BY <1>8 DEF Ses!ThirdArrives, Ses!Release, Ses!submitLogout, Ses!Done
  <2>2. CASE s6[c].ok
    <3>1. s8' = s8
      BY <1>8, <2>2 DEF Ses!ThirdArrives, Ses!Release
    <3> QED BY <2>1, <3>1, LeavingIsLate, PlainCalls, ArrivalKeeps
  <2>3. CASE ~s6[c].ok
    <3>1. s8' = TRUE
      BY <1>8, <2>3 DEF Ses!ThirdArrives, Ses!submitLogout
    <3>2. ~s9 /\ faults = 0 => s12
      BY <2>1, <2>3 DEF Ses!IInv, Ses!CallsKeepTheSession
    <3> QED BY <2>1, <3>1, <3>2, LeavingIsLate, PlainCalls, ArrivalKeeps
  <2> QED BY <2>2, <2>3
<1>9. ASSUME NEW c \in Ses!Callers, Ses!Lost(c) PROVE Ses!IInv'
  <2>1. /\ s6' = [s6 EXCEPT ![c] = Ses!Idle] /\ s6[c].phase # "idle"
        /\ UNCHANGED <<Ses!keycloak, Ses!history, s3>>
        /\ faults' = faults + 1 /\ (s8' = TRUE \/ s8' = s8)
    BY <1>9 DEF Ses!Lost, Ses!submitLogout, Ses!Done, Ses!Fault
  <2>2. s8' \in BOOLEAN
    BY <2>1, LeavingIsLate
  <2>3. faults' \in Nat /\ faults' # 0
    BY <2>1, LeavingIsLate
  <2> QED BY <2>1, <2>2, <2>3, PlainCalls, ArrivalKeeps
<1>10. CASE Ses!TimerFires
  <2> DEFINE a == [s6["refresher"] EXCEPT !.phase = "waiting"]
  <2>1. s6' = [s6 EXCEPT !["refresher"] = a] /\ s3.session # 0
        /\ UNCHANGED <<Ses!keycloak, s3, s8, Ses!history, faults>>
    BY <1>10 DEF Ses!TimerFires
  <2>2. s6["refresher"] \in Ses!Calls /\ "refresher" \in Ses!Callers
    BY DEF Ses!IInv, Ses!Typed, Ses!Callers
  <2>3. a \in Ses!Calls /\ a.cookies = s6["refresher"].cookies /\ a.n = s6["refresher"].n
        /\ a.ok = s6["refresher"].ok /\ a.phase = "waiting"
    BY <2>2 DEF Ses!Calls, Ses!Phases
  <2> HIDE DEF a
  <2>4. Ses!Typed'
    BY <2>1, <2>3 DEF Ses!IInv, Ses!Typed, Ses!keycloak, Ses!history
  <2>5. Ses!CallsKeepTheSession'
    BY <2>1, <2>2, <2>3 DEF Ses!IInv, Ses!Typed, Ses!CallsKeepTheSession, Ses!keycloak, Ses!history
  <2>6. Ses!CallsBringNothingBack'
    BY <2>1, <2>2, <2>3 DEF Ses!IInv, Ses!Typed, Ses!CallsBringNothingBack, Ses!keycloak,
       Ses!history
  <2> QED BY <2>4, <2>5, <2>6 DEF Ses!IInv
<1>11. CASE Ses!AuthRefresher
  <2>1. s6["refresher"].phase = "waiting" /\ "refresher" \in Ses!Callers
        /\ UNCHANGED <<Ses!keycloak, s3, s8, Ses!history, faults>>
    BY <1>11 DEF Ses!AuthRefresher, Ses!Callers, Ses!Release
  <2>2. CASE s6' = [s6 EXCEPT !["refresher"] = Ses!Idle]
    BY <2>1, <2>2, LeavingIsLate, PlainCalls, ArrivalKeeps
  <2>3. CASE Ses!Send("refresher", "refresh", Ses!RefreshRoute)
    <3>1. ~s9 /\ faults = 0 => s1 # 0
      BY <2>1, PlainCalls DEF Ses!IInv, Ses!CallsKeepTheSession
    <3> QED BY <2>1, <2>3, <3>1, SendingKeeps DEF Ses!Phases
  <2> QED BY <1>11, <2>2, <2>3 DEF Ses!AuthRefresher, Ses!Release, Ses!Done
<1>12. CASE Ses!SignOut
  BY <1>12 DEF Ses!SignOut, Ses!Click, Ses!IInv, Ses!Typed, Ses!CallsKeepTheSession,
     Ses!CallsBringNothingBack, Ses!keycloak
<1>13. CASE Ses!LogoutRoute
  <2>1. s1' \in {0, s1} /\ s3' = Ses!NoCookies /\ s9' = TRUE /\ s10' = TRUE
        /\ s8' = FALSE /\ UNCHANGED <<s2, s6, s12, faults>>
    BY <1>13 DEF Ses!LogoutRoute
  <2>2. s11' \in BOOLEAN /\ (~s11' => \A c \in Ses!Callers : s6[c].cookies # "set")
    BY <1>13 DEF Ses!LogoutRoute
  <2>3. s3' \in [session : Nat, access : {"fresh", "due", "gone"}] /\ s3'.session = 0
    BY <2>1 DEF Ses!NoCookies
  <2>4. Ses!Typed'
    BY <2>1, <2>2, <2>3 DEF Ses!IInv, Ses!Typed
  <2>5. Ses!CallsKeepTheSession' /\ Ses!CallsBringNothingBack'
    BY <2>1, <2>2, <2>3 DEF Ses!CallsKeepTheSession, Ses!CallsBringNothingBack
  <2> QED BY <2>4, <2>5 DEF Ses!IInv
<1>14. CASE Ses!LoginRoute
  BY <1>14 DEF Ses!LoginRoute, Ses!Click, Ses!IInv, Ses!Typed, Ses!CallsKeepTheSession,
     Ses!CallsBringNothingBack, Ses!keycloak, Ses!history
<1>15. ASSUME NEW f \in s5.open, Ses!CallbackRoute(f) PROVE Ses!IInv'
  <2>1. CASE s4 = f
    <3>1. /\ UNCHANGED <<s6, s8, s9, s11, s12, faults>> /\ s10' = FALSE
          /\ s3' = [session |-> s1', access |-> "fresh"]
          /\ \/ s1 = 0 /\ s2' = s2 + 1 /\ s1' = s2 + 1
             \/ s1 # 0 /\ s2' = s2 /\ s1' = s1
      BY <1>15, <2>1 DEF Ses!CallbackRoute, Ses!exchangeAuthCode, Ses!setAuthCookies
    <3>2. s1' \in Nat /\ s3' \in [session : Nat, access : {"fresh", "due", "gone"}]
          /\ s3'.session = s1' /\ s1' # 0
      BY <3>1 DEF Ses!IInv, Ses!Typed
    <3>3. Ses!Typed'
      BY <3>1, <3>2 DEF Ses!IInv, Ses!Typed
    <3>4. ASSUME ~s9, faults = 0, NEW c \in Ses!Callers
          PROVE  /\ s6[c].cookies # "delete"
                 /\ s6[c].cookies = "set" => s6[c].n = s1' /\ s6[c].ok
                 /\ s6[c].phase = "refresh" => s6[c].ok /\ s6[c].cookies = "set"
                 /\ s6[c].phase = "third" /\ ~s6[c].ok => s12
      BY <3>1, <3>4, PlainCalls DEF Ses!IInv, Ses!CallsKeepTheSession
    <3>5. Ses!CallsKeepTheSession'
      BY <3>1, <3>2, <3>4 DEF Ses!IInv, Ses!CallsKeepTheSession
    <3>6. Ses!CallsBringNothingBack'
      BY <3>1 DEF Ses!CallsBringNothingBack
    <3> QED BY <3>3, <3>5, <3>6 DEF Ses!IInv
  <2>2. CASE s4 # f
    BY <1>15, <2>2 DEF Ses!CallbackRoute, Ses!IInv, Ses!Typed, Ses!CallsKeepTheSession,
       Ses!CallsBringNothingBack, Ses!keycloak
  <2> QED BY <2>1, <2>2
<1>16. ASSUME NEW f \in s5.open, Ses!CallbackFails(f) PROVE Ses!IInv'
  BY <1>16 DEF Ses!CallbackFails, Ses!Fault, Ses!NoCookies, Ses!IInv, Ses!Typed,
     Ses!CallsKeepTheSession, Ses!CallsBringNothingBack, Ses!keycloak, Ses!history
<1>17. CASE Ses!AccessTokenAges
  <2>1. /\ \/ s3' = [s3 EXCEPT !.access = "due"]
           \/ s3' = [s3 EXCEPT !.access = "gone"] /\ s3.access = "due"
        /\ UNCHANGED <<Ses!keycloak, s6, s8, s9, s10, s11, faults>> /\ s3.session # 0
    BY <1>17 DEF Ses!AccessTokenAges, Ses!IInv, Ses!Typed
  <2>2. s3' \in [session : Nat, access : {"fresh", "due", "gone"}] /\ s3'.session = s3.session
    BY <2>1 DEF Ses!IInv, Ses!Typed
  <2>3. s12' \in BOOLEAN /\ (s12 => s12')
    BY <1>17 DEF Ses!AccessTokenAges, Ses!IInv, Ses!Typed
  <2>4. ASSUME NEW c \in Ses!Callers, s6[c].phase = "renewed", s3'.access = "gone"
        PROVE  s12'
    BY <1>17, <2>1, <2>4 DEF Ses!AccessTokenAges, Ses!IInv, Ses!Typed
  <2>5. Ses!Typed'
    BY <2>1, <2>2, <2>3 DEF Ses!IInv, Ses!Typed, Ses!keycloak
  <2>6. Ses!CallsKeepTheSession'
    BY <2>1, <2>2, <2>3, <2>4 DEF Ses!IInv, Ses!CallsKeepTheSession, Ses!keycloak
  <2>7. Ses!CallsBringNothingBack'
    BY <2>1, <2>2 DEF Ses!IInv, Ses!CallsBringNothingBack
  <2> QED BY <2>5, <2>6, <2>7 DEF Ses!IInv
<1>18. CASE Ses!SessionEnds
  BY <1>18 DEF Ses!SessionEnds, Ses!IInv, Ses!Typed, Ses!CallsKeepTheSession,
     Ses!CallsBringNothingBack
<1> QED BY <1>1, <1>2, <1>3, <1>4, <1>5, <1>6, <1>7, <1>8, <1>9, <1>10, <1>11, <1>12, <1>13,
           <1>14, <1>15, <1>16, <1>17, <1>18 DEF Ses!Next, Ses!Answered

\* The invariant is more than what the user is promised.
LEMMA SessionPromises == Ses!IInv => Ses!SignedInIsKept /\ Ses!SignedOutStays
<1> QED BY DEF Ses!IInv, Ses!CallsKeepTheSession, Ses!CallsBringNothingBack, Ses!SignedInIsKept,
   Ses!SignedOutStays

\* Nobody who is signed in is thrown out, and nobody who signed out comes back.
LEMMA SessionKept == Ses!Spec => [](Ses!SignedInIsKept /\ Ses!SignedOutStays)
<1>1. Ses!IInv /\ [Ses!Next]_Ses!bvars => Ses!IInv'
  BY SessionStepSound
<1> QED BY <1>1, SessionInit, SessionPromises, PTL DEF Ses!Spec

-----------------------------------------------------------------------------
(* Messaging: s1 is what is stored of the conversations, s3 which of them are  *)
(* the user's, s4 who is signed in, s5 the inbox and s7 and s8 the thread on   *)
(* display, s11 the drafts, s12 the messages on their way, s14 counts the      *)
(* texts, s17 says that the page has noticed another account.                  *)

\* Nobody else is signed in at first.
LEMMA InboxInit == Mes!Init => Mes!Forgotten
BY DEF Mes!Init, Mes!Forgotten

\* A page that has forgotten the first account shows nothing of it again.
LEMMA InboxStep == ASSUME Mes!Forgotten, [Mes!Next]_Mes!mvars PROVE Mes!Forgotten'
<1>1. CASE UNCHANGED Mes!mvars
  BY <1>1 DEF Mes!mvars, Mes!server, Mes!list, Mes!thread, Mes!compose, Mes!Forgotten,
     Mes!ForgottenStaysForgotten
<1>2. CASE \/ Mes!ReadServed \/ Mes!ReadAnswered \/ Mes!ReadFails \/ Mes!InboxFails \/ Mes!Send
           \/ \E t \in Threads : Mes!OrphanServed(t) \/ Mes!Receive(t) \/ Mes!Revoke(t)
           \/ \E s \in s12 : Mes!SendServed(s) \/ Mes!SendRejected(s)
  <2>1. UNCHANGED <<s5, s7, s8, s11, s17, s4>>
    BY <1>2 DEF Mes!ReadServed, Mes!ReadAnswered, Mes!ReadFails, Mes!InboxFails, Mes!Send,
       Mes!OrphanServed, Mes!Receive, Mes!Revoke, Mes!SendServed, Mes!SendRejected,
       Mes!RefreshInbox, Mes!server, Mes!list, Mes!thread, Mes!compose
  <2> QED BY <2>1 DEF Mes!Forgotten, Mes!ForgottenStaysForgotten
<1>3. CASE \/ Mes!ThreadArrives(TRUE) \/ Mes!ThreadArrives(FALSE) \/ Mes!ThreadFails
           \/ Mes!InboxArrives \/ Mes!UpdateDraft \/ Mes!SwitchAccount \/ Mes!RefreshClicked
           \/ \E t \in Threads : Mes!Choose(t)
  <2>1. CASE ~s17
    BY <1>3, <2>1 DEF Mes!Forgotten, Mes!ThreadArrives, Mes!ThreadFails, Mes!InboxArrives,
       Mes!UpdateDraft, Mes!SwitchAccount, Mes!RefreshClicked, Mes!Choose
  <2>2. CASE s17
    <3>1. s7 = None /\ s8.phase = "blank" /\ s4 = "second" /\ s5.items = {}
      BY <2>2 DEF Mes!Forgotten, Mes!ForgottenStaysForgotten, Mes!NoInbox, Mes!Blank
    <3>2. UNCHANGED <<s5, s7, s8, s11, s17, s4>>
      BY <1>3, <3>1 DEF Mes!ThreadArrives, Mes!ThreadFails, Mes!InboxArrives, Mes!UpdateDraft,
         Mes!SwitchAccount, Mes!RefreshClicked, Mes!Choose, Mes!RefreshInbox, Mes!server,
         Mes!list, Mes!thread, Mes!compose
    <3> QED BY <3>2 DEF Mes!Forgotten, Mes!ForgottenStaysForgotten
  <2> QED BY <2>1, <2>2
<1>4. CASE Mes!AccountChanged
  BY <1>4 DEF Mes!Forgotten, Mes!ForgottenStaysForgotten, Mes!AccountChanged, Mes!LoadThread,
     Mes!NoInbox, Mes!Blank, Mes!server
<1>5. ASSUME NEW s \in s12, Mes!SendAnswered(s) PROVE Mes!Forgotten'
  <2>1. CASE ~s17
    BY <1>5, <2>1 DEF Mes!Forgotten, Mes!SendAnswered
  <2>2. CASE s17
    <3>1. s7 = None /\ s8 = Mes!Blank /\ s4 = "second" /\ s5 = Mes!NoInbox
          /\ s11 = [t \in Threads |-> 0]
      BY <2>2 DEF Mes!Forgotten, Mes!ForgottenStaysForgotten
    <3>2. s11' = [t \in Threads |-> 0]
      BY <1>5, <3>1 DEF Mes!SendAnswered, Mes!ClearSent
    <3>3. s7' = None /\ s8' = Mes!Blank
      BY <1>5, <3>1 DEF Mes!SendAnswered, Mes!RefreshThread, Mes!LoadThread, Mes!thread
    <3>4. s5' = Mes!NoInbox /\ s4' = "second" /\ s17' = s17
      BY <1>5, <3>1 DEF Mes!SendAnswered, Mes!RefreshInbox, Mes!server
    <3> QED BY <2>2, <3>2, <3>3, <3>4 DEF Mes!Forgotten, Mes!ForgottenStaysForgotten, Mes!NoInbox
  <2> QED BY <2>1, <2>2
<1> QED BY <1>1, <1>2, <1>3, <1>4, <1>5 DEF Mes!Next, Mes!Arrives

\* That is what ForgottenStaysForgotten says.
LEMMA InboxForgets == Mes!Forgotten => Mes!ForgottenStaysForgotten
BY DEF Mes!Forgotten, Mes!ForgottenStaysForgotten

\* A message on its way.
SendsOf == [t : Threads, text : Nat, as : {"first", "second"}, stored : BOOLEAN]
IsStored(t, text) == \E i \in 1..Len(s1[t]) : s1[t][i] = text

\* The conversations, drafts and threads on display have their values.
MailTyped ==
  /\ s1 \in [Threads -> Seq(Nat)] /\ s11 \in [Threads -> Nat] /\ s14 \in Nat
  /\ s4 \in {"first", "second"} /\ s3 \subseteq Threads
  /\ s5.items \subseteq Threads /\ s7 \in Threads \union {None}

\* A message that the backend has taken is in the conversation it was sent to.
StoredIsThere ==
  /\ s12 \subseteq SendsOf
  /\ \A s \in s12 : s.stored => IsStored(s.t, s.text)

\* Nothing is written at first.
LEMMA MailInit == Mes!Init => MailTyped /\ StoredIsThere
BY DEF Mes!Init, MailTyped, StoredIsThere, Mes!NoInbox

\* A thread that is opened is one of the list, or none.
LEMMA OpenedIsListed == ASSUME MailTyped PROVE Mes!Opened(s3) \subseteq Threads \union {None}
BY DEF MailTyped, Mes!Opened, Mes!SelectThread

\* A message that is stored is added to a conversation, and what was there stays.
LEMMA LogsGrow ==
  ASSUME MailTyped, NEW t \in Threads, NEW m \in Nat, s1' = [s1 EXCEPT ![t] = Append(@, m)]
  PROVE  /\ s1' \in [Threads -> Seq(Nat)]
         /\ \A u \in Threads, text \in Nat : IsStored(u, text) => IsStored(u, text)'
         /\ IsStored(t, m)'
<1> USE DEF MailTyped, IsStored
<1>1. s1' \in [Threads -> Seq(Nat)]
  OBVIOUS
<1>2. s1[t] \in Seq(Nat) /\ s1'[t] = Append(s1[t], m)
  OBVIOUS
<1>3. Len(s1'[t]) = Len(s1[t]) + 1 /\ Len(s1[t]) \in Nat
  BY <1>2
<1>4. s1'[t][Len(s1[t]) + 1] = m /\ \A i \in 1..Len(s1[t]) : s1'[t][i] = s1[t][i]
  BY <1>2
<1>5. ASSUME NEW u \in Threads, NEW text \in Nat, IsStored(u, text) PROVE IsStored(u, text)'
  <2>1. CASE u = t
    BY <1>3, <1>4, <1>5, <2>1
  <2>2. CASE u # t
    BY <1>5, <2>2
  <2> QED BY <2>1, <2>2
<1>6. IsStored(t, m)'
  BY <1>3, <1>4
<1> QED BY <1>1, <1>5, <1>6

\* Every step keeps that, and a draft goes only as DraftSurvives allows.
LEMMA MailStep ==
  ASSUME MailTyped, StoredIsThere, [Mes!Next]_Mes!mvars
  PROVE  MailTyped' /\ StoredIsThere' /\ Mes!DraftSurvives
<1> USE DEF Mes!server, Mes!list, Mes!thread, Mes!compose
<1>1. ASSUME UNCHANGED <<s1, s11, s14, s4>>, s3' \subseteq s3,
             s5'.items \subseteq Threads, s7' \in Threads \union {None}, s12' \subseteq s12
      PROVE  MailTyped' /\ StoredIsThere' /\ Mes!DraftSurvives
  BY <1>1 DEF MailTyped, StoredIsThere, Mes!DraftSurvives, IsStored
<1>2. CASE \E visible \in BOOLEAN : Mes!ThreadArrives(visible)
  BY <1>1, <1>2 DEF Mes!ThreadArrives, MailTyped
<1>3. CASE \/ Mes!ReadServed \/ Mes!ThreadFails \/ Mes!ReadFails \/ Mes!InboxFails
           \/ UNCHANGED Mes!mvars \/ Mes!ReadAnswered
           \/ \E t \in Threads : Mes!OrphanServed(t) \/ Mes!Revoke(t)
           \/ \E s \in s12 : Mes!SendRejected(s)
  BY <1>1, <1>3 DEF Mes!ReadServed, Mes!ThreadFails, Mes!ReadFails, Mes!InboxFails, Mes!mvars,
     Mes!ReadAnswered, Mes!RefreshInbox, Mes!OrphanServed, Mes!Revoke, Mes!SendRejected, MailTyped
<1>4. CASE Mes!InboxArrives
  <2>1. UNCHANGED <<s1, s3, s4, s12, s11, s14>> /\ s5'.items = s3
    BY <1>4 DEF Mes!InboxArrives
  <2>2. s7' = s7 \/ s7' \in Mes!Opened(s3) \/ s7' = None
    BY <1>4 DEF Mes!InboxArrives, Mes!LoadThread
  <2> QED BY <1>1, <2>1, <2>2, OpenedIsListed DEF MailTyped
<1>5. CASE Mes!AccountChanged
  <2>1. /\ s11' = [t \in Threads |-> 0] /\ s7' = None /\ s5' = Mes!NoInbox /\ s17' = TRUE
        /\ UNCHANGED <<s1, s3, s4, s12, s14>>
    BY <1>5 DEF Mes!AccountChanged, Mes!LoadThread
  <2> QED BY <2>1 DEF MailTyped, StoredIsThere, Mes!DraftSurvives, IsStored, Mes!NoInbox
<1>6. ASSUME NEW t \in Threads, Mes!Choose(t)
      PROVE MailTyped' /\ StoredIsThere' /\ Mes!DraftSurvives
  BY <1>1, <1>6 DEF Mes!Choose, Mes!LoadThread, MailTyped
<1>7. CASE Mes!RefreshClicked
  BY <1>1, <1>7 DEF Mes!RefreshClicked, Mes!RefreshThread, Mes!RefreshInbox, Mes!LoadThread,
     MailTyped
<1>8. CASE Mes!UpdateDraft
  <2>1. /\ s7 \in Threads /\ s14' = s14 + 1 /\ s11' = [s11 EXCEPT ![s7] = s14 + 1]
        /\ UNCHANGED <<s1, s3, s4, s5, s7, s12>>
    BY <1>8 DEF Mes!UpdateDraft, MailTyped
  <2> QED BY <2>1 DEF MailTyped, StoredIsThere, Mes!DraftSurvives, IsStored
<1>9. CASE Mes!Send
  <2>1. /\ s7 \in Threads /\ UNCHANGED <<s1, s3, s4, s5, s7, s11, s14>>
        /\ s12' = s12 \union
             {[t |-> s7, text |-> s11[s7], as |-> s4, stored |-> FALSE]}
    BY <1>9 DEF Mes!Send, MailTyped
  <2> DEFINE sent == [t |-> s7, text |-> s11[s7], as |-> s4, stored |-> FALSE]
  <2>2. sent \in SendsOf /\ ~sent.stored
    BY <2>1 DEF MailTyped, SendsOf
  <2>3. StoredIsThere'
    <3> HIDE DEF sent
    <3>1. s12' = s12 \union {sent}
      BY <2>1 DEF sent
    <3> QED BY <2>1, <2>2, <3>1 DEF StoredIsThere, IsStored
  <2> QED BY <2>1, <2>3 DEF MailTyped, Mes!DraftSurvives
<1>10. ASSUME NEW s \in s12, Mes!SendServed(s)
       PROVE MailTyped' /\ StoredIsThere' /\ Mes!DraftSurvives
  <2>1. /\ s12' = (s12 \ {s}) \union {[s EXCEPT !.stored = TRUE]}
        /\ s1' = [s1 EXCEPT ![s.t] = Append(@, s.text)]
        /\ UNCHANGED <<s3, s4, s5, s7, s11, s14>>
    BY <1>10 DEF Mes!SendServed
  <2>2. s \in SendsOf /\ s.t \in Threads /\ s.text \in Nat
    BY DEF StoredIsThere, SendsOf
  <2> DEFINE stored == [s EXCEPT !.stored = TRUE]
  <2>3. stored \in SendsOf /\ stored.t = s.t /\ stored.text = s.text
    BY <2>2 DEF SendsOf
  <2>4. /\ s1' \in [Threads -> Seq(Nat)]
        /\ \A u \in Threads, text \in Nat : IsStored(u, text) => IsStored(u, text)'
        /\ IsStored(s.t, s.text)'
    BY <2>1, <2>2, LogsGrow
  <2>5. ASSUME NEW r \in s12', r.stored PROVE IsStored(r.t, r.text)'
    <3>1. CASE r = stored
      BY <2>3, <2>4, <3>1
    <3>2. CASE r \in s12
      <4>1. r.t \in Threads /\ r.text \in Nat /\ IsStored(r.t, r.text)
        BY <2>5, <3>2 DEF StoredIsThere, SendsOf
      <4> QED BY <2>4, <4>1
    <3> QED BY <2>1, <3>1, <3>2
  <2>6. StoredIsThere'
    BY <2>1, <2>3, <2>5 DEF StoredIsThere
  <2> QED BY <2>1, <2>4, <2>6 DEF MailTyped, Mes!DraftSurvives
<1>11. ASSUME NEW s \in s12, Mes!SendAnswered(s)
       PROVE MailTyped' /\ StoredIsThere' /\ Mes!DraftSurvives
  <2>1. /\ s12' = s12 \ {s} /\ s11' = [s11 EXCEPT ![s.t] = IF @ = s.text THEN 0 ELSE @]
        /\ UNCHANGED <<s1, s3, s4, s5, s7, s14>>
    BY <1>11 DEF Mes!SendAnswered, Mes!ClearSent, Mes!RefreshInbox, Mes!RefreshThread,
       Mes!LoadThread
  <2>2. s \in SendsOf /\ s.t \in Threads /\ IsStored(s.t, s.text)
    BY <1>11 DEF StoredIsThere, SendsOf, Mes!SendAnswered
  <2>3. Mes!DraftSurvives
    BY <2>1, <2>2 DEF MailTyped, Mes!DraftSurvives, IsStored
  <2> QED BY <2>1, <2>3 DEF MailTyped, StoredIsThere, IsStored
<1>12. ASSUME NEW t \in Threads, Mes!Receive(t)
       PROVE MailTyped' /\ StoredIsThere' /\ Mes!DraftSurvives
  <2>1. s1' = [s1 EXCEPT ![t] = Append(@, 0)] /\
        UNCHANGED <<s3, s4, s5, s7, s11, s14, s12>>
    BY <1>12 DEF Mes!Receive
  <2>2. /\ s1' \in [Threads -> Seq(Nat)]
        /\ \A u \in Threads, text \in Nat : IsStored(u, text) => IsStored(u, text)'
    BY <2>1, LogsGrow
  <2>3. StoredIsThere'
    BY <2>1, <2>2 DEF StoredIsThere, SendsOf
  <2> QED BY <2>1, <2>2, <2>3 DEF MailTyped, Mes!DraftSurvives
<1>13. CASE Mes!SwitchAccount
  BY <1>13 DEF Mes!SwitchAccount, MailTyped, StoredIsThere, Mes!DraftSurvives, IsStored
<1> QED
  BY <1>2, <1>3, <1>4, <1>5, <1>6, <1>7, <1>8, <1>9, <1>10, <1>11, <1>12, <1>13 DEF Mes!Next,
     Mes!Arrives

\* What is typed is numbered, and a conversation has one message under way at most.
SendsApart ==
  /\ \A s, r \in s12 : s.t = r.t => s = r
  /\ \A s \in s12 : s.text \in 1..s14
  /\ \A t \in Threads : s11[t] <= s14
  /\ \A t \in Threads : \A i \in 1..Len(s1[t]) : s1[t][i] <= s14

\* A text stands once in its conversation.
StoredOnce ==
  \A t \in Threads : \A i, j \in 1..Len(s1[t]) :
    s1[t][i] = s1[t][j] /\ s1[t][i] # 0 /\ s1[t][i] \notin s15 => i = j

\* It is not yet there while it is under way, and when it is, it is not the draft,
\* unless its message has not been answered yet or was reported to have failed.
NotYetStored ==
  /\ \A s \in s12 : ~s.stored /\ s.text \notin s15 => ~IsStored(s.t, s.text)
  /\ \A t \in Threads :
       s11[t] # 0 /\ s11[t] \notin s15 /\ IsStored(t, s11[t]) =>
         t \in s13 \/ \E s \in s12 : s.t = t /\ s.text = s11[t]

OnceInv == SendsApart /\ StoredOnce /\ NotYetStored

\* Nothing is written at first.
LEMMA OnceInit == Mes!Init => OnceInv
<1> SUFFICES ASSUME Mes!Init PROVE OnceInv
  OBVIOUS
<1>1. s12 = {} /\ \A t \in Threads : s1[t] = <<>> /\ s11[t] = 0
  BY DEF Mes!Init
<1>2. s14 = 0
  BY DEF Mes!Init
<1> QED BY <1>1, <1>2 DEF OnceInv, SendsApart, StoredOnce, NotYetStored

\* A message is appended to a conversation: what else is in it stays, and where it was.
LEMMA LogAppended ==
  ASSUME MailTyped, NEW t \in Threads, NEW m \in Nat, s1' = [s1 EXCEPT ![t] = Append(@, m)]
  PROVE  /\ \A u \in Threads : u # t => s1'[u] = s1[u]
         /\ Len(s1[t]) \in Nat /\ Len(s1'[t]) = Len(s1[t]) + 1
         /\ s1'[t][Len(s1[t]) + 1] = m
         /\ \A i \in 1..Len(s1[t]) : s1'[t][i] = s1[t][i] /\ s1[t][i] \in Nat
         /\ \A u \in Threads, text \in Nat :
              IsStored(u, text)' => IsStored(u, text) \/ (u = t /\ text = m)
<1>1. s1[t] \in Seq(Nat) /\ s1'[t] = Append(s1[t], m)
  BY DEF MailTyped
<1>2. \A u \in Threads : u # t => s1'[u] = s1[u]
  BY DEF MailTyped
<1>3. Len(s1'[t]) = Len(s1[t]) + 1 /\ Len(s1[t]) \in Nat
  BY <1>1
<1>4. /\ s1'[t][Len(s1[t]) + 1] = m
      /\ \A i \in 1..Len(s1[t]) : s1'[t][i] = s1[t][i] /\ s1[t][i] \in Nat
  BY <1>1
<1>5. ASSUME NEW u \in Threads, NEW text \in Nat, IsStored(u, text)'
      PROVE IsStored(u, text) \/ (u = t /\ text = m)
  <2>1. CASE u # t
    BY <1>2, <1>5, <2>1 DEF IsStored
  <2>2. CASE u = t
    <3>1. PICK i \in 1..Len(s1'[t]) : s1'[t][i] = text
      BY <1>5, <2>2 DEF IsStored
    <3>2. CASE i = Len(s1[t]) + 1
      BY <1>4, <2>2, <3>1, <3>2
    <3>3. CASE i \in 1..Len(s1[t])
      BY <1>4, <2>2, <3>1, <3>3 DEF IsStored
    <3> QED BY <1>3, <3>1, <3>2, <3>3
  <2> QED BY <2>1, <2>2
<1> QED BY <1>2, <1>3, <1>4, <1>5

\* So it keeps the texts apart if it was not there, or comes from somebody else.
LEMMA AppendKeepsOnce ==
  ASSUME MailTyped, StoredOnce, NEW t \in Threads, NEW m \in Nat,
         s1' = [s1 EXCEPT ![t] = Append(@, m)], s15' = s15,
         m # 0 /\ m \notin s15 => ~IsStored(t, m)
  PROVE  StoredOnce'
<1> SUFFICES ASSUME NEW u \in Threads, NEW i \in 1..Len(s1'[u]), NEW j \in 1..Len(s1'[u]),
                    s1'[u][i] = s1'[u][j], s1'[u][i] # 0, s1'[u][i] \notin s15
             PROVE  i = j
  BY DEF StoredOnce
<1>1. CASE u # t
  BY <1>1, LogAppended DEF StoredOnce
<1>2. CASE u = t
  <2>1. /\ Len(s1[t]) \in Nat /\ Len(s1'[t]) = Len(s1[t]) + 1
        /\ s1'[t][Len(s1[t]) + 1] = m
        /\ \A k \in 1..Len(s1[t]) : s1'[t][k] = s1[t][k]
    BY LogAppended
  <2>2. ASSUME NEW k \in 1..Len(s1[t]), m # 0, m \notin s15 PROVE s1[t][k] # m
    BY <2>2 DEF IsStored
  <2>3. CASE i \in 1..Len(s1[t]) /\ j \in 1..Len(s1[t])
    BY <1>2, <2>1, <2>3 DEF StoredOnce
  <2>4. CASE i = Len(s1[t]) + 1 /\ j \in 1..Len(s1[t])
    BY <1>2, <2>1, <2>2, <2>4
  <2>5. CASE j = Len(s1[t]) + 1 /\ i \in 1..Len(s1[t])
    BY <1>2, <2>1, <2>2, <2>5
  <2>6. CASE j = Len(s1[t]) + 1 /\ i = Len(s1[t]) + 1
    BY <2>6
  <2> QED BY <1>2, <2>1, <2>3, <2>4, <2>5, <2>6
<1> QED BY <1>1, <1>2

\* Every step keeps it.
LEMMA OnceStep ==
  ASSUME MailTyped, StoredIsThere, OnceInv, [Mes!Next]_Mes!mvars PROVE OnceInv'
<1> USE DEF Mes!server, Mes!list, Mes!thread, Mes!compose
<1>1. ASSUME UNCHANGED <<s1, s11, s12, s13, s14, s15>> PROVE OnceInv'
  BY <1>1 DEF OnceInv, SendsApart, StoredOnce, NotYetStored, IsStored
<1>2. CASE \/ \E visible \in BOOLEAN : Mes!ThreadArrives(visible)
           \/ Mes!ReadServed \/ Mes!ThreadFails \/ Mes!ReadFails \/ Mes!InboxFails
           \/ UNCHANGED Mes!mvars \/ Mes!ReadAnswered
           \/ \E t \in Threads : Mes!OrphanServed(t) \/ Mes!Revoke(t)
  BY <1>1, <1>2 DEF Mes!ThreadArrives, Mes!ReadServed, Mes!ThreadFails, Mes!ReadFails,
     Mes!InboxFails, Mes!mvars, Mes!ReadAnswered, Mes!RefreshInbox, Mes!OrphanServed, Mes!Revoke
<1>3. CASE \/ Mes!InboxArrives \/ Mes!RefreshClicked \/ Mes!SwitchAccount
           \/ \E t \in Threads : Mes!Choose(t)
  BY <1>1, <1>3 DEF Mes!InboxArrives, Mes!RefreshClicked, Mes!SwitchAccount, Mes!Choose
<1>4. CASE Mes!AccountChanged
  <2>1. /\ s11' = [t \in Threads |-> 0]
        /\ UNCHANGED <<s1, s12, s13, s14, s15>>
    BY <1>4 DEF Mes!AccountChanged
  <2>2. \A t \in Threads : s11'[t] = 0
    BY <2>1
  <2>3. SendsApart'
    <3>1. s14 \in Nat /\ s14' = s14 /\ s12' = s12 /\ s1' = s1
      BY <2>1 DEF MailTyped
    <3>2. \A t \in Threads : s11'[t] <= s14'
      BY <2>2, <3>1
    <3> QED BY <3>1, <3>2 DEF OnceInv, SendsApart
  <2>4. StoredOnce'
    BY <2>1 DEF OnceInv, StoredOnce
  <2>5. NotYetStored'
    BY <2>1, <2>2 DEF OnceInv, NotYetStored, IsStored
  <2> QED BY <2>3, <2>4, <2>5 DEF OnceInv
<1>5. CASE Mes!UpdateDraft
  <2>1. /\ s7 \in Threads /\ s14' = s14 + 1 /\ s11' = [s11 EXCEPT ![s7] = s14 + 1]
        /\ UNCHANGED <<s1, s12, s13, s15>>
    BY <1>5 DEF Mes!UpdateDraft, MailTyped
  <2>2. \A t \in Threads : Len(s1[t]) \in Nat /\ \A i \in 1..Len(s1[t]) : s1[t][i] \in Nat
    BY DEF MailTyped
  <2>3. \A t \in Threads : s11'[t] = s11[t] \/ (s11'[t] = s14 + 1 /\ ~IsStored(t, s14 + 1))
    BY <2>1, <2>2 DEF MailTyped, IsStored, OnceInv, SendsApart
  <2>4. SendsApart'
    BY <2>1, <2>2, <2>3 DEF MailTyped, OnceInv, SendsApart
  <2>5. StoredOnce'
    BY <2>1 DEF OnceInv, StoredOnce
  <2>6. NotYetStored'
    BY <2>1, <2>3 DEF OnceInv, NotYetStored, IsStored
  <2> QED BY <2>4, <2>5, <2>6 DEF OnceInv
<1>6. CASE Mes!Send
  <2> DEFINE sent == [t |-> s7, text |-> s11[s7], as |-> s4, stored |-> FALSE]
  <2>1. /\ s7 \in Threads /\ s11[s7] # 0 /\ UNCHANGED <<s1, s11, s14>>
        /\ \A s \in s12 : s.t # s7
        /\ s12' = s12 \union {sent} /\ s13' = s13 \ {s7}
    BY <1>6 DEF Mes!Send, MailTyped, Mes!Sending
  <2>2. s15' = IF s7 \in s13 THEN s15 \union {s11[s7]} ELSE s15
    BY <1>6 DEF Mes!Send
  <2>3. sent.t = s7 /\ sent.text = s11[s7] /\ ~sent.stored
    OBVIOUS
  <2> HIDE DEF sent
  <2>4. s15 \subseteq s15'
    BY <2>2
  <2>5. SendsApart'
    <3>1. s11[s7] \in 1..s14
      BY <2>1 DEF OnceInv, SendsApart, MailTyped
    <3> QED BY <2>1, <2>3, <3>1 DEF OnceInv, SendsApart
  <2>6. StoredOnce'
    BY <2>1, <2>4 DEF OnceInv, StoredOnce
  <2>7. s11[s7] \notin s15' => ~IsStored(s7, s11[s7])
    BY <2>1, <2>2 DEF OnceInv, NotYetStored
  <2>8. NotYetStored'
    <3>1. ASSUME NEW s \in s12', ~s.stored, s.text \notin s15' PROVE ~IsStored(s.t, s.text)'
      BY <2>1, <2>3, <2>4, <2>7, <3>1 DEF OnceInv, NotYetStored, IsStored
    <3>2. ASSUME NEW t \in Threads, s11'[t] # 0, s11'[t] \notin s15',
                 IsStored(t, s11[t])'
          PROVE  t \in s13' \/ \E s \in s12' : s.t = t /\ s.text = s11'[t]
      BY <2>1, <2>3, <2>4, <3>2 DEF OnceInv, NotYetStored, IsStored
    <3> QED BY <3>1, <3>2 DEF NotYetStored
  <2> QED BY <2>5, <2>6, <2>8 DEF OnceInv
<1>7. ASSUME NEW s \in s12, Mes!SendServed(s) PROVE OnceInv'
  <2> DEFINE served == [s EXCEPT !.stored = TRUE]
  <2>1. /\ s12' = (s12 \ {s}) \union {served} /\ ~s.stored
        /\ s1' = [s1 EXCEPT ![s.t] = Append(@, s.text)]
        /\ UNCHANGED <<s11, s13, s14, s15>>
    BY <1>7 DEF Mes!SendServed
  <2>2. s.t \in Threads /\ s.text \in Nat /\ s.text \in 1..s14
    BY DEF StoredIsThere, SendsOf, OnceInv, SendsApart
  <2>3. served.t = s.t /\ served.text = s.text /\ served.stored
    BY DEF StoredIsThere, SendsOf
  <2> HIDE DEF served
  <2>4. /\ \A u \in Threads : u # s.t => s1'[u] = s1[u]
        /\ Len(s1[s.t]) \in Nat /\ Len(s1'[s.t]) = Len(s1[s.t]) + 1
        /\ s1'[s.t][Len(s1[s.t]) + 1] = s.text
        /\ \A i \in 1..Len(s1[s.t]) : s1'[s.t][i] = s1[s.t][i] /\ s1[s.t][i] \in Nat
        /\ \A u \in Threads, text \in Nat :
             IsStored(u, text)' => IsStored(u, text) \/ (u = s.t /\ text = s.text)
    BY <2>1, <2>2, LogAppended
  <2>5. SendsApart'
    <3>1. \A t \in Threads : \A i \in 1..Len(s1'[t]) : s1'[t][i] <= s14
      BY <2>2, <2>4 DEF OnceInv, SendsApart
    <3> QED BY <2>1, <2>2, <2>3, <3>1 DEF OnceInv, SendsApart
  <2>6. StoredOnce'
    BY <2>1, <2>2, AppendKeepsOnce DEF OnceInv, NotYetStored
  <2>7. NotYetStored'
    <3>1. ASSUME NEW r \in s12', ~r.stored, r.text \notin s15 PROVE ~IsStored(r.t, r.text)'
      <4>1. r \in s12 /\ r # s
        BY <2>1, <2>3, <3>1
      <4>2. r.t # s.t /\ r.t \in Threads /\ r.text \in Nat
        BY <4>1 DEF OnceInv, SendsApart, StoredIsThere, SendsOf
      <4> QED BY <2>4, <3>1, <4>1, <4>2 DEF OnceInv, NotYetStored
    <3>2. ASSUME NEW t \in Threads, s11[t] # 0, s11[t] \notin s15,
                 IsStored(t, s11[t])'
          PROVE  t \in s13 \/ \E r \in s12' : r.t = t /\ r.text = s11[t]
      <4>1. IsStored(t, s11[t])' => IsStored(t, s11[t]) \/ (t = s.t /\ s11[t] = s.text)
        BY <2>1, <2>4 DEF MailTyped, IsStored
      <4>2. CASE t = s.t /\ s11[t] = s.text
        BY <2>1, <2>3, <4>2
      <4>3. CASE IsStored(t, s11[t]) /\ ~(t = s.t /\ s11[t] = s.text)
        BY <2>1, <3>2, <4>3 DEF OnceInv, NotYetStored
      <4> QED BY <3>2, <4>1, <4>2, <4>3
    <3> QED BY <2>1, <3>1, <3>2 DEF NotYetStored, IsStored
  <2> QED BY <2>5, <2>6, <2>7 DEF OnceInv
<1>8. ASSUME NEW s \in s12, Mes!SendAnswered(s) PROVE OnceInv'
  <2>1. /\ s12' = s12 \ {s} /\ s11' = [s11 EXCEPT ![s.t] = IF @ = s.text THEN 0 ELSE @]
        /\ UNCHANGED <<s1, s13, s14, s15>>
    BY <1>8 DEF Mes!SendAnswered, Mes!ClearSent
  <2>2. s.t \in Threads
    BY DEF StoredIsThere, SendsOf
  <2>3. \A t \in Threads : s11'[t] = 0 \/ (s11'[t] = s11[t] /\ ~(t = s.t /\ s11[t] = s.text))
    BY <2>1, <2>2 DEF MailTyped
  <2>4. SendsApart'
    BY <2>1, <2>3 DEF MailTyped, OnceInv, SendsApart
  <2>5. StoredOnce'
    BY <2>1 DEF OnceInv, StoredOnce
  <2>6. NotYetStored'
    BY <2>1, <2>3 DEF OnceInv, NotYetStored, IsStored
  <2> QED BY <2>4, <2>5, <2>6 DEF OnceInv
<1>9. ASSUME NEW s \in s12, Mes!SendRejected(s) PROVE OnceInv'
  <2>1. /\ s12' = s12 \ {s} /\ s13' = s13 \union {s.t}
        /\ UNCHANGED <<s1, s11, s14, s15>>
    BY <1>9 DEF Mes!SendRejected
  <2> QED BY <2>1 DEF OnceInv, SendsApart, StoredOnce, NotYetStored, IsStored
<1>10. ASSUME NEW t \in Threads, Mes!Receive(t) PROVE OnceInv'
  <2>1. /\ s1' = [s1 EXCEPT ![t] = Append(@, 0)]
        /\ UNCHANGED <<s11, s12, s13, s14, s15>>
    BY <1>10 DEF Mes!Receive
  <2>2. /\ \A u \in Threads : u # t => s1'[u] = s1[u]
        /\ Len(s1[t]) \in Nat /\ Len(s1'[t]) = Len(s1[t]) + 1
        /\ s1'[t][Len(s1[t]) + 1] = 0
        /\ \A i \in 1..Len(s1[t]) : s1'[t][i] = s1[t][i] /\ s1[t][i] \in Nat
        /\ \A u \in Threads, text \in Nat :
             IsStored(u, text)' => IsStored(u, text) \/ (u = t /\ text = 0)
    BY <2>1, LogAppended
  <2>3. SendsApart'
    <3>1. \A u \in Threads : \A i \in 1..Len(s1'[u]) : s1'[u][i] <= s14
      <4>1. ASSUME NEW i \in 1..Len(s1'[t]) PROVE s1'[t][i] <= s14
        <5>1. CASE i = Len(s1[t]) + 1
          BY <2>2, <5>1 DEF MailTyped
        <5>2. CASE i \in 1..Len(s1[t])
          BY <2>2, <5>2 DEF OnceInv, SendsApart
        <5> QED BY <2>2, <5>1, <5>2
      <4> QED BY <2>2, <4>1 DEF OnceInv, SendsApart
    <3> QED BY <2>1, <3>1 DEF OnceInv, SendsApart
  <2>4. StoredOnce'
    BY <2>1, AppendKeepsOnce DEF OnceInv
  <2>5. NotYetStored'
    <3>1. ASSUME NEW s \in s12, ~s.stored, s.text \notin s15 PROVE ~IsStored(s.t, s.text)'
      <4>1. s.t \in Threads /\ s.text \in Nat /\ s.text # 0
        BY DEF OnceInv, SendsApart, StoredIsThere, SendsOf
      <4> QED BY <2>2, <3>1, <4>1 DEF OnceInv, NotYetStored
    <3>2. ASSUME NEW u \in Threads, s11[u] # 0, s11[u] \notin s15, IsStored(u, s11[u])'
          PROVE  u \in s13 \/ \E s \in s12 : s.t = u /\ s.text = s11[u]
      <4>1. IsStored(u, s11[u])
        BY <2>1, <2>2, <3>2 DEF MailTyped, IsStored
      <4> QED BY <3>2, <4>1 DEF OnceInv, NotYetStored
    <3> QED BY <2>1, <3>1, <3>2 DEF NotYetStored, IsStored
  <2> QED BY <2>3, <2>4, <2>5 DEF OnceInv
<1> QED
  BY <1>2, <1>3, <1>4, <1>5, <1>6, <1>7, <1>8, <1>9, <1>10 DEF Mes!Next, Mes!Arrives

\* A number of things is the same in Messaging.
LEMMA SameCount == ASSUME NEW S PROVE Mes!Cardinality(S) = Cardinality(S)
BY DEF Cardinality, Mes!Cardinality

\* Texts that are apart are counted once.
LEMMA OnceIsPromised == ASSUME MailTyped, OnceInv PROVE Mes!NoSilentDuplicate
<1> SUFFICES ASSUME NEW t \in Threads, NEW n \in 1..s14, n \notin s15
             PROVE  Cardinality({i \in 1..Len(s1[t]) : s1[t][i] = n}) <= 1
  BY SameCount DEF Mes!NoSilentDuplicate
<1> DEFINE at == {i \in 1..Len(s1[t]) : s1[t][i] = n}
<1>1. \A i, j \in at : i = j
  BY DEF OnceInv, StoredOnce
<1> HIDE DEF at
<1>2. CASE at = {}
  <2>1. Cardinality(at) = 0
    BY <1>2, FS_EmptySet
  <2> QED BY <2>1 DEF at
<1>3. CASE at # {}
  <2>1. PICK i \in at : TRUE
    BY <1>3
  <2>2. at = {i}
    BY <1>1, <2>1
  <2>3. Cardinality(at) = 1
    BY <2>2, FS_Singleton
  <2> QED BY <2>3 DEF at
<1> QED BY <1>2, <1>3

\* No message is stored twice behind the user's back.
LEMMA MessagesOnce == Mes!Spec => []Mes!NoSilentDuplicate
<1>1. MailTyped /\ StoredIsThere /\ OnceInv /\ [Mes!Next]_Mes!mvars
        => MailTyped' /\ StoredIsThere' /\ OnceInv'
  BY MailStep, OnceStep
<1>2. MailTyped /\ OnceInv => Mes!NoSilentDuplicate
  BY OnceIsPromised
<1> QED BY <1>1, <1>2, MailInit, OnceInit, PTL DEF Mes!Spec


\* The turns of the conversation.
Turns == [no : Nat, outcome : {"pending", "answered", "failed"}, times : Nat,
          context : {Ass!deriveAssistantContext(page) : page \in Ass!Pages} \union {None},
          history : SUBSET Nat]

\* The conversation is in the order of its questions, each was asked with what came before,
\* and the copy that is told of is the one on display.
AssistantInv ==
  /\ s1 \in Ass!Pages /\ s2 \in Seq(Turns) /\ Len(s2) <= 2 /\ s3 \in Nat
  /\ s4 \in Nat \union {None} /\ s5 \in Nat \union {None}
  /\ s7 \in {<<>>} \union (Nat \X Nat) /\ s8 \in BOOLEAN
  /\ s9 \in {"idle", "preparing", "ready"} /\ s10 \in {"none", "sent"}
  /\ s11 \in {"none", "answer", "error"}
  /\ \A i \in 1..Len(s2) : s2[i].no <= s3
  /\ \A i, j \in 1..Len(s2) : i < j => s2[i].no < s2[j].no
  /\ \A i \in 1..Len(s2) : \A no \in s2[i].history : no < s2[i].no
  /\ ~s8 => \A i \in 1..Len(s2) : s5 = s2[i].no => s6 = <<s2[i].no, s2[i].times>>

\* The turns one by one.
LEMMA TurnsTyped ==
  ASSUME NEW q \in Seq(Turns)
  PROVE  /\ Len(q) \in Nat
         /\ \A i \in 1..Len(q) : /\ q[i] \in Turns /\ q[i].no \in Nat /\ q[i].times \in Nat
                                 /\ q[i].history \subseteq Nat
<1>1. Len(q) \in Nat /\ \A i \in 1..Len(q) : q[i] \in Turns
  <2> HIDE DEF Turns
  <2> QED BY LenProperties
<1>2. \A t \in Turns : t.no \in Nat /\ t.times \in Nat /\ t.history \subseteq Nat
  BY DEF Turns
<1> QED BY <1>1, <1>2

\* What is sent along are numbers of the turns before.
LEMMA SentAlong ==
  ASSUME NEW k
  PROVE  \A n \in Ass!history(k) : \E i \in 1..k : n = s2[i].no
BY DEF Ass!history, Ass!Preceding

\* A turn that is asked.
LEMMA AskedTurn ==
  ASSUME NEW turn \in Turns, NEW k, s1 \in Ass!Pages, Ass!history(k) \subseteq Nat
  PROVE  /\ Ass!Asked(turn, k) \in Turns
         /\ Ass!Asked(turn, k).no = turn.no /\ Ass!Asked(turn, k).history = Ass!history(k)
<1> DEFINE contexts == {Ass!deriveAssistantContext(page) : page \in Ass!Pages} \union {None}
           context == Ass!deriveAssistantContext(s1)
           sent == Ass!history(k)
<1>1. context \in contexts /\ sent \in SUBSET Nat
  OBVIOUS
<1>2. Ass!Asked(turn, k) = [turn EXCEPT !.outcome = "pending", !.times = @ + 1,
                                        !.context = context, !.history = sent]
  BY DEF Ass!Asked
<1>3. turn \in [no : Nat, outcome : {"pending", "answered", "failed"}, times : Nat,
                context : contexts, history : SUBSET Nat]
  BY DEF Turns
<1> HIDE DEF contexts, context, sent
<1>4. /\ Ass!Asked(turn, k) \in [no : Nat, outcome : {"pending", "answered", "failed"},
                                 times : Nat, context : contexts, history : SUBSET Nat]
      /\ Ass!Asked(turn, k).no = turn.no /\ Ass!Asked(turn, k).history = sent
  <2>1. turn.times + 1 \in Nat
    BY <1>3
  <2>2. turn = [no |-> turn.no, outcome |-> turn.outcome, times |-> turn.times,
                context |-> turn.context, history |-> turn.history] /\ turn.no \in Nat
    BY <1>3
  <2>3. Ass!Asked(turn, k) = [no |-> turn.no, outcome |-> "pending", times |-> turn.times + 1,
                              context |-> context, history |-> sent]
    BY <1>2, <2>2
  <2> QED BY <1>1, <2>1, <2>2, <2>3
<1> QED BY <1>4 DEF Turns, contexts, sent

\* The turns that are kept of a conversation.
LEMMA LastTurns ==
  ASSUME NEW q \in Seq(Turns)
  PROVE  /\ Ass!Last(q, 2) \in Seq(Turns) /\ Len(Ass!Last(q, 2)) <= 2
         /\ Len(Ass!Last(q, 2)) <= Len(q)
         /\ \A i \in 1..Len(Ass!Last(q, 2)) :
              /\ i + Len(q) - Len(Ass!Last(q, 2)) \in 1..Len(q)
              /\ Ass!Last(q, 2)[i] = q[i + Len(q) - Len(Ass!Last(q, 2))]
<1> DEFINE m == IF Len(q) > 2 THEN Len(q) - 2 + 1 ELSE 1
           n == Len(q)
<1>1. n \in Nat /\ m \in Int /\ n \in Int /\ \A i \in m..n : q[i] \in Turns
  BY TurnsTyped
<1>2. m >= 1 /\ m <= n + 1 /\ n - m + 1 <= 2
  BY <1>1
<1>3. Ass!Last(q, 2) = SubSeq(q, m, n)
  BY DEF Ass!Last
<1> HIDE DEF m, n
<1>4. /\ SubSeq(q, m, n) \in Seq(Turns)
      /\ Len(SubSeq(q, m, n)) = IF m <= n THEN n - m + 1 ELSE 0
      /\ \A i \in 1..n - m + 1 : SubSeq(q, m, n)[i] = q[m + i - 1]
  BY <1>1, SubSeqProperties
<1>5. Len(SubSeq(q, m, n)) = n - m + 1
  BY <1>1, <1>2, <1>4
<1>6. \A i \in 1..n - m + 1 : /\ i + n - (n - m + 1) = m + i - 1
                              /\ m + i - 1 \in 1..n
  BY <1>1, <1>2
<1> QED BY <1>1, <1>2, <1>3, <1>4, <1>5, <1>6 DEF n

\* A new question is asked with what was answered.
LEMMA SubmitStep ==
  ASSUME AssistantInv, Ass!submitQuestion
  PROVE  AssistantInv'
<1> DEFINE blank == [no |-> s3', outcome |-> "pending", times |-> 0, context |-> None,
                     history |-> {}]
           turn == Ass!Asked(blank, Len(s2))
<1>1. /\ s3' = s3 + 1 /\ s4' = s3' /\ s5' = None /\ s2' = Ass!Last(Append(s2, turn), 2)
      /\ UNCHANGED <<s1, s6, s7, s8, s9, s10, s11>>
  BY DEF Ass!submitQuestion, Ass!MaxTurns, Ass!copies, Ass!analyst
<1>2. /\ s3 \in Nat /\ s3' \in Nat /\ s2 \in Seq(Turns) /\ Len(s2) \in Nat
      /\ \A i \in 1..Len(s2) : /\ s2[i].no \in Nat /\ s2[i].no <= s3 /\ s2[i] \in Turns
  BY <1>1, TurnsTyped DEF AssistantInv
<1>3. /\ Ass!history(Len(s2)) \subseteq Nat
      /\ \A n \in Ass!history(Len(s2)) : n < s3'
  BY <1>1, <1>2, SentAlong
<1>4. blank \in Turns
  BY <1>2 DEF Turns
<1>5. turn \in Turns /\ turn.no = s3' /\ turn.history = Ass!history(Len(s2))
  BY <1>3, <1>4, AskedTurn DEF AssistantInv
<1> HIDE DEF turn
<1>6. PICK q : q = Append(s2, turn)
  OBVIOUS
<1>7. /\ q \in Seq(Turns) /\ Len(q) = Len(s2) + 1 /\ q[Len(s2) + 1] = turn
      /\ \A i \in 1..Len(s2) : q[i] = s2[i]
  BY <1>2, <1>5, <1>6, AppendProperties
<1>8. /\ \A i \in 1..Len(q) : q[i].no <= s3' /\ \A no \in q[i].history : no < q[i].no
      /\ \A i, j \in 1..Len(q) : i < j => q[i].no < q[j].no
  <2>1. \A i \in 1..Len(q) : i \in 1..Len(s2) \/ i = Len(s2) + 1
    BY <1>2, <1>7
  <2>2. \A i \in 1..Len(q) : q[i].no <= s3' /\ \A no \in q[i].history : no < q[i].no
    BY <1>1, <1>2, <1>3, <1>5, <1>7, <2>1 DEF AssistantInv
  <2>3. \A i, j \in 1..Len(q) : i < j => i \in 1..Len(s2)
    BY <1>2, <1>7
  <2>4. \A i, j \in 1..Len(q) : i < j => q[i].no < q[j].no
    BY <1>1, <1>2, <1>5, <1>7, <2>1, <2>3 DEF AssistantInv
  <2> QED BY <2>2, <2>4
<1>9. PICK r : r = Ass!Last(q, 2)
  OBVIOUS
<1>10. /\ r \in Seq(Turns) /\ Len(r) <= 2 /\ Len(r) \in Nat /\ Len(q) \in Nat
       /\ \A i \in 1..Len(r) : i + Len(q) - Len(r) \in 1..Len(q) /\ r[i] = q[i + Len(q) - Len(r)]
  BY <1>7, <1>9, LastTurns, TurnsTyped
<1>11. \A i, j \in 1..Len(r) : i < j => i + Len(q) - Len(r) < j + Len(q) - Len(r)
  BY <1>10
<1>12. /\ \A i \in 1..Len(r) : r[i].no <= s3' /\ \A no \in r[i].history : no < r[i].no
       /\ \A i, j \in 1..Len(r) : i < j => r[i].no < r[j].no
  BY <1>8, <1>10, <1>11
<1>13. s2' = r
  BY <1>1, <1>6, <1>9
<1>14. \A i \in 1..Len(r) : s5' # r[i].no
  BY <1>1, <1>10, TurnsTyped, NoneAssumption
<1> QED BY <1>1, <1>2, <1>10, <1>12, <1>13, <1>14 DEF AssistantInv

\* A question is asked again with what was answered before it.
LEMMA AskedAgain ==
  ASSUME AssistantInv, NEW i \in 1..2, Ass!retry(i)
  PROVE  AssistantInv'
<1> DEFINE turn == Ass!Asked(s2[i], i - 1)
<1>1. /\ i \in 1..Len(s2) /\ s4' = s2[i].no /\ s5' = None /\ s2' = [s2 EXCEPT ![i] = turn]
      /\ UNCHANGED <<s1, s3, s6, s7, s8, s9, s10, s11>>
  BY DEF Ass!retry, Ass!copies, Ass!analyst
<1>2. /\ s3 \in Nat /\ s2 \in Seq(Turns) /\ Len(s2) \in Nat
      /\ \A j \in 1..Len(s2) : /\ s2[j].no \in Nat /\ s2[j].no <= s3 /\ s2[j] \in Turns
  BY TurnsTyped DEF AssistantInv
<1>3. \A n \in Ass!history(i - 1) : n \in Nat /\ n < s2[i].no
  <2>1. \A j \in 1..i - 1 : j \in 1..Len(s2) /\ j < i
    BY <1>1, <1>2
  <2> QED BY <1>1, <1>2, <2>1, SentAlong DEF AssistantInv
<1>4. turn \in Turns /\ turn.no = s2[i].no /\ turn.history = Ass!history(i - 1)
  BY <1>1, <1>2, <1>3, AskedTurn DEF AssistantInv
<1> HIDE DEF turn
<1>5. /\ s2' \in Seq(Turns) /\ Len(s2') = Len(s2) /\ s2'[i] = turn
      /\ \A j \in 1..Len(s2) : j # i => s2'[j] = s2[j]
  BY <1>1, <1>2, <1>4, ExceptSeq
<1>6. \A j \in 1..Len(s2) : s2'[j].no = s2[j].no
  BY <1>4, <1>5
<1>7. \A j \in 1..Len(s2) : \A no \in s2'[j].history : no < s2'[j].no
  BY <1>3, <1>4, <1>5, <1>6 DEF AssistantInv
<1>8. \A j \in 1..Len(s2) : s5' # s2'[j].no
  BY <1>1, <1>2, <1>6, NoneAssumption
<1> QED BY <1>1, <1>2, <1>5, <1>6, <1>7, <1>8 DEF AssistantInv

\* A question is answered or given up.
LEMMA SettleStep ==
  ASSUME AssistantInv, NEW outcome \in {"answered", "failed"}, Ass!Settle(outcome)
  PROVE  AssistantInv'
<1>1. /\ s4 # None /\ s4' = None /\ UNCHANGED <<s1, s3, s5, s6, s7, s8, s9, s10, s11>>
      /\ s2' = [i \in 1..Len(s2) |->
                  IF s2[i].no = s4 THEN [s2[i] EXCEPT !.outcome = outcome] ELSE s2[i]]
  BY DEF Ass!Settle, Ass!copies, Ass!analyst
<1>2. s2 \in Seq(Turns) /\ Len(s2) \in Nat /\ \A j \in 1..Len(s2) : s2[j] \in Turns
  BY TurnsTyped DEF AssistantInv
<1>3. \A t \in Turns : LET u == [t EXCEPT !.outcome = outcome] IN
        u \in Turns /\ u.no = t.no /\ u.times = t.times /\ u.history = t.history
  BY DEF Turns
<1>4. \A j \in 1..Len(s2) : /\ s2'[j] \in Turns /\ s2'[j].no = s2[j].no
                            /\ s2'[j].times = s2[j].times /\ s2'[j].history = s2[j].history
  BY <1>1, <1>2, <1>3
<1>5. s2' \in [1..Len(s2) -> Turns]
  BY <1>1, <1>4
<1>6. s2' \in Seq(Turns) /\ Len(s2') = Len(s2)
  <2> HIDE DEF Turns
  <2>1. \A n \in Nat : \A f \in [1..n -> Turns] : f \in Seq(Turns)
    OBVIOUS
  <2>2. s2' \in Seq(Turns) /\ DOMAIN s2' = 1..Len(s2)
    BY <1>2, <1>5, <2>1
  <2>3. DOMAIN s2' = 1..Len(s2') /\ Len(s2') \in Nat
    BY <2>2, LenProperties
  <2>4. \A n, m \in Nat : 1..n = 1..m => n = m
    OBVIOUS
  <2>5. Len(s2') = Len(s2)
    BY <1>2, <2>2, <2>3, <2>4
  <2> QED BY <2>2, <2>5
<1> QED BY <1>1, <1>4, <1>6 DEF AssistantInv

\* A copy gets to the clipboard.
LEMMA CopiedStep ==
  ASSUME AssistantInv, Ass!Copied
  PROVE  AssistantInv'
<1>1. /\ s7 # <<>> /\ s7' = <<>> /\ s6' = s7 /\ s5' = s7[1]
      /\ (s8' <=> \E i \in 1..Len(s2) : s2[i].no = s7[1] /\ s2[i].times # s7[2])
      /\ UNCHANGED <<s1, s2, s3, s4, s9, s10, s11>>
  BY DEF Ass!Copied, Ass!analyst
<1>2. s8' \in BOOLEAN
  BY DEF Ass!Copied
<1>3. PICK n \in Nat, m \in Nat : s7 = <<n, m>>
  BY <1>1 DEF AssistantInv
<1>4. ~s8' => \A i \in 1..Len(s2) : n = s2[i].no => s7 = <<s2[i].no, s2[i].times>>
  BY <1>1, <1>3
<1> QED BY <1>1, <1>2, <1>3, <1>4 DEF AssistantInv

\* The other steps leave the conversation alone, or clear it.
LEMMA OtherSteps ==
  ASSUME AssistantInv,
         \/ Ass!clearConversation \/ \E i \in 1..2 : Ass!copyAnswer(i)
         \/ \E page \in Ass!Pages : Ass!Visit(page)
         \/ Ass!prepareAnalyst \/ Ass!Prepared \/ Ass!PreparationFails
         \/ Ass!AskAnalyst \/ Ass!AnalystAnswers \/ Ass!AnalystFails \/ UNCHANGED Ass!avars
  PROVE  AssistantInv'
<1> USE DEF Ass!copies, Ass!chat, Ass!analyst
<1>1. CASE Ass!clearConversation
  <2>1. /\ s2' = <<>> /\ s5' = None
        /\ UNCHANGED <<s1, s3, s4, s6, s7, s8, s9, s10, s11>>
    BY <1>1 DEF Ass!clearConversation
  <2>2. s2' \in Seq(Turns) /\ Len(s2') = 0
    BY <2>1
  <2> QED BY <2>1, <2>2 DEF AssistantInv
<1>2. ASSUME NEW i \in 1..2, Ass!copyAnswer(i) PROVE AssistantInv'
  <2>1. /\ i \in 1..Len(s2) /\ s7' = <<s2[i].no, s2[i].times>>
        /\ UNCHANGED <<s1, s2, s3, s4, s5, s6, s8, s9, s10, s11>>
    BY <1>2 DEF Ass!copyAnswer
  <2>2. s2[i].no \in Nat /\ s2[i].times \in Nat
    BY <2>1, TurnsTyped DEF AssistantInv
  <2> QED BY <2>1, <2>2 DEF AssistantInv
<1>3. ASSUME NEW page \in Ass!Pages, Ass!Visit(page) PROVE AssistantInv'
  <2>1. /\ s1' = page /\ s5' = None /\ s9' \in {"preparing", s9} /\ s10' = "none" /\ s11' = "none"
        /\ UNCHANGED <<s2, s3, s4, s6, s7, s8>>
    BY <1>3 DEF Ass!Visit
  <2>2. \A i \in 1..Len(s2) : s5' # s2[i].no
    BY <2>1, TurnsTyped, NoneAssumption DEF AssistantInv
  <2> QED BY <2>1, <2>2 DEF AssistantInv
<1>4. CASE \/ Ass!prepareAnalyst \/ Ass!Prepared \/ Ass!PreparationFails
           \/ Ass!AskAnalyst \/ Ass!AnalystAnswers \/ Ass!AnalystFails \/ UNCHANGED Ass!avars
  <2>1. /\ UNCHANGED <<s1, s2, s3, s4, s5, s6, s7, s8>>
        /\ s9' \in {"idle", "preparing", "ready", s9} /\ s10' \in {"none", "sent", s10}
        /\ s11' \in {"none", "answer", "error", s11}
    BY <1>4 DEF Ass!prepareAnalyst, Ass!Prepared, Ass!PreparationFails, Ass!AskAnalyst,
       Ass!AnalystAnswers, Ass!AnalystFails, Ass!avars
  <2> QED BY <2>1 DEF AssistantInv
<1> QED BY <1>1, <1>2, <1>3, <1>4

\* A question of the assistant is asked with what came before it, the answer that "was copied"
\* is the one on display, and the state is typed.
LEMMA AssistantTells == Ass!Spec => [](Ass!HistoryComesBefore /\ Ass!CopiedIsShown /\ Ass!TypeOK)
<1>1. Ass!Init => AssistantInv
  <2> SUFFICES ASSUME Ass!Init PROVE AssistantInv
    OBVIOUS
  <2>1. /\ s1 \in Ass!Pages /\ s2 = <<>> /\ s3 = 0 /\ s4 = None /\ s5 = None /\ s6 = <<>>
        /\ s7 = <<>> /\ s8 = FALSE /\ s9 = "preparing" /\ s10 = "none" /\ s11 = "none"
    BY DEF Ass!Init
  <2>2. s2 \in Seq(Turns) /\ Len(s2) = 0 /\ \A i : i \notin 1..Len(s2)
    BY <2>1
  <2>3. s3 \in Nat /\ Len(s2) <= 2
    BY <2>1, <2>2
  <2>4. s8 \in BOOLEAN
    BY <2>1, Zenon
  <2>5. s7 \in {<<>>} \union (Nat \X Nat)
    BY <2>1, Zenon
  <2> QED BY <2>1, <2>2, <2>3, <2>4, <2>5, Zenon DEF AssistantInv
<1>2. AssistantInv /\ [Ass!Next]_Ass!avars => AssistantInv'
  <2> SUFFICES ASSUME AssistantInv, [Ass!Next]_Ass!avars PROVE AssistantInv'
    OBVIOUS
  <2>1. CASE Ass!QueryAnswered \/ Ass!QueryFails \/ Ass!AbortQuery
    BY <2>1, SettleStep DEF Ass!QueryAnswered, Ass!QueryFails, Ass!AbortQuery
  <2> QED BY <2>1, SubmitStep, AskedAgain, CopiedStep, OtherSteps DEF Ass!Next, Ass!MaxTurns
<1>3. AssistantInv => Ass!HistoryComesBefore /\ Ass!CopiedIsShown /\ Ass!TypeOK
  <2> SUFFICES ASSUME AssistantInv
               PROVE  Ass!HistoryComesBefore /\ Ass!CopiedIsShown /\ Ass!TypeOK
    OBVIOUS
  <2>1. Ass!HistoryComesBefore /\ Ass!CopiedIsShown
    BY DEF AssistantInv, Ass!HistoryComesBefore, Ass!CopiedIsShown
  <2>2. \A i \in 1..Len(s2) : s2[i].outcome \in {"pending", "answered", "failed"}
    <3>1. \A t \in Turns : t.outcome \in {"pending", "answered", "failed"}
      BY DEF Turns
    <3> QED BY <3>1, TurnsTyped DEF AssistantInv
  <2>3. Len(s7) \in {0, 2}
    <3>1. CASE s7 = <<>>
      BY <3>1
    <3>2. CASE s7 # <<>>
      <4>1. PICK n \in Nat, m \in Nat : s7 = <<n, m>>
        BY <3>2 DEF AssistantInv
      <4> QED BY <4>1
    <3> QED BY <3>1, <3>2
  <2> QED BY <2>1, <2>2, <2>3 DEF AssistantInv, Ass!TypeOK, Ass!MaxTurns
<1> QED BY <1>1, <1>2, <1>3, PTL DEF Ass!Spec

\* An answer about the notifications there were.
Told(posted) == {a \in Not!Answers : a.known <= posted /\ a.read \subseteq 1..a.known}

\* The panel and the answers on their way tell of notifications there are.
NoticesInv ==
  /\ s1 \in 0..MaxAlerts /\ s2 \subseteq 1..s1
  /\ s4 \in Told(s1) /\ s6 \subseteq Told(s1) /\ s5 \in 0..MaxAlerts
  /\ s7 \subseteq [id : 1..MaxAlerts, served : BOOLEAN] /\ \A p \in s7 : p.id <= s1
  /\ s8 \in {"none", "sent", "served"}

\* The unread notifications of an answer can be counted.
LEMMA UnreadCounted ==
  ASSUME NEW a \in Not!Answers, a.read \subseteq 1..a.known
  PROVE  a.known - Not!Cardinality(a.read) \in 0..MaxAlerts
<1>1. a.known \in 0..MaxAlerts /\ MaxAlerts \in Nat
  BY ThreadsAssumption DEF Not!Answers
<1>2. 1 \in Int /\ a.known \in Int
  BY <1>1
<1>3. IsFiniteSet(1..a.known)
      /\ Cardinality(1..a.known) = IF 1 > a.known THEN 0 ELSE a.known - 1 + 1
  BY <1>2, FS_Interval, Zenon
<1>4. Cardinality(1..a.known) = a.known
  BY <1>1, <1>3
<1>5. /\ Cardinality(a.read) \in Nat
      /\ Cardinality(a.read) <= Cardinality(1..a.known)
  BY <1>3, FS_Subset, FS_CardinalityType
<1>6. Not!Cardinality(a.read) = Cardinality(a.read)
  BY DEF Not!Cardinality, Cardinality
<1> HIDE DEF Not!Cardinality
<1> QED BY <1>1, <1>4, <1>5, <1>6

\* What was told before stays true of what was told.
LEMMA ToldBefore ==
  ASSUME NEW n \in Nat, NEW m \in Nat, n <= m
  PROVE  Told(n) \subseteq Told(m)
<1>1. \A a \in Not!Answers : a.known \in Nat
  BY ThreadsAssumption DEF Not!Answers
<1> QED BY <1>1 DEF Told

\* A step keeps that.
LEMMA NoticesStep ==
  ASSUME NoticesInv, [Not!Next]_Not!nvars
  PROVE  NoticesInv'
<1>1. /\ s1 \in Nat /\ MaxAlerts \in Nat /\ s1 <= MaxAlerts /\ s5 \in 0..MaxAlerts
      /\ s4 \in Not!Answers /\ s4.known \in 0..MaxAlerts /\ s4.known <= s1
      /\ s4.read \subseteq 1..s4.known
      /\ \A p \in s7 : p \in [id : 1..MaxAlerts, served : BOOLEAN] /\ p.id \in 1..s1
  BY ThreadsAssumption DEF NoticesInv, Told, Not!Answers
<1>2. CASE Not!Post
  <2>1. s1' = s1 + 1 /\ s1 < MaxAlerts /\ UNCHANGED <<s2, s4, s5, s6, s7, s8>>
    BY <1>2 DEF Not!Post
  <2>2. Told(s1) \subseteq Told(s1') /\ s1' \in 0..MaxAlerts
    BY <1>1, <2>1, ToldBefore
  <2>3. 1..s1 \subseteq 1..s1' /\ \A p \in s7 : p.id <= s1'
    BY <1>1, <2>1
  <2> QED BY <2>1, <2>2, <2>3 DEF NoticesInv
<1>3. CASE s6' = s6 \union {[known |-> s1, read |-> s2]} /\ UNCHANGED <<s1, s2, s4, s5, s7, s8>>
  <2>1. [known |-> s1, read |-> s2] \in Told(s1)
    <3>1. s2 \subseteq 1..MaxAlerts /\ s2 \subseteq 1..s1 /\ s1 \in 0..MaxAlerts
      BY <1>1 DEF NoticesInv
    <3> DEFINE a == [known |-> s1, read |-> s2]
    <3>2. a \in Not!Answers /\ a.known = s1 /\ a.read = s2
      BY <3>1 DEF Not!Answers
    <3>3. a.known <= s1 /\ a.read \subseteq 1..a.known
      BY <1>1, <3>1, <3>2
    <3> HIDE DEF a
    <3>4. a \in Told(s1)
      BY <3>2, <3>3 DEF Told
    <3> QED BY <3>4 DEF a
  <2> QED BY <1>3, <2>1 DEF NoticesInv
<1>4. ASSUME NEW a \in s6, Not!fetchNotifications(a) PROVE NoticesInv'
  <2>1. /\ s6' = s6 \ {a} /\ s4' = a /\ s5' = a.known - Not!Cardinality(a.read)
        /\ UNCHANGED <<s1, s2, s7, s8>>
    BY <1>4 DEF Not!fetchNotifications
  <2>2. a \in Told(s1) /\ a \in Not!Answers /\ a.read \subseteq 1..a.known
    BY DEF NoticesInv, Told
  <2>3. s5' \in 0..MaxAlerts
    BY <2>1, <2>2, UnreadCounted
  <2> QED BY <2>1, <2>2, <2>3 DEF NoticesInv
<1>5. ASSUME NEW id \in 1..MaxAlerts, Not!ClickNotification(id) PROVE NoticesInv'
  <2>1. /\ id \in 1..s4.known /\ s7' = s7 \union {[id |-> id, served |-> FALSE]}
        /\ UNCHANGED <<s1, s2, s4, s5, s6, s8>>
    BY <1>5 DEF Not!ClickNotification
  <2>2. id <= s1
    BY <1>1, <2>1
  <2> DEFINE q == [id |-> id, served |-> FALSE]
  <2>3. q \in [id : 1..MaxAlerts, served : BOOLEAN] /\ q.id <= s1 /\ s7' = s7 \union {q}
    BY <2>1, <2>2
  <2> HIDE DEF q
  <2>4. s7' \subseteq [id : 1..MaxAlerts, served : BOOLEAN] /\ \A r \in s7' : r.id <= s1
    BY <2>3 DEF NoticesInv
  <2> QED BY <2>1, <2>4 DEF NoticesInv
<1>6. ASSUME NEW p \in s7, Not!markNotificationRead(p) PROVE NoticesInv'
  <2>1. /\ s2' = s2 \union {p.id} /\ s7' = (s7 \ {p}) \union {[p EXCEPT !.served = TRUE]}
        /\ UNCHANGED <<s1, s4, s5, s6, s8>>
    BY <1>6 DEF Not!markNotificationRead
  <2>2. p.id \in 1..s1 /\ p \in [id : 1..MaxAlerts, served : BOOLEAN]
    BY <1>1
  <2>3. [p EXCEPT !.served = TRUE] \in [id : 1..MaxAlerts, served : BOOLEAN]
        /\ [p EXCEPT !.served = TRUE].id = p.id
    BY <2>2
  <2>4. p.id <= s1
    BY <1>1
  <2> DEFINE q == [p EXCEPT !.served = TRUE]
  <2> HIDE DEF q
  <2>5. s7' = (s7 \ {p}) \union {q} /\ q \in [id : 1..MaxAlerts, served : BOOLEAN] /\ q.id <= s1
    BY <2>1, <2>3, <2>4 DEF q
  <2>6. s7' \subseteq [id : 1..MaxAlerts, served : BOOLEAN] /\ \A r \in s7' : r.id <= s1
    BY <2>5 DEF NoticesInv
  <2>7. s2' \subseteq 1..s1
    BY <2>1, <2>2 DEF NoticesInv
  <2> QED BY <2>1, <2>6, <2>7 DEF NoticesInv
<1>7. ASSUME NEW p \in s7, Not!handleNotificationClick(p) PROVE NoticesInv'
  <2>1. /\ s7' = s7 \ {p} /\ UNCHANGED <<s1, s2, s6, s8>>
        /\ s4' = [s4 EXCEPT !.read = @ \union ({p.id} \intersect (1..s4.known))]
        /\ s5' = IF s5 > 0 THEN s5 - 1 ELSE 0
    BY <1>7 DEF Not!handleNotificationClick
  <2> DEFINE read == s4.read \union ({p.id} \intersect (1..s4.known))
  <2>2. read \subseteq 1..s4.known /\ read \subseteq 1..MaxAlerts
    BY <1>1
  <2>3. s4' = [s4 EXCEPT !.read = read]
    BY <2>1
  <2> HIDE DEF read
  <2>4. s4' \in Told(s1)
    BY <1>1, <2>2, <2>3 DEF Told, Not!Answers
  <2>5. s5' \in 0..MaxAlerts
    BY <1>1, <2>1
  <2> QED BY <2>1, <2>4, <2>5 DEF NoticesInv
<1>8. CASE Not!markAllNotificationsRead
  BY <1>8 DEF Not!markAllNotificationsRead, NoticesInv
<1>9. CASE Not!handleMarkAllRead
  <2>1. /\ s8' = "none" /\ UNCHANGED <<s1, s2, s6, s7>> /\ s5' = 0
        /\ s4' = [s4 EXCEPT !.read = 1..s4.known]
    BY <1>9 DEF Not!handleMarkAllRead
  <2> DEFINE read == 1..s4.known
  <2>2. read \subseteq 1..s4.known /\ read \subseteq 1..MaxAlerts
    BY <1>1
  <2>3. s4' = [s4 EXCEPT !.read = read]
    BY <2>1
  <2> HIDE DEF read
  <2>4. s4' \in Told(s1)
    BY <1>1, <2>2, <2>3 DEF Told, Not!Answers
  <2>5. s5' \in 0..MaxAlerts
    BY <1>1, <2>1
  <2> QED BY <2>1, <2>4, <2>5 DEF NoticesInv
<1>10. CASE \/ Not!Close \/ Not!ClickReadAll \/ Not!ReadAllFails
            \/ \E a \in s6 : Not!PollFails(a)
            \/ \E p \in s7 : Not!PatchFails(p)
            \/ UNCHANGED Not!nvars
  <2>1. /\ UNCHANGED <<s1, s2, s4, s5>> /\ s6' \subseteq s6 /\ s7' \subseteq s7
        /\ s8' \in {"none", "sent", s8}
    BY <1>10 DEF Not!Close, Not!ClickReadAll, Not!ReadAllFails, Not!PollFails, Not!PatchFails,
       Not!nvars
  <2> QED BY <2>1 DEF NoticesInv
<1>11. CASE Not!Poll \/ Not!Toggle
  BY <1>3, <1>11 DEF Not!Poll, Not!Toggle, Not!refresh
<1> QED BY <1>2, <1>4, <1>5, <1>6, <1>7, <1>8, <1>9, <1>10, <1>11 DEF Not!Next, Not!Answered

\* The panel of notifications tells of notifications there are, and the badge is a number of
\* them.
LEMMA NoticesTyped == Not!Spec => []Not!TypeOK
<1>1. Not!Init => NoticesInv
  <2> SUFFICES ASSUME Not!Init PROVE NoticesInv
    OBVIOUS
  <2>1. /\ s1 = 1 /\ s2 = {} /\ s4 = [known |-> 0, read |-> {}] /\ s5 = 0 /\ s6 = {}
        /\ s7 = {} /\ s8 = "none"
    BY DEF Not!Init
  <2>2. MaxAlerts \in Nat /\ 1 \in 0..MaxAlerts /\ 0 \in 0..MaxAlerts
    BY ThreadsAssumption
  <2>3. s4 \in Told(s1)
    BY <2>1, <2>2 DEF Told, Not!Answers
  <2> QED BY <2>1, <2>2, <2>3 DEF NoticesInv
<1>2. NoticesInv => Not!TypeOK
  BY DEF NoticesInv, Told, Not!TypeOK
<1> QED BY <1>1, <1>2, NoticesStep, PTL DEF Not!Spec

\* A caller has the lock, or waits for it.
Locking == {"waiting", "again", "refresh", "renewed", "third"}

\* Those who wait for the lock are in its queue, once each, and who has it is the first.
QueueIsSound ==
  /\ s7 \in Seq(Ses!Callers)
  /\ \A i, j \in 1..Len(s7) : s7[i] = s7[j] => i = j
  /\ \A c \in Ses!Callers : s6[c].phase \in Locking <=> \E i \in 1..Len(s7) : s7[i] = c
  /\ \A c \in Ses!Callers : s6[c].phase \in Locking \ {"waiting"} => s7[1] = c

\* The sessions there are known of were begun.
SessionsAreKnown ==
  /\ s1 \in 0..s2 /\ s3.session \in 0..s2
  /\ \A c \in Ses!Callers : s6[c].n \in 0..s2
  /\ s5 \in [open : SUBSET Nat, count : Nat] /\ s5.open \subseteq 1..s5.count
  /\ s4 \in 0..s5.count

\* What may become of the call of a caller: it goes on under the lock, waits for it, gives
\* it back, or is not under it at all.
GoesOn(c, call) ==
  \/ /\ s7' = s7 /\ call.phase \in Locking \ {"waiting"}
     /\ \/ s6[c].phase \in Locking \ {"waiting"}
        \/ s6[c].phase = "waiting" /\ Ses!Locked(c)
  \/ s7' = Append(s7, c) /\ call.phase = "waiting" /\ s6[c].phase \notin Locking
  \/ /\ s7' = Tail(s7) /\ call.phase \notin Locking
     /\ (s6[c].phase \in Locking \ {"waiting"} \/ Ses!Locked(c))
  \/ s7' = s7 /\ call.phase \notin Locking /\ s6[c].phase \notin Locking

\* A call that goes on, with the number of a session it knows of.
CallChanges(c) ==
  \E call \in Ses!Calls :
    /\ s6' = [s6 EXCEPT ![c] = call] /\ call.n \in {0, s3.session, s6[c].n} /\ GoesOn(c, call)

\* An answer is of the session of the cookies.
LEMMA AnswersOfTheSession ==
  ASSUME NEW a \in Ses!Proxies \union {Ses!RefreshRoute}
  PROVE  a.n = s3.session
<1>1. \A ok, cookies : Ses!Answer(ok, cookies).n = s3.session
  BY DEF Ses!Answer
<1>2. Ses!RefreshRoute.n = s3.session
  BY <1>1 DEF Ses!RefreshRoute
<1>3. Ses!authenticatedBackendRequest.n = s3.session
  BY <1>1, <1>2 DEF Ses!authenticatedBackendRequest
<1>4. Ses!fetchPublicScansApi.n = s3.session /\ Ses!proxyToServiceDeliveryApi.n = s3.session
  BY <1>1 DEF Ses!fetchPublicScansApi, Ses!proxyToServiceDeliveryApi
<1>5. \A guest \in BOOLEAN : Ses!proxyToScansApi(guest).n = s3.session
  BY <1>3, <1>4 DEF Ses!proxyToScansApi
<1> QED BY <1>2, <1>4, <1>5 DEF Ses!Proxies

\* Sending an answer that is on its way.
LEMMA SentCall ==
  ASSUME Ses!IInv, NEW c \in Ses!Callers, NEW phase \in Ses!Phases,
         NEW a \in Ses!Proxies \union {Ses!RefreshRoute}, Ses!Send(c, phase, a)
  PROVE  \E call \in Ses!Calls : /\ s6' = [s6 EXCEPT ![c] = call] /\ call.phase = phase
                                 /\ call.n = s3.session
<1> DEFINE call == [phase |-> phase, ok |-> a.ok, cookies |-> a.cookies, n |-> a.n]
<1>1. a \in [ok : BOOLEAN, cookies : {"keep", "set", "delete"}, n : Nat] /\ a.n = s3.session
  BY AnswersAreSound, AnswersOfTheSession
<1>2. call \in Ses!Calls /\ call.phase = phase /\ call.n = s3.session
  BY <1>1 DEF Ses!Calls
<1>3. s6' = [s6 EXCEPT ![c] = call]
  BY DEF Ses!Send
<1> QED BY <1>2, <1>3

\* What a caller does.
LEMMA CallersGoOn ==
  ASSUME Ses!IInv, NEW c \in Ses!Callers,
         \/ Ses!authenticatedFetch(c) \/ Ses!Answered(c) \/ Ses!Lost(c)
         \/ c = "refresher" /\ (Ses!TimerFires \/ Ses!AuthRefresher)
  PROVE  CallChanges(c) /\ s3'.session \in {0, s3.session, s6[c].n} /\ UNCHANGED <<s1, s2, s4, s5>>
<1>1. /\ Ses!Idle \in Ses!Calls /\ Ses!Idle.phase = "idle" /\ Ses!Idle.n = 0
      /\ [Ses!Idle EXCEPT !.phase = "waiting"] \in Ses!Calls
      /\ [Ses!Idle EXCEPT !.phase = "waiting"].phase = "waiting"
      /\ [Ses!Idle EXCEPT !.phase = "waiting"].n = 0
      /\ [Ses!Idle EXCEPT !.phase = "renewed"] \in Ses!Calls
      /\ [Ses!Idle EXCEPT !.phase = "renewed"].phase = "renewed"
      /\ [Ses!Idle EXCEPT !.phase = "renewed"].n = 0
  BY DEF Ses!Idle, Ses!Calls, Ses!Phases
<1>2. LET a == [phase |-> "refresh", ok |-> FALSE, cookies |-> "delete", n |-> 0]
      IN a \in Ses!Calls /\ a.n = 0 /\ a.phase = "refresh"
  BY DEF Ses!Calls, Ses!Phases
<1>3. s6[c] \in Ses!Calls
  BY DEF Ses!IInv, Ses!Typed
<1>4. Ses!Arrives(c) => s3'.session \in {0, s3.session, s6[c].n}
  BY <1>3 DEF Ses!Arrives, Ses!setAuthCookies, Ses!NoCookies, Ses!Calls
<1>5. Ses!Done(c) /\ s7' = Tail(s7) /\ (s6[c].phase \in Locking \ {"waiting"} \/ Ses!Locked(c))
        => CallChanges(c)
  BY <1>1 DEF CallChanges, GoesOn, Ses!Done, Locking
<1> USE DEF Ses!keycloak, Ses!signIn
<1>6. CASE Ses!authenticatedFetch(c)
  <2>1. /\ s6[c].phase = "idle" /\ UNCHANGED <<s1, s2, s3, s4, s5, s7>>
        /\ \E a \in Ses!Proxies : Ses!Send(c, "first", a)
    BY <1>6 DEF Ses!authenticatedFetch
  <2>2. PICK call \in Ses!Calls : s6' = [s6 EXCEPT ![c] = call] /\ call.phase = "first"
                                  /\ call.n = s3.session
    BY <2>1, SentCall DEF Ses!Phases
  <2>3. GoesOn(c, call)
    BY <2>1, <2>2 DEF GoesOn, Locking
  <2> QED BY <2>1, <2>2, <2>3 DEF CallChanges
<1>7. CASE Ses!FirstArrives(c)
  <2>1. /\ s6[c].phase = "first" /\ Ses!Arrives(c) /\ UNCHANGED <<s1, s2, s4, s5>>
        /\ \/ s6' = [s6 EXCEPT ![c] = Ses!Idle] /\ s7' = s7
           \/ /\ s6' = [s6 EXCEPT ![c] = [Ses!Idle EXCEPT !.phase = "waiting"]]
              /\ s7' = Append(s7, c)
    BY <1>7 DEF Ses!FirstArrives, Ses!Done
  <2> QED BY <1>1, <1>4, <2>1 DEF CallChanges, GoesOn, Locking
<1>8. CASE Ses!Retry(c)
  <2>1. /\ s6[c].phase = "waiting" /\ Ses!Locked(c) /\ UNCHANGED <<s1, s2, s3, s4, s5, s7>>
        /\ \E a \in Ses!Proxies : Ses!Send(c, "again", a)
    BY <1>8 DEF Ses!Retry
  <2>2. PICK call \in Ses!Calls : s6' = [s6 EXCEPT ![c] = call] /\ call.phase = "again"
                                  /\ call.n = s3.session
    BY <2>1, SentCall DEF Ses!Phases
  <2>3. GoesOn(c, call)
    BY <2>1, <2>2 DEF GoesOn, Locking
  <2> QED BY <2>1, <2>2, <2>3 DEF CallChanges
<1>9. CASE Ses!RetryArrives(c)
  <2>1. s6[c].phase = "again" /\ UNCHANGED <<s1, s2, s4, s5>>
    BY <1>9 DEF Ses!RetryArrives
  <2>2. CASE s6[c].ok
    <3>1. Ses!Arrives(c) /\ Ses!Done(c) /\ s7' = Tail(s7)
      BY <1>9, <2>2 DEF Ses!RetryArrives, Ses!Release
    <3> QED BY <1>4, <1>5, <2>1, <3>1 DEF Locking
  <2>3. CASE ~s6[c].ok /\ s6[c].cookies # "keep"
    <3>1. /\ Ses!Arrives(c) /\ s7' = s7
          /\ s6' = [s6 EXCEPT ![c] = [phase |-> "refresh", ok |-> FALSE, cookies |-> "delete",
                                      n |-> 0]]
      BY <1>9, <2>3 DEF Ses!RetryArrives, Ses!Send
    <3> QED BY <1>2, <1>4, <2>1, <3>1 DEF CallChanges, GoesOn, Locking
  <2>4. CASE ~s6[c].ok /\ s6[c].cookies = "keep"
    <3>1. Ses!Send(c, "refresh", Ses!RefreshRoute) /\ UNCHANGED <<s3, s7>>
      BY <1>9, <2>4 DEF Ses!RetryArrives
    <3>2. PICK call \in Ses!Calls : s6' = [s6 EXCEPT ![c] = call] /\ call.phase = "refresh"
                                    /\ call.n = s3.session
      BY <3>1, SentCall DEF Ses!Phases
    <3>3. GoesOn(c, call)
      BY <2>1, <3>1, <3>2 DEF GoesOn, Locking
    <3> QED BY <2>1, <3>1, <3>2, <3>3 DEF CallChanges
  <2> QED BY <2>2, <2>3, <2>4
<1>10. CASE Ses!RefreshArrives(c)
  <2>1. s6[c].phase = "refresh" /\ Ses!Arrives(c) /\ UNCHANGED <<s1, s2, s4, s5>>
    BY <1>10 DEF Ses!RefreshArrives
  <2>2. \/ Ses!Done(c) /\ s7' = Tail(s7)
        \/ s6' = [s6 EXCEPT ![c] = [Ses!Idle EXCEPT !.phase = "renewed"]] /\ s7' = s7
    BY <1>3, <1>10 DEF Ses!RefreshArrives, Ses!submitLogout, Ses!Release, Ses!Calls
  <2>3. CASE Ses!Done(c) /\ s7' = Tail(s7)
    BY <1>4, <1>5, <2>1, <2>3 DEF Locking
  <2>4. CASE s6' = [s6 EXCEPT ![c] = [Ses!Idle EXCEPT !.phase = "renewed"]] /\ s7' = s7
    BY <1>1, <1>4, <2>1, <2>4 DEF CallChanges, GoesOn, Locking
  <2> QED BY <2>2, <2>3, <2>4
<1>11. CASE Ses!Third(c)
  <2>1. /\ s6[c].phase = "renewed" /\ UNCHANGED <<s1, s2, s3, s4, s5, s7>>
        /\ \E a \in Ses!Proxies : Ses!Send(c, "third", a)
    BY <1>11 DEF Ses!Third
  <2>2. PICK call \in Ses!Calls : s6' = [s6 EXCEPT ![c] = call] /\ call.phase = "third"
                                  /\ call.n = s3.session
    BY <2>1, SentCall DEF Ses!Phases
  <2>3. GoesOn(c, call)
    BY <2>1, <2>2 DEF GoesOn, Locking
  <2> QED BY <2>1, <2>2, <2>3 DEF CallChanges
<1>12. CASE Ses!ThirdArrives(c)
  <2>1. /\ s6[c].phase = "third" /\ Ses!Arrives(c) /\ Ses!Done(c) /\ s7' = Tail(s7)
        /\ UNCHANGED <<s1, s2, s4, s5>>
    BY <1>12 DEF Ses!ThirdArrives, Ses!Release, Ses!submitLogout
  <2> QED BY <1>4, <1>5, <2>1 DEF Locking
<1>13. CASE Ses!Lost(c)
  <2>1. /\ s6[c].phase \in {"first", "again", "refresh", "third"} /\ Ses!Done(c)
        /\ s7' = IF s6[c].phase = "first" THEN s7 ELSE Tail(s7)
        /\ UNCHANGED <<s1, s2, s3, s4, s5>>
    BY <1>13 DEF Ses!Lost, Ses!submitLogout
  <2>2. CASE s6[c].phase = "first"
    BY <1>1, <2>1, <2>2 DEF CallChanges, GoesOn, Ses!Done, Locking
  <2>3. CASE s6[c].phase # "first"
    BY <1>5, <2>1, <2>3 DEF Locking
  <2> QED BY <2>1, <2>2, <2>3
<1>14. CASE c = "refresher" /\ Ses!TimerFires
  <2>1. /\ s6[c].phase = "idle" /\ s6' = [s6 EXCEPT ![c].phase = "waiting"] /\ s7' = Append(s7, c)
        /\ UNCHANGED <<s1, s2, s3, s4, s5>>
    BY <1>14 DEF Ses!TimerFires
  <2> DEFINE call == [s6[c] EXCEPT !.phase = "waiting"]
  <2>2. call \in Ses!Calls /\ call.phase = "waiting" /\ call.n = s6[c].n
    BY <1>3 DEF Ses!Calls, Ses!Phases
  <2>3. s6' = [s6 EXCEPT ![c] = call]
    BY <2>1
  <2> HIDE DEF call
  <2>4. GoesOn(c, call)
    BY <2>1, <2>2 DEF GoesOn, Locking
  <2> QED BY <2>1, <2>2, <2>3, <2>4 DEF CallChanges
<1>15. CASE c = "refresher" /\ Ses!AuthRefresher
  <2>1. Ses!Locked(c) /\ s6[c].phase = "waiting" /\ UNCHANGED <<s1, s2, s3, s4, s5>>
    BY <1>15 DEF Ses!AuthRefresher
  <2>2. CASE Ses!Release(c)
    BY <1>5, <2>1, <2>2 DEF Ses!Release
  <2>3. CASE Ses!Send(c, "refresh", Ses!RefreshRoute) /\ s7' = s7
    <3>1. PICK call \in Ses!Calls : s6' = [s6 EXCEPT ![c] = call] /\ call.phase = "refresh"
                                    /\ call.n = s3.session
      BY <2>3, SentCall DEF Ses!Phases
    <3>2. GoesOn(c, call)
      BY <2>1, <2>3, <3>1 DEF GoesOn, Locking
    <3> QED BY <2>1, <3>1, <3>2 DEF CallChanges
  <2> QED BY <1>15, <2>2, <2>3 DEF Ses!AuthRefresher
<1> QED BY <1>6, <1>7, <1>8, <1>9, <1>10, <1>11, <1>12, <1>13, <1>14, <1>15 DEF Ses!Answered

\* The lock is passed on in the order of its queue.
LEMMA QueueStep ==
  ASSUME Ses!IInv, QueueIsSound, NEW c \in Ses!Callers, CallChanges(c)
  PROVE  QueueIsSound'
<1>1. PICK call \in Ses!Calls : s6' = [s6 EXCEPT ![c] = call] /\ GoesOn(c, call)
  BY DEF CallChanges
<1>2. s6'[c] = call /\ \A d \in Ses!Callers : d # c => s6'[d] = s6[d]
  BY <1>1 DEF Ses!IInv, Ses!Typed
<1>3. s7 \in Seq(Ses!Callers) /\ Len(s7) \in Nat
  BY LenProperties DEF QueueIsSound
<1>4. Ses!Locked(c) => Len(s7) > 0 /\ s7[1] = c
  BY <1>3 DEF Ses!Locked
<1>5. CASE s7' = s7 /\ call.phase \notin Locking /\ s6[c].phase \notin Locking
  BY <1>2, <1>3, <1>5 DEF QueueIsSound, Locking
<1>6. CASE /\ s7' = s7 /\ call.phase \in Locking \ {"waiting"}
           /\ \/ s6[c].phase \in Locking \ {"waiting"}
              \/ s6[c].phase = "waiting" /\ Ses!Locked(c)
  <2>1. s7[1] = c /\ s6[c].phase \in Locking
    BY <1>4, <1>6 DEF QueueIsSound, Locking
  <2> QED BY <1>2, <1>6, <2>1 DEF QueueIsSound
<1>7. CASE s7' = Append(s7, c) /\ call.phase = "waiting" /\ s6[c].phase \notin Locking
  <2>1. PICK q : q = Append(s7, c)
    OBVIOUS
  <2>2. /\ q \in Seq(Ses!Callers) /\ Len(q) = Len(s7) + 1 /\ q[Len(s7) + 1] = c
        /\ \A i \in 1..Len(s7) : q[i] = s7[i]
    BY <1>3, <2>1, AppendProperties
  <2>3. \A i \in 1..Len(q) : i \in 1..Len(s7) \/ i = Len(s7) + 1
    BY <1>3, <2>2
  <2>4. \A i \in 1..Len(s7) : s7[i] # c
    BY <1>7 DEF QueueIsSound
  <2>5. \A i, j \in 1..Len(q) : q[i] = q[j] => i = j
    BY <2>2, <2>3, <2>4 DEF QueueIsSound
  <2>6. Len(s7) + 1 \in 1..Len(q) /\ \A i \in 1..Len(s7) : i \in 1..Len(q)
    BY <1>3, <2>2
  <2>7. \A d \in Ses!Callers : s6'[d].phase \in Locking <=> \E i \in 1..Len(q) : q[i] = d
    <3>1. call.phase \in Locking
      BY <1>7 DEF Locking
    <3> QED BY <1>2, <2>2, <2>3, <2>6, <3>1 DEF QueueIsSound
  <2>8. \A d \in Ses!Callers : s6'[d].phase \in Locking \ {"waiting"} => q[1] = d
    <3> SUFFICES ASSUME NEW d \in Ses!Callers, s6'[d].phase \in Locking \ {"waiting"} PROVE q[1] = d
      OBVIOUS
    <3>1. d # c /\ s6[d].phase \in Locking \ {"waiting"}
      BY <1>2, <1>7
    <3>2. s7[1] = d /\ \E i \in 1..Len(s7) : s7[i] = d
      BY <3>1 DEF QueueIsSound
    <3>3. 1 \in 1..Len(s7)
      BY <1>3, <3>2
    <3> QED BY <2>2, <3>2, <3>3
  <2> QED BY <1>7, <2>1, <2>2, <2>5, <2>7, <2>8 DEF QueueIsSound
<1>8. CASE /\ s7' = Tail(s7) /\ call.phase \notin Locking
           /\ (s6[c].phase \in Locking \ {"waiting"} \/ Ses!Locked(c))
  <2>1. s7[1] = c /\ Len(s7) > 0
    <3>1. CASE s6[c].phase \in Locking \ {"waiting"}
      <4>1. s7[1] = c /\ \E i \in 1..Len(s7) : s7[i] = c
        BY <3>1 DEF QueueIsSound
      <4> QED BY <1>3, <4>1
    <3> QED BY <1>4, <1>8, <3>1
  <2>2. s7 # <<>>
    BY <2>1
  <2>3. PICK q : q = Tail(s7)
    OBVIOUS
  <2>4. /\ q \in Seq(Ses!Callers) /\ Len(q) = Len(s7) - 1
        /\ \A i \in 1..Len(q) : q[i] = s7[i + 1]
    BY <1>3, <2>2, <2>3, HeadTailProperties
  <2>5. /\ \A i \in 1..Len(q) : i + 1 \in 1..Len(s7) /\ i + 1 # 1
        /\ \A i \in 1..Len(s7) : i # 1 => i - 1 \in 1..Len(q) /\ (i - 1) + 1 = i
        /\ 1 \in 1..Len(s7)
    BY <1>3, <2>1, <2>4
  <2>6. \A i, j \in 1..Len(q) : q[i] = q[j] => i = j
    <3> SUFFICES ASSUME NEW i \in 1..Len(q), NEW j \in 1..Len(q), q[i] = q[j] PROVE i = j
      OBVIOUS
    <3>1. s7[i + 1] = s7[j + 1]
      BY <2>4
    <3>2. i + 1 = j + 1
      BY <2>5, <3>1 DEF QueueIsSound
    <3> QED BY <3>2
  <2>7. \A i \in 1..Len(q) : q[i] # c
    BY <2>1, <2>4, <2>5 DEF QueueIsSound
  <2>8. \A d \in Ses!Callers : d # c =>
          ((\E i \in 1..Len(q) : q[i] = d) <=> \E i \in 1..Len(s7) : s7[i] = d)
    <3> SUFFICES ASSUME NEW d \in Ses!Callers, d # c
                 PROVE  (\E i \in 1..Len(q) : q[i] = d) <=> \E i \in 1..Len(s7) : s7[i] = d
      OBVIOUS
    <3>1. ASSUME NEW i \in 1..Len(q), q[i] = d PROVE \E j \in 1..Len(s7) : s7[j] = d
      <4>1. s7[i + 1] = d /\ i + 1 \in 1..Len(s7)
        BY <2>4, <2>5, <3>1
      <4> QED BY <4>1
    <3>2. ASSUME NEW j \in 1..Len(s7), s7[j] = d PROVE \E i \in 1..Len(q) : q[i] = d
      <4>1. j # 1
        BY <2>1, <3>2
      <4>2. j - 1 \in 1..Len(q) /\ (j - 1) + 1 = j
        BY <2>5, <4>1
      <4>3. q[j - 1] = s7[(j - 1) + 1]
        BY <2>4, <4>2
      <4> QED BY <3>2, <4>2, <4>3
    <3> QED BY <3>1, <3>2
  <2>9. \A d \in Ses!Callers : s6'[d].phase \in Locking <=> \E i \in 1..Len(q) : q[i] = d
    BY <1>2, <1>8, <2>7, <2>8 DEF QueueIsSound
  <2>10. \A d \in Ses!Callers : s6'[d].phase \in Locking \ {"waiting"} => q[1] = d
    BY <1>2, <1>8, <2>1 DEF QueueIsSound
  <2> QED BY <1>8, <2>3, <2>4, <2>6, <2>9, <2>10 DEF QueueIsSound
<1> QED BY <1>1, <1>5, <1>6, <1>7, <1>8 DEF GoesOn

\* What the other actions do to the sessions there are known of.
LEMMA SessionsStep ==
  ASSUME Ses!IInv, QueueIsSound, SessionsAreKnown, [Ses!Next]_Ses!bvars
  PROVE  (QueueIsSound /\ SessionsAreKnown)'
<1>1. /\ s1 \in Nat /\ s2 \in Nat /\ s3 \in [session : Nat, access : {"fresh", "due", "gone"}]
      /\ s6 \in [Ses!Callers -> Ses!Calls]
  BY DEF Ses!IInv, Ses!Typed
<1>2. /\ s1 \in 0..s2 /\ s3.session \in 0..s2 /\ \A c \in Ses!Callers : s6[c].n \in 0..s2
      /\ s5.open \in SUBSET Nat /\ s5.count \in Nat /\ s5.open \subseteq 1..s5.count
      /\ s4 \in 0..s5.count /\ s5 = [open |-> s5.open, count |-> s5.count]
  BY DEF SessionsAreKnown
<1>3. ASSUME NEW c \in Ses!Callers, CallChanges(c), s3'.session \in {0, s3.session, s6[c].n},
             UNCHANGED <<s1, s2, s4, s5>>
      PROVE  (QueueIsSound /\ SessionsAreKnown)'
  <2>1. QueueIsSound'
    BY <1>3, QueueStep
  <2>2. PICK call \in Ses!Calls :
          s6' = [s6 EXCEPT ![c] = call] /\ call.n \in {0, s3.session, s6[c].n}
    BY <1>3 DEF CallChanges
  <2>3. call.n \in 0..s2 /\ \A d \in Ses!Callers : s6'[d] = IF d = c THEN call ELSE s6[d]
    BY <1>1, <1>2, <2>2
  <2>4. \A d \in Ses!Callers : s6'[d].n \in 0..s2
    BY <1>2, <2>3
  <2>5. s3'.session \in 0..s2
    BY <1>1, <1>2, <1>3
  <2>6. SessionsAreKnown'
    BY <1>2, <1>3, <2>4, <2>5 DEF SessionsAreKnown
  <2> QED BY <2>1, <2>6
<1>4. ASSUME s6' = s6, s7' = s7 PROVE QueueIsSound'
  BY <1>4 DEF QueueIsSound
<1>5. ASSUME s2' \in Nat, s2 <= s2', s6' = s6, s1' \in 0..s2', s3'.session \in 0..s2', s4' = s4,
             s5' = s5
      PROVE  SessionsAreKnown'
  <2>1. \A c \in Ses!Callers : s6'[c].n \in 0..s2'
    BY <1>1, <1>2, <1>5
  <2> QED BY <1>2, <1>5, <2>1 DEF SessionsAreKnown
<1> USE DEF Ses!keycloak, Ses!signIn
<1>6. ASSUME NEW c \in Ses!Callers, Ses!authenticatedFetch(c) \/ Ses!Answered(c) \/ Ses!Lost(c)
      PROVE  (QueueIsSound /\ SessionsAreKnown)'
  BY <1>3, <1>6, CallersGoOn
<1>7. CASE Ses!TimerFires \/ Ses!AuthRefresher
  <2>1. "refresher" \in Ses!Callers
    BY DEF Ses!Callers
  <2> QED BY <1>3, <1>7, <2>1, CallersGoOn
<1>8. CASE Ses!SignOut \/ Ses!SessionEnds \/ Ses!AccessTokenAges
  <2>1. /\ UNCHANGED <<s2, s4, s5, s6, s7>> /\ s1' \in {0, s1}
    BY <1>8 DEF Ses!SignOut, Ses!SessionEnds, Ses!AccessTokenAges
  <2>2. s3'.session = s3.session
    BY <1>1, <1>8 DEF Ses!SignOut, Ses!SessionEnds, Ses!AccessTokenAges
  <2> QED BY <1>1, <1>2, <1>4, <1>5, <2>1, <2>2
<1>9. CASE Ses!LogoutRoute
  <2>1. /\ UNCHANGED <<s2, s4, s5, s6, s7>> /\ s1' \in {0, s1} /\ s3'.session = 0
    BY <1>9 DEF Ses!LogoutRoute, Ses!NoCookies
  <2> QED BY <1>1, <1>2, <1>4, <1>5, <2>1
<1>10. CASE Ses!LoginRoute
  <2>1. /\ s5' = [open |-> s5.open \union {s5.count + 1}, count |-> s5.count + 1]
        /\ s4' = s5.count + 1 /\ UNCHANGED <<s1, s2, s3, s6, s7>>
    BY <1>10 DEF Ses!LoginRoute
  <2>2. s5'.count = s5.count + 1 /\ s5'.open = s5.open \union {s5.count + 1}
    BY <2>1
  <2>3. s5'.open \subseteq 1..s5'.count /\ s4' \in 0..s5'.count /\ s5'.count \in Nat
        /\ s5'.open \in SUBSET Nat
    BY <1>2, <2>1, <2>2
  <2>4. s5' \in [open : SUBSET Nat, count : Nat]
    BY <2>1, <2>2, <2>3
  <2> QED BY <1>2, <1>4, <2>1, <2>3, <2>4 DEF SessionsAreKnown
<1>11. ASSUME NEW f, s5' = [s5 EXCEPT !.open = @ \ {f}], s4' \in {0, s4}, s2' \in Nat, s2 <= s2',
              s6' = s6, s1' \in 0..s2', s3'.session \in 0..s2'
       PROVE  SessionsAreKnown'
  <2>1. s5'.count = s5.count /\ s5'.open = s5.open \ {f}
        /\ s5' \in [open : SUBSET Nat, count : Nat]
    BY <1>2, <1>11 DEF SessionsAreKnown
  <2>2. \A c \in Ses!Callers : s6'[c].n \in 0..s2'
    BY <1>1, <1>2, <1>11
  <2>3. s5'.open \subseteq 1..s5'.count /\ s4' \in 0..s5'.count
    BY <1>2, <1>11, <2>1
  <2> QED BY <1>11, <2>1, <2>2, <2>3 DEF SessionsAreKnown
<1>12. ASSUME NEW f, Ses!CallbackFails(f) PROVE (QueueIsSound /\ SessionsAreKnown)'
  <2>1. /\ s5' = [s5 EXCEPT !.open = @ \ {f}] /\ s4' = 0 /\ s3'.session = 0
        /\ UNCHANGED <<s1, s2, s6, s7>>
    BY <1>12 DEF Ses!CallbackFails, Ses!NoCookies
  <2>2. s2' \in Nat /\ s2 <= s2' /\ s1' \in 0..s2' /\ s3'.session \in 0..s2'
    BY <1>1, <1>2, <2>1
  <2> QED BY <1>4, <1>11, <2>1, <2>2
<1>13. ASSUME NEW f, Ses!CallbackRoute(f) PROVE (QueueIsSound /\ SessionsAreKnown)'
  <2>1. s5' = [s5 EXCEPT !.open = @ \ {f}] /\ UNCHANGED <<s6, s7>>
    BY <1>13 DEF Ses!CallbackRoute
  <2>2. CASE s4 = f
    <3>1. /\ s4' = 0 /\ s3'.session = s1'
          /\ s2' = (IF s1 = 0 THEN s2 + 1 ELSE s2) /\ s1' = (IF s1 = 0 THEN s2 + 1 ELSE s1)
      BY <1>13, <2>2 DEF Ses!CallbackRoute, Ses!exchangeAuthCode, Ses!setAuthCookies
    <3>2. s2' \in Nat /\ s2 <= s2' /\ s1' \in 0..s2'
      BY <1>1, <1>2, <3>1
    <3> QED BY <1>4, <1>11, <2>1, <3>1, <3>2
  <2>3. CASE s4 # f
    <3>1. UNCHANGED <<s1, s2, s3, s4>>
      BY <1>13, <2>3 DEF Ses!CallbackRoute
    <3>2. s2' \in Nat /\ s2 <= s2' /\ s1' \in 0..s2' /\ s3'.session \in 0..s2'
      BY <1>1, <1>2, <3>1
    <3> QED BY <1>4, <1>11, <2>1, <3>1, <3>2
  <2> QED BY <2>2, <2>3
<1>14. CASE UNCHANGED Ses!bvars
  <2>1. UNCHANGED <<s1, s2, s3, s4, s5, s6, s7>>
    BY <1>14 DEF Ses!bvars
  <2> QED BY <1>1, <1>2, <1>4, <1>5, <2>1
<1> QED BY <1>6, <1>7, <1>8, <1>9, <1>10, <1>12, <1>13, <1>14 DEF Ses!Next

\* Nobody has a session at first, and nobody waits.
LEMMA SessionsInit == Ses!Init => QueueIsSound /\ SessionsAreKnown
<1> SUFFICES ASSUME Ses!Init PROVE QueueIsSound /\ SessionsAreKnown
  OBVIOUS
<1>1. /\ s1 = 0 /\ s2 = 0 /\ s3.session = 0 /\ s4 = 0 /\ s5 = [open |-> {}, count |-> 0]
      /\ s7 = <<>> /\ \A c \in Ses!Callers : s6[c].n = 0 /\ s6[c].phase = "idle"
  BY DEF Ses!Init, Ses!NoCookies, Ses!Idle
<1>2. s7 \in Seq(Ses!Callers) /\ Len(s7) = 0
  BY <1>1
<1>3. \A i : i \notin 1..Len(s7)
  BY <1>2
<1>4. QueueIsSound
  BY <1>1, <1>2, <1>3 DEF QueueIsSound, Locking
<1>5. SessionsAreKnown
  BY <1>1 DEF SessionsAreKnown
<1> QED BY <1>4, <1>5

\* The cookies are of a session that began, and who waits for the lock is in its queue.
LEMMA SessionTyped == Ses!Spec => []Ses!TypeOK
<1> DEFINE I == Ses!IInv /\ QueueIsSound /\ SessionsAreKnown
<1>1. Ses!Init => I
  BY SessionInit, SessionsInit
<1>2. I /\ [Ses!Next]_Ses!bvars => I'
  <2>1. ASSUME I, [Ses!Next]_Ses!bvars PROVE I'
    <3>1. Ses!IInv'
      BY <2>1, SessionStepSound
    <3>2. (QueueIsSound /\ SessionsAreKnown)'
      BY <2>1, SessionsStep
    <3> QED BY <3>1, <3>2
  <2> QED BY <2>1
<1>3. I => Ses!TypeOK
  <2> SUFFICES ASSUME I PROVE Ses!TypeOK
    OBVIOUS
  <2>1. /\ s3.access \in {"fresh", "due", "gone"}
        /\ \A c \in Ses!Callers : s6[c].phase \in Ses!Phases
                                  /\ s6[c].cookies \in {"keep", "set", "delete"}
    BY DEF Ses!IInv, Ses!Typed, Ses!Calls
  <2>2. s1 \in 0..s2 /\ s3.session \in 0..s2 /\ s4 \in 0..s5.count /\ s5.open \subseteq 1..s5.count
    BY DEF SessionsAreKnown
  <2>3. \A c \in Ses!Callers : s6[c].phase \in Locking <=> c \in Ses!ToSet(s7)
    <3>1. Len(s7) \in Nat /\ DOMAIN s7 = 1..Len(s7)
      BY LenProperties DEF QueueIsSound
    <3> QED BY <3>1 DEF QueueIsSound, Ses!ToSet
  <2> QED BY <2>1, <2>2, <2>3 DEF Ses!TypeOK, Locking, Ses!Phases
<1> QED
  <2> HIDE DEF I
  <2> QED BY <1>1, <1>2, <1>3, PTL DEF Ses!Spec

\* The thread on display is one of the list, what is marked read is on display, and what
\* the page gave up is of some thread.
ThreadKnown ==
  /\ s7 \in s5.items \union {None} /\ s5.items \subseteq Threads
  /\ s8 \in [key : Threads \union {None}, phase : {"blank", "loading", "ready", "error"}]
  /\ s8.key = s7
  /\ s9 \in {"none", "sent", "done"} /\ (s9 = "sent" => s7 \in Threads)
  /\ s10 \subseteq Threads

\* No more is marked read, or was on display, than there is.
CountsKnown ==
  /\ s2 \in [Threads -> Nat] /\ s16 \in [Threads -> Nat]
  /\ \A t \in Threads : s2[t] <= Len(s1[t]) /\ s16[t] <= Len(s1[t])

\* The texts that were sent again were typed, and the errors are of threads.
TextsKnown ==
  /\ s13 \subseteq Threads /\ s14 <= MaxTexts /\ s15 \subseteq 1..s14
  /\ s6 \in {"idle", "loading", "failed", "account"}

\* A thread of the list is loaded.
LEMMA LoadedIsKnown ==
  ASSUME ThreadKnown, NEW t \in Threads \union {None}, Mes!LoadThread(t),
         t \in s5'.items \union {None}, s5'.items \subseteq Threads
  PROVE  ThreadKnown'
<1>1. s7' = t /\ s9' = "none" /\ s10' \subseteq Threads
  BY DEF Mes!LoadThread, Mes!GiveUpReading, ThreadKnown
<1>2. /\ s8' \in [key : Threads \union {None}, phase : {"blank", "loading", "ready", "error"}]
      /\ s8'.key = t
  BY DEF Mes!LoadThread, Mes!Blank
<1> QED BY <1>1, <1>2 DEF ThreadKnown

\* What each step does to the thread on display.
LEMMA ThreadStep ==
  ASSUME MailTyped, ThreadKnown, TextsKnown, [Mes!Next]_Mes!mvars
  PROVE  ThreadKnown'
<1> USE DEF Mes!server, Mes!list, Mes!thread, Mes!compose
<1>1. ASSUME UNCHANGED <<s5, s7, s8, s9, s10>> PROVE ThreadKnown'
  BY <1>1 DEF ThreadKnown
<1>2. ASSUME NEW visible \in BOOLEAN, Mes!ThreadArrives(visible) PROVE ThreadKnown'
  <2>1. UNCHANGED <<s5, s7, s10>> /\ s8.phase = "loading"
    BY <1>2 DEF Mes!ThreadArrives
  <2>2. CASE Mes!Accepts(s8.key, s4)
    <3>1. s8' = [s8 EXCEPT !.phase = "ready"] /\ s9' \in {"sent", "none"} /\ s8.key \in Threads
      BY <1>2, <2>2 DEF Mes!ThreadArrives, Mes!Accepts, MailTyped
    <3>2. /\ s8' \in [key : Threads \union {None}, phase : {"blank", "loading", "ready", "error"}]
          /\ s8'.key = s7
      BY <3>1 DEF ThreadKnown
    <3> QED BY <2>1, <3>1, <3>2 DEF ThreadKnown
  <2>3. CASE ~Mes!Accepts(s8.key, s4)
    <3>1. s8' = [s8 EXCEPT !.phase = "error"] /\ s9' = s9
      BY <1>2, <2>3 DEF Mes!ThreadArrives
    <3>2. /\ s8' \in [key : Threads \union {None}, phase : {"blank", "loading", "ready", "error"}]
          /\ s8'.key = s7
      BY <3>1 DEF ThreadKnown
    <3> QED BY <2>1, <3>1, <3>2 DEF ThreadKnown
  <2> QED BY <2>2, <2>3
<1>3. CASE Mes!ThreadFails
  <2>1. UNCHANGED <<s5, s7, s9, s10>> /\ s8' = [s8 EXCEPT !.phase = "error"]
    BY <1>3 DEF Mes!ThreadFails
  <2>2. /\ s8' \in [key : Threads \union {None}, phase : {"blank", "loading", "ready", "error"}]
        /\ s8'.key = s7
    BY <2>1 DEF ThreadKnown
  <2> QED BY <2>1, <2>2 DEF ThreadKnown
<1>4. CASE Mes!ReadServed \/ Mes!ReadAnswered \/ Mes!ReadFails
  <2>1. UNCHANGED <<s5, s7, s8>> /\ s9' \in {"none", "done"}
    BY <1>4 DEF Mes!ReadServed, Mes!ReadAnswered, Mes!ReadFails, Mes!RefreshInbox
  <2>2. s10' \subseteq Threads
    BY <1>4 DEF Mes!ReadServed, Mes!ReadAnswered, Mes!ReadFails, Mes!GiveUpReading, ThreadKnown
  <2> QED BY <2>1, <2>2 DEF ThreadKnown
<1>5. ASSUME NEW t \in Threads, Mes!OrphanServed(t) PROVE ThreadKnown'
  <2>1. UNCHANGED <<s5, s7, s8, s9>> /\ s10' = s10 \ {t}
    BY <1>5 DEF Mes!OrphanServed
  <2> QED BY <2>1 DEF ThreadKnown
<1>6. CASE Mes!InboxArrives
  <2>1. s5'.items = s3 /\ s3 \subseteq Threads
    BY <1>6 DEF Mes!InboxArrives, MailTyped
  <2>2. CASE s5 = Mes!NoInbox
    <3>1. PICK t \in Mes!Opened(s3) : Mes!LoadThread(t)
      BY <1>6, <2>2 DEF Mes!InboxArrives
    <3>2. t \in s3 \union {None}
      BY <3>1 DEF Mes!Opened, Mes!SelectThread
    <3> QED BY <2>1, <3>1, <3>2, LoadedIsKnown
  <2>3. CASE s5 # Mes!NoInbox /\ s7 \in s3 \union {None}
    <3>1. UNCHANGED <<s7, s8, s9, s10>>
      BY <1>6, <2>3 DEF Mes!InboxArrives
    <3> QED BY <2>1, <2>3, <3>1 DEF ThreadKnown
  <2>4. CASE s5 # Mes!NoInbox /\ s7 \notin s3 \union {None}
    <3>1. Mes!LoadThread(None)
      BY <1>6, <2>4 DEF Mes!InboxArrives
    <3> QED BY <2>1, <3>1, LoadedIsKnown
  <2> QED BY <2>2, <2>3, <2>4
<1>7. CASE Mes!AccountChanged
  <2>1. s5'.items = {} /\ Mes!LoadThread(None)
    BY <1>7 DEF Mes!AccountChanged, Mes!NoInbox
  <2> QED BY <2>1, LoadedIsKnown
<1>8. ASSUME NEW t \in Threads, Mes!Choose(t) PROVE ThreadKnown'
  <2>1. s5' = s5 /\ t \in s5.items /\ Mes!LoadThread(t)
    BY <1>8 DEF Mes!Choose
  <2> QED BY <2>1, LoadedIsKnown DEF ThreadKnown
<1>9. ASSUME s5' = s5, Mes!RefreshThread \/ UNCHANGED Mes!thread PROVE ThreadKnown'
  <2>1. s7 \in s5.items \union {None} /\ s5.items \subseteq Threads
    BY DEF ThreadKnown
  <2> QED BY <1>1, <1>9, <2>1, LoadedIsKnown DEF Mes!RefreshThread
<1>10. CASE Mes!RefreshClicked
  BY <1>9, <1>10 DEF Mes!RefreshClicked, Mes!RefreshInbox
<1>11. ASSUME NEW s \in s12, Mes!SendAnswered(s) PROVE ThreadKnown'
  BY <1>9, <1>11 DEF Mes!SendAnswered, Mes!RefreshInbox
<1>12. CASE \/ Mes!InboxFails \/ Mes!UpdateDraft \/ Mes!Send \/ Mes!SwitchAccount
            \/ UNCHANGED Mes!mvars
            \/ \E t \in Threads : Mes!Receive(t) \/ Mes!Revoke(t)
            \/ \E s \in s12 : Mes!SendServed(s) \/ Mes!SendRejected(s)
  BY <1>1, <1>12 DEF Mes!InboxFails, Mes!UpdateDraft, Mes!Send, Mes!SwitchAccount, Mes!mvars,
     Mes!Receive, Mes!Revoke, Mes!SendServed, Mes!SendRejected
<1> QED
  BY <1>2, <1>3, <1>4, <1>5, <1>6, <1>7, <1>8, <1>10, <1>11, <1>12 DEF Mes!Next, Mes!Arrives

\* What each step does to the counts.
LEMMA CountsStep ==
  ASSUME MailTyped, StoredIsThere, ThreadKnown, CountsKnown, [Mes!Next]_Mes!mvars
  PROVE  CountsKnown'
<1> USE DEF Mes!server, Mes!list, Mes!thread, Mes!compose
<1>1. ASSUME UNCHANGED <<s1, s2, s16>> PROVE CountsKnown'
  BY <1>1 DEF CountsKnown
<1>2. \A t \in Threads : Len(s1[t]) \in Nat
  BY DEF MailTyped
<1>3. ASSUME NEW t \in Threads, Mes!MarkMessagesRead(t), UNCHANGED <<s1, s16>> PROVE CountsKnown'
  BY <1>2, <1>3 DEF CountsKnown, Mes!MarkMessagesRead
<1>4. ASSUME NEW visible \in BOOLEAN, Mes!ThreadArrives(visible) PROVE CountsKnown'
  <2>1. UNCHANGED <<s1, s2>>
    BY <1>4 DEF Mes!ThreadArrives
  <2>2. CASE Mes!Accepts(s8.key, s4)
    <3>1. s16' = [s16 EXCEPT ![s8.key] = Len(s1[s8.key])] /\ s8.key \in Threads
      BY <1>4, <2>2 DEF Mes!ThreadArrives, Mes!Displayed, Mes!Accepts, MailTyped
    <3> QED BY <1>2, <2>1, <3>1 DEF CountsKnown
  <2>3. CASE ~Mes!Accepts(s8.key, s4)
    BY <1>1, <1>4, <2>1, <2>3 DEF Mes!ThreadArrives
  <2> QED BY <2>2, <2>3
<1>5. CASE Mes!ReadServed
  <2>1. UNCHANGED <<s1, s16>> /\ s7 \in Threads
    BY <1>5 DEF Mes!ReadServed, ThreadKnown
  <2>2. Mes!MarkMessagesRead(s7) \/ s2' = s2
    BY <1>5 DEF Mes!ReadServed
  <2> QED BY <1>1, <1>3, <2>1, <2>2
<1>6. ASSUME NEW t \in Threads, Mes!OrphanServed(t) PROVE CountsKnown'
  <2>1. UNCHANGED <<s1, s16>> /\ (Mes!MarkMessagesRead(t) \/ s2' = s2)
    BY <1>6 DEF Mes!OrphanServed
  <2> QED BY <1>1, <1>3, <2>1
<1>7. ASSUME NEW t \in Threads, NEW m \in Nat, s1' = [s1 EXCEPT ![t] = Append(@, m)],
             UNCHANGED <<s2, s16>>
      PROVE  CountsKnown'
  <2>1. /\ \A u \in Threads : u # t => s1'[u] = s1[u]
        /\ Len(s1[t]) \in Nat /\ Len(s1'[t]) = Len(s1[t]) + 1
    BY <1>7, LogAppended
  <2>2. \A u \in Threads : Len(s1'[u]) \in Nat /\ Len(s1[u]) <= Len(s1'[u])
    BY <1>2, <2>1
  <2> QED BY <1>2, <1>7, <2>2 DEF CountsKnown
<1>8. ASSUME NEW s \in s12, Mes!SendServed(s) PROVE CountsKnown'
  <2>1. s.t \in Threads /\ s.text \in Nat
    BY DEF StoredIsThere, SendsOf
  <2> QED BY <1>7, <1>8, <2>1 DEF Mes!SendServed
<1>9. ASSUME NEW t \in Threads, Mes!Receive(t) PROVE CountsKnown'
  BY <1>7, <1>9 DEF Mes!Receive
<1>10. CASE \/ Mes!ReadAnswered \/ Mes!ReadFails \/ Mes!ThreadFails \/ Mes!InboxArrives
            \/ Mes!AccountChanged \/ Mes!InboxFails \/ Mes!UpdateDraft \/ Mes!Send
            \/ Mes!SwitchAccount \/ Mes!RefreshClicked \/ UNCHANGED Mes!mvars
            \/ \E t \in Threads : Mes!Choose(t) \/ Mes!Revoke(t)
            \/ \E s \in s12 : Mes!SendAnswered(s) \/ Mes!SendRejected(s)
  BY <1>1, <1>10 DEF Mes!ReadAnswered, Mes!ReadFails, Mes!ThreadFails, Mes!InboxArrives,
     Mes!AccountChanged, Mes!InboxFails, Mes!UpdateDraft, Mes!Send, Mes!SwitchAccount,
     Mes!RefreshClicked, Mes!mvars, Mes!Choose, Mes!Revoke, Mes!SendAnswered, Mes!SendRejected
<1> QED
  BY <1>4, <1>5, <1>6, <1>8, <1>9, <1>10 DEF Mes!Next, Mes!Arrives

\* What each step does to the texts.
LEMMA TextsStep ==
  ASSUME MailTyped, StoredIsThere, OnceInv, TextsKnown, [Mes!Next]_Mes!mvars
  PROVE  TextsKnown'
<1> USE DEF Mes!server, Mes!list, Mes!thread, Mes!compose
<1>1. ASSUME UNCHANGED <<s14, s15>>, s13' \subseteq Threads,
             s6' \in {"idle", "loading", "failed", "account"}
      PROVE  TextsKnown'
  BY <1>1 DEF TextsKnown
<1>2. s13 \subseteq Threads /\ s6 \in {"idle", "loading", "failed", "account"}
  BY DEF TextsKnown
<1>3. CASE \/ \E visible \in BOOLEAN : Mes!ThreadArrives(visible)
           \/ Mes!ReadServed \/ Mes!ReadAnswered \/ Mes!ReadFails \/ Mes!ThreadFails
           \/ Mes!InboxArrives \/ Mes!AccountChanged \/ Mes!InboxFails
           \/ Mes!SwitchAccount \/ Mes!RefreshClicked \/ UNCHANGED Mes!mvars
  BY <1>1, <1>2, <1>3 DEF Mes!ThreadArrives, Mes!ReadServed, Mes!ReadAnswered, Mes!ReadFails,
     Mes!ThreadFails, Mes!InboxArrives, Mes!AccountChanged, Mes!InboxFails,
     Mes!SwitchAccount, Mes!RefreshClicked, Mes!mvars, Mes!RefreshInbox
<1>4. ASSUME NEW t \in Threads,
             Mes!OrphanServed(t) \/ Mes!Choose(t) \/ Mes!Receive(t) \/ Mes!Revoke(t)
      PROVE  TextsKnown'
  BY <1>1, <1>2, <1>4 DEF Mes!OrphanServed, Mes!Choose, Mes!Receive, Mes!Revoke
<1>5. ASSUME NEW s \in s12, Mes!SendServed(s) \/ Mes!SendAnswered(s) \/ Mes!SendRejected(s)
      PROVE  TextsKnown'
  <2>1. s.t \in Threads
    BY DEF StoredIsThere, SendsOf
  <2> QED BY <1>1, <1>2, <1>5, <2>1 DEF Mes!SendServed, Mes!SendAnswered, Mes!SendRejected,
             Mes!RefreshInbox
<1>6. CASE Mes!UpdateDraft
  <2>1. s14 < MaxTexts /\ s14' = s14 + 1 /\ UNCHANGED <<s6, s13, s15>>
    BY <1>6 DEF Mes!UpdateDraft
  <2>2. s14 \in Nat /\ MaxTexts \in Nat /\ s15 \subseteq 1..s14
    BY ThreadsAssumption DEF MailTyped, TextsKnown
  <2>3. s14' <= MaxTexts /\ 1..s14 \subseteq 1..s14'
    BY <2>1, <2>2
  <2> QED BY <1>2, <2>1, <2>2, <2>3 DEF TextsKnown
<1>7. CASE Mes!Send
  <2>1. s7 \in Threads /\ s11[s7] # 0 /\ UNCHANGED <<s6, s14>> /\ s13' = s13 \ {s7}
    BY <1>7 DEF Mes!Send, MailTyped
  <2>2. s15' \subseteq s15 \union {s11[s7]}
    BY <1>7 DEF Mes!Send
  <2>3. s11[s7] \in 1..s14
    BY <2>1 DEF MailTyped, OnceInv, SendsApart
  <2> QED BY <1>2, <2>1, <2>2, <2>3 DEF TextsKnown
<1> QED BY <1>3, <1>4, <1>5, <1>6, <1>7 DEF Mes!Next, Mes!Arrives

\* Nothing is on display at first.
LEMMA ThreadInit == Mes!Init => ThreadKnown /\ CountsKnown /\ TextsKnown
<1> SUFFICES ASSUME Mes!Init PROVE ThreadKnown /\ CountsKnown /\ TextsKnown
  OBVIOUS
<1>1. ThreadKnown
  BY DEF Mes!Init, ThreadKnown, Mes!Blank, Mes!NoInbox
<1>2. \A t \in Threads : s1[t] = <<>> /\ s2[t] = 0 /\ s16[t] = 0
  BY DEF Mes!Init
<1>3. s2 \in [Threads -> Nat] /\ s16 \in [Threads -> Nat]
  BY DEF Mes!Init
<1>4. CountsKnown
  BY <1>2, <1>3 DEF CountsKnown
<1>5. TextsKnown
  BY ThreadsAssumption DEF Mes!Init, TextsKnown
<1> QED BY <1>1, <1>4, <1>5

\* A sequence of what is in a set.
LEMMA SeqOf ==
  ASSUME NEW S, NEW s \in Seq(Nat), \A i \in 1..Len(s) : s[i] \in S
  PROVE  s \in Seq(S)
OBVIOUS

\* The conversations and what is on display of them have their values.
LEMMA MessagesTyped == Mes!Spec => []Mes!TypeOK
<1> DEFINE I == /\ MailTyped /\ StoredIsThere /\ OnceInv
                /\ ThreadKnown /\ CountsKnown /\ TextsKnown
<1>1. Mes!Init => I
  BY MailInit, OnceInit, ThreadInit
<1>2. I /\ [Mes!Next]_Mes!mvars => I'
  BY MailStep, OnceStep, ThreadStep, CountsStep, TextsStep
<1>3. I => Mes!TypeOK
  <2> SUFFICES ASSUME I PROVE Mes!TypeOK
    OBVIOUS
  <2>1. s14 \in Nat /\ s14 <= MaxTexts /\ MaxTexts \in Nat
    BY ThreadsAssumption DEF MailTyped, TextsKnown
  <2>2. s1 \in [Threads -> Seq(0..MaxTexts)]
    <3>1. ASSUME NEW t \in Threads PROVE s1[t] \in Seq(0..MaxTexts)
      <4>1. s1[t] \in Seq(Nat)
        BY DEF MailTyped
      <4>2. \A i \in 1..Len(s1[t]) : s1[t][i] \in Nat
        BY <4>1
      <4>3. \A i \in 1..Len(s1[t]) : s1[t][i] \in 0..MaxTexts
        BY <2>1, <4>2 DEF OnceInv, SendsApart
      <4> QED BY <4>1, <4>3, SeqOf
    <3> QED BY <3>1 DEF MailTyped
  <2>3. s11 \in [Threads -> 0..MaxTexts]
    BY <2>1 DEF MailTyped, OnceInv, SendsApart
  <2>4. s12 \subseteq [t : Threads, text : 1..MaxTexts, as : {"first", "second"}, stored : BOOLEAN]
    <3> SUFFICES ASSUME NEW s \in s12
                 PROVE s \in [t : Threads, text : 1..MaxTexts, as : {"first", "second"},
                              stored : BOOLEAN]
      OBVIOUS
    <3>1. s \in SendsOf /\ s.text \in 1..s14
      BY DEF StoredIsThere, OnceInv, SendsApart
    <3>2. s.text \in 1..MaxTexts
      BY <2>1, <3>1
    <3> QED BY <3>1, <3>2 DEF SendsOf
  <2>5. s15 \subseteq 1..MaxTexts
    BY <2>1 DEF TextsKnown
  <2>6. s8.phase \in {"blank", "loading", "ready", "error"}
    BY DEF ThreadKnown
  <2> QED BY <2>2, <2>3, <2>4, <2>5, <2>6 DEF Mes!TypeOK, MailTyped, ThreadKnown, CountsKnown,
             TextsKnown
<1> QED
  <2> HIDE DEF I
  <2> QED BY <1>1, <1>2, <1>3, PTL DEF Mes!Spec
====
