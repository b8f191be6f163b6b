----------------------------- MODULE PageAccess -----------------------------
(* Which pages a role may see: the menu of NavBar.tsx with routeAccess.ts, and *)
(* the guard every section runs before it is shown (requirePageAccess.ts and   *)
(* the layouts of app). A section is named by the path it starts with.         *)
EXTENDS PageBounds

VARIABLES visitor,   \* the role of whoever is signed in, or None
          profile,   \* the backend lists engagements for this pentester
          menuRole,  \* the role the menu was told, None until it is
          at,        \* the page on display
          going      \* the page a link or a redirect leads to, or None

pvars == <<visitor, profile, menuRole, at, going, clicks, faults>>

AppRole == {"client", "pentester", "service_delivery"}

ROLE_HOME == [client |-> "/", pentester |-> "/pentesting/console",
              service_delivery |-> "/service-delivery"]

RoleSections == [x \in {"/service-delivery", "/pentesting/console", "/pentesting/engagement",
                        "/pentesting/messages", "/engagement_request"} |->
                   CASE x = "/service-delivery"   -> "service_delivery"
                     [] x = "/pentesting/console" -> "pentester"
                     [] OTHER                     -> "client"]

AccountSections == {"/domains", "/history", "/scheduled-scans", "/dashboard"}

Pages == DOMAIN RoleSections \union AccountSections \union {"/", "/phase2_scan"}
Outside == {"/login", "/access-unavailable"}

TypeOK ==
  /\ visitor \in AppRole \union {None} /\ menuRole \in AppRole \union {None}
  /\ at \in Pages \union Outside /\ going \in Pages \union {None}

Init ==
  /\ visitor = None /\ profile = TRUE /\ menuRole = None /\ at = "/" /\ going = None
  /\ clicks = 0 /\ faults = 0

canVisitPage(path, role) ==
  CASE path \in DOMAIN RoleSections -> role = RoleSections[path]
    [] path \in AccountSections     -> role \in AppRole
    [] OTHER                        -> TRUE

\* The links of the menu. In its own sections a pentester gets a shorter one.
NavItems(role, path) ==
  LET console == {"/pentesting/console"}
      shared  == {"/", "/domains", "/phase2_scan", "/scheduled-scans", "/history"}
      own     == IF role = "pentester" THEN console
                 ELSE {"/engagement_request", "/pentesting/engagement"}
      extra   == CASE role = "client"           -> {"/pentesting/messages"}
                   [] role = "service_delivery" -> {"/service-delivery"}
                   [] OTHER                     -> {}
      short   == path \in {"/pentesting/console", "/pentesting/engagement",
                           "/pentesting/messages", "/engagement_request"}
      all     == IF role = "pentester" /\ short THEN console ELSE shared \union own \union extra
  IN {link \in all : canVisitPage(link, role)}

\* Whom the layout of a section lets in: one role, any role, or everybody.
Required(path) ==
  CASE path = "/service-delivery" -> {"service_delivery"}
    [] path = "/pentesting/console" -> {"pentester"}
    [] path \in {"/pentesting/engagement", "/pentesting/messages", "/engagement_request"} -> {"client"}
    [] path \in AccountSections -> AppRole
    [] OTHER -> AppRole \union {None}

\* The menu is mounted with every page; it asks for the role if the browser
\* looks signed in.
Show(page) == at' = page /\ going' = None

\* The sign-in ends on the page of the role.
SignIn(role) ==
  /\ visitor = None /\ going = None
  /\ Click
  /\ visitor' = role
  /\ profile' \in {p \in BOOLEAN : p \/ role = "pentester"}
  /\ going' = ROLE_HOME[role]
  /\ menuRole' = None
  /\ UNCHANGED <<at, faults>>

\* Another tab signs out, and perhaps in as somebody else: this menu stays.
OtherTab(role) ==
  /\ visitor # None /\ role # visitor
  /\ Click
  /\ visitor' = role /\ profile' = TRUE
  /\ UNCHANGED <<menuRole, at, going, faults>>

RoleArrives ==
  /\ visitor # None /\ menuRole # visitor
  /\ menuRole' = visitor
  /\ UNCHANGED <<visitor, profile, at, going, clicks, faults>>

Follow(link) ==
  /\ going = None /\ at \notin Outside
  /\ link \in NavItems(menuRole, at) \ {at}
  /\ going' = link
  /\ UNCHANGED <<visitor, profile, menuRole, at, clicks, faults>>

\* An address that is typed or bookmarked.
Visit(page) ==
  /\ going = None /\ Click
  /\ going' = page
  /\ UNCHANGED <<visitor, profile, menuRole, at, faults>>

requirePageRole ==
  /\ going # None
  /\ CASE visitor \in Required(going) ->
            Show(IF Required(going) = {"pentester"} /\ ~profile
                   THEN "/access-unavailable" ELSE going)
       [] visitor = None /\ visitor \notin Required(going) -> Show("/login")
       [] OTHER -> going' = ROLE_HOME[visitor] /\ UNCHANGED at
  /\ UNCHANGED <<visitor, profile, menuRole, clicks, faults>>

BackendFails ==
  /\ going # None /\ Required(going) # AppRole \union {None}
  /\ Fault
  /\ Show("/access-unavailable")
  /\ UNCHANGED <<visitor, profile, menuRole, clicks>>

Next ==
  \/ \E role \in AppRole : SignIn(role)
  \/ \E role \in AppRole \union {None} : OtherTab(role)
  \/ \E page \in Pages : Follow(page) \/ Visit(page)
  \/ RoleArrives \/ requirePageRole \/ BackendFails

Fairness == WF_pvars(requirePageRole)

Spec == Init /\ [][Next]_pvars
FairSpec == Spec /\ Fairness

-----------------------------------------------------------------------------
\* The menu and the guards are written in different files: once the menu knows
\* the role, every link it offers leads to a page that lets this role in.
MenuLeadsToPages ==
  menuRole # None /\ menuRole = visitor =>
    \A link \in NavItems(menuRole, at) : visitor \in Required(link)

\* A visit ends on a page, whoever signs in or out meanwhile: the redirects of
\* the guards never send anybody round in a circle.
OnTheWay == going # None
EveryVisitEnds == OnTheWay ~> ~OnTheWay
=============================================================================
