----------------------------- MODULE ScanGraph -----------------------------
(* The live scan graph (scan_graph.tsx). Every four seconds the page asks for *)
(* the status and for the graph of the scan, two requests of which it takes   *)
(* the answers together; it divides the graph into one row for the domain and *)
(* one for each subdomain, folds rows without findings when the scan is over, *)
(* and leads a link to the node it names.                                     *)
EXTENDS PageBounds, Sequences

Domain == "domain"      Subdomain == "subdomain"
Findings == {"leak", "weakness"}
Nodes == {Domain, Subdomain, "address", "service", "technology"} \union Findings

\* What a scan found: the parents of its nodes, the source of the weakness,
\* whether the service speaks TLS, if that makes a difference, and what was not
\* found at all.
Worlds ==
  {w \in [address : {{Subdomain}, {Domain, Subdomain}},
          service : {{}, {"address"}},
          technology : {{"service"}},
          weakness : {{}, {"service"}, {"address"}, {Subdomain}},
          source : {"tls", "cve"},
          secure : BOOLEAN,
          missing : {{}, {"address"}}] :
     w.secure => w.source = "tls" /\ w.weakness # {"service"}}

VARIABLES world,     \* what the scan finds
          level,     \* at the backend: how many steps of the scan are over
          late,      \* the page was opened after the scan
          polls,     \* polls on their way, oldest first
          polling,   \* pollRef: the interval runs
          scan,      \* the status on display, as the level it was read at
          graph,     \* the nodes on display
          loadError,
          collapsed, autoCollapsed,
          focus,     \* the node named by the link, None if the link names none
          focusHandled,
          panel,     \* the panel at the side: None, a node, or a row and category
          overtaken  \* an answer was read before the one it replaced

gvars == <<world, level, late, polls, polling, scan, graph, loadError, collapsed, autoCollapsed,
           focus, focusHandled, panel, overtaken, clicks, faults>>
rest  == <<world, level, late, focus>>

-----------------------------------------------------------------------------
(* The scan. Its steps end one after the other, each brings its nodes in the  *)
(* transaction that stores its status.                                        *)

Brings == <<{"address", "service"}, {"technology", "weakness"}>>
Last == Len(Brings)
\* How many polls may be on their way. After the scan all answers are the same.
MaxPolls == IF late THEN 1 ELSE 2

\* A leaked password is found by a source that knows no asset, at the start.
Known(n) ==
  ({Domain, Subdomain, "leak"} \union UNION {Brings[i] : i \in 1..n}) \ world.missing

Running(n) == n < Last

ScanGoesOn ==
  /\ Running(level) /\ level' = level + 1
  /\ UNCHANGED <<world, late, polls, polling, scan, graph, loadError, collapsed, autoCollapsed,
                 focus, focusHandled, panel, overtaken, clicks, faults>>

\* Where a node hangs. An address nobody resolves to hangs on the domain.
Parents(n, nodes) ==
  nodes \intersect
    CASE n = Subdomain -> {Domain}
      [] n = "address" -> world.address
      [] n = "service" -> world.service
      [] n = "technology" -> world.technology
      [] n = "weakness" -> world.weakness
      [] OTHER -> {}

-----------------------------------------------------------------------------
(* buildRows, buildRowView and the links between what they show.             *)

\* Four steps: no way from a root to a node, or back, is longer.
Reach(root, nodes, stopAtSubdomains) ==
  LET further(seen) ==
        seen \union {n \in nodes : /\ ~(stopAtSubdomains /\ n = Subdomain)
                                   /\ Parents(n, nodes) \intersect seen # {}}
  IN further(further(further(further({root}))))

buildRows(nodes) ==
  LET connected(root) == Reach(root, nodes, root = Domain)
      roots == nodes \intersect {Domain, Subdomain}
      placed == UNION {connected(root) : root \in roots}
  IN [root \in roots |->
        connected(root) \union IF root = Domain THEN nodes \ placed ELSE {}]

RootHost == "host"   \* stands for the root where a service has no host of its own
Hosts(root, row) ==
  ({"address"} \intersect row)
    \union {RootHost : s \in {s \in {"service"} \intersect row :
                                       "address" \notin Parents(s, row)}}
HostOf(n, root, row) ==
  IF n \in Hosts(root, row) THEN {n}
  ELSE IF n # "service" \/ n \notin row THEN {}
  ELSE IF "address" \in Parents(n, row) THEN {"address"} ELSE {RootHost}

Category(f) ==
  LET source == IF f = "leak" THEN "hibp" ELSE world.source
  IN CASE source = "tls" -> "tls" [] source = "cve" -> "cve" [] OTHER -> "breach"

\* The findings of a category with one title are one chip.
Chips(row) == {Category(f) : f \in Findings \intersect row}

\* The services a chip hangs on: those that have it, and for a TLS finding
\* without a service of its own those that speak TLS.
ChipServices(category, root, row) ==
  UNION {LET parents == Parents(f, row) IN
         (parents \intersect {"service"})
           \union IF category = "tls" /\ parents \subseteq {root} /\ world.secure
                    THEN {"service"} \intersect row ELSE {}
         : f \in {f \in Findings \intersect row : Category(f) = category}}

ChipHosts(category, root, row) ==
  UNION {HostOf(n, root, row) :
           n \in UNION {Parents(f, row) : f \in {f \in Findings \intersect row :
                                                    Category(f) = category}}}

Upstream(category, root, row) ==
  LET services == ChipServices(category, root, row)
      hosts == ChipHosts(category, root, row)
  IN IF services # {} THEN services ELSE IF hosts # {} THEN hosts ELSE {root}

\* A CVE chip leads on to the technologies its text names.
matchTechs(category, row) == IF category = "cve" THEN {"technology"} \intersect row ELSE {}

Links(root, row) ==
  {<<root, h>> : h \in Hosts(root, row)}
    \union {l \in Hosts(root, row) \X ({"service"} \intersect row) :
              l[1] \in HostOf(l[2], root, row)}
    \union UNION {{<<u, c>> : u \in Upstream(c, root, row)} : c \in Chips(row)}
    \union UNION {{<<c, t>> : t \in matchTechs(c, row)} : c \in Chips(row)}

\* relatedTo, against the links.
TracedFrom(chip, links) ==
  LET back(seen) == seen \union {l[1] : l \in {l \in links : l[2] \in seen}}
  IN back(back(back(back({chip}))))

\* The steps of the scan as a row shows them: what a later step has found
\* proves that the earlier ones are over, whatever their source says.
SourceStatus(step, n) ==
  CASE step <= n -> IF Brings[step] \intersect world.missing = {} THEN "completed" ELSE "failed"
    [] step = n + 1 -> "running"
    [] OTHER -> "pending"

rowStages(row, n) ==
  [step \in 1..Last |->
     CASE \E later \in step..Last : Brings[later] \intersect row # {} -> "done"
       [] SourceStatus(step, n) = "failed" -> "failed"
       [] SourceStatus(step, n) = "completed" -> "done"
       [] OTHER -> SourceStatus(step, n)]

\* The card of a row, under the status that came with the sources.
RowStatusCard(row, n) ==
  LET stages == {rowStages(row, n)[step] : step \in 1..Last}
  IN CASE "running" \in stages -> "running"
       [] stages \subseteq {"done", "failed"} -> "complete"
       [] OTHER -> "queued"

\* What a row offers to open, column by column.
HostColumn(row) == {"address", "service"} \intersect row
FindingColumn(row) == Chips(row)
TechnologyColumn(row) == {"technology"} \intersect row

-----------------------------------------------------------------------------
(* Polling.                                                                  *)

Init ==
  /\ late \in BOOLEAN
  /\ world \in IF late THEN Worlds
               ELSE {w \in Worlds : /\ w.service = {"address"} /\ w.weakness = {Subdomain}
                                    /\ w.source = "cve"
                                    /\ ~w.secure /\ w.missing = {}}
  /\ level = IF late THEN Last ELSE 0
  /\ focus \in IF late THEN {"address", "weakness"} ELSE {None}
  /\ polls = <<>> /\ polling = TRUE /\ scan = None /\ graph = {} /\ loadError = FALSE
  /\ collapsed = {} /\ autoCollapsed = FALSE /\ focusHandled = FALSE
  /\ panel = None /\ overtaken = FALSE
  /\ clicks = 0 /\ faults = 0

poll ==
  /\ polling /\ Len(polls) < MaxPolls
  /\ polls' = Append(polls, [status |-> None, graph |-> None])
  /\ UNCHANGED <<rest, polling, scan, graph, loadError, collapsed, autoCollapsed, focusHandled,
                 panel, overtaken, clicks, faults>>

\* The two requests of a poll are served each at its own time.
Served ==
  /\ \E i \in 1..Len(polls), part \in {"status", "graph"} :
       polls[i][part] = None /\ polls' = [polls EXCEPT ![i][part] = level]
  /\ UNCHANGED <<rest, polling, scan, graph, loadError, collapsed, autoCollapsed, focusHandled,
                 panel, overtaken, clicks, faults>>

Without(i) == [j \in 1..(Len(polls) - 1) |-> IF j < i THEN polls[j] ELSE polls[j + 1]]

\* A scan of which a step failed ends "partial".
StatusAt(n) ==
  IF Running(n) THEN "running" ELSE IF world.missing = {} THEN "completed" ELSE "partial"

TERMINAL_SCAN_STATUSES == {"completed", "failed", "partial"}
Terminal(n) == StatusAt(n) \in TERMINAL_SCAN_STATUSES

\* The row a node is shown in: its own, or a subdomain's before the domain's.
RowOf(n, nodes) ==
  LET rows == buildRows(nodes)
      roots == {root \in DOMAIN rows : n \in rows[root]}
  IN CASE roots = {} -> {}
       [] n \in roots -> {n}
       [] Subdomain \in roots -> {Subdomain}
       [] OTHER -> roots

\* jumpToNode opens the row of the node, after the rows were folded.
Followed(folded, nodes) ==
  IF focus = None \/ focusHandled THEN folded ELSE folded \ RowOf(focus, nodes)

WithoutFindings(nodes) ==
  LET rows == buildRows(nodes)
  IN {root \in DOMAIN rows \ {Domain} : rows[root] \intersect Findings = {}}

\* Both answers are there; then the effects of the render: rows without
\* findings are folded once when the scan is over, and the link is followed.
PollArrives ==
  \E i \in 1..Len(polls) :
    LET p == polls[i]
        nodes == Known(p.graph)
        over == Terminal(p.status)
        folded == IF over /\ ~autoCollapsed THEN WithoutFindings(nodes) ELSE collapsed
    IN /\ None \notin {p.status, p.graph}
       /\ polls' = Without(i)
       /\ scan' = p.status /\ graph' = nodes /\ loadError' = FALSE
       /\ polling' = (polling /\ ~over)
       /\ autoCollapsed' = (autoCollapsed \/ over)
       /\ collapsed' = Followed(folded, nodes)
       /\ focusHandled' = (focusHandled \/ focus \in nodes)
       /\ overtaken' = (overtaken \/ (scan # None /\ p.status < scan))
       /\ UNCHANGED <<rest, panel, clicks, faults>>

\* One of the two requests failed. The interval goes on.
PollFails ==
  /\ Fault
  /\ \E i \in 1..Len(polls) : polls' = Without(i)
  /\ loadError' = TRUE
  /\ UNCHANGED <<rest, polling, scan, graph, collapsed, autoCollapsed, focusHandled, panel,
                 overtaken, clicks>>

-----------------------------------------------------------------------------
(* The user. Before the first answer there is a note, or the error, instead. *)

Visible == scan # None /\ panel = None

\* Otherwise there is a note that the scan has found nothing yet.
hasGraphData ==
  LET rows == buildRows(graph)
  IN ~(Subdomain \notin DOMAIN rows /\ \A root \in DOMAIN rows : rows[root] = {root})

toggleRow ==
  /\ Visible /\ hasGraphData
  /\ \E root \in DOMAIN buildRows(graph) :
       collapsed' = IF root \in collapsed THEN collapsed \ {root} ELSE collapsed \union {root}
  /\ UNCHANGED <<rest, polls, polling, scan, graph, loadError, autoCollapsed, focusHandled, panel,
                 overtaken, clicks, faults>>

ToggleAll ==
  /\ Visible
  /\ collapsed' \in {{}, DOMAIN buildRows(graph)}
  /\ UNCHANGED <<rest, polls, polling, scan, graph, loadError, autoCollapsed, focusHandled, panel,
                 overtaken, clicks, faults>>

\* Hosts, services and technologies open their panel, chips that of findings.
OpenPanel ==
  /\ Visible /\ hasGraphData
  /\ \E root \in DOMAIN buildRows(graph) \ collapsed :
       LET row == buildRows(graph)[root]
       IN \E item \in HostColumn(row) \union FindingColumn(row) \union TechnologyColumn(row) :
            panel' = [row |-> root, item |-> item]
  /\ UNCHANGED <<rest, polls, polling, scan, graph, loadError, collapsed, autoCollapsed,
                 focusHandled, overtaken, clicks, faults>>

\* The findings a panel lists.
FindingsPanel ==
  LET rows == buildRows(graph)
  IN IF panel.row \notin DOMAIN rows THEN {}
     ELSE {f \in Findings \intersect rows[panel.row] : Category(f) = panel.item}

\* The node a panel describes.
DetailsPanel == {panel.item} \intersect graph

\* A panel is shown as long as what it shows is in the graph on display.
PanelShown == panel # None /\ DetailsPanel \union FindingsPanel # {}

ClosePanel ==
  /\ PanelShown /\ panel' = None
  /\ UNCHANGED <<rest, polls, polling, scan, graph, loadError, collapsed, autoCollapsed,
                 focusHandled, overtaken, clicks, faults>>

\* "Show on graph" of a finding in the panel: the panel closes, the row opens.
ShowOnGraph ==
  /\ PanelShown /\ panel.item \notin Nodes
  /\ \E f \in FindingsPanel : collapsed' = collapsed \ RowOf(f, graph)
  /\ panel' = None
  /\ UNCHANGED <<rest, polls, polling, scan, graph, loadError, autoCollapsed, focusHandled,
                 overtaken, clicks, faults>>

\* The assets with the most findings, as the summary has them: it comes apart
\* from the graph and may name a node the graph does not have yet.
HotSpotPills ==
  /\ Visible
  /\ \E n \in {Domain, Subdomain, "address", "service"} \ world.missing :
       collapsed' = collapsed \ RowOf(n, graph)
  /\ UNCHANGED <<rest, polls, polling, scan, graph, loadError, autoCollapsed, focusHandled, panel,
                 overtaken, clicks, faults>>

Next ==
  \/ ScanGoesOn \/ poll \/ Served \/ PollArrives \/ PollFails
  \/ toggleRow \/ ToggleAll \/ OpenPanel \/ ClosePanel \/ ShowOnGraph
  \/ HotSpotPills

Spec == Init /\ [][Next]_gvars

-----------------------------------------------------------------------------
TypeOK ==
  /\ world \in Worlds /\ level \in 0..Last
  /\ scan \in (0..Last) \union {None} /\ graph \subseteq Nodes
  /\ Len(polls) <= 2
  /\ collapsed \subseteq {Domain, Subdomain}
  /\ focusHandled => focus # None

\* Whatever the scan found is in some row, also what no asset is known of: a
\* leaked password, a service without its address (the loop over all nodes in
\* buildRows).
NothingIsLost ==
  LET rows == buildRows(graph) IN graph = UNION {rows[root] : root \in DOMAIN rows}

\* From every finding the page can trace a path back to the root of its row
\* (relatedTo over the links of SubdomainRow).
FindingsAreTraced ==
  LET rows == buildRows(graph) IN
  \A root \in DOMAIN rows :
    LET row == rows[root]
        links == Links(root, row)
    IN \A c \in Chips(row) : root \in TracedFrom(c, links)

\* The page goes on asking exactly as long as the scan it shows is under way;
\* only an answer overtaken by a younger one can break that (poll).
AsksUntilTheEnd == scan # None /\ ~overtaken => (polling <=> Running(scan))

\* And it does not leave a row that still looks under way: when the page has
\* stopped asking, every row says that it is complete (RowStatusCard, poll).
NothingLooksUnderWay ==
  scan # None /\ ~polling /\ ~overtaken =>
    LET rows == buildRows(graph) IN
    \A root \in DOMAIN rows : RowStatusCard(rows[root], scan) = "complete"

\* Following a link to a node opens the row that shows it, though folding the
\* rows without findings may come with the same answer (the effects of ScanGraph).
OpensTheRow == focusHandled' /\ ~focusHandled => RowOf(focus, graph') \intersect collapsed' = {}
LinkLeadsToNode == [][OpensTheRow]_gvars

\* Why: what an answer brings are nodes, of a step of the scan.
IInv ==
  /\ level \in 0..Last
  /\ polls \in Seq([status : {None} \union 0..Last, graph : {None} \union 0..Last])
=============================================================================
