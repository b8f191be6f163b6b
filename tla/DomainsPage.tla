----------------------------- MODULE DomainsPage -----------------------------
(* The page of the domains (domains_home.tsx): a list loaded page by page for *)
(* a tab and a search text, and the requests that add, verify and delete a    *)
(* domain and then load the list again.                                       *)
EXTENDS PageBounds, Sequences

VARIABLES domains,   \* at the backend: what is known of each domain
          tab, search, debounced,  \* the view the user has chosen
          rows,      \* the list on display
          more,      \* the backend has more rows than are on display
          fetches,   \* requests for the list under way
          request,   \* request_id_ref: the number of the youngest of them
          loading,
          listError,
          loadedFor, \* the view that the rows on display belong to
          verifying, \* verifying_id
          verifications, \* verifications under way, with the view they began in
          phases,    \* verify_phases
          feedback,  \* verify_feedback
          removals,  \* deletions under way
          form,      \* on display: "closed", "open" or "sent"
          additions, \* additions under way, each with the view it began in; the one of the
                     \* form on display is "shown"
          chosen,    \* selected_id
          strayed    \* a verification, deletion or addition loaded the list for a view
                     \* that the user had left in the meantime

dvars == <<domains, tab, search, debounced, rows, more, fetches, request, loading, listError,
           loadedFor, verifying, verifications, phases, feedback, removals, form, additions,
           chosen, strayed, clicks, faults>>
view  == <<tab, search, debounced>>
list  == <<rows, more, fetches, request, loading, listError, loadedFor, strayed>>
check == <<verifying, verifications, phases, feedback>>
rest  == <<removals, form, additions, chosen>>

Names == 1..3     \* the younger the higher; the first two exist at the start
PAGE_SIZE == 1    \* 20 in the code
Statuses == {"pending", "verified", "failed"}
Tabs == {"all"} \union Statuses

View == [tab |-> tab, search |-> debounced]

\* The backend's answer: youngest first, the text matches the second domain.
Matches(d, v) ==
  /\ domains[d] # "absent"
  /\ v.tab = "all" \/ domains[d] = v.tab
  /\ v.search => d = 2

Listed(v) ==
  LET wanted == {d \in Names : Matches(d, v)}
      Rank(d) == Cardinality({e \in wanted : e > d}) + 1
  IN  [i \in 1..Cardinality(wanted) |->
         [name |-> CHOOSE d \in wanted : Rank(d) = i,
          status |-> domains[CHOOSE d \in wanted : Rank(d) = i]]]

Page(v, offset) ==
  IF Len(Listed(v)) < offset + PAGE_SIZE THEN SubSeq(Listed(v), offset + 1, Len(Listed(v)))
  ELSE SubSeq(Listed(v), offset + 1, offset + PAGE_SIZE)

Row(d) == \E i \in DOMAIN rows : rows[i].name = d
RowOf(d) == (CHOOSE i \in DOMAIN rows : rows[i].name = d)

TypeOK ==
  /\ domains \in [Names -> Statuses \union {"absent"}]
  /\ tab \in Tabs /\ search \in BOOLEAN /\ debounced \in BOOLEAN
  /\ \A i \in DOMAIN rows : rows[i] \in [name : Names, status : Statuses]
  /\ \A f \in fetches : f.id <= request
  /\ loading = (\E f \in fetches : f.id = request)
  /\ verifying \in Names \union {None} /\ chosen \in Names \union {None}
  /\ phases \in [Names -> {"none", "checking", "success", "failed"}]

Init ==
  /\ domains = [d \in Names |-> IF d < 3 THEN "pending" ELSE "absent"]
  /\ tab = "all" /\ search = FALSE /\ debounced = FALSE
  /\ rows = <<>> /\ more = FALSE /\ loading = TRUE /\ listError = FALSE
  /\ request = 1 /\ loadedFor = None /\ strayed = FALSE
  /\ fetches = {[id |-> 1, view |-> [tab |-> "all", search |-> FALSE], offset |-> 0, append |-> FALSE]}
  /\ verifying = None /\ verifications = <<>>
  /\ phases = [d \in Names |-> "none"] /\ feedback = [d \in Names |-> "none"]
  /\ removals = {} /\ form = "closed" /\ additions = {} /\ chosen = None
  /\ clicks = 0 /\ faults = 0

-----------------------------------------------------------------------------
(* The list.                                                                 *)

load_domains(v, offset, append) ==
  /\ request' = request + 1
  /\ fetches' = fetches \union
       {[id |-> request + 1, view |-> v, offset |-> offset, append |-> append]}
  /\ loading' = TRUE /\ listError' = FALSE
  /\ UNCHANGED <<rows, more, loadedFor>>

\* The effect on a changed view.
refetch(v) == load_domains(v, 0, FALSE) /\ strayed' = FALSE

\* The refetch of a handler that began in view v.
LateRefetch(v) == load_domains(v, 0, FALSE) /\ strayed' = (v # View)

\* A slip: an answer counts even if a younger request is under way.
AnyFetchArrives(f) ==
  /\ f \in fetches
  /\ fetches' = fetches \ {f}
  /\ rows' = IF f.append THEN rows \o Page(f.view, f.offset) ELSE Page(f.view, f.offset)
  /\ more' = (Len(Listed(f.view)) > f.offset + PAGE_SIZE)
  /\ loadedFor' = f.view /\ loading' = (request # f.id /\ loading)
  /\ UNCHANGED <<domains, view, check, rest, request, listError, strayed, clicks, faults>>

FetchArrives(f) ==
  /\ f \in fetches
  /\ fetches' = fetches \ {f}
  /\ IF f.id # request THEN UNCHANGED <<rows, more, loadedFor, loading>>
     ELSE /\ rows' = IF f.append THEN rows \o Page(f.view, f.offset) ELSE Page(f.view, f.offset)
          /\ more' = (Len(Listed(f.view)) > f.offset + PAGE_SIZE)
          /\ loadedFor' = f.view /\ loading' = FALSE
  /\ UNCHANGED <<domains, view, check, rest, request, listError, strayed, clicks, faults>>

FetchFails(f) ==
  /\ f \in fetches
  /\ Fault
  /\ fetches' = fetches \ {f}
  /\ IF f.id # request THEN UNCHANGED <<loading, listError>>
     ELSE loading' = FALSE /\ listError' = TRUE
  /\ UNCHANGED <<domains, view, check, rest, rows, more, loadedFor, request, strayed, clicks>>

LoadMoreButton == more /\ ~loading

handle_load_more ==
  /\ LoadMoreButton
  /\ load_domains(View, Len(rows), TRUE)
  /\ UNCHANGED <<domains, view, check, rest, strayed, clicks, faults>>

set_active_tab(t) ==
  /\ t # tab
  /\ Click
  /\ tab' = t
  /\ refetch([tab |-> t, search |-> debounced])
  /\ UNCHANGED <<domains, search, debounced, check, rest, faults>>

set_search ==
  /\ Click
  /\ search' = ~search
  /\ UNCHANGED <<domains, tab, debounced, list, check, rest, faults>>

\* 350 ms after the last key.
Debounce ==
  /\ debounced # search
  /\ debounced' = search
  /\ refetch([tab |-> tab, search |-> search])
  /\ UNCHANGED <<domains, tab, search, check, rest, clicks, faults>>

select(d) ==
  /\ Row(d)
  /\ chosen' = IF chosen = d THEN None ELSE d
  /\ UNCHANGED <<domains, view, list, check, removals, form, additions, clicks, faults>>

-----------------------------------------------------------------------------
(* Verification. Its button is disabled for verifying_id only, which a second *)
(* verification takes over and the first one to end clears.                   *)

VerifyButton(d) == Row(d) /\ rows[RowOf(d)].status # "verified" /\ verifying # d

handle_verify(d) ==
  /\ VerifyButton(d)
  /\ Click
  /\ chosen' = d /\ verifying' = d
  /\ phases' = [phases EXCEPT ![d] = "checking"]
  /\ feedback' = [feedback EXCEPT ![d] = "none"]
  /\ verifications' = Append(verifications, [name |-> d, view |-> View, result |-> "sent"])
  /\ UNCHANGED <<domains, view, list, removals, form, additions, faults>>

\* The backend looks the record up and keeps what it found.
VerifyServed(i) ==
  /\ i \in DOMAIN verifications /\ verifications[i].result = "sent"
  /\ LET d == verifications[i].name IN
       IF domains[d] = "absent"
         THEN /\ verifications' = [verifications EXCEPT ![i].result = "error"]
              /\ UNCHANGED domains
         ELSE \E s \in {"verified", "failed"} :
                /\ verifications' = [verifications EXCEPT ![i].result = s]
                /\ domains' = [domains EXCEPT ![d] = s]
  /\ UNCHANGED <<view, list, verifying, phases, feedback, rest, clicks, faults>>

VerifyLost(i) ==
  /\ i \in DOMAIN verifications /\ verifications[i].result # "error"
  /\ Fault
  /\ verifications' = [verifications EXCEPT ![i].result = "error"]
  /\ UNCHANGED <<domains, view, list, verifying, phases, feedback, rest, clicks>>

Without(seq, i) == SubSeq(seq, 1, i - 1) \o SubSeq(seq, i + 1, Len(seq))

verify(i) ==
  /\ i \in DOMAIN verifications /\ verifications[i].result # "sent"
  /\ LET v == verifications[i] IN
       /\ phases' = [phases EXCEPT ![v.name] =
            IF v.result = "verified" THEN "success" ELSE "failed"]
       /\ feedback' = [feedback EXCEPT ![v.name] =
            CASE v.result = "verified" -> "success" [] v.result = "error" -> "error" [] OTHER -> @]
       /\ LateRefetch(v.view)
  /\ verifying' = None /\ verifications' = Without(verifications, i)
  /\ UNCHANGED <<domains, view, rest, clicks, faults>>

\* The glow of a success ends by itself; the phase is the row's status then.
GlowEnds(d) ==
  /\ phases[d] = "success"
  /\ phases' = [phases EXCEPT ![d] = "none"]
  /\ UNCHANGED <<domains, view, list, verifying, verifications, feedback, rest, clicks, faults>>

\* The step of the DNS record in the panel of a domain.
DomainProgress(phase) ==
  CASE phase \in {"success", "verified"} -> "done"
    [] phase = "checking" -> "checking"
    [] OTHER -> "current"

-----------------------------------------------------------------------------
(* Deletion.                                                                 *)

\* The button is in the panel of the chosen domain.
DeleteButton(d) == Row(d) /\ chosen = d

handle_delete(d) ==
  /\ DeleteButton(d)
  /\ Click
  /\ removals' = removals \union {[name |-> d, view |-> View, served |-> FALSE]}
  /\ UNCHANGED <<domains, view, list, check, form, additions, chosen, faults>>

DeleteServed(r) ==
  /\ r \in removals /\ ~r.served /\ domains[r.name] # "absent"
  /\ removals' = (removals \ {r}) \union {[r EXCEPT !.served = TRUE]}
  /\ domains' = [domains EXCEPT ![r.name] = "absent"]
  /\ UNCHANGED <<view, list, check, form, additions, chosen, clicks, faults>>

remove(r) ==
  /\ r \in removals /\ r.served
  /\ removals' = removals \ {r}
  /\ LateRefetch(r.view)
  /\ chosen' = IF chosen = r.name THEN None ELSE chosen
  /\ UNCHANGED <<domains, view, check, form, additions, clicks, faults>>

\* A second deletion of a domain that is gone, or an answer that is lost: the
\* list stays as it is.
RemoveFails(r) ==
  /\ r \in removals
  /\ IF ~r.served /\ domains[r.name] = "absent" THEN UNCHANGED faults ELSE Fault
  /\ removals' = removals \ {r}
  /\ listError' = TRUE
  /\ UNCHANGED <<domains, view, rows, more, fetches, request, loading, loadedFor, strayed, check,
                 form, additions, chosen, clicks>>

-----------------------------------------------------------------------------
(* AddDomainForm.                                                            *)

OpenForm ==
  /\ form = "closed"
  /\ form' = "open"
  /\ UNCHANGED <<domains, view, list, check, removals, additions, chosen, clicks, faults>>

\* The button of the page, and on a phone the backdrop, close the form while it is
\* submitting, too: its addition goes on without it.
CloseForm ==
  /\ form # "closed"
  /\ form' = "closed"
  /\ additions' = {[a EXCEPT !.shown = FALSE] : a \in additions}
  /\ UNCHANGED <<domains, view, list, check, removals, chosen, clicks, faults>>

can_add == form = "open" /\ ~Row(3)

handle_add ==
  /\ can_add
  /\ Click
  /\ form' = "sent"
  /\ additions' = additions \union
       {[click |-> clicks, view |-> View, served |-> FALSE, shown |-> TRUE]}
  /\ UNCHANGED <<domains, view, list, check, removals, chosen, faults>>

AddServed(a) ==
  /\ a \in additions /\ ~a.served /\ domains[3] = "absent"
  /\ additions' = (additions \ {a}) \union {[a EXCEPT !.served = TRUE]}
  /\ domains' = [domains EXCEPT ![3] = "pending"]
  /\ UNCHANGED <<view, list, check, removals, form, chosen, clicks, faults>>

\* Any form on display is closed.  An addition that began on a tab the new domain is
\* not on leads to the first tab, whose list is loaded after that of the former view.
\* The search is emptied and reaches the list after the debounce.
on_added(a) ==
  /\ a \in additions /\ a.served
  /\ additions' = {[b EXCEPT !.shown = FALSE] : b \in additions \ {a}}
  /\ form' = "closed" /\ chosen' = 3 /\ search' = FALSE
  /\ IF a.view.tab \in {"all", "pending"} \/ tab = "all"
       THEN LateRefetch(a.view) /\ tab' = tab
       ELSE /\ tab' = "all"
            /\ request' = request + 2
            /\ fetches' = fetches \union
                 {[id |-> request + 1, view |-> a.view, offset |-> 0, append |-> FALSE],
                  [id |-> request + 2, view |-> [tab |-> "all", search |-> debounced],
                   offset |-> 0, append |-> FALSE]}
            /\ loading' = TRUE /\ listError' = FALSE /\ strayed' = FALSE
            /\ UNCHANGED <<rows, more, loadedFor>>
  /\ UNCHANGED <<domains, debounced, check, removals, clicks, faults>>

\* The backend refuses a domain it has, or the answer is lost.
AddFails(a) ==
  /\ a \in additions
  /\ IF ~a.served /\ domains[3] # "absent" THEN UNCHANGED faults ELSE Fault
  /\ additions' = additions \ {a}
  /\ form' = IF a.shown THEN "open" ELSE form
  /\ UNCHANGED <<domains, view, list, check, removals, chosen, clicks>>

Next ==
  \/ \E f \in fetches : FetchArrives(f) \/ FetchFails(f)
  \/ handle_load_more \/ set_search \/ Debounce
  \/ \E t \in Tabs : set_active_tab(t)
  \/ \E d \in Names : select(d) \/ handle_verify(d) \/ GlowEnds(d) \/ handle_delete(d)
  \/ \E i \in 1..MaxClicks : VerifyServed(i) \/ VerifyLost(i) \/ verify(i)
  \/ \E r \in removals : DeleteServed(r) \/ remove(r) \/ RemoveFails(r)
  \/ OpenForm \/ CloseForm \/ handle_add
  \/ \E a \in additions : AddServed(a) \/ on_added(a) \/ AddFails(a)

\* Requests are answered and timers fire.
SomeFetchArrives == \E f \in fetches : FetchArrives(f)
SomeRemovalGoesOn == \E r \in removals : remove(r) \/ DeleteServed(r)

Fairness ==
  /\ WF_dvars(SomeFetchArrives)
  /\ WF_dvars(Debounce)
  /\ WF_dvars(VerifyServed(1)) /\ WF_dvars(verify(1))
  /\ WF_dvars(SomeRemovalGoesOn)

Spec == Init /\ [][Next]_dvars
FairSpec == Spec /\ Fairness

-----------------------------------------------------------------------------
\* When the page is at rest its rows are those of the tab and the text it shows,
\* however the answers were ordered, unless a handler that began under another
\* view loaded the list last.
RowsOfTheView ==
  ~loading /\ ~listError /\ debounced = search => strayed \/ loadedFor = View

\* A domain may have joined a list, and the page has not heard of it.
JoinUnheard ==
  \/ \E a \in additions : a.served
  \/ \E i \in DOMAIN verifications : verifications[i].result \in {"verified", "failed"}

\* Pages are cut by their offset: a domain that is added, or goes to another tab,
\* while the next page is loaded moves the rows, and one of them comes twice. The list
\* that the addition or the verification loads puts that right, so that a page at rest
\* lists nothing twice unless that answer or their own was lost. Nor is it so while the
\* rows are of a view that the user has left: the next page is then cut from the view
\* chosen since.
NoRowTwice ==
  ~loading /\ ~strayed /\ ~JoinUnheard /\ faults = 0 =>
    \A i, j \in DOMAIN rows : rows[i].name = rows[j].name => i = j

\* The pulse of a verification ends, whatever the verification brings.
Pulsing(d) == DomainProgress(phases[d]) = "checking"
PulseEnds == \A d \in Names : Pulsing(d) ~> ~Pulsing(d)
=============================================================================
