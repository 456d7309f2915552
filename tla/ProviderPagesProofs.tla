------------------------- MODULE ProviderPagesProofs -------------------------
(***************************************************************************)
(* Proofs about ProviderPages, for every number of tasks, filters and      *)
(* requests in flight, and whatever fails, is lost or comes late.          *)
(***************************************************************************)
EXTENDS ProviderPages, TLAPS

-----------------------------------------------------------------------------
(* Types, and what an answer tells.  An outcome that some assignment has had    *)
(* stays on record; and it is the outcome for good where no two handlers had    *)
(* the assignment in hand at once: then what an answer tells of an outcome is   *)
(* true whenever it arrives.                                                    *)

ServerTyped ==
  /\ assignment \in [Tasks -> AssignmentStatus]
  /\ ready \subseteq Tasks /\ full \subseteq Tasks
  /\ had \in [Tasks -> SUBSET Outcomes] /\ contested \subseteq Tasks
  /\ \A k \in Tasks : assignment[k] \in Outcomes => assignment[k] \in had[k]

PageGood ==
  /\ page \in Page
  /\ page.name \in {"detail", "processing"} => page.on \in Tasks

\* It is true of task k to say that it ended so.
Truth(k, outcome) ==
  /\ k \in Tasks /\ outcome \in had[k]
  /\ k \notin contested => assignment[k] = outcome

AnnouncedGood ==
  /\ announced \in Announcement
  /\ announced # Nothing => Truth(announced.on, announced.outcome)

\* The outcome that a request tells of, if any.
Tells(r) ==
  CASE r.kind = "complete" /\ r.phase = "served" -> {"completada"}
    [] r.kind = "fail" /\ r.phase = "served"     -> {"fallida"}
    [] r.kind = "progress"                       -> {r.got} \cap Outcomes
    [] OTHER                                     -> {}

RequestGood(r) ==
  /\ r \in Request
  /\ r.kind # "tasks" => r.on \in Tasks
  /\ r.kind \in {"task", "refetch"} => r.got \in {"unknown", "none", "aceptada", "procesando"}
  /\ r.gone => ~r.live /\ r.kind \in Commands /\ r.phase # "served"
  /\ \A outcome \in Tells(r) : Truth(r.on, outcome)
  /\ r.phase = "written" => r.kind \in {"complete", "fail"} /\ Truth(r.on, After(r.kind))

Requests == [Slots -> Request \cup {NoRequest}]

RequestsGood(requests) ==
  requests \in Requests /\ \A s \in Slots : requests[s] # NoRequest => RequestGood(requests[s])

\* A page that was left has nothing open and awaits nothing.
ViewsGood ==
  /\ list \in List /\ detail \in Detail /\ processing \in Processing
  /\ detail.startLoading => page.name = "detail"
  /\ processing.progress # "unknown" => processing.on \in Tasks
  /\ processing.modal # {} \/ processing.completing \/ processing.failing
       => page.name = "processing" /\ processing.on \in Tasks

TypeInv == ServerTyped /\ PageGood /\ AnnouncedGood /\ RequestsGood(request) /\ ViewsGood

LEMMA TypeInvImplies == TypeInv => TypeOK /\ AnnouncedOutcomeIsTrue
  BY DEF TypeInv, TypeOK, ServerTyped, PageGood, AnnouncedGood, RequestsGood, Requests,
         ViewsGood, AnnouncedOutcomeIsTrue, Truth

\* A handler that will still write what another may have found.
Holds(r) ==
  r # NoRequest /\ r.kind \in {"start", "complete", "fail"} /\ r.phase \in {"checked", "written"}

\* What the handler of an assignment that nobody else has in hand finds there.
Found(r) == IF r.kind = "start" THEN "aceptada" ELSE "procesando"

SerialInv ==
  \A s \in Slots : Holds(request[s]) /\ request[s].on \notin contested =>
    /\ request[s].phase = "checked" => assignment[request[s].on] = Found(request[s])
    /\ \A u \in Slots : Holds(request[u]) /\ request[u].on = request[s].on => u = s

LEMMA EmptyTyped ==
  /\ EmptyList \in List /\ EmptyDetail \in Detail /\ EmptyProcessing \in Processing
  /\ \A b \in BOOLEAN : /\ [EmptyList EXCEPT !.loading = b] \in List
                        /\ [EmptyDetail EXCEPT !.loading = b] \in Detail
                        /\ [EmptyProcessing EXCEPT !.loading = b] \in Processing
<1>1. EmptyList \in List
  BY DEF EmptyList, List
<1>2. EmptyDetail \in Detail
  BY DEF EmptyDetail, Detail
<1>3. EmptyProcessing \in Processing
  BY ProviderPagesAssumption DEF EmptyProcessing, Processing
<1>4. ASSUME NEW b \in BOOLEAN
      PROVE  /\ [EmptyList EXCEPT !.loading = b] \in List
             /\ [EmptyDetail EXCEPT !.loading = b] \in Detail
             /\ [EmptyProcessing EXCEPT !.loading = b] \in Processing
  BY <1>1, <1>2, <1>3 DEF List, Detail, Processing
<1> QED BY <1>1, <1>2, <1>3, <1>4

LEMMA TypedInit == Init => TypeInv
<1> SUFFICES ASSUME Init PROVE TypeInv
  OBVIOUS
<1>1. ServerTyped
  BY DEF Init, ServerTyped, AssignmentStatus, Outcomes
<1>2. PageGood
  BY DEF Init, PageGood, Page
<1>3. AnnouncedGood
  BY DEF Init, AnnouncedGood, Announcement, Nothing
<1>4. RequestsGood(request)
  BY DEF Init, RequestsGood, Requests
<1>5. ViewsGood
  BY EmptyTyped DEF Init, ViewsGood, EmptyDetail, EmptyProcessing
<1> QED BY <1>1, <1>2, <1>3, <1>4, <1>5 DEF TypeInv

OutcomesStay ==
  \A k \in Tasks :
    /\ had[k] \subseteq had'[k]
    /\ k \notin contested' => k \notin contested
    /\ k \notin contested' /\ assignment[k] \in Outcomes => assignment'[k] = assignment[k]

LEMMA OutcomesStayIf == UNCHANGED <<assignment, had, contested>> => OutcomesStay
  BY DEF OutcomesStay

LEMMA TruthStays ==
  ASSUME OutcomesStay, ServerTyped, NEW k, NEW outcome, Truth(k, outcome)
  PROVE  Truth(k, outcome)'
<1>1. had[k] \subseteq Outcomes
  BY DEF ServerTyped, Truth
<1> QED BY <1>1 DEF OutcomesStay, Truth

LEMMA RequestStays ==
  ASSUME OutcomesStay, ServerTyped, NEW s \in Slots, NEW r, RequestGood(r), request'[s] = r
  PROVE  RequestGood(request[s])'
<1>1. \A outcome \in Tells(r) : Truth(r.on, outcome)'
  BY TruthStays DEF RequestGood
<1>2. r.phase = "written" => Truth(r.on, After(r.kind))'
  BY TruthStays DEF RequestGood
<1> QED BY <1>1, <1>2 DEF RequestGood, Tells, Truth

LEMMA RequestsStay ==
  ASSUME OutcomesStay, ServerTyped, NEW requests, RequestsGood(requests), request' = requests
  PROVE  RequestsGood(request)'
<1>1. ASSUME NEW s \in Slots, request'[s] # NoRequest
      PROVE  RequestGood(request[s])'
  BY <1>1, RequestStays DEF RequestsGood
<1> QED BY <1>1 DEF RequestsGood

LEMMA AnnouncedStays ==
  ASSUME OutcomesStay, ServerTyped, AnnouncedGood, announced' = announced
  PROVE  AnnouncedGood'
<1>1. announced # Nothing => Truth(announced.on, announced.outcome)'
  BY TruthStays DEF AnnouncedGood
<1> QED BY <1>1 DEF AnnouncedGood, Nothing, Truth

LEMMA SentGood ==
  ASSUME NEW kind \in Commands \cup {"tasks", "task", "refetch", "progress"},
         NEW k \in Tasks \cup {NoTask}, kind # "tasks" => k \in Tasks
  PROVE  /\ RequestGood(Sent(kind, k)) /\ Sent(kind, k) # NoRequest
         /\ Sent(kind, k).kind = kind /\ Sent(kind, k).live
<1>1. Sent(kind, k) \in Request
  BY DEF Sent, Request, Commands
<1>2. Tells(Sent(kind, k)) = {}
  BY DEF Tells, Sent, Outcomes
<1> QED BY <1>1, <1>2, NoRequestAssumption DEF RequestGood, Sent

LEMMA SlotGood ==
  ASSUME NEW requests, RequestsGood(requests), NEW s \in Slots,
         NEW r, r = NoRequest \/ RequestGood(r)
  PROVE  RequestsGood([requests EXCEPT ![s] = r])
<1>1. r \in Request \cup {NoRequest}
  BY DEF RequestGood
<1> QED BY <1>1 DEF RequestsGood, Requests

LEMMA DoneGood ==
  ASSUME RequestsGood(request), NEW s \in Slots
  PROVE  /\ RequestsGood(Done(s))
         /\ Done(s)[s] = NoRequest /\ \A u \in Slots \ {s} : Done(s)[u] = request[u]
<1>1. RequestsGood(Done(s))
  BY SlotGood DEF Done
<1> QED BY <1>1 DEF Done, RequestsGood, Requests

\* Of a request only the listener, the phase, the answer and the filters change.
LEMMA LiveChanged ==
  ASSUME NEW r \in Request, NEW live \in BOOLEAN
  PROVE  LET q == [r EXCEPT !.live = live] IN
         /\ q \in Request /\ q.kind = r.kind /\ q.on = r.on
         /\ q.phase = r.phase /\ q.got = r.got /\ q.live = live /\ q.gone = r.gone
  BY DEF Request

LEMMA PhaseChanged ==
  ASSUME NEW r \in Request, NEW phase \in {"sent", "checked", "written", "served"},
         NEW q, q = [r EXCEPT !.phase = phase]
  PROVE  /\ q \in Request /\ q.kind = r.kind /\ q.on = r.on
         /\ q.phase = phase /\ q.got = r.got /\ q.live = r.live /\ q.gone = r.gone
  BY DEF Request

LEMMA GivenUp ==
  ASSUME NEW r \in Request
  PROVE  LET q == [r EXCEPT !.gone = TRUE, !.live = FALSE] IN
         /\ q \in Request /\ q.kind = r.kind /\ q.on = r.on
         /\ q.phase = r.phase /\ q.got = r.got /\ q.live = FALSE /\ q.gone
  BY DEF Request

LEMMA FiltersChanged ==
  ASSUME NEW r \in Request, NEW filters \in SUBSET Filters
  PROVE  LET q == [r EXCEPT !.filters = filters] IN
         /\ q \in Request /\ q.kind = r.kind /\ q.on = r.on
         /\ q.phase = r.phase /\ q.got = r.got /\ q.live = r.live /\ q.gone = r.gone
  BY DEF Request

LEMMA UnheardGood ==
  ASSUME NEW requests, RequestsGood(requests)
  PROVE  RequestsGood(Unheard(requests))
<1>1. ASSUME NEW s \in Slots, requests[s] # NoRequest
      PROVE  RequestGood([requests[s] EXCEPT !.live = FALSE])
  <2> DEFINE q == [requests[s] EXCEPT !.live = FALSE]
  <2>1. RequestGood(requests[s])
    BY <1>1 DEF RequestsGood
  <2>2. /\ q \in Request /\ q.kind = requests[s].kind /\ q.on = requests[s].on
        /\ q.phase = requests[s].phase /\ q.got = requests[s].got /\ q.live = FALSE
        /\ q.gone = requests[s].gone
    BY <2>1, LiveChanged DEF RequestGood
  <2> HIDE DEF q
  <2>3. Tells(q) = Tells(requests[s])
    BY <2>2 DEF Tells
  <2>4. RequestGood(q)
    BY <2>1, <2>2, <2>3 DEF RequestGood
  <2> QED BY <2>4 DEF q
<1>2. \A s \in Slots : Unheard(requests)[s] = NoRequest \/ RequestGood(Unheard(requests)[s])
  BY <1>1 DEF Unheard, RequestsGood
<1>3. Unheard(requests) \in Requests
  BY <1>2 DEF Unheard, Requests, RequestGood
<1> QED BY <1>2, <1>3 DEF RequestsGood

\* A step of the pages: the server keeps what it has.
LEMMA MountTyped ==
  ASSUME TypeInv, UNCHANGED server, AnnouncedGood',
         NEW name \in {"tasks", "detail", "processing", "dashboard"}, NEW k \in Tasks \cup {NoTask},
         name \in {"detail", "processing"} => k \in Tasks,
         NEW s \in Slots, NEW requests, RequestsGood(requests), Mount(name, k, s, requests)
  PROVE  TypeInv'
<1>1. OutcomesStay /\ ServerTyped /\ ServerTyped'
  BY OutcomesStayIf DEF server, TypeInv, ServerTyped
<1>2. PageGood'
  BY DEF Mount, PageGood, Page
<1>3. ViewsGood'
  <2>1. list' \in List /\ detail' \in Detail /\ processing' \in Processing
    BY EmptyTyped DEF Mount
  <2>2. ~detail'.startLoading
    BY DEF Mount, EmptyDetail
  <2>3. /\ processing'.modal = {} /\ ~processing'.completing /\ ~processing'.failing
        /\ processing'.progress = "unknown"
    BY DEF Mount, EmptyProcessing
  <2> QED BY <2>1, <2>2, <2>3 DEF ViewsGood
<1>4. PICK r : (r = NoRequest \/ RequestGood(r)) /\ request' = [Unheard(requests) EXCEPT ![s] = r]
  BY SentGood DEF Mount
<1>5. RequestsGood([Unheard(requests) EXCEPT ![s] = r])
  BY <1>4, UnheardGood, SlotGood
<1> QED BY <1>1, <1>2, <1>3, <1>4, <1>5, RequestsStay DEF TypeInv

LEMMA SamePageTyped ==
  ASSUME TypeInv, UNCHANGED server, AnnouncedGood', NEW requests, RequestsGood(requests),
         request' = requests, UNCHANGED <<page, list, detail, processing>>
  PROVE  TypeInv'
<1>1. OutcomesStay /\ ServerTyped /\ ServerTyped'
  BY OutcomesStayIf DEF server, TypeInv, ServerTyped
<1>2. PageGood' /\ ViewsGood'
  BY DEF TypeInv, PageGood, ViewsGood
<1> QED BY <1>1, <1>2, RequestsStay DEF TypeInv

\* The component is kept with another address.
LEMMA ReaddressTyped ==
  ASSUME TypeInv, UNCHANGED server, AnnouncedGood', page.name = "processing", NEW k \in Tasks,
         NEW s \in Slots, NEW requests, RequestsGood(requests), Readdress(k, s, requests)
  PROVE  TypeInv'
<1>1. OutcomesStay /\ ServerTyped /\ ServerTyped'
  BY OutcomesStayIf DEF server, TypeInv, ServerTyped
<1>2. PageGood' /\ page'.name = page.name
  BY DEF Readdress, TypeInv, PageGood, Page
<1>3. ViewsGood'
  BY <1>2 DEF Readdress, TypeInv, ViewsGood
<1>4. RequestsGood([requests EXCEPT ![s] = Sent("progress", k)])
  BY SentGood, SlotGood
<1> QED BY <1>1, <1>2, <1>3, <1>4, RequestsStay DEF Readdress, TypeInv

LEMMA StepTyped ==
  ASSUME TypeInv, UNCHANGED <<server, page, announced>>, ViewsGood',
         NEW requests, RequestsGood(requests), request' = requests
  PROVE  TypeInv'
<1>1. OutcomesStay /\ ServerTyped /\ ServerTyped'
  BY OutcomesStayIf DEF server, TypeInv, ServerTyped
<1>2. PageGood'
  BY DEF TypeInv, PageGood
<1> QED BY <1>1, <1>2, AnnouncedStays, RequestsStay DEF TypeInv

LEMMA SendTyped ==
  ASSUME TypeInv, UNCHANGED <<server, page, announced>>, ViewsGood',
         NEW s \in Slots, NEW r, RequestGood(r), Send(s, r)
  PROVE  TypeInv'
<1>1. RequestsGood([request EXCEPT ![s] = r])
  BY SlotGood DEF TypeInv
<1> QED BY <1>1, StepTyped DEF Send

LEMMA VisitTyped ==
  ASSUME TypeInv, NEW name \in {"tasks", "detail", "processing", "dashboard"},
         NEW k \in Tasks \cup {NoTask}, name \in {"detail", "processing"} => k \in Tasks,
         NEW s \in Slots, Visit(name, k, s)
  PROVE  TypeInv'
<1>1. AnnouncedGood'
  BY DEF Visit, AnnouncedGood, Announcement, Nothing
<1> QED BY <1>1, MountTyped DEF Visit, TypeInv

LEMMA AnnounceTyped ==
  ASSUME TypeInv, UNCHANGED server, NEW k \in Tasks, NEW outcome \in Outcomes,
         Truth(k, outcome), NEW s \in Slots, Announce(k, outcome, s)
  PROVE  TypeInv'
<1>1. AnnouncedGood'
  BY DEF Announce, AnnouncedGood, Announcement, Truth, server
<1>2. RequestsGood(Done(s))
  BY DoneGood DEF TypeInv
<1>3. CASE page.name = "dashboard"
  <2>1. request' = Done(s) /\ UNCHANGED <<page, list, detail, processing>>
    BY <1>3 DEF Announce
  <2> QED BY <1>1, <1>2, <2>1, SamePageTyped
<1>4. CASE page.name # "dashboard"
  BY <1>1, <1>2, <1>4, MountTyped DEF Announce
<1> QED BY <1>3, <1>4

LEMMA fetchTyped ==
  ASSUME TypeInv, NEW filters \in SUBSET Filters, NEW s \in Slots, fetchTasks(filters, s)
  PROVE  TypeInv'
<1> DEFINE p == Sent("tasks", NoTask)
           r == [p EXCEPT !.filters = filters]
<1>1. RequestGood(p)
  BY SentGood
<1>2. UNCHANGED <<server, page, detail, processing, announced>> /\ Send(s, r)
  BY DEF fetchTasks
<1>3. ViewsGood'
  <2>1. list' \in List
    BY DEF fetchTasks, TypeInv, ViewsGood, List
  <2> QED BY <1>2, <2>1 DEF TypeInv, ViewsGood
<1>4. p \in Request /\ p.kind = "tasks" /\ p.phase = "sent" /\ ~p.gone
  BY <1>1 DEF RequestGood, Sent
<1> HIDE DEF p
<1>5. /\ r \in Request /\ r.kind = p.kind /\ r.on = p.on
      /\ r.phase = p.phase /\ r.got = p.got /\ r.live = p.live /\ r.gone = p.gone
  BY <1>4, FiltersChanged
<1> HIDE DEF r
<1>6. RequestGood(r)
  BY <1>1, <1>4, <1>5 DEF RequestGood, Tells
<1> QED BY <1>2, <1>3, <1>6, SendTyped

LEMMA AskTyped ==
  ASSUME TypeInv, UNCHANGED <<server, page, announced>>, ViewsGood',
         NEW kind \in Commands \cup {"task", "refetch", "progress"},
         NEW k \in Tasks, NEW s \in Slots, Send(s, Sent(kind, k))
  PROVE  TypeInv'
<1>1. RequestGood(Sent(kind, k))
  BY SentGood
<1> QED BY <1>1, SendTyped

LEMMA UserTyped ==
  ASSUME TypeInv, NEW s \in Slots, User(s) \/ Tick(s)
  PROVE  TypeInv'
<1>1. ViewsGood /\ PageGood /\ full \subseteq Tasks /\ assignment \in [Tasks -> AssignmentStatus]
  BY DEF TypeInv, ServerTyped
<1>2. CASE GoToTasks(s) \/ GoToDashboard(s)
  BY <1>2, VisitTyped DEF GoToTasks, GoToDashboard
<1>3. ASSUME NEW k \in Tasks, OpenTask(k, s) \/ Return(k, s) PROVE TypeInv'
  BY <1>3, VisitTyped DEF OpenTask, Return
<1>4. CASE handleContinue(s)
  BY <1>1, <1>4, VisitTyped DEF handleContinue, OnDetail, PageGood
<1>5. ASSUME NEW f \in Filters, toggleFilter(f, s) PROVE TypeInv'
  <2>1. list.filters \in SUBSET Filters
    BY <1>1 DEF ViewsGood, List
  <2> QED BY <1>5, <2>1, fetchTyped DEF toggleFilter
<1>6. CASE clearFilters(s) \/ RetryTasks(s)
  <2>1. list.filters \in SUBSET Filters
    BY <1>1 DEF ViewsGood, List
  <2> QED BY <1>6, <2>1, fetchTyped DEF clearFilters, RetryTasks
<1>7. CASE handleAccept(s)
  <2>1. page' = page /\ list' = list /\ processing' = processing /\ page.name = "detail"
    BY <1>7 DEF handleAccept, OffersAccept, OnDetail
  <2>2. detail' \in Detail
    BY <1>1, <1>7 DEF handleAccept, ViewsGood, Detail
  <2>3. ViewsGood'
    BY <1>1, <2>1, <2>2 DEF ViewsGood
  <2> QED BY <1>1, <1>7, <2>1, <2>3, AskTyped DEF handleAccept, Commands, PageGood
<1>8. CASE handleStart(s)
  <2>1. page' = page /\ list' = list /\ processing' = processing /\ page.name = "detail"
    BY <1>8 DEF handleStart, OffersStart, OnDetail
  <2>2. detail' \in Detail
    BY <1>1, <1>8 DEF handleStart, ViewsGood, Detail
  <2>3. ViewsGood'
    BY <1>1, <2>1, <2>2 DEF ViewsGood
  <2> QED BY <1>1, <1>8, <2>1, <2>3, AskTyped DEF handleStart, Commands, PageGood
<1>9. CASE handleComplete(s) \/ handleFail(s)
  <2>1. /\ page' = page /\ list' = list /\ detail' = detail
        /\ page.name = "processing" /\ processing.on \in Tasks
    BY <1>1, <1>9 DEF handleComplete, handleFail, ViewsGood
  <2>2. processing' \in Processing /\ processing'.on = processing.on
    BY <1>1, <1>9 DEF handleComplete, handleFail, ViewsGood, Processing
  <2>3. ViewsGood'
    BY <1>1, <2>1, <2>2 DEF ViewsGood
  <2> QED BY <1>9, <2>1, <2>3, AskTyped DEF handleComplete, handleFail, Commands
<1>10. CASE Refetch(s)
  <2>1. page' = page /\ list' = list /\ detail' = detail /\ page.name = "processing"
    BY <1>10 DEF Refetch
  <2>2. /\ processing' \in Processing /\ processing'.on = processing.on
        /\ processing'.modal = processing.modal /\ processing'.progress = processing.progress
        /\ processing'.completing = processing.completing /\ processing'.failing = processing.failing
    BY <1>1, <1>10, ProviderPagesAssumption DEF Refetch, ViewsGood, Processing
  <2>3. ViewsGood'
    BY <1>1, <2>1, <2>2 DEF ViewsGood
  <2> QED BY <1>1, <1>10, <2>1, <2>3, AskTyped DEF Refetch, PageGood
<1>11. CASE Tick(s)
  <2>1. ViewsGood' /\ page.on \in Tasks
    BY <1>1, <1>11 DEF Tick, ViewsGood, PageGood
  <2> QED BY <1>11, <2>1, AskTyped DEF Tick
<1> QED BY <1>2, <1>3, <1>4, <1>5, <1>6, <1>7, <1>8, <1>9, <1>10, <1>11 DEF User

LEMMA DeliverTyped ==
  ASSUME TypeInv, NEW s \in Slots, Deliver(s)
  PROVE  TypeInv'
<1>1. /\ ViewsGood /\ RequestsGood(request) /\ RequestsGood(Done(s))
      /\ request[s] # NoRequest => RequestGood(request[s])
  BY DoneGood DEF TypeInv, RequestsGood
<1>2. CASE TasksFetched(s)
  <2>1. list' \in List
    BY <1>1, <1>2 DEF TasksFetched, Arrived, RequestGood, Request, ViewsGood, List
  <2>2. ViewsGood'
    BY <1>1, <1>2, <2>1 DEF TasksFetched, ViewsGood
  <2> QED BY <1>1, <1>2, <2>2, StepTyped DEF TasksFetched
<1>3. CASE TaskFetched(s) \/ TaskRefetched(s)
  <2>1. /\ request[s].got \in {"unknown", "none", "aceptada", "procesando"}
        /\ request[s].can \in BOOLEAN
    BY <1>1, <1>3 DEF TaskFetched, TaskRefetched, Arrived, RequestGood, Request
  <2>2. detail' \in Detail /\ detail'.startLoading = detail.startLoading
    BY <1>1, <1>3, <2>1 DEF TaskFetched, TaskRefetched, ViewsGood, Detail
  <2>3. ViewsGood'
    BY <1>1, <1>3, <2>2 DEF TaskFetched, TaskRefetched, ViewsGood
  <2> QED BY <1>1, <1>3, <2>3, StepTyped DEF TaskFetched, TaskRefetched
<1>4. CASE TaskAccepted(s)
  <2> DEFINE p == Sent("refetch", request[s].on)
             b == request[s].live
             r == [p EXCEPT !.live = b]
  <2>1. RequestGood(request[s]) /\ request[s].on \in Tasks /\ b \in BOOLEAN
    BY <1>1, <1>4 DEF TaskAccepted, Arrived, RequestGood, Request
  <2>2. RequestGood(p) /\ p \in Request /\ p.kind = "refetch" /\ p.phase = "sent" /\ ~p.gone
    BY <2>1, SentGood DEF RequestGood, Sent
  <2>3. /\ request' = [request EXCEPT ![s] = r]
        /\ UNCHANGED <<server, page, list, processing, announced>>
    BY <1>4 DEF TaskAccepted
  <2>4. detail' \in Detail /\ detail'.startLoading = detail.startLoading
    BY <1>1, <1>4 DEF TaskAccepted, ViewsGood, Detail
  <2>5. ViewsGood'
    BY <1>1, <2>3, <2>4 DEF ViewsGood
  <2> HIDE DEF p, b
  <2>6. /\ r \in Request /\ r.kind = p.kind /\ r.on = p.on
        /\ r.phase = p.phase /\ r.got = p.got /\ r.live = b /\ r.gone = p.gone
    BY <2>1, <2>2, LiveChanged
  <2> HIDE DEF r
  <2>7. RequestGood(r)
    BY <2>2, <2>6 DEF RequestGood, Tells
  <2>8. RequestsGood([request EXCEPT ![s] = r])
    BY <1>1, <2>7, SlotGood
  <2> QED BY <2>3, <2>5, <2>8, StepTyped
<1>5. CASE TaskStarted(s)
  <2>1. request[s].on \in Tasks
    BY <1>1, <1>5 DEF TaskStarted, Arrived, RequestGood
  <2>2. AnnouncedGood' /\ UNCHANGED server
    BY <1>5 DEF TaskStarted, AnnouncedGood, Announcement, Nothing
  <2>3. CASE page.name # "processing"
    BY <1>1, <1>5, <2>1, <2>2, <2>3, MountTyped DEF TaskStarted
  <2>4. CASE page.name = "processing" /\ page.on # request[s].on
    BY <1>1, <1>5, <2>1, <2>2, <2>4, ReaddressTyped DEF TaskStarted
  <2>5. CASE page.name = "processing" /\ page.on = request[s].on
    <3>1. request' = Done(s) /\ UNCHANGED <<page, list, detail, processing>>
      BY <1>5, <2>5 DEF TaskStarted
    <3> QED BY <1>1, <2>2, <3>1, SamePageTyped
  <2> QED BY <2>3, <2>4, <2>5
<1>6. CASE ProgressFetched(s)
  <2>1. RequestGood(request[s]) /\ request[s].kind = "progress" /\ request[s].on \in Tasks
    BY <1>1, <1>6 DEF ProgressFetched, Arrived, RequestGood
  <2>2. CASE ~request[s].live
    <3>1. ViewsGood'
      BY <1>1, <1>6, <2>2 DEF ProgressFetched, ViewsGood
    <3> QED BY <1>1, <1>6, <2>2, <3>1, StepTyped DEF ProgressFetched, server
  <2>3. CASE request[s].live /\ request[s].got \in Outcomes
    <3>1. Truth(request[s].on, request[s].got)
      BY <2>1, <2>3 DEF RequestGood, Tells
    <3> QED BY <1>6, <2>1, <2>3, <3>1, AnnounceTyped DEF ProgressFetched
  <2>4. CASE request[s].live /\ request[s].got \notin Outcomes
    <3>1. PICK k, got, can : k = request[s].on /\ got = request[s].got /\ can = request[s].can
      OBVIOUS
    <3>2. k \in Tasks /\ got \in AssignmentStatus \cup {"unknown"} /\ can \in BOOLEAN
      BY <2>1, <3>1 DEF RequestGood, Request
    <3>3. PICK was, now : was = processing /\ now = processing'
      OBVIOUS
    <3>4. /\ now = [was EXCEPT !.on = k, !.progress = got, !.canComplete = can,
                               !.errors = 0, !.loading = FALSE]
          /\ request' = Done(s)
          /\ UNCHANGED <<server, page, list, detail, announced>>
      BY <1>6, <2>4, <3>1, <3>3 DEF ProgressFetched, server
    <3>5. was \in Processing
      BY <1>1, <3>3 DEF ViewsGood
    <3>6. /\ now \in Processing /\ now.on = k
          /\ now.modal = was.modal /\ now.completing = was.completing /\ now.failing = was.failing
      <4>1. now = [was EXCEPT !.on = k, !.progress = got, !.canComplete = can,
                              !.errors = 0, !.loading = FALSE]
        BY <3>4
      <4> HIDE <3>4
      <4>2. now.on = k
        BY <4>1, <3>5 DEF Processing
      <4>3. 0 \in 0..MAX_CONSECUTIVE_ERRORS
        BY ProviderPagesAssumption
      <4>4. k \in Tasks /\ got \in AssignmentStatus \cup {"unknown"} /\ can \in BOOLEAN
        BY <3>2
      <4>5. now \in Processing
        BY <4>1, <4>3, <4>4, <3>5 DEF Processing
      <4>6. /\ now.modal = was.modal /\ now.completing = was.completing /\ now.failing = was.failing
        BY <4>1, <3>5 DEF Processing
      <4> QED BY <4>2, <4>5, <4>6
    <3>7. ViewsGood'
      BY <1>1, <3>2, <3>3, <3>4, <3>6 DEF ViewsGood
    <3> QED BY <1>1, <3>4, <3>7, StepTyped
  <2> QED BY <2>2, <2>3, <2>4
<1>7. CASE Completed(s) \/ FailureReported(s)
  <2>1. RequestGood(request[s]) /\ request[s].on \in Tasks /\ request[s].phase = "served"
    BY <1>1, <1>7 DEF Completed, FailureReported, Arrived, RequestGood
  <2>2. CASE Completed(s)
    <3>1. Truth(request[s].on, "completada")
      BY <2>1, <2>2 DEF Completed, Arrived, RequestGood, Tells
    <3> QED BY <2>1, <2>2, <3>1, AnnounceTyped DEF Completed, Outcomes
  <2>3. CASE FailureReported(s)
    <3>1. Truth(request[s].on, "fallida")
      BY <2>1, <2>3 DEF FailureReported, Arrived, RequestGood, Tells
    <3> QED BY <2>1, <2>3, <3>1, AnnounceTyped DEF FailureReported, Outcomes
  <2> QED BY <1>7, <2>2, <2>3
<1> QED BY <1>2, <1>3, <1>4, <1>5, <1>6, <1>7 DEF Deliver

LEMMA ErrorShown ==
  ASSUME ViewsGood, NEW kind
  PROVE  /\ AfterErrorOnList(kind) \in List
         /\ AfterErrorOnDetail(kind) \in Detail
         /\ AfterErrorOnDetail(kind).startLoading => detail.startLoading
         /\ AfterErrorOnProcessing(kind) \in Processing
         /\ AfterErrorOnProcessing(kind).on = processing.on
         /\ AfterErrorOnProcessing(kind).progress = processing.progress
         /\ AfterErrorOnProcessing(kind).modal = processing.modal
         /\ AfterErrorOnProcessing(kind).completing => processing.completing
         /\ AfterErrorOnProcessing(kind).failing => processing.failing
<1>1. AfterErrorOnList(kind) \in List
  BY DEF ViewsGood, AfterErrorOnList, List
<1>2. /\ AfterErrorOnDetail(kind) \in Detail
      /\ AfterErrorOnDetail(kind).startLoading => detail.startLoading
  BY DEF ViewsGood, AfterErrorOnDetail, Detail
<1>3. CASE kind = "progress"
  <2> DEFINE n == IF processing.errors < MAX_CONSECUTIVE_ERRORS THEN processing.errors + 1
                  ELSE processing.errors
  <2>1. n \in 0..MAX_CONSECUTIVE_ERRORS
    BY ProviderPagesAssumption DEF ViewsGood, Processing
  <2>2. AfterErrorOnProcessing(kind) = [processing EXCEPT !.loading = FALSE, !.errors = n]
    BY <1>3 DEF AfterErrorOnProcessing, ViewsGood, Processing
  <2> HIDE DEF n
  <2> QED BY <1>1, <1>2, <2>1, <2>2 DEF ViewsGood, Processing
<1>4. CASE kind # "progress"
  BY <1>1, <1>2, <1>4 DEF ViewsGood, AfterErrorOnProcessing, Processing
<1> QED BY <1>3, <1>4

LEMMA FailedTyped ==
  ASSUME TypeInv, NEW s \in Slots, Failed(s)
  PROVE  TypeInv'
<1>1. /\ ViewsGood /\ RequestsGood(request) /\ RequestsGood(Done(s))
      /\ request[s] # NoRequest /\ RequestGood(request[s])
  BY DoneGood DEF TypeInv, RequestsGood, Failed, Free
<1>2. ViewsGood'
  BY <1>1, ErrorShown DEF Failed, ViewsGood
<1>3. CASE request' = Done(s)
  BY <1>1, <1>2, <1>3, StepTyped DEF Failed
<1>4. CASE /\ request[s].kind \in Commands /\ request[s].phase # "served"
           /\ request' = [request EXCEPT ![s].gone = TRUE, ![s].live = FALSE]
  <2> DEFINE q == [request[s] EXCEPT !.gone = TRUE, !.live = FALSE]
  <2>1. request' = [request EXCEPT ![s] = q]
    BY <1>1, <1>4 DEF RequestsGood, Requests
  <2>2. /\ q \in Request /\ q.kind = request[s].kind /\ q.on = request[s].on
        /\ q.phase = request[s].phase /\ q.got = request[s].got /\ q.live = FALSE /\ q.gone
    BY <1>1, GivenUp DEF RequestGood
  <2> HIDE DEF q
  <2>3. RequestGood(q)
    BY <1>1, <1>4, <2>2 DEF RequestGood, Tells, Commands
  <2>4. RequestsGood([request EXCEPT ![s] = q])
    BY <1>1, <2>3, SlotGood
  <2> QED BY <1>2, <2>1, <2>4, StepTyped DEF Failed
<1> QED BY <1>3, <1>4 DEF Failed

\* A handler goes on to its next call, and what it has written by then is true.
LEMMA PhaseTyped ==
  ASSUME TypeInv, NEW s \in Slots, NEW phase \in {"checked", "written", "served"},
         NEW r, r = request[s], r # NoRequest, r.kind \in Commands,
         request' = [request EXCEPT ![s].phase = phase],
         OutcomesStay, ServerTyped', UNCHANGED <<page, list, detail, processing, announced>>,
         phase = "served" => ~r.gone, phase = "written" => r.kind \in {"complete", "fail"},
         phase # "checked" /\ r.kind \in {"complete", "fail"} => Truth(r.on, After(r.kind))'
  PROVE  TypeInv'
<1>1. RequestGood(r) /\ RequestsGood(request) /\ ServerTyped
  BY DEF TypeInv, RequestsGood
<1>2. PageGood' /\ ViewsGood' /\ AnnouncedGood'
  BY <1>1, AnnouncedStays DEF TypeInv, PageGood, ViewsGood
<1>3. PICK q : q = [r EXCEPT !.phase = phase]
  OBVIOUS
<1>4. request' = [request EXCEPT ![s] = q]
  BY <1>1, <1>3 DEF RequestsGood, Requests
<1>5. /\ q \in Request /\ q.kind = r.kind /\ q.on = r.on
      /\ q.phase = phase /\ q.got = r.got /\ q.live = r.live /\ q.gone = r.gone
  BY <1>1, <1>3, PhaseChanged DEF RequestGood
<1>6. request' \in Requests /\ request'[s] = q
  BY <1>1, <1>4, <1>5 DEF RequestsGood, Requests
<1>7. \A outcome \in Tells(q) : Truth(q.on, outcome)'
  BY <1>5 DEF Tells, After, Commands
<1>8. q.phase = "written" => q.kind \in {"complete", "fail"} /\ Truth(q.on, After(q.kind))'
  BY <1>5
<1>9. RequestGood(request[s])'
  BY <1>1, <1>5, <1>6, <1>7, <1>8 DEF RequestGood, Tells, Truth
<1>10. \A u \in Slots : u # s /\ request'[u] # NoRequest => RequestGood(request[u])'
  BY <1>1, <1>4, RequestStays DEF RequestsGood, Requests
<1>11. RequestsGood(request)'
  BY <1>6, <1>9, <1>10 DEF RequestsGood
<1> QED BY <1>2, <1>11 DEF TypeInv

LEMMA AnsweredTyped ==
  ASSUME TypeInv, NEW s \in Slots, NEW r, r = request[s], r # NoRequest, r.kind \in Commands,
         request' = Answered(s), OutcomesStay, ServerTyped',
         UNCHANGED <<page, list, detail, processing, announced>>,
         r.kind \in {"complete", "fail"} => Truth(r.on, After(r.kind))'
  PROVE  TypeInv'
<1>1. CASE r.gone
  <2>1. ServerTyped /\ RequestsGood(Done(s)) /\ request' = Done(s)
    BY <1>1, DoneGood DEF TypeInv, Answered
  <2>2. PageGood' /\ ViewsGood' /\ AnnouncedGood'
    BY <2>1, AnnouncedStays DEF TypeInv, PageGood, ViewsGood
  <2> QED BY <2>1, <2>2, RequestsStay DEF TypeInv
<1>2. CASE ~r.gone
  <2>1. request' = [request EXCEPT ![s].phase = "served"]
    BY <1>2 DEF Answered
  <2> QED BY <1>2, <2>1, PhaseTyped
<1> QED BY <1>1, <1>2

LEMMA CheckTyped ==
  ASSUME TypeInv, NEW s \in Slots, CheckCommand(s)
  PROVE  TypeInv'
<1>1. request[s] # NoRequest /\ request[s].kind \in Commands /\ request[s].on \in Tasks
  BY DEF CheckCommand, Calls, Free, TypeInv, RequestsGood, RequestGood, Commands
<1>2. OutcomesStay /\ ServerTyped'
  BY <1>1 DEF CheckCommand, OutcomesStay, TypeInv, ServerTyped
<1> QED BY <1>1, <1>2, PhaseTyped DEF CheckCommand

\* What a handler writes over, where no other has the assignment in hand, is not an
\* outcome, or it is the outcome that it wrote before.
LEMMA WriteStays ==
  ASSUME ServerTyped, NEW k \in Tasks, NEW kind \in Commands, Write(k, After(kind)),
         contested' = contested,
         k \notin contested => assignment[k] \notin Outcomes \/ assignment[k] = After(kind)
  PROVE  /\ OutcomesStay
         /\ assignment' \in [Tasks -> AssignmentStatus] /\ had' \in [Tasks -> SUBSET Outcomes]
         /\ \A j \in Tasks : assignment'[j] \in Outcomes => assignment'[j] \in had'[j]
         /\ kind \in {"complete", "fail"} => Truth(k, After(kind))'
<1>1. /\ assignment' = [assignment EXCEPT ![k] = After(kind)]
      /\ had' = [had EXCEPT ![k] = @ \cup ({After(kind)} \cap Outcomes)]
      /\ assignment \in [Tasks -> AssignmentStatus] /\ had \in [Tasks -> SUBSET Outcomes]
  BY DEF Write, ServerTyped
<1>2. After(kind) \in AssignmentStatus /\ (kind \in {"complete", "fail"} => After(kind) \in Outcomes)
  BY DEF After, AssignmentStatus, Commands, Outcomes
<1>3. OutcomesStay
  BY <1>1 DEF OutcomesStay
<1>4. /\ assignment' \in [Tasks -> AssignmentStatus] /\ had' \in [Tasks -> SUBSET Outcomes]
      /\ \A j \in Tasks : assignment'[j] \in Outcomes => assignment'[j] \in had'[j]
  BY <1>1, <1>2 DEF ServerTyped
<1>5. kind \in {"complete", "fail"} => Truth(k, After(kind))'
  BY <1>1, <1>2 DEF Truth
<1> QED BY <1>3, <1>4, <1>5

LEMMA WriteTyped ==
  ASSUME TypeInv, SerialInv, NEW s \in Slots, WriteCommand(s)
  PROVE  TypeInv'
<1>1. PICK r : r = request[s]
  OBVIOUS
<1>2. r # NoRequest /\ r.kind \in Commands /\ r.on \in Tasks /\ r.phase = "checked" /\ ServerTyped
  BY <1>1 DEF WriteCommand, Calls, Free, TypeInv, RequestsGood, RequestGood, Commands
<1>3. /\ Write(r.on, After(r.kind)) /\ UNCHANGED <<full, contested>>
      /\ UNCHANGED <<page, list, detail, processing, announced>>
      /\ ready' \in {ready, ready \ {r.on}}
      /\ r.kind = "accept" => assignment[r.on] = "none"
  BY <1>1 DEF WriteCommand
<1>4. r.on \notin contested => assignment[r.on] \notin Outcomes
  <2>1. CASE r.kind = "accept"
    BY <1>3, <2>1 DEF Outcomes
  <2>2. CASE r.kind # "accept"
    BY <1>1, <1>2, <2>2 DEF SerialInv, Holds, Found, Outcomes, Commands
  <2> QED BY <2>1, <2>2
<1>5. /\ OutcomesStay
      /\ assignment' \in [Tasks -> AssignmentStatus] /\ had' \in [Tasks -> SUBSET Outcomes]
      /\ \A j \in Tasks : assignment'[j] \in Outcomes => assignment'[j] \in had'[j]
      /\ r.kind \in {"complete", "fail"} => Truth(r.on, After(r.kind))'
  BY <1>2, <1>3, <1>4, WriteStays
<1>6. ServerTyped'
  BY <1>2, <1>3, <1>5 DEF ServerTyped
<1>7. CASE r.kind \in {"complete", "fail"}
  <2>1. request' = [request EXCEPT ![s].phase = "written"]
    BY <1>1, <1>7 DEF WriteCommand
  <2> QED BY <1>1, <1>2, <1>3, <1>5, <1>6, <1>7, <2>1, PhaseTyped
<1>8. CASE r.kind \notin {"complete", "fail"}
  <2>1. request' = Answered(s)
    BY <1>1, <1>8 DEF WriteCommand
  <2> QED BY <1>1, <1>2, <1>3, <1>5, <1>6, <1>8, <2>1, AnsweredTyped
<1> QED BY <1>7, <1>8

LEMMA RewriteTyped ==
  ASSUME TypeInv, NEW s \in Slots, RewriteCommand(s)
  PROVE  TypeInv'
<1>1. PICK r : r = request[s]
  OBVIOUS
<1>2. /\ r # NoRequest /\ RequestGood(r) /\ r.kind \in {"complete", "fail"} /\ r.on \in Tasks
      /\ ServerTyped
  BY <1>1 DEF RewriteCommand, Calls, Free, TypeInv, RequestsGood, RequestGood, Commands
<1>3. /\ Write(r.on, After(r.kind)) /\ UNCHANGED <<ready, full, contested>>
      /\ request' = Answered(s) /\ UNCHANGED <<page, list, detail, processing, announced>>
  BY <1>1 DEF RewriteCommand
<1>4. r.on \notin contested => assignment[r.on] = After(r.kind)
  BY <1>1, <1>2 DEF RewriteCommand, Calls, RequestGood, Truth
<1>5. r.kind \in Commands
  BY <1>2 DEF Commands
<1>6. /\ OutcomesStay
      /\ assignment' \in [Tasks -> AssignmentStatus] /\ had' \in [Tasks -> SUBSET Outcomes]
      /\ \A j \in Tasks : assignment'[j] \in Outcomes => assignment'[j] \in had'[j]
      /\ Truth(r.on, After(r.kind))'
  BY <1>2, <1>3, <1>4, <1>5, WriteStays
<1>7. ServerTyped'
  BY <1>2, <1>3, <1>6 DEF ServerTyped
<1> QED BY <1>1, <1>2, <1>3, <1>5, <1>6, <1>7, AnsweredTyped

\* The answer to a query is put into it.
LEMMA QueryAnswered ==
  ASSUME TypeInv, NEW s \in Slots, ServeQuery(s)
  PROVE  \E q : /\ RequestGood(q) /\ q.kind = request[s].kind /\ q.live = request[s].live
               /\ request[s] # NoRequest /\ request' = [request EXCEPT ![s] = q]
               /\ UNCHANGED <<server, page, list, detail, processing, announced>>
<1> DEFINE r == request[s]
           got == CASE r.kind = "tasks"    -> "unknown"
                    [] r.kind = "progress" -> assignment[r.on]
                    [] OTHER               -> ActiveStatus(r.on)
           can == IF r.kind = "progress"
                  THEN assignment[r.on] = "procesando" /\ r.on \in ready
                  ELSE r.on \in full
           q == [r EXCEPT !.phase = "served", !.got = got, !.can = can]
<1>1. /\ RequestGood(r) /\ RequestsGood(request) /\ r.kind \notin Commands /\ r # NoRequest
      /\ assignment \in [Tasks -> AssignmentStatus]
      /\ request' = [request EXCEPT ![s].phase = "served", ![s].got = got, ![s].can = can]
      /\ UNCHANGED <<server, page, list, detail, processing, announced>>
  BY DEF ServeQuery, Free, TypeInv, RequestsGood, ServerTyped
<1>2. /\ got \in AssignmentStatus \cup {"unknown"} /\ can \in BOOLEAN
      /\ r.kind \in {"task", "refetch"} => got \in {"unknown", "none", "aceptada", "procesando"}
      /\ r.kind = "progress" => got = assignment[r.on]
  <2>1. ActiveStatus(r.on) \in {"none", "aceptada", "procesando"}
    BY DEF ActiveStatus
  <2>2. can \in BOOLEAN
    <3>1. CASE r.kind = "progress"
      <4>1. can = (assignment[r.on] = "procesando" /\ r.on \in ready)
        BY <3>1
      <4> HIDE DEF can
      <4> QED BY <4>1
    <3>2. CASE r.kind # "progress"
      <4>1. can = (r.on \in full)
        BY <3>2
      <4> HIDE DEF can
      <4> QED BY <4>1
    <3> QED BY <3>1, <3>2
  <2>3. CASE r.kind = "tasks"
    BY <2>2, <2>3
  <2>4. CASE r.kind = "progress"
    BY <1>1, <2>2, <2>4 DEF RequestGood
  <2>5. CASE r.kind \notin {"tasks", "progress"}
    <3>1. got = ActiveStatus(r.on)
      BY <2>5
    <3> HIDE DEF got, can
    <3> QED BY <2>1, <2>2, <2>5, <3>1 DEF AssignmentStatus
  <2> QED BY <2>3, <2>4, <2>5
<1>3. request' = [request EXCEPT ![s] = q]
  BY <1>1 DEF RequestsGood, Requests
<1> HIDE DEF got, can
<1>4. /\ q \in Request /\ q.kind = r.kind /\ q.on = r.on
      /\ q.phase = "served" /\ q.got = got /\ q.live = r.live /\ q.gone = r.gone
  <2>1. r \in Request
    BY <1>1 DEF RequestGood
  <2> HIDE DEF r
  <2>2. \A c \in BOOLEAN, g \in AssignmentStatus \cup {"unknown"} :
          LET p == [r EXCEPT !.phase = "served", !.got = g, !.can = c] IN
          /\ p \in Request /\ p.kind = r.kind /\ p.on = r.on
          /\ p.phase = "served" /\ p.got = g /\ p.live = r.live /\ p.gone = r.gone
    BY <2>1 DEF Request
  <2> QED BY <1>2, <2>2
<1> HIDE DEF q
<1>5. \A outcome \in Tells(q) : Truth(q.on, outcome)
  <2>1. CASE r.kind = "progress"
    <3>1. got = assignment[r.on] /\ r.on \in Tasks /\ q.on = r.on
      BY <1>1, <1>2, <1>4, <2>1 DEF RequestGood
    <3>2. Tells(q) \subseteq {assignment[r.on]} \cap Outcomes
      BY <1>4, <2>1, <3>1 DEF Tells
    <3> QED BY <3>1, <3>2 DEF Truth, TypeInv, ServerTyped
  <2>2. CASE r.kind # "progress"
    BY <1>1, <1>4, <2>2 DEF Tells, Commands
  <2> QED BY <2>1, <2>2
<1>6. RequestGood(q)
  BY <1>1, <1>2, <1>4, <1>5 DEF RequestGood, Commands
<1> QED BY <1>1, <1>3, <1>4, <1>6

LEMMA QueryTyped ==
  ASSUME TypeInv, NEW s \in Slots, ServeQuery(s)
  PROVE  TypeInv'
<1>1. PICK q : /\ RequestGood(q) /\ request' = [request EXCEPT ![s] = q]
               /\ UNCHANGED <<server, page, list, detail, processing, announced>>
  BY QueryAnswered
<1>2. RequestsGood([request EXCEPT ![s] = q])
  BY <1>1, SlotGood DEF TypeInv
<1>3. ViewsGood'
  BY <1>1 DEF TypeInv, ViewsGood
<1> QED BY <1>1, <1>2, <1>3, StepTyped

LEMMA ServeTyped ==
  ASSUME TypeInv, SerialInv, NEW s \in Slots, Serve(s)
  PROVE  TypeInv'
<1>1. CASE HandlerEnds(s)
  <2>1. ViewsGood' /\ RequestsGood(Done(s))
    BY <1>1, DoneGood DEF HandlerEnds, TypeInv, ViewsGood
  <2> QED BY <1>1, <2>1, StepTyped DEF HandlerEnds
<1> QED BY <1>1, CheckTyped, WriteTyped, RewriteTyped, QueryTyped DEF Serve

LEMMA ElsewhereSent ==
  ASSUME TypeInv, NEW kind \in Elsewhere, NEW k \in Tasks, NEW s \in Slots,
         CommandElsewhere(kind, k, s)
  PROVE  TypeInv'
<1>1. PICK p : p = Sent(kind, k)
  OBVIOUS
<1>2. PICK r : r = [p EXCEPT !.gone = TRUE, !.live = FALSE]
  OBVIOUS
<1>3. kind \in Commands /\ RequestGood(p) /\ p.kind = kind /\ p.phase = "sent"
  BY <1>1, SentGood, ElsewhereAssumption DEF Sent
<1>4. /\ r \in Request /\ r.kind = p.kind /\ r.on = p.on
      /\ r.phase = p.phase /\ r.got = p.got /\ r.live = FALSE /\ r.gone
  BY <1>2, <1>3, GivenUp DEF RequestGood
<1>5. RequestGood(r)
  BY <1>3, <1>4 DEF RequestGood, Tells, Commands
<1>6. /\ Send(s, r) /\ ViewsGood' /\ UNCHANGED <<server, page, announced>>
  BY <1>1, <1>2 DEF CommandElsewhere, TypeInv, ViewsGood
<1> QED BY <1>5, <1>6, SendTyped

LEMMA ModalTyped ==
  ASSUME TypeInv, NEW m \in {"complete", "fail"}, OpenModal(m) \/ DismissModal(m)
  PROVE  TypeInv'
<1>1. UNCHANGED <<server, page, list, detail, announced, request>>
  BY DEF OpenModal, DismissModal
<1>2. page.name = "processing"
  BY DEF OpenModal, OnProcessing, DismissModal, TypeInv, ViewsGood
<1>3. processing' \in Processing
  BY DEF OpenModal, DismissModal, TypeInv, ViewsGood, Processing
<1>4. /\ processing'.on = processing.on /\ processing'.progress = processing.progress
      /\ processing.on \in Tasks
  BY DEF OpenModal, OnProcessing, DismissModal, TypeInv, ViewsGood, Processing
<1>5. ViewsGood'
  BY <1>1, <1>2, <1>3, <1>4 DEF TypeInv, ViewsGood
<1> QED BY <1>1, <1>5, StepTyped DEF TypeInv

\* Steps of the backend alone, and of the one modal that is not a page's.
LEMMA ElsewhereTyped ==
  ASSUME TypeInv, UNCHANGED <<page, list, detail, processing, request>>,
         ServerTyped', OutcomesStay, announced' \in {announced, Nothing}
  PROVE  TypeInv'
<1>1. PageGood' /\ ViewsGood'
  BY DEF TypeInv, PageGood, ViewsGood
<1>2. CASE announced' = announced
  BY <1>1, <1>2, AnnouncedStays, RequestsStay DEF TypeInv
<1>3. CASE announced' = Nothing
  <2>1. AnnouncedGood'
    BY <1>3 DEF AnnouncedGood, Announcement, Nothing
  <2> QED BY <1>1, <2>1, RequestsStay DEF TypeInv
<1> QED BY <1>2, <1>3

LEMMA TypedStep == TypeInv /\ SerialInv /\ [Next]_vars => TypeInv'
<1> SUFFICES ASSUME TypeInv, SerialInv, [Next]_vars PROVE TypeInv'
  OBVIOUS
<1>1. CASE UNCHANGED vars \/ CloseModal
  <2>1. ServerTyped' /\ OutcomesStay
    BY <1>1, OutcomesStayIf DEF vars, server, CloseModal, TypeInv, ServerTyped
  <2> QED BY <1>1, <2>1, ElsewhereTyped DEF vars, CloseModal
<1>2. ASSUME NEW s \in Slots, User(s) \/ Tick(s) \/ Deliver(s) \/ Failed(s) \/ Serve(s)
      PROVE  TypeInv'
  BY <1>2, UserTyped, DeliverTyped, FailedTyped, ServeTyped
<1>3. ASSUME NEW m \in {"complete", "fail"}, OpenModal(m) \/ DismissModal(m) PROVE TypeInv'
  BY <1>3, ModalTyped
<1>4. ASSUME NEW k \in Tasks, Advance(k) \/ FillUp(k) PROVE TypeInv'
  <2>1. ServerTyped' /\ OutcomesStay
    BY <1>4, OutcomesStayIf DEF Advance, FillUp, TypeInv, ServerTyped
  <2> QED BY <1>4, <2>1, ElsewhereTyped DEF Advance, FillUp
<1>5. ASSUME NEW k \in Tasks, NEW kind \in Elsewhere, NEW s \in Slots,
             CommandElsewhere(kind, k, s)
      PROVE  TypeInv'
  BY <1>5, ElsewhereSent
<1> QED BY <1>1, <1>2, <1>3, <1>4, <1>5 DEF Next

-----------------------------------------------------------------------------
(* The handlers that have an assignment in hand.  Where there is one only, it     *)
(* finds what it has checked.                                                     *)

\* No request gets a handler into a step of its own: what holds an assignment held it.
Kept ==
  \A u \in Slots : Holds(request'[u]) =>
    /\ Holds(request[u]) /\ request'[u].on = request[u].on
    /\ request'[u].kind = request[u].kind /\ request'[u].phase = request[u].phase

LEMMA KeptSerial ==
  ASSUME SerialInv, Kept, UNCHANGED <<assignment, contested>>
  PROVE  SerialInv'
<1> SUFFICES ASSUME NEW s \in Slots, Holds(request'[s]), request'[s].on \notin contested
             PROVE  /\ request'[s].phase = "checked" => assignment[request'[s].on] = Found(request'[s])
                    /\ \A u \in Slots : Holds(request'[u]) /\ request'[u].on = request'[s].on => u = s
  BY DEF SerialInv, Holds, Found
<1>1. request'[s].phase = "checked" => assignment[request'[s].on] = Found(request'[s])
  BY DEF SerialInv, Kept, Found
<1>2. \A u \in Slots : Holds(request'[u]) /\ request'[u].on = request'[s].on => u = s
  BY DEF SerialInv, Kept
<1> QED BY <1>1, <1>2

\* One slot is given up, or gets a request that no handler has read yet.
LEMMA SlotKept ==
  ASSUME NEW requests \in Requests, NEW s \in Slots, NEW r, ~Holds(r),
         \A u \in Slots : Holds(requests[u]) =>
           /\ Holds(request[u]) /\ requests[u].on = request[u].on
           /\ requests[u].kind = request[u].kind /\ requests[u].phase = request[u].phase,
         request' = [requests EXCEPT ![s] = r]
  PROVE  Kept
<1>1. request'[s] = r /\ \A u \in Slots \ {s} : request'[u] = requests[u]
  BY DEF Requests
<1> QED BY <1>1 DEF Kept

LEMMA SentHolds == \A kind, k : ~Holds(Sent(kind, k))
  BY DEF Holds, Sent

LEMMA NothingHolds == ~Holds(NoRequest)
  BY DEF Holds

LEMMA DoneKept ==
  ASSUME TypeInv, NEW s \in Slots, request' = Done(s)
  PROVE  Kept
  BY SlotKept, NothingHolds DEF Done, TypeInv, RequestsGood

LEMMA SendKept ==
  ASSUME TypeInv, NEW s \in Slots, NEW kind, NEW k, Send(s, Sent(kind, k))
  PROVE  Kept
  BY SlotKept, SentHolds DEF Send, TypeInv, RequestsGood

LEMMA UnheardKept ==
  ASSUME NEW requests \in Requests, NEW u \in Slots, Holds(Unheard(requests)[u])
  PROVE  /\ Holds(requests[u]) /\ Unheard(requests)[u].on = requests[u].on
         /\ Unheard(requests)[u].kind = requests[u].kind
         /\ Unheard(requests)[u].phase = requests[u].phase
<1>1. requests[u] # NoRequest /\ requests[u] \in Request
  BY NothingHolds DEF Unheard, Requests
<1>2. PICK q : q = [requests[u] EXCEPT !.live = FALSE]
  OBVIOUS
<1>3. q = Unheard(requests)[u]
  BY <1>1, <1>2 DEF Unheard
<1>4. /\ q.kind = requests[u].kind /\ q.on = requests[u].on /\ q.phase = requests[u].phase
  BY <1>1, <1>2, LiveChanged
<1> QED BY <1>1, <1>3, <1>4 DEF Holds

LEMMA MountKept ==
  ASSUME TypeInv, NEW name, NEW k, NEW s \in Slots, NEW requests \in {request, Done(s)},
         Mount(name, k, s, requests) \/ Readdress(k, s, requests)
  PROVE  Kept
<1>1. RequestsGood(request) /\ RequestsGood(Done(s))
  BY DoneGood DEF TypeInv
<1>2. /\ requests \in Requests
      /\ \A u \in Slots : Holds(requests[u]) =>
           Holds(request[u]) /\ requests[u] = request[u]
  <2>1. CASE requests = request
    BY <1>1, <2>1 DEF RequestsGood
  <2>2. CASE requests = Done(s)
    BY <1>1, <2>2, DoneGood, NothingHolds DEF TypeInv, RequestsGood
  <2> QED BY <2>1, <2>2
<1>3. CASE Mount(name, k, s, requests)
  <2>1. Unheard(requests) \in Requests
    BY <1>1, UnheardGood DEF RequestsGood
  <2>2. PICK r : ~Holds(r) /\ request' = [Unheard(requests) EXCEPT ![s] = r]
    BY <1>3, SentHolds, NothingHolds DEF Mount
  <2>3. \A u \in Slots : Holds(Unheard(requests)[u]) =>
           /\ Holds(request[u]) /\ Unheard(requests)[u].on = request[u].on
           /\ Unheard(requests)[u].kind = request[u].kind
           /\ Unheard(requests)[u].phase = request[u].phase
    BY <1>2, UnheardKept
  <2> QED BY <2>1, <2>2, <2>3, SlotKept
<1>4. CASE Readdress(k, s, requests)
  BY <1>2, <1>4, SlotKept, SentHolds DEF Readdress
<1> QED BY <1>3, <1>4

LEMMA UserKept ==
  ASSUME TypeInv, NEW s \in Slots, User(s) \/ Tick(s)
  PROVE  Kept /\ UNCHANGED <<assignment, contested>>
<1>1. ASSUME NEW name, NEW k, Visit(name, k, s) PROVE Kept /\ UNCHANGED <<assignment, contested>>
  BY <1>1, MountKept DEF Visit, server
<1>2. ASSUME NEW filters, fetchTasks(filters, s) PROVE Kept /\ UNCHANGED <<assignment, contested>>
  <2>1. /\ request' = [request EXCEPT ![s] = [Sent("tasks", NoTask) EXCEPT !.filters = filters]]
        /\ UNCHANGED <<assignment, contested>>
    BY <1>2 DEF fetchTasks, Send, server
  <2>2. ~Holds([Sent("tasks", NoTask) EXCEPT !.filters = filters])
    BY DEF Holds, Sent
  <2> QED BY <2>1, <2>2, SlotKept DEF TypeInv, RequestsGood
<1>3. CASE \/ GoToTasks(s) \/ GoToDashboard(s) \/ handleContinue(s)
           \/ \E k \in Tasks : OpenTask(k, s) \/ Return(k, s)
  BY <1>1, <1>3 DEF GoToTasks, GoToDashboard, handleContinue, OpenTask, Return
<1>4. CASE clearFilters(s) \/ RetryTasks(s) \/ \E f \in Filters : toggleFilter(f, s)
  BY <1>2, <1>4 DEF clearFilters, RetryTasks, toggleFilter
<1>5. CASE \/ handleAccept(s) \/ handleStart(s) \/ handleComplete(s) \/ handleFail(s)
           \/ Refetch(s) \/ Tick(s)
  BY <1>5, SendKept DEF handleAccept, handleStart, handleComplete, handleFail, Refetch, Tick, server
<1> QED BY <1>3, <1>4, <1>5 DEF User

LEMMA DeliverKept ==
  ASSUME TypeInv, NEW s \in Slots, Deliver(s)
  PROVE  Kept /\ UNCHANGED <<assignment, contested>>
<1>1. UNCHANGED <<assignment, contested>>
  BY DEF Deliver, TasksFetched, TaskFetched, TaskAccepted, TaskRefetched, TaskStarted,
         ProgressFetched, Completed, FailureReported, server
<1>2. ASSUME NEW k, NEW outcome, Announce(k, outcome, s) PROVE Kept
  BY <1>2, DoneKept, MountKept DEF Announce
<1>3. CASE TasksFetched(s) \/ TaskFetched(s) \/ TaskRefetched(s)
  BY <1>1, <1>3, DoneKept DEF TasksFetched, TaskFetched, TaskRefetched
<1>4. CASE TaskAccepted(s)
  <2>1. ~Holds([Sent("refetch", request[s].on) EXCEPT !.live = request[s].live])
    BY DEF Holds, Sent
  <2> QED BY <1>1, <1>4, <2>1, SlotKept DEF TaskAccepted, TypeInv, RequestsGood
<1>5. CASE TaskStarted(s)
  BY <1>1, <1>5, DoneKept, MountKept DEF TaskStarted
<1>6. CASE ProgressFetched(s)
  BY <1>1, <1>2, <1>6, DoneKept DEF ProgressFetched
<1>7. CASE Completed(s) \/ FailureReported(s)
  BY <1>1, <1>2, <1>7 DEF Completed, FailureReported
<1> QED BY <1>1, <1>3, <1>4, <1>5, <1>6, <1>7 DEF Deliver

LEMMA FailedKept ==
  ASSUME TypeInv, NEW s \in Slots, Failed(s)
  PROVE  Kept /\ UNCHANGED <<assignment, contested>>
<1>1. UNCHANGED <<assignment, contested>> /\ request[s] \in Request /\ request \in Requests
  BY DEF Failed, server, Free, TypeInv, RequestsGood, RequestGood
<1>2. CASE request' = Done(s)
  BY <1>1, <1>2, DoneKept
<1>3. CASE request' = [request EXCEPT ![s].gone = TRUE, ![s].live = FALSE]
  <2>1. PICK q : q = [request[s] EXCEPT !.gone = TRUE, !.live = FALSE]
    OBVIOUS
  <2>2. request'[s] = q /\ \A u \in Slots \ {s} : request'[u] = request[u]
    BY <1>1, <1>3, <2>1 DEF Requests
  <2>3. /\ q.kind = request[s].kind /\ q.on = request[s].on /\ q.phase = request[s].phase
    BY <1>1, <2>1, GivenUp
  <2>4. request[s] # NoRequest
    BY DEF Failed, Free
  <2> QED BY <1>1, <2>2, <2>3, <2>4 DEF Kept, Holds
<1> QED BY <1>1, <1>2, <1>3 DEF Failed

LEMMA QueryKept ==
  ASSUME TypeInv, NEW s \in Slots, ServeQuery(s)
  PROVE  Kept /\ UNCHANGED <<assignment, contested>>
<1>1. PICK q : /\ q.kind = request[s].kind /\ request' = [request EXCEPT ![s] = q]
               /\ UNCHANGED server
  BY QueryAnswered
<1>2. ~Holds(q)
  BY <1>1 DEF ServeQuery, Commands, Holds
<1> QED BY <1>1, <1>2, SlotKept DEF TypeInv, RequestsGood, server

\* A second handler that finds the assignment makes it contested.
LEMMA CheckSerial ==
  ASSUME TypeInv, SerialInv, NEW s \in Slots, CheckCommand(s)
  PROVE  SerialInv'
<1>1. PICK r : r = request[s]
  OBVIOUS
<1>2. PICK q : q = [r EXCEPT !.phase = "checked"]
  OBVIOUS
<1>3. r \in Request /\ r # NoRequest /\ request \in Requests /\ ~Holds(r) /\ r.kind \in Commands
  BY <1>1 DEF CheckCommand, Calls, Free, Holds, TypeInv, RequestsGood, RequestGood
<1>4. q.kind = r.kind /\ q.on = r.on /\ q.phase = "checked"
  BY <1>2, <1>3, PhaseChanged
<1>5. request'[s] = q /\ \A u \in Slots \ {s} : request'[u] = request[u]
  BY <1>1, <1>2, <1>3 DEF CheckCommand, Requests
<1>6. /\ contested' = IF r.kind # "accept" /\ (\E u \in Slots : InHand(u, r.on))
                      THEN contested \cup {r.on} ELSE contested
      /\ assignment' = assignment
      /\ r.kind \in {"start", "complete", "fail"} => assignment[r.on] = Found(q)
  BY <1>1, <1>4 DEF CheckCommand, Accepts, Found
<1>7. \A u \in Slots : Holds(request[u]) <=> InHand(u, request[u].on)
  BY DEF Holds, InHand, Free
<1> SUFFICES ASSUME NEW u \in Slots, Holds(request'[u]), request'[u].on \notin contested'
             PROVE  /\ request'[u].phase = "checked" => assignment'[request'[u].on] = Found(request'[u])
                    /\ \A v \in Slots : Holds(request'[v]) /\ request'[v].on = request'[u].on => v = u
  BY DEF SerialInv, Holds, Found
<1>8. request'[u].on \notin contested
  BY <1>6
<1>9. CASE u = s
  <2>1. q.kind \in {"start", "complete", "fail"}
    BY <1>5, <1>9 DEF Holds
  <2>2. \A v \in Slots : Holds(request[v]) => request[v].on # r.on
    BY <1>4, <1>5, <1>6, <1>7, <1>9, <2>1
  <2> QED BY <1>4, <1>5, <1>6, <1>9, <2>1, <2>2
<1>10. CASE u # s
  <2>1. Holds(request[u]) /\ request'[u] = request[u]
    BY <1>5, <1>10
  <2>2. request[u].phase = "checked" => assignment[request[u].on] = Found(request[u])
    BY <1>8, <2>1 DEF SerialInv
  <2>3. ASSUME NEW v \in Slots, Holds(request'[v]), request'[v].on = request'[u].on PROVE v = u
    <3>1. CASE v = s
      <4>1. r.kind # "accept" /\ r.on = request[u].on
        BY <1>4, <1>5, <2>1, <2>3, <3>1 DEF Holds
      <4>2. r.on \in contested'
        BY <1>6, <1>7, <2>1, <4>1
      <4> QED BY <2>1, <4>1, <4>2
    <3>2. CASE v # s
      BY <1>5, <1>8, <2>1, <2>3, <3>2 DEF SerialInv
    <3> QED BY <3>1, <3>2
  <2> QED BY <1>6, <2>1, <2>2, <2>3
<1> QED BY <1>9, <1>10

\* A handler writes its own assignment, or one that no handler has in hand.
LEMMA WriteSerial ==
  ASSUME TypeInv, SerialInv, NEW s \in Slots, WriteCommand(s) \/ RewriteCommand(s)
  PROVE  SerialInv'
<1>1. PICK r : r = request[s]
  OBVIOUS
<1>2. /\ r \in Request /\ r # NoRequest /\ request \in Requests
      /\ r.on \in Tasks /\ ServerTyped
      /\ r.kind \in Commands /\ r.phase \in {"checked", "written"}
      /\ r.phase = "written" => r.kind \in {"complete", "fail"}
  BY <1>1 DEF WriteCommand, RewriteCommand, Calls, Free, TypeInv, RequestsGood, RequestGood, Commands
<1>3. /\ contested' = contested
      /\ assignment' = [assignment EXCEPT ![r.on] = After(r.kind)]
      /\ r.kind = "accept" => assignment[r.on] = "none"
      /\ request' \in {Answered(s), [request EXCEPT ![s].phase = "written"]}
  BY <1>1, <1>2 DEF WriteCommand, RewriteCommand, Write, Calls
<1>4. /\ \A u \in Slots \ {s} : request'[u] = request[u]
      /\ Holds(request'[s]) => /\ request'[s].on = r.on /\ request'[s].phase = "written"
                               /\ r.kind \in {"complete", "fail", "start"}
  <2>1. CASE request' = Done(s)
    BY <1>2, <2>1, DoneGood, NothingHolds DEF TypeInv
  <2>2. ASSUME NEW phase \in {"written", "served"}, request' = [request EXCEPT ![s].phase = phase]
        PROVE  /\ \A u \in Slots \ {s} : request'[u] = request[u]
               /\ Holds(request'[s]) => /\ request'[s].on = r.on /\ request'[s].phase = "written"
                                        /\ r.kind \in {"complete", "fail", "start"}
    <3>1. PICK q : q = [r EXCEPT !.phase = phase]
      OBVIOUS
    <3>2. request'[s] = q /\ \A u \in Slots \ {s} : request'[u] = request[u]
      BY <1>1, <1>2, <2>2, <3>1 DEF Requests
    <3>3. q.on = r.on /\ q.kind = r.kind /\ q.phase = phase
      BY <1>2, <3>1, PhaseChanged
    <3> QED BY <3>2, <3>3 DEF Holds
  <2> QED BY <1>3, <2>1, <2>2 DEF Answered
<1>5. \A u \in Slots : u # s /\ Holds(request[u]) /\ request[u].on = r.on => r.on \in contested
  <2> SUFFICES ASSUME NEW u \in Slots, u # s, Holds(request[u]), request[u].on = r.on,
                      r.on \notin contested
               PROVE  FALSE
    OBVIOUS
  <2>1. CASE r.kind = "accept"
    <3>1. request[u].phase = "written" /\ RequestGood(request[u])
      BY <1>3, <2>1 DEF SerialInv, Found, Holds, TypeInv, RequestsGood
    <3> QED BY <1>3, <2>1, <3>1 DEF RequestGood, Truth, After
  <2>2. CASE r.kind # "accept"
    BY <1>1, <1>2, <2>2 DEF SerialInv, Holds, Commands
  <2> QED BY <2>1, <2>2
<1> SUFFICES ASSUME NEW u \in Slots, Holds(request'[u]), request'[u].on \notin contested'
             PROVE  /\ request'[u].phase = "checked" => assignment'[request'[u].on] = Found(request'[u])
                    /\ \A v \in Slots : Holds(request'[v]) /\ request'[v].on = request'[u].on => v = u
  BY DEF SerialInv, Holds, Found
<1>6. CASE u = s
  BY <1>3, <1>4, <1>5, <1>6
<1>7. CASE u # s
  <2>1. Holds(request[u]) /\ request'[u] = request[u] /\ request[u].on # r.on
    BY <1>3, <1>4, <1>5, <1>7
  <2>2. request[u].phase = "checked" => assignment[request[u].on] = Found(request[u])
    BY <1>3, <2>1 DEF SerialInv
  <2>3. request[u].on \in Tasks
    BY <2>1 DEF Holds, TypeInv, RequestsGood, RequestGood
  <2>4. \A v \in Slots : Holds(request'[v]) /\ request'[v].on = request'[u].on => v = u
    BY <1>3, <1>4, <1>7, <2>1 DEF SerialInv
  <2> QED BY <1>2, <1>3, <2>1, <2>2, <2>3, <2>4 DEF ServerTyped
<1> QED BY <1>6, <1>7

LEMMA SerialStep == TypeInv /\ SerialInv /\ [Next]_vars => SerialInv'
<1> SUFFICES ASSUME TypeInv, SerialInv, [Next]_vars PROVE SerialInv'
  OBVIOUS
<1>1. ASSUME NEW s \in Slots, User(s) \/ Tick(s) \/ Deliver(s) \/ Failed(s) PROVE SerialInv'
  BY <1>1, UserKept, DeliverKept, FailedKept, KeptSerial
<1>2. ASSUME NEW s \in Slots, Serve(s) PROVE SerialInv'
  <2>1. CASE HandlerEnds(s)
    BY <2>1, DoneKept, KeptSerial DEF HandlerEnds, server
  <2> QED BY <1>2, <2>1, QueryKept, KeptSerial, CheckSerial, WriteSerial DEF Serve
<1>3. ASSUME NEW k \in Tasks, NEW kind \in Elsewhere, NEW s \in Slots,
             CommandElsewhere(kind, k, s)
      PROVE  SerialInv'
  <2>1. ~Holds([Sent(kind, k) EXCEPT !.gone = TRUE, !.live = FALSE])
    BY DEF Holds, Sent
  <2>2. Kept
    BY <1>3, <2>1, SlotKept DEF CommandElsewhere, Send, TypeInv, RequestsGood
  <2> QED BY <1>3, <2>2, KeptSerial DEF CommandElsewhere, server
<1>4. CASE UNCHANGED <<assignment, contested, request>>
  <2>1. Kept
    BY <1>4 DEF Kept
  <2> QED BY <1>4, <2>1, KeptSerial
<1>5. CASE \/ UNCHANGED vars \/ CloseModal
           \/ \E m \in {"complete", "fail"} : OpenModal(m) \/ DismissModal(m)
           \/ \E k \in Tasks : Advance(k) \/ FillUp(k)
  BY <1>4, <1>5 DEF vars, server, CloseModal, OpenModal, DismissModal, Advance, FillUp
<1> QED BY <1>1, <1>2, <1>3, <1>5 DEF Next

LEMMA Typed == Spec => [](TypeInv /\ SerialInv)
<1>1. Init => SerialInv
  BY NothingHolds DEF Init, SerialInv
<1> QED BY <1>1, TypedInit, TypedStep, SerialStep, PTL DEF Spec

\* The pages, the assignments and the requests keep their types: no page is shown, and no
\* command sent, for a task that does not exist.
THEOREM ProviderTypeCorrect == Spec => []TypeOK
  BY Typed, TypeInvImplies, PTL

\* What the dashboard announces is an outcome that the assignment has had; and it is what
\* the assignment became, unless two handlers had it in hand at once (as the modals of one
\* page, a retry or another tab bring about), whether the answer of the decision, a poll
\* or a late poll of another address brought it first (ProcessingPage.tsx:39 and 59,
\* useProgress.ts:44, task_lifecycle.py:117-134 and 241-257).
THEOREM AnnouncementsAreTrue == Spec => []AnnouncedOutcomeIsTrue
  BY Typed, TypeInvImplies, PTL

-----------------------------------------------------------------------------
(* What is disabled or loading while a request is in flight.                  *)

Heard(r, kinds) == r # NoRequest /\ r.kind \in kinds /\ r.live

Waits(requests, kinds) == \E s \in Slots : Heard(requests[s], kinds)

WaitInv ==
  /\ list.loading => Waits(request, {"tasks"})
  /\ detail.acceptLoading => Waits(request, {"accept", "refetch"})
  /\ detail.startLoading => Waits(request, {"start"})
  /\ processing.completing => Waits(request, {"complete"})
  /\ processing.failing => Waits(request, {"fail"})

LEMMA SlotWaits ==
  ASSUME NEW requests \in Requests, NEW s \in Slots, NEW r, NEW kinds,
         Heard(r, kinds) \/ (Waits(requests, kinds) /\ ~Heard(requests[s], kinds))
  PROVE  Waits([requests EXCEPT ![s] = r], kinds)
  BY DEF Waits, Requests

\* A flag that is on after a step was set with a request, or was on and keeps its own.
LEMMA StepWaits ==
  ASSUME TypeInv, WaitInv, NEW s \in Slots, NEW r, request' = [request EXCEPT ![s] = r],
         list'.loading => \/ Heard(r, {"tasks"})
                          \/ list.loading /\ ~Heard(request[s], {"tasks"}),
         detail'.acceptLoading =>
           \/ Heard(r, {"accept", "refetch"})
           \/ detail.acceptLoading /\ ~Heard(request[s], {"accept", "refetch"}),
         detail'.startLoading => \/ Heard(r, {"start"})
                                 \/ detail.startLoading /\ ~Heard(request[s], {"start"}),
         processing'.completing =>
           \/ Heard(r, {"complete"})
           \/ processing.completing /\ ~Heard(request[s], {"complete"}),
         processing'.failing => \/ Heard(r, {"fail"})
                                \/ processing.failing /\ ~Heard(request[s], {"fail"})
  PROVE  WaitInv'
<1> DEFINE W(kinds) == Waits([request EXCEPT ![s] = r], kinds)
<1>0. request \in Requests
  BY DEF TypeInv, RequestsGood
<1>1. list'.loading => W({"tasks"})
  BY <1>0, SlotWaits DEF WaitInv
<1>2. detail'.acceptLoading => W({"accept", "refetch"})
  BY <1>0, SlotWaits DEF WaitInv
<1>3. detail'.startLoading => W({"start"})
  BY <1>0, SlotWaits DEF WaitInv
<1>4. processing'.completing => W({"complete"})
  BY <1>0, SlotWaits DEF WaitInv
<1>5. processing'.failing => W({"fail"})
  BY <1>0, SlotWaits DEF WaitInv
<1>6. \A kinds : W(kinds) <=> Waits(request, kinds)'
  BY DEF Waits
<1> HIDE DEF W
<1> QED BY <1>1, <1>2, <1>3, <1>4, <1>5, <1>6 DEF WaitInv

\* A request that does not change its kind nor its listener.
LEMMA SameWaits ==
  ASSUME TypeInv, WaitInv, NEW s \in Slots, NEW r \in Request,
         request' = [request EXCEPT ![s] = r], request[s] # NoRequest,
         r.kind = request[s].kind, r.live = request[s].live,
         UNCHANGED <<list, detail, processing>>
  PROVE  WaitInv'
  BY StepWaits, NoRequestAssumption DEF Heard

LEMMA MountWaits ==
  ASSUME NEW name \in {"tasks", "detail", "processing", "dashboard"}, NEW k \in Tasks \cup {NoTask},
         NEW s \in Slots, NEW requests, RequestsGood(requests), Mount(name, k, s, requests)
  PROVE  WaitInv'
<1>1. ~detail'.acceptLoading /\ ~detail'.startLoading
  BY DEF Mount, EmptyDetail
<1>2. ~processing'.completing /\ ~processing'.failing
  BY DEF Mount, EmptyProcessing
<1>3. CASE name = "tasks"
  <2>1. request' = [Unheard(requests) EXCEPT ![s] = Sent("tasks", NoTask)]
    BY <1>3 DEF Mount
  <2>2. Heard(Sent("tasks", NoTask), {"tasks"})
    BY SentGood DEF Heard
  <2>3. Unheard(requests) \in Requests
    BY UnheardGood DEF RequestsGood
  <2>4. Waits(request', {"tasks"})
    BY <2>1, <2>2, <2>3, SlotWaits
  <2> QED BY <1>1, <1>2, <2>4 DEF WaitInv, Waits
<1>4. CASE name # "tasks"
  <2>1. ~list'.loading
    BY <1>4 DEF Mount, EmptyList
  <2> QED BY <1>1, <1>2, <2>1 DEF WaitInv
<1> QED BY <1>3, <1>4

LEMMA VisitWaits ==
  ASSUME TypeInv, NEW name \in {"tasks", "detail", "processing", "dashboard"},
         NEW k \in Tasks \cup {NoTask}, NEW s \in Slots, Visit(name, k, s)
  PROVE  WaitInv'
  BY MountWaits DEF Visit, TypeInv

\* An outcome arrives for which no button of the page shown waits, or the page is left.
LEMMA AnnounceWaits ==
  ASSUME TypeInv, WaitInv, NEW k \in Tasks, NEW outcome, NEW s \in Slots,
         request[s] # NoRequest, request[s].kind \in {"progress", "complete", "fail"},
         Announce(k, outcome, s)
  PROVE  WaitInv'
<1>1. CASE page.name = "dashboard"
  <2>1. /\ request' = [request EXCEPT ![s] = NoRequest]
        /\ UNCHANGED <<page, list, detail, processing>>
    BY <1>1 DEF Announce, Done
  <2>2. ~processing.completing /\ ~processing.failing /\ ~detail.startLoading
    BY <1>1 DEF TypeInv, ViewsGood
  <2>3. ~Heard(request[s], {"tasks"}) /\ ~Heard(request[s], {"accept", "refetch"})
    BY DEF Heard
  <2> QED BY <2>1, <2>2, <2>3, StepWaits
<1>2. CASE page.name # "dashboard"
  <2>1. RequestsGood(Done(s))
    BY DoneGood DEF TypeInv
  <2> QED BY <1>2, <2>1, MountWaits DEF Announce
<1> QED BY <1>1, <1>2

LEMMA fetchWaits ==
  ASSUME TypeInv, WaitInv, NEW filters \in SUBSET Filters, NEW s \in Slots,
         fetchTasks(filters, s)
  PROVE  WaitInv'
<1> DEFINE p == Sent("tasks", NoTask)
           r == [p EXCEPT !.filters = filters]
<1>1. /\ request' = [request EXCEPT ![s] = r] /\ request[s] = NoRequest
      /\ UNCHANGED <<detail, processing>>
  BY DEF fetchTasks, Send, Free
<1>2. p \in Request /\ p.kind = "tasks" /\ p.live
  BY SentGood DEF RequestGood
<1> HIDE DEF p
<1>3. r \in Request /\ r.kind = p.kind /\ r.live = p.live
  BY <1>2, FiltersChanged
<1> HIDE DEF r
<1>4. Heard(r, {"tasks"})
  BY <1>2, <1>3, NoRequestAssumption DEF Heard
<1>5. \A kinds : ~Heard(request[s], kinds)
  BY <1>1 DEF Heard
<1> QED BY <1>1, <1>4, <1>5, StepWaits

LEMMA UserWaits ==
  ASSUME TypeInv, WaitInv, NEW s \in Slots, User(s) \/ Tick(s)
  PROVE  WaitInv'
<1>1. ViewsGood /\ PageGood /\ list.filters \in SUBSET Filters
  BY DEF TypeInv, ViewsGood, List
<1>2. CASE GoToTasks(s) \/ GoToDashboard(s)
  BY <1>2, VisitWaits DEF GoToTasks, GoToDashboard
<1>3. ASSUME NEW k \in Tasks, OpenTask(k, s) \/ Return(k, s) PROVE WaitInv'
  BY <1>3, VisitWaits DEF OpenTask, Return
<1>4. CASE handleContinue(s)
  BY <1>1, <1>4, VisitWaits DEF handleContinue, OnDetail, PageGood
<1>5. CASE \/ clearFilters(s) \/ RetryTasks(s) \/ \E f \in Filters : toggleFilter(f, s)
  BY <1>1, <1>5, fetchWaits DEF toggleFilter, clearFilters, RetryTasks
<1>6. \A kinds : Free(s) => ~Heard(request[s], kinds)
  BY DEF Free, Heard
<1>7. \A kind \in Commands \cup {"progress"}, k \in Tasks : Heard(Sent(kind, k), {kind})
  BY SentGood DEF Heard
<1>8. Heard(Sent("accept", page.on), {"accept"}) => Heard(Sent("accept", page.on), {"accept", "refetch"})
  BY DEF Heard
<1>9. CASE handleAccept(s)
  <2>1. /\ page.on \in Tasks /\ Free(s) /\ UNCHANGED <<list, processing>>
        /\ request' = [request EXCEPT ![s] = Sent("accept", page.on)]
    BY <1>1, <1>9 DEF handleAccept, OffersAccept, OnDetail, PageGood, Send
  <2>2. detail'.startLoading = detail.startLoading
    BY <1>1, <1>9 DEF handleAccept, ViewsGood, Detail
  <2>3. Heard(Sent("accept", page.on), {"accept", "refetch"})
    BY <1>7, <1>8, <2>1 DEF Commands
  <2> QED BY <1>6, <2>1, <2>2, <2>3, StepWaits
<1>10. CASE handleStart(s)
  <2>1. /\ page.on \in Tasks /\ Free(s) /\ UNCHANGED <<list, processing>>
        /\ request' = [request EXCEPT ![s] = Sent("start", page.on)]
    BY <1>1, <1>10 DEF handleStart, OffersStart, OnDetail, PageGood, Send
  <2>2. detail'.acceptLoading = detail.acceptLoading
    BY <1>1, <1>10 DEF handleStart, ViewsGood, Detail
  <2> QED BY <1>6, <1>7, <2>1, <2>2, StepWaits DEF Commands
<1>11. CASE handleComplete(s)
  <2>1. /\ processing.on \in Tasks /\ Free(s) /\ UNCHANGED <<list, detail>>
        /\ request' = [request EXCEPT ![s] = Sent("complete", processing.on)]
    BY <1>1, <1>11 DEF handleComplete, ViewsGood, Send
  <2>2. processing'.failing = processing.failing
    BY <1>1, <1>11 DEF handleComplete, ViewsGood, Processing
  <2> QED BY <1>6, <1>7, <2>1, <2>2, StepWaits DEF Commands
<1>12. CASE handleFail(s)
  <2>1. /\ processing.on \in Tasks /\ Free(s) /\ UNCHANGED <<list, detail>>
        /\ request' = [request EXCEPT ![s] = Sent("fail", processing.on)]
    BY <1>1, <1>12 DEF handleFail, ViewsGood, Send
  <2>2. processing'.completing = processing.completing
    BY <1>1, <1>12 DEF handleFail, ViewsGood, Processing
  <2> QED BY <1>6, <1>7, <2>1, <2>2, StepWaits DEF Commands
<1>13. CASE Refetch(s) \/ Tick(s)
  <2>1. /\ Free(s) /\ UNCHANGED <<list, detail>>
        /\ request' = [request EXCEPT ![s] = Sent("progress", page.on)]
    BY <1>13 DEF Refetch, Tick, Send
  <2>2. processing'.completing = processing.completing /\ processing'.failing = processing.failing
    BY <1>1, <1>13 DEF Refetch, Tick, ViewsGood, Processing
  <2> QED BY <1>6, <2>1, <2>2, StepWaits
<1> QED BY <1>2, <1>3, <1>4, <1>5, <1>9, <1>10, <1>11, <1>12, <1>13 DEF User

LEMMA DeliverWaits ==
  ASSUME TypeInv, WaitInv, NEW s \in Slots, Deliver(s)
  PROVE  WaitInv'
<1>1. ViewsGood /\ (request[s] # NoRequest => RequestGood(request[s]))
  BY DEF TypeInv, RequestsGood
<1> DEFINE r == request[s]
<1>2. \A kinds, kind : Arrived(s, kind) /\ (kind \notin kinds \/ ~r.live) => ~Heard(r, kinds)
  BY DEF Arrived, Heard
<1>3. CASE TasksFetched(s)
  <2>1. /\ Arrived(s, "tasks") /\ UNCHANGED <<detail, processing>>
        /\ request' = [request EXCEPT ![s] = NoRequest]
    BY <1>3 DEF TasksFetched, Done
  <2>2. list'.loading => list.loading /\ ~r.live
    BY <1>1, <1>3 DEF TasksFetched, ViewsGood, List
  <2> QED BY <1>2, <2>1, <2>2, StepWaits
<1>4. CASE TaskFetched(s)
  <2>1. /\ Arrived(s, "task") /\ UNCHANGED <<list, processing>>
        /\ request' = [request EXCEPT ![s] = NoRequest]
    BY <1>4 DEF TaskFetched, Done
  <2>2. detail'.acceptLoading = detail.acceptLoading /\ detail'.startLoading = detail.startLoading
    BY <1>1, <1>4 DEF TaskFetched, ViewsGood, Detail
  <2> QED BY <1>2, <2>1, <2>2, StepWaits
<1>5. CASE TaskRefetched(s)
  <2>1. /\ Arrived(s, "refetch") /\ UNCHANGED <<list, processing>>
        /\ request' = [request EXCEPT ![s] = NoRequest]
    BY <1>5 DEF TaskRefetched, Done
  <2>2. /\ detail'.acceptLoading => detail.acceptLoading /\ ~r.live
        /\ detail'.startLoading = detail.startLoading
    BY <1>1, <1>5 DEF TaskRefetched, ViewsGood, Detail
  <2> QED BY <1>2, <2>1, <2>2, StepWaits
<1>6. CASE TaskAccepted(s)
  <2> DEFINE p == Sent("refetch", r.on)
             b == r.live
             q == [p EXCEPT !.live = b]
  <2>1. /\ Arrived(s, "accept") /\ UNCHANGED <<list, processing>>
        /\ request' = [request EXCEPT ![s] = q]
    BY <1>6 DEF TaskAccepted
  <2>2. /\ detail'.acceptLoading = detail.acceptLoading
        /\ detail'.startLoading = detail.startLoading
    BY <1>1, <1>6 DEF TaskAccepted, ViewsGood, Detail
  <2>3. RequestGood(r) /\ r.on \in Tasks /\ b \in BOOLEAN
    BY <1>1, <2>1 DEF Arrived, RequestGood, Request
  <2>4. p \in Request /\ p.kind = "refetch"
    BY <2>3, SentGood DEF RequestGood
  <2>5. b => ~Heard(r, {"tasks"}) /\ ~Heard(r, {"start"}) /\ ~Heard(r, {"complete"}) /\ ~Heard(r, {"fail"})
    BY <1>2, <2>1
  <2>6. ~b => \A kinds : ~Heard(r, kinds)
    BY DEF Heard
  <2> HIDE DEF p, b
  <2>7. q \in Request /\ q.kind = p.kind /\ q.live = b
    BY <2>3, <2>4, LiveChanged
  <2> HIDE DEF q
  <2>8. b => Heard(q, {"accept", "refetch"})
    BY <2>4, <2>7, NoRequestAssumption DEF Heard
  <2>9. CASE b
    BY <2>1, <2>2, <2>5, <2>8, <2>9, StepWaits
  <2>10. CASE ~b
    BY <2>1, <2>2, <2>6, <2>10, StepWaits
  <2> QED BY <2>9, <2>10
<1>7. CASE TaskStarted(s)
  <2>1. Arrived(s, "start") /\ r.on \in Tasks
    BY <1>1, <1>7 DEF TaskStarted, Arrived, RequestGood
  <2>2. CASE page.name = "processing"
    <3>1. PICK p : /\ request' = [request EXCEPT ![s] = p]
                   /\ UNCHANGED <<list, detail, processing>>
      BY <1>7, <2>2 DEF TaskStarted, Readdress, Done, TypeInv, RequestsGood, Requests
    <3>2. ~detail.startLoading
      BY <1>1, <2>2 DEF ViewsGood
    <3> QED BY <1>2, <2>1, <3>1, <3>2, StepWaits
  <2>3. CASE page.name # "processing"
    <3>1. RequestsGood(Done(s))
      BY DoneGood DEF TypeInv
    <3> QED BY <1>7, <2>1, <2>3, <3>1, MountWaits DEF TaskStarted
  <2> QED BY <2>2, <2>3
<1>8. CASE ProgressFetched(s)
  <2>1. Arrived(s, "progress") /\ r.on \in Tasks
    BY <1>1, <1>8 DEF ProgressFetched, Arrived, RequestGood
  <2>2. CASE r.live /\ r.got \in Outcomes
    BY <1>8, <2>1, <2>2, AnnounceWaits DEF ProgressFetched, Arrived
  <2>3. CASE ~(r.live /\ r.got \in Outcomes)
    <3>1. /\ request' = [request EXCEPT ![s] = NoRequest]
          /\ UNCHANGED <<list, detail>>
      BY <1>8, <2>3 DEF ProgressFetched, Done
    <3>2. /\ processing'.completing = processing.completing
          /\ processing'.failing = processing.failing
      BY <1>1, <1>8, <2>3 DEF ProgressFetched, ViewsGood, Processing
    <3> QED BY <1>2, <2>1, <3>1, <3>2, StepWaits
  <2> QED BY <2>2, <2>3
<1>9. CASE Completed(s) \/ FailureReported(s)
  <2>1. r.on \in Tasks /\ r # NoRequest /\ r.kind \in {"complete", "fail"}
    BY <1>1, <1>9 DEF Completed, FailureReported, Arrived, RequestGood
  <2> QED BY <1>9, <2>1, AnnounceWaits DEF Completed, FailureReported
<1> QED BY <1>3, <1>4, <1>5, <1>6, <1>7, <1>8, <1>9 DEF Deliver

\* The error of a command or a query ends the wait for it.
LEMMA ErrorEnds ==
  ASSUME ViewsGood, NEW kind
  PROVE  /\ AfterErrorOnList(kind).loading => list.loading /\ kind # "tasks"
         /\ AfterErrorOnDetail(kind).acceptLoading =>
              detail.acceptLoading /\ kind \notin {"accept", "refetch"}
         /\ AfterErrorOnDetail(kind).startLoading => detail.startLoading /\ kind # "start"
         /\ AfterErrorOnProcessing(kind).completing =>
              processing.completing /\ kind # "complete"
         /\ AfterErrorOnProcessing(kind).failing => processing.failing /\ kind # "fail"
<1>1. AfterErrorOnList(kind).loading => list.loading /\ kind # "tasks"
  BY DEF ViewsGood, List, AfterErrorOnList
<1>2. /\ AfterErrorOnDetail(kind).acceptLoading =>
           detail.acceptLoading /\ kind \notin {"accept", "refetch"}
      /\ AfterErrorOnDetail(kind).startLoading => detail.startLoading /\ kind # "start"
  BY DEF ViewsGood, Detail, AfterErrorOnDetail
<1>3. /\ AfterErrorOnProcessing(kind).completing => processing.completing /\ kind # "complete"
      /\ AfterErrorOnProcessing(kind).failing => processing.failing /\ kind # "fail"
  BY DEF ViewsGood, Processing, AfterErrorOnProcessing
<1> QED BY <1>1, <1>2, <1>3

LEMMA FailedWaits ==
  ASSUME TypeInv, WaitInv, NEW s \in Slots, Failed(s)
  PROVE  WaitInv'
<1> DEFINE r == request[s]
<1>1. ViewsGood /\ r # NoRequest /\ RequestGood(r)
  BY DEF TypeInv, RequestsGood, Failed, Free
<1>2. PICK q : request' = [request EXCEPT ![s] = q]
  <2>1. request' \in {Done(s), [request EXCEPT ![s].gone = TRUE, ![s].live = FALSE]}
    BY DEF Failed
  <2> QED BY <2>1 DEF Done, TypeInv, RequestsGood, Requests
<1>3. CASE r.live
  <2>1. /\ list' = AfterErrorOnList(r.kind)
        /\ detail' = AfterErrorOnDetail(r.kind)
        /\ processing' = AfterErrorOnProcessing(r.kind)
    BY <1>3 DEF Failed
  <2> QED BY <1>1, <1>2, <2>1, ErrorEnds, StepWaits DEF Heard
<1>4. CASE ~r.live
  <2>1. UNCHANGED <<list, detail, processing>>
    BY <1>4 DEF Failed
  <2> QED BY <1>2, <1>4, <2>1, StepWaits DEF Heard
<1> QED BY <1>3, <1>4

LEMMA ServeWaits ==
  ASSUME TypeInv, WaitInv, NEW s \in Slots, Serve(s)
  PROVE  WaitInv'
<1>1. PICK r : r = request[s]
  OBVIOUS
<1>2. /\ r # NoRequest /\ RequestGood(r) /\ r \in Request /\ request \in Requests
      /\ UNCHANGED <<list, detail, processing>>
  BY <1>1 DEF Serve, CheckCommand, WriteCommand, RewriteCommand, HandlerEnds, ServeQuery, Calls,
              Free, TypeInv, RequestsGood, RequestGood
<1>3. CASE r.gone /\ request' = Done(s)
  <2>1. ~r.live
    BY <1>2, <1>3 DEF RequestGood
  <2> QED BY <1>1, <1>2, <1>3, <2>1, StepWaits DEF Done, Heard
<1>4. ASSUME NEW phase \in {"checked", "written", "served"},
             request' = [request EXCEPT ![s].phase = phase]
      PROVE  WaitInv'
  <2>1. PICK q : q = [r EXCEPT !.phase = phase]
    OBVIOUS
  <2>2. request' = [request EXCEPT ![s] = q]
    BY <1>1, <1>2, <1>4, <2>1 DEF Requests
  <2>3. q \in Request /\ q.kind = r.kind /\ q.live = r.live
    BY <1>2, <2>1, PhaseChanged
  <2> QED BY <1>1, <1>2, <2>2, <2>3, SameWaits
<1>5. CASE request' = Answered(s)
  BY <1>1, <1>3, <1>4, <1>5 DEF Answered
<1>6. CASE ServeQuery(s)
  <2>1. PICK q : /\ RequestGood(q) /\ q.kind = r.kind /\ q.live = r.live
                 /\ request' = [request EXCEPT ![s] = q]
    BY <1>1, <1>6, QueryAnswered
  <2> QED BY <1>1, <1>2, <2>1, SameWaits DEF RequestGood
<1>7. CASE HandlerEnds(s)
  BY <1>1, <1>3, <1>7 DEF HandlerEnds
<1>8. CASE CheckCommand(s) \/ WriteCommand(s) \/ RewriteCommand(s)
  BY <1>4, <1>5, <1>8 DEF CheckCommand, WriteCommand, RewriteCommand
<1> QED BY <1>6, <1>7, <1>8 DEF Serve

\* A command of another tab is nothing that this page waits for.
LEMMA ElsewhereWaits ==
  ASSUME TypeInv, WaitInv, NEW kind, NEW k, NEW s \in Slots, CommandElsewhere(kind, k, s)
  PROVE  WaitInv'
<1>1. PICK q : request' = [request EXCEPT ![s] = q] /\ Free(s) /\ UNCHANGED <<list, detail, processing>>
  BY DEF CommandElsewhere, Send
<1>2. \A kinds : ~Heard(request[s], kinds)
  BY <1>1 DEF Free, Heard
<1> QED BY <1>1, <1>2, StepWaits DEF WaitInv

LEMMA WaitStep == TypeInv /\ WaitInv /\ [Next]_vars => WaitInv'
<1> SUFFICES ASSUME TypeInv, WaitInv, [Next]_vars PROVE WaitInv'
  OBVIOUS
<1>1. ASSUME NEW s \in Slots, User(s) \/ Tick(s) \/ Deliver(s) \/ Failed(s) \/ Serve(s)
      PROVE  WaitInv'
  BY <1>1, UserWaits, DeliverWaits, FailedWaits, ServeWaits
<1>2. ASSUME NEW m \in {"complete", "fail"}, OpenModal(m) \/ DismissModal(m) PROVE WaitInv'
  <2>1. UNCHANGED <<list, detail, request>>
    BY <1>2 DEF OpenModal, DismissModal
  <2>2. processing'.completing = processing.completing /\ processing'.failing = processing.failing
    BY <1>2 DEF OpenModal, DismissModal, TypeInv, ViewsGood, Processing
  <2> QED BY <2>1, <2>2 DEF WaitInv, Waits
<1>3. CASE UNCHANGED <<list, detail, processing, request>>
  BY <1>3 DEF WaitInv, Waits
<1>4. ASSUME NEW k \in Tasks, NEW kind \in Elsewhere, NEW s \in Slots,
             CommandElsewhere(kind, k, s)
      PROVE  WaitInv'
  BY <1>4, ElsewhereWaits
<1> QED BY <1>1, <1>2, <1>3, <1>4 DEF Next, vars, CloseModal, Advance, FillUp

\* No list stays a skeleton and no button disabled once its request has ended: each flag
\* is held by a request that the page shown still listens to, through the second request
\* of an acceptance and through commands that are given up and carried out later
\* (TaskListPage.tsx:81, TaskDetailPage.tsx:69, ProcessingPage.tsx:45).
THEOREM FlagsAreReleased == Spec => []BusyMeansWaiting
<1>1. Init => WaitInv
  BY DEF Init, EmptyList, EmptyDetail, EmptyProcessing, WaitInv
<1>2. WaitInv => BusyMeansWaiting
  BY DEF WaitInv, Waits, Heard, BusyMeansWaiting, Free
<1> QED BY <1>1, <1>2, Typed, WaitStep, PTL DEF Spec

=============================================================================
