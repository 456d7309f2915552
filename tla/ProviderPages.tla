--------------------------- MODULE ProviderPages ---------------------------
(***************************************************************************)
(* The pages on which a provider looks for a task, accepts and starts it,  *)
(* watches its progress and completes it or reports a failure              *)
(* (TaskListPage, TaskDetailPage, ProcessingPage with useProgress,         *)
(* DashboardPage).  The assignment itself lives in the backend (see        *)
(* TaskMarket) and may move without the pages: the provider may use        *)
(* another tab, and a command may be carried out whose answer is lost, or  *)
(* after the page gave up waiting for it.  The handler of a command reads  *)
(* the assignment, writes it, and writes it once more in calls of their    *)
(* own, with other handlers in between, and may end after any of them.     *)
(*                                                                         *)
(* A component that is left keeps its promises: their answers no longer    *)
(* change what it showed, but still navigate.                              *)
(***************************************************************************)
EXTENDS Naturals, FiniteSets

CONSTANTS
  Tasks,                    \* a provider has one assignment for each
  Filters,                  \* of the list of tasks, each set or not
  Slots,                    \* bound: requests that may be in flight together
  Elsewhere,                \* bound: the commands that another tab may send
  MAX_CONSECUTIVE_ERRORS,   \* of polling, before the page shows an error
  NoTask, NoRequest

ASSUME ProviderPagesAssumption ==
  /\ NoTask \notin Tasks
  /\ MAX_CONSECUTIVE_ERRORS \in Nat \ {0}

VARIABLES
  assignment,  \* status of the provider's assignment to each task in the backend
  ready,       \* the tasks whose progress has reached 80%
  full,        \* the tasks that have no slot left
  had,         \* history: the outcomes each assignment has had
  contested,   \* history: the tasks that two handlers had in hand at once
  page,        \* the page shown and the task in its address
  list,        \* state of TaskListPage
  detail,      \* state of TaskDetailPage
  processing,  \* state of ProcessingPage and useProgress
  announced,   \* the outcome in the modal of DashboardPage
  request      \* requests in flight

server == <<assignment, ready, full, had, contested>>
vars == <<assignment, ready, full, had, contested, page, list, detail, processing, announced, request>>

AssignmentStatus == {"none", "aceptada", "procesando", "completada", "fallida"}
Outcomes == {"completada", "fallida"}

\* "dashboard" stands for all other pages too.
Page == [name : {"tasks", "detail", "processing", "dashboard"}, on : Tasks \cup {NoTask}]

\* listed: some answer has been listed; shown: the filters it was asked with.
List ==
  [filters : SUBSET Filters, listed : BOOLEAN, shown : SUBSET Filters, loading : BOOLEAN,
   error : BOOLEAN]

\* task: the status of the active assignment as last fetched.
Detail ==
  [task : {"unknown", "none", "aceptada", "procesando"}, noSlots : BOOLEAN,
   loading : BOOLEAN, accepted : BOOLEAN, acceptLoading : BOOLEAN, startLoading : BOOLEAN]

\* progress: the status as last polled, on: of which task.  modal: the confirmations
\* that are open.
Processing ==
  [on : Tasks \cup {NoTask}, progress : AssignmentStatus \cup {"unknown"}, canComplete : BOOLEAN, loading : BOOLEAN,
   errors : 0..MAX_CONSECUTIVE_ERRORS, modal : SUBSET {"complete", "fail"},
   completing : BOOLEAN, failing : BOOLEAN]

\* on: whose outcome it is; the dashboard itself shows the outcome alone.
Announcement == [on : Tasks \cup {NoTask}, outcome : Outcomes \cup {"none"}]

Commands == {"accept", "start", "complete", "fail"}

ASSUME ElsewhereAssumption == Elsewhere \subseteq Commands

\* phase: checked, written: the handler of a command has read, has written the
\* assignment.  got, can: the answer.  gone: no page waits for the answer, and the server
\* goes on.  live: the page that sent it is still there.
Request ==
  [kind : Commands \cup {"tasks", "task", "refetch", "progress"}, on : Tasks \cup {NoTask},
   filters : SUBSET Filters,
   phase : {"sent", "checked", "written", "served"}, got : AssignmentStatus \cup {"unknown"},
   can : BOOLEAN, gone : BOOLEAN, live : BOOLEAN]

ASSUME NoRequestAssumption == NoRequest \notin Request

TypeOK ==
  /\ assignment \in [Tasks -> AssignmentStatus]
  /\ ready \subseteq Tasks /\ full \subseteq Tasks
  /\ had \in [Tasks -> SUBSET Outcomes] /\ contested \subseteq Tasks
  /\ page \in Page
  /\ list \in List
  /\ detail \in Detail
  /\ processing \in Processing
  /\ announced \in Announcement
  /\ \A s \in Slots : request[s] # NoRequest => request[s] \in Request

-----------------------------------------------------------------------------
EmptyList ==
  [filters |-> {}, listed |-> FALSE, shown |-> {}, loading |-> FALSE, error |-> FALSE]

EmptyDetail ==
  [task |-> "unknown", noSlots |-> FALSE, loading |-> FALSE, accepted |-> FALSE,
   acceptLoading |-> FALSE, startLoading |-> FALSE]

EmptyProcessing ==
  [on |-> NoTask, progress |-> "unknown", canComplete |-> FALSE, loading |-> FALSE, errors |-> 0,
   modal |-> {}, completing |-> FALSE, failing |-> FALSE]

Nothing == [on |-> NoTask, outcome |-> "none"]

Sent(kind, k) ==
  [kind |-> kind, on |-> k, filters |-> {}, phase |-> "sent", got |-> "unknown",
   can |-> FALSE, gone |-> FALSE, live |-> TRUE]

Free(s) == request[s] = NoRequest

Arrived(s, kind) ==
  request[s] # NoRequest /\ request[s].phase = "served" /\ request[s].kind = kind

Send(s, r) == Free(s) /\ request' = [request EXCEPT ![s] = r]
Done(s) == [request EXCEPT ![s] = NoRequest]

Unheard(requests) ==
  [s \in Slots |-> IF requests[s] = NoRequest THEN NoRequest
                   ELSE [requests[s] EXCEPT !.live = FALSE]]

\* Leaves the page shown for another one, which begins by fetching what it shows, from
\* slot s.
Mount(name, k, s, requests) ==
  /\ page' = [name |-> name, on |-> k]
  /\ list' = [EmptyList EXCEPT !.loading = name = "tasks"]
  /\ detail' = [EmptyDetail EXCEPT !.loading = name = "detail"]
  /\ processing' = [EmptyProcessing EXCEPT !.loading = name = "processing"]
  /\ request' = [Unheard(requests) EXCEPT ![s] =
                   CASE name = "tasks"      -> Sent("tasks", NoTask)
                     [] name = "detail"     -> Sent("task", k)
                     [] name = "processing" -> Sent("progress", k)
                     [] OTHER               -> NoRequest]

\* From one processing page to another: React keeps the component, what it shows and its
\* listeners, polls of the former address included.
Readdress(k, s, requests) ==
  /\ page' = [page EXCEPT !.on = k]
  /\ request' = [requests EXCEPT ![s] = Sent("progress", k)]
  /\ UNCHANGED <<list, detail, processing>>

\* navigate('/dashboard', ...): the dashboard announces the outcome, also when it is
\* the page shown.
Announce(k, outcome, s) ==
  /\ announced' = [on |-> k, outcome |-> outcome]
  /\ IF page.name = "dashboard" THEN request' = Done(s) /\ UNCHANGED <<page, list, detail, processing>>
     ELSE Mount("dashboard", NoTask, s, Done(s))

Visit(name, k, s) ==
  /\ Free(s)
  /\ Mount(name, k, s, request)
  /\ announced' = Nothing
  /\ UNCHANGED server

OnTasks == page.name = "tasks" /\ list.listed

-----------------------------------------------------------------------------
(* DashboardPage, and the ways between the pages.                          *)

GoToTasks(s)     == page.name # "tasks" /\ Visit("tasks", NoTask, s)
GoToDashboard(s) == page.name # "dashboard" /\ Visit("dashboard", NoTask, s)
OpenTask(k, s)   == OnTasks /\ ~list.loading /\ Visit("detail", k, s)

\* The address of the processing page, typed or kept, leads back to it.
Return(k, s) == page.name = "dashboard" /\ assignment[k] # "none" /\ Visit("processing", k, s)

CloseModal ==
  /\ announced # Nothing
  /\ announced' = Nothing
  /\ UNCHANGED <<server, page, list, detail, processing, request>>

-----------------------------------------------------------------------------
(* TaskListPage.                                                           *)

\* fetchTasks runs again whenever a filter changes, and after an error on demand.  It
\* does not wait for, nor cancel, what is in flight.
fetchTasks(filters, s) ==
  /\ page.name = "tasks"
  /\ list' = [list EXCEPT !.filters = filters, !.loading = TRUE, !.error = FALSE]
  /\ Send(s, [Sent("tasks", NoTask) EXCEPT !.filters = filters])
  /\ UNCHANGED <<server, page, detail, processing, announced>>

toggleFilter(f, s) ==
  fetchTasks(IF f \in list.filters THEN list.filters \ {f} ELSE list.filters \cup {f}, s)

clearFilters(s) == list.filters # {} /\ fetchTasks({}, s)

RetryTasks(s) == list.error /\ fetchTasks(list.filters, s)

\* The answer is listed, whatever filters are set by now.
TasksFetched(s) ==
  LET r == request[s] IN
  /\ Arrived(s, "tasks")
  /\ list' = IF r.live THEN [list EXCEPT !.listed = TRUE, !.shown = r.filters,
                                           !.loading = FALSE] ELSE list
  /\ request' = Done(s)
  /\ UNCHANGED <<server, page, detail, processing, announced>>

-----------------------------------------------------------------------------
(* TaskDetailPage.                                                         *)

OnDetail == page.name = "detail" /\ ~detail.loading /\ detail.task # "unknown"

isProcessing == detail.task = "procesando"
OffersStart == OnDetail /\ ~isProcessing /\ (detail.task = "aceptada" \/ detail.accepted)
OffersAccept == OnDetail /\ detail.task = "none" /\ ~detail.accepted /\ ~detail.noSlots

handleAccept(s) ==
  /\ OffersAccept /\ ~detail.acceptLoading
  /\ detail' = [detail EXCEPT !.acceptLoading = TRUE]
  /\ Send(s, Sent("accept", page.on))
  /\ UNCHANGED <<server, page, list, processing, announced>>

handleStart(s) ==
  /\ OffersStart /\ ~detail.startLoading
  /\ detail' = [detail EXCEPT !.startLoading = TRUE]
  /\ Send(s, Sent("start", page.on))
  /\ UNCHANGED <<server, page, list, processing, announced>>

handleContinue(s) == OnDetail /\ isProcessing /\ Visit("processing", page.on, s)

\* fetchTask: an active assignment counts as accepted.
TaskFetched(s) ==
  LET r == request[s] IN
  /\ Arrived(s, "task")
  /\ detail' = IF r.live THEN [detail EXCEPT !.task = r.got, !.noSlots = r.can,
                                             !.accepted = @ \/ r.got # "none",
                                             !.loading = FALSE]
               ELSE detail
  /\ request' = Done(s)
  /\ UNCHANGED <<server, page, list, processing, announced>>

\* handleAccept goes on by fetching the task again.
TaskAccepted(s) ==
  LET r == request[s] IN
  /\ Arrived(s, "accept")
  /\ detail' = IF r.live THEN [detail EXCEPT !.accepted = TRUE] ELSE detail
  /\ request' = [request EXCEPT ![s] = [Sent("refetch", r.on) EXCEPT !.live = r.live]]
  /\ UNCHANGED <<server, page, list, processing, announced>>

TaskRefetched(s) ==
  LET r == request[s] IN
  /\ Arrived(s, "refetch")
  /\ detail' = IF r.live THEN [detail EXCEPT !.task = r.got, !.noSlots = r.can,
                                             !.acceptLoading = FALSE]
               ELSE detail
  /\ request' = Done(s)
  /\ UNCHANGED <<server, page, list, processing, announced>>

\* Navigates, also when another page is shown by now.
TaskStarted(s) ==
  LET k == request[s].on IN
  /\ Arrived(s, "start")
  /\ announced' = Nothing
  /\ IF page.name # "processing" THEN Mount("processing", k, s, Done(s))
     ELSE IF page.on # k THEN Readdress(k, s, Done(s))
     ELSE request' = Done(s) /\ UNCHANGED <<page, list, detail, processing>>
  /\ UNCHANGED server

-----------------------------------------------------------------------------
(* ProcessingPage and useProgress.                                         *)

OnProcessing == page.name = "processing" /\ processing.progress # "unknown"

\* The buttons of the page open a confirmation each.
OpenModal(m) ==
  /\ OnProcessing /\ ~processing.completing /\ ~processing.failing
  /\ m = "complete" => processing.canComplete
  /\ processing' = [processing EXCEPT !.modal = @ \cup {m}]
  /\ UNCHANGED <<server, page, list, detail, announced, request>>

DismissModal(m) ==
  /\ m \in processing.modal
  /\ ~(IF m = "complete" THEN processing.completing ELSE processing.failing)
  /\ processing' = [processing EXCEPT !.modal = @ \ {m}]
  /\ UNCHANGED <<server, page, list, detail, announced, request>>

handleComplete(s) ==
  /\ "complete" \in processing.modal /\ ~processing.completing
  /\ processing' = [processing EXCEPT !.completing = TRUE]
  /\ Send(s, Sent("complete", processing.on))
  /\ UNCHANGED <<server, page, list, detail, announced>>

handleFail(s) ==
  /\ "fail" \in processing.modal /\ ~processing.failing
  /\ processing' = [processing EXCEPT !.failing = TRUE]
  /\ Send(s, Sent("fail", processing.on))
  /\ UNCHANGED <<server, page, list, detail, announced>>

Completed(s) ==
  /\ Arrived(s, "complete")
  /\ Announce(request[s].on, "completada", s)
  /\ UNCHANGED server

FailureReported(s) ==
  /\ Arrived(s, "fail")
  /\ Announce(request[s].on, "fallida", s)
  /\ UNCHANGED server

\* Mutant: polling ends after so many errors.
TickUntilErrors(s) ==
  /\ page.name = "processing" /\ processing.errors < MAX_CONSECUTIVE_ERRORS
  /\ Send(s, Sent("progress", page.on))
  /\ UNCHANGED <<server, page, list, detail, processing, announced>>

\* The interval of useProgress lasts as long as the page: errors do not stop it.
Tick(s) ==
  /\ page.name = "processing"
  /\ Send(s, Sent("progress", page.on))
  /\ UNCHANGED <<server, page, list, detail, processing, announced>>

\* fetchProgress: a component that was left ignores the answer; an outcome ends polling
\* and is announced.
ProgressFetched(s) ==
  LET r == request[s] IN
  /\ Arrived(s, "progress")
  /\ IF ~r.live THEN request' = Done(s) /\ UNCHANGED <<page, list, detail, processing, announced>>
     ELSE IF r.got \in Outcomes THEN Announce(r.on, r.got, s)
     ELSE /\ processing' = [processing EXCEPT !.on = r.on, !.progress = r.got,
                              !.canComplete = r.can, !.errors = 0, !.loading = FALSE]
          /\ request' = Done(s)
          /\ UNCHANGED <<page, list, detail, announced>>
  /\ UNCHANGED server

\* refetch: offered with the error of the first load.
Refetch(s) ==
  /\ page.name = "processing" /\ processing.progress = "unknown" /\ ~processing.loading
  /\ processing' = [processing EXCEPT !.errors = 0]
  /\ Send(s, Sent("progress", page.on))
  /\ UNCHANGED <<server, page, list, detail, announced>>

-----------------------------------------------------------------------------
\* What a page that still waits for it does about an error.
AfterErrorOnDetail(kind) ==
  CASE kind = "task"                  -> [detail EXCEPT !.loading = FALSE]
    [] kind \in {"accept", "refetch"} -> [detail EXCEPT !.acceptLoading = FALSE]
    [] kind = "start"                 -> [detail EXCEPT !.startLoading = FALSE]
    [] OTHER                          -> detail

AfterErrorOnProcessing(kind) ==
  CASE kind = "progress" ->
         [processing EXCEPT !.loading = FALSE,
            !.errors = IF @ < MAX_CONSECUTIVE_ERRORS THEN @ + 1 ELSE @]
    [] kind = "complete" -> [processing EXCEPT !.completing = FALSE]
    [] kind = "fail"     -> [processing EXCEPT !.failing = FALSE]
    [] OTHER             -> processing

\* Mutant: an error leaves the list loading.
AfterErrorOnListLoading(kind) ==
  IF kind = "tasks" THEN [list EXCEPT !.error = TRUE] ELSE list

AfterErrorOnList(kind) ==
  IF kind = "tasks" THEN [list EXCEPT !.loading = FALSE, !.error = TRUE] ELSE list

\* A request is refused, its handler fails at some call, its answer is lost, or it times
\* out.  A command that timed out may be carried out all the same, later.
Failed(s) ==
  LET r == request[s] IN
  /\ ~Free(s) /\ ~r.gone
  /\ IF r.live
     THEN /\ list' = AfterErrorOnList(r.kind)
          /\ detail' = AfterErrorOnDetail(r.kind)
          /\ processing' = AfterErrorOnProcessing(r.kind)
     ELSE UNCHANGED <<list, detail, processing>>
  /\ \/ request' = Done(s)
     \/ /\ r.phase # "served" /\ r.kind \in Commands
        /\ request' = [request EXCEPT ![s].gone = TRUE, ![s].live = FALSE]
  /\ UNCHANGED <<server, page, announced>>

-----------------------------------------------------------------------------
(* The backend: task_lifecycle.py and routers/tasks.py.                    *)

\* Mutant: an assignment that has its outcome is completed, or failed, once more.
AcceptsEnded(kind, k) ==
  CASE kind = "accept" -> assignment[k] \notin {"aceptada", "procesando"} /\ k \notin full
    [] kind = "start"  -> assignment[k] = "aceptada"
    [] OTHER           -> assignment[k] \notin {"none", "aceptada"}

\* What a handler finds of the assignment before it goes on; an outcome bars no new
\* acceptance here.
Accepts(kind, k) ==
  CASE kind = "accept" -> assignment[k] \notin {"aceptada", "procesando"} /\ k \notin full
    [] kind = "start"  -> assignment[k] = "aceptada"
    [] OTHER           -> assignment[k] = "procesando"

\* Mutant: the server writes a status that the pages do not know.
AfterUnknown(kind) ==
  CASE kind = "accept"   -> "aceptada"  [] kind = "start" -> "procesando"
    [] kind = "complete" -> "pagada"    [] OTHER          -> "fallida"

After(kind) ==
  CASE kind = "accept"   -> "aceptada"   [] kind = "start" -> "procesando"
    [] kind = "complete" -> "completada" [] OTHER          -> "fallida"

\* The handler of slot s will write the assignment to k that some handler has found.
InHand(s, k) ==
  /\ ~Free(s) /\ request[s].kind \in {"start", "complete", "fail"}
  /\ request[s].on = k /\ request[s].phase \in {"checked", "written"}

Calls(s, phase) == ~Free(s) /\ request[s].kind \in Commands /\ request[s].phase = phase

\* The first calls of a handler: it reads the assignment, and takes a slot to accept.
CheckCommand(s) ==
  LET r == request[s] IN
  /\ Calls(s, "sent")
  /\ Accepts(r.kind, r.on)
  /\ request' = [request EXCEPT ![s].phase = "checked"]
  /\ contested' = IF r.kind # "accept" /\ (\E u \in Slots : InHand(u, r.on))
                  THEN contested \cup {r.on} ELSE contested
  /\ UNCHANGED <<assignment, ready, full, had, page, list, detail, processing, announced>>

\* update_assignment_status: nothing is compared with what the handler found.
Write(k, status) ==
  /\ assignment' = [assignment EXCEPT ![k] = status]
  /\ had' = [had EXCEPT ![k] = @ \cup ({status} \cap Outcomes)]

\* The handler ends; nobody hears of a command that was given up.
Answered(s) ==
  IF request[s].gone THEN Done(s) ELSE [request EXCEPT ![s].phase = "served"]

\* A row is inserted only where there is none.  The clock of a task that is started
\* begins anew.
WriteCommand(s) ==
  LET r == request[s] IN
  /\ Calls(s, "checked")
  /\ r.kind = "accept" => assignment[r.on] = "none"
  /\ Write(r.on, After(r.kind))
  /\ ready' = IF r.kind = "start" THEN ready \ {r.on} ELSE ready
  /\ request' = IF r.kind \in {"complete", "fail"}
                THEN [request EXCEPT ![s].phase = "written"] ELSE Answered(s)
  /\ UNCHANGED <<full, contested, page, list, detail, processing, announced>>

\* The outcome is written again with trust_delta.
RewriteCommand(s) ==
  /\ Calls(s, "written")
  /\ Write(request[s].on, After(request[s].kind))
  /\ request' = Answered(s)
  /\ UNCHANGED <<ready, full, contested, page, list, detail, processing, announced>>

\* The handler of a command that was given up refuses it, or fails at some call.
HandlerEnds(s) ==
  /\ ~Free(s) /\ request[s].gone
  /\ request' = Done(s)
  /\ UNCHANGED <<server, page, list, detail, processing, announced>>

ActiveStatus(k) == IF assignment[k] \in {"aceptada", "procesando"} THEN assignment[k] ELSE "none"

ServeQuery(s) ==
  LET r == request[s] IN
  /\ ~Free(s) /\ r.phase = "sent" /\ r.kind \notin Commands
  /\ request' = [request EXCEPT ![s].phase = "served",
       ![s].got = CASE r.kind = "tasks"    -> "unknown"
                    [] r.kind = "progress" -> assignment[r.on]
                    [] OTHER               -> ActiveStatus(r.on),
       ![s].can = IF r.kind = "progress"
                  THEN assignment[r.on] = "procesando" /\ r.on \in ready
                  ELSE r.on \in full]
  /\ UNCHANGED <<server, page, list, detail, processing, announced>>

\* Time passes on a task that is processed.
Advance(k) ==
  /\ assignment[k] = "procesando" /\ k \notin ready
  /\ ready' = ready \cup {k}
  /\ UNCHANGED <<assignment, full, had, contested>>
  /\ UNCHANGED <<page, list, detail, processing, announced, request>>

\* Another tab of the provider sends a command, which a page of it may offer.
CommandElsewhere(kind, k, s) ==
  /\ Send(s, [Sent(kind, k) EXCEPT !.gone = TRUE, !.live = FALSE])
  /\ UNCHANGED <<server, page, list, detail, processing, announced>>

\* Other providers take the last slot.
FillUp(k) ==
  /\ k \notin full
  /\ full' = full \cup {k}
  /\ UNCHANGED <<assignment, ready, had, contested>>
  /\ UNCHANGED <<page, list, detail, processing, announced, request>>

-----------------------------------------------------------------------------
Init ==
  /\ assignment = [k \in Tasks |-> "none"]
  /\ ready = {} /\ full = {}
  /\ had = [k \in Tasks |-> {}] /\ contested = {}
  /\ page = [name |-> "dashboard", on |-> NoTask]
  /\ list = EmptyList
  /\ detail = EmptyDetail
  /\ processing = EmptyProcessing
  /\ announced = Nothing
  /\ request = [s \in Slots |-> NoRequest]

User(s) ==
  \/ GoToTasks(s) \/ GoToDashboard(s)
  \/ \E f \in Filters : toggleFilter(f, s)
  \/ clearFilters(s) \/ RetryTasks(s)
  \/ \E k \in Tasks : OpenTask(k, s) \/ Return(k, s)
  \/ handleAccept(s) \/ handleStart(s) \/ handleContinue(s)
  \/ handleComplete(s) \/ handleFail(s) \/ Refetch(s)

Deliver(s) ==
  \/ TasksFetched(s)
  \/ TaskFetched(s) \/ TaskAccepted(s) \/ TaskRefetched(s) \/ TaskStarted(s)
  \/ ProgressFetched(s) \/ Completed(s) \/ FailureReported(s)

Serve(s) ==
  \/ CheckCommand(s) \/ WriteCommand(s) \/ RewriteCommand(s)
  \/ HandlerEnds(s) \/ ServeQuery(s)

Next ==
  \/ \E s \in Slots : User(s) \/ Tick(s) \/ Deliver(s) \/ Failed(s) \/ Serve(s)
  \/ CloseModal
  \/ \E m \in {"complete", "fail"} : OpenModal(m) \/ DismissModal(m)
  \/ \E k \in Tasks :
       \/ Advance(k) \/ FillUp(k)
       \/ \E kind \in Elsewhere, s \in Slots : CommandElsewhere(kind, k, s)

Spec == Init /\ [][Next]_vars

\* The interval ticks, whenever the bound on requests lets it; every request ends; and
\* some of the queries are served, and their answers delivered.
Fairness ==
  /\ SF_vars(\E s \in Slots : Tick(s))
  /\ \A s \in Slots : WF_vars(Failed(s) \/ HandlerEnds(s))
  /\ SF_vars(\E s \in Slots : ServeQuery(s))
  /\ SF_vars(\E s \in Slots : ProgressFetched(s))

FairSpec == Spec /\ Fairness

-----------------------------------------------------------------------------
(* Properties.                                                             *)

\* The dashboard announces an outcome that the assignment has had, and that it has,
\* unless two handlers had the assignment in hand at once: however the answers of a
\* decision, of polls of this page or another and of lost commands come together
\* (ProcessingPage.tsx:39 and 59, useProgress.ts:44; for the exception
\* task_lifecycle.py:117-134 and 241-257).
AnnouncedOutcomeIsTrue ==
  announced # Nothing =>
    /\ announced.outcome \in had[announced.on]
    /\ announced.on \notin contested => assignment[announced.on] = announced.outcome

\* The processing page is left when its task has an outcome, by whatever way it got it
\* and however many polls fail, unless a late start takes the outcome back
\* (useProgress.ts:44, task_lifecycle.py:85).
ProcessingIsLeft ==
  \A k \in Tasks :
    LET Here == page = [name |-> "processing", on |-> k]
        Ended == assignment[k] \in Outcomes
    IN (Here /\ Ended) ~> ~(Here /\ Ended)

\* What waits is waiting for something: no list stays a skeleton and no button disabled
\* after its request has ended (TaskListPage.tsx:81, TaskDetailPage.tsx:69, ProcessingPage.tsx:45).
BusyMeansWaiting ==
  LET Waits(kinds) == \E s \in Slots : ~Free(s) /\ request[s].kind \in kinds /\ request[s].live
  IN /\ list.loading => Waits({"tasks"})
     /\ detail.acceptLoading => Waits({"accept", "refetch"})
     /\ detail.startLoading => Waits({"start"})
     /\ processing.completing => Waits({"complete"})
     /\ processing.failing => Waits({"fail"})

=============================================================================
