------------------------------ MODULE JobPages ------------------------------
(***************************************************************************)
(* The pages of a client's compute jobs: the list, the detail, the result  *)
(* and the form for a new job.  They share one store (jobStore), of which   *)
(* loading, error and currentJob belong to no page and to no job; lists     *)
(* and details are polled while they show a job in flight.                 *)
(*                                                                         *)
(* A request is sent, read by the server, and delivered: three steps, so   *)
(* that answers come late and in any order, also after their page is left. *)
(* A page's effects run in the step that renders it.  The timers are the   *)
(* effects of what is shown, so that polling is a function of the page and *)
(* of the store.  "processing" stands for the four statuses of IN_FLIGHT.  *)
(***************************************************************************)
EXTENDS Naturals, FiniteSets

CONSTANTS
  Jobs,
  Files,    \* CSV files the client may choose
  sample,   \* the data of generateSampleData
  Slots,    \* bound: requests that may be in flight together
  NoJob, NoData, NoRequest

ASSUME JobPagesAssumption ==
  /\ NoJob \notin Jobs
  /\ NoData \notin Files \cup {sample}
  /\ sample \notin Files

VARIABLES
  job,      \* status of each job in the backend
  store,    \* useJobStore
  page,     \* the page shown
  form,     \* state of NewJobPage
  request   \* requests in flight

vars == <<job, store, page, form, request>>

IN_FLIGHT == {"processing"}
JobStatus == IN_FLIGHT \cup {"completed", "failed"}
Terminal == JobStatus \ IN_FLIGHT

Data == Files \cup {sample}

\* Two columns for each are enough to choose some of them, or all.
ColumnsOf(d) == [of : {d}, n : 1..2]
Column == [of : Data, n : 1..2]

\* A job as the frontend got it.
Job == [id : Jobs, status : JobStatus]

JobState ==
  [jobs : SUBSET Job, currentJob : Job \cup {NoJob}, loading : BOOLEAN, error : BOOLEAN]

\* on: the job in the address.  view: the state of JobResultPage, "none" on other pages.
Page == [name : {"away", "list", "detail", "result", "new"}, on : Jobs \cup {NoJob},
         view : {"none", "loading", "error", "shown"}]

\* parsedColumns stands for the columns of the data it names.  reading: files whose
\* FileReader has not called back yet.
Form == [step : {1, 2}, csvFile : Files \cup {NoData}, parsedColumns : Data \cup {NoData},
         usingEmbedded : BOOLEAN, selectedColumns : SUBSET Column, fileError : BOOLEAN,
         reading : SUBSET Files]

\* got: the jobs as the server read them.  live: the page that sent it is still there.
\* data, columns: what a creation sends.  chosen: the columns that were selected.
Request ==
  [kind : {"fetchJobs", "fetchJob", "refresh", "createJob", "status", "result"},
   on : Jobs \cup {NoJob}, served : BOOLEAN, got : SUBSET Job, live : BOOLEAN,
   data : Data \cup {NoData}, columns : SUBSET Column, chosen : SUBSET Column]

ASSUME NoRequestAssumption == NoRequest \notin Request

TypeOK ==
  /\ job \in [Jobs -> JobStatus \cup {"none"}]
  /\ store \in JobState
  /\ page \in Page
  /\ form \in Form
  /\ \A s \in Slots : request[s] # NoRequest => request[s] \in Request

-----------------------------------------------------------------------------
isInFlight(status) == status \in IN_FLIGHT

hasInFlight == \E j \in store.jobs : isInFlight(j.status)

\* Mutants: an error ends polling the list; the detail is not polled.
PollingUntilError ==
  \/ page.name = "list" /\ hasInFlight /\ ~store.error
  \/ page.name = "detail" /\ store.currentJob # NoJob /\ isInFlight(store.currentJob.status)

PollingListOnly == page.name = "list" /\ hasInFlight

\* The effect of the list page and that of the detail page, which polls the job of its
\* address whenever the job it shows is in flight.
Polling ==
  \/ page.name = "list" /\ hasInFlight
  \/ page.name = "detail" /\ store.currentJob # NoJob /\ isInFlight(store.currentJob.status)

EmptyForm ==
  [step |-> 1, csvFile |-> NoData, parsedColumns |-> NoData, usingEmbedded |-> FALSE,
   selectedColumns |-> {}, fileError |-> FALSE, reading |-> {}]

Sent(kind, j) ==
  [kind |-> kind, on |-> j, served |-> FALSE, got |-> {}, live |-> TRUE,
   data |-> NoData, columns |-> {}, chosen |-> {}]

\* fetchJobs, fetchJob and createJob begin by setting loading and clearing the error.
Waiting(state) == [state EXCEPT !.loading = TRUE, !.error = FALSE]

\* Only the result page keeps its answers to itself.
Unheard(requests) ==
  [s \in Slots |-> IF requests[s] # NoRequest /\ requests[s].kind \in {"status", "result"}
                   THEN [requests[s] EXCEPT !.live = FALSE] ELSE requests[s]]

\* What the first render of a page sends.
FirstRequest(name, j) ==
  CASE name = "list"   -> Sent("fetchJobs", NoJob)
    [] name = "detail" -> Sent("fetchJob", j)
    [] name = "result" -> Sent("status", j)
    [] OTHER           -> NoRequest

\* The application shows a page, from a slot for its first request and from the store
\* and the requests as they are by then.  A page that is shown already is not mounted
\* anew.
Show(name, j, s, state, requests) ==
  IF page.name = name /\ page.on = j
  THEN page' = page /\ form' = form /\ store' = state /\ request' = requests
  ELSE /\ page' = [name |-> name, on |-> j,
                   view |-> IF name = "result" THEN "loading" ELSE "none"]
       /\ form' = EmptyForm
       /\ store' = IF name \in {"list", "detail"} THEN Waiting(state) ELSE state
       /\ request' = [Unheard(requests) EXCEPT ![s] = FirstRequest(name, j)]

Free(s) == request[s] = NoRequest

Visit(name, j, s) ==
  /\ Free(s)
  /\ Show(name, j, s, store, request)
  /\ UNCHANGED job

Send(s, r) == Free(s) /\ request' = [request EXCEPT ![s] = r]

-----------------------------------------------------------------------------
(* What the client does on a page.                                         *)

\* The navigation bar and the links back lead to the list and to the rest of the
\* application.
GoToList(s) == page.name # "list" /\ Visit("list", NoJob, s)
GoAway(s)   == page.name # "away" /\ Visit("away", NoJob, s)

\* JobListPage: a card leads to its job, a button to the form.
OpenJob(j, s) == page.name = "list" /\ (\E e \in store.jobs : e.id = j) /\ Visit("detail", j, s)
NewJob(s)     == page.name = "list" /\ Visit("new", NoJob, s)

\* JobListPage reloads on demand when nothing is polled, and after an error.
ReloadList(s) ==
  /\ page.name = "list"
  /\ store.error \/ (store.jobs # {} /\ ~hasInFlight)
  /\ Send(s, Sent("fetchJobs", NoJob))
  /\ store' = Waiting(store)
  /\ UNCHANGED <<job, page, form>>

\* JobDetailPage: the result of the job shown, when that is completed; another try when
\* there is nothing to show.
OpenResult(s) ==
  /\ page.name = "detail"
  /\ store.currentJob # NoJob /\ store.currentJob.status = "completed"
  /\ Visit("result", store.currentJob.id, s)

RetryDetail(s) ==
  /\ page.name = "detail" /\ store.error /\ store.currentJob = NoJob
  /\ Send(s, Sent("fetchJob", page.on))
  /\ store' = Waiting(store)
  /\ UNCHANGED <<job, page, form>>

\* JobResultPage: back to the detail, and another try after an error.
BackToDetail(s) == page.name = "result" /\ page.view # "loading" /\ Visit("detail", page.on, s)

RetryResult(s) ==
  /\ page.name = "result" /\ page.view = "error"
  /\ page' = [page EXCEPT !.view = "loading"]
  /\ Send(s, Sent("status", page.on))
  /\ UNCHANGED <<job, store, form>>

Editing(step) == page.name = "new" /\ form.step = step

\* handleFileChange: a file of the wrong size or name is refused at once; another one is
\* read, and shown when its FileReader calls back.
ChooseFile(f) ==
  /\ Editing(1)
  /\ \/ form' = [form EXCEPT !.fileError = TRUE]
     \/ form' = [form EXCEPT !.fileError = FALSE, !.reading = @ \cup {f}]
  /\ store' = [store EXCEPT !.error = FALSE]
  /\ UNCHANGED <<job, page, request>>

handleUseSampleData ==
  /\ Editing(1)
  /\ form' = [form EXCEPT !.csvFile = NoData, !.parsedColumns = sample,
                          !.usingEmbedded = TRUE, !.fileError = FALSE,
                          !.selectedColumns = ColumnsOf(sample)]
  /\ store' = [store EXCEPT !.error = FALSE]
  /\ UNCHANGED <<job, page, request>>

canProceedStep1 == form.parsedColumns # NoData /\ ~form.fileError

\* Mutant: both buttons lead on.
ToStepOn(n) ==
  /\ Editing(3 - n)
  /\ n = 2 => canProceedStep1
  /\ form' = [form EXCEPT !.step = @ + 1]
  /\ UNCHANGED <<job, store, page, request>>

ToStep(n) ==
  /\ Editing(3 - n)
  /\ n = 2 => canProceedStep1
  /\ form' = [form EXCEPT !.step = n]
  /\ UNCHANGED <<job, store, page, request>>

\* The columns that were detected are offered, to be chosen or not.
toggleColumn(c) ==
  /\ Editing(2)
  /\ form.parsedColumns # NoData /\ c \in ColumnsOf(form.parsedColumns)
  /\ form' = [form EXCEPT !.selectedColumns = IF c \in @ THEN @ \ {c} ELSE @ \cup {c}]
  /\ UNCHANGED <<job, store, page, request>>

\* handleSubmit: the button is disabled while the store is loading.  jobStore.createJob
\* puts the columns of embedded data in the place of those that were selected.
SubmitJob(s) ==
  LET data == IF form.usingEmbedded THEN sample ELSE form.csvFile IN
  /\ Editing(2)
  /\ ~store.loading
  /\ form.selectedColumns # {}
  /\ data # NoData
  /\ Send(s, [Sent("createJob", NoJob) EXCEPT
                !.data = data, !.chosen = form.selectedColumns,
                !.columns = IF form.usingEmbedded THEN ColumnsOf(form.parsedColumns)
                            ELSE form.selectedColumns])
  /\ store' = Waiting(store)
  /\ UNCHANGED <<job, page, form>>

Client(s) ==
  \/ GoToList(s) \/ GoAway(s) \/ NewJob(s) \/ ReloadList(s)
  \/ \E j \in Jobs : OpenJob(j, s)
  \/ OpenResult(s) \/ RetryDetail(s) \/ BackToDetail(s) \/ RetryResult(s)
  \/ SubmitJob(s)

EditForm ==
  \/ \E f \in Files : ChooseFile(f)
  \/ handleUseSampleData
  \/ \E c \in Column : toggleColumn(c)
  \/ \E n \in {1, 2} : ToStep(n)

-----------------------------------------------------------------------------
(* What the browser does.                                                  *)

\* Mutant: the columns selected before stay selected.
FileReadKeepingColumns(f) ==
  /\ f \in form.reading
  /\ form' = [form EXCEPT !.reading = @ \ {f}, !.csvFile = f, !.parsedColumns = f,
                          !.usingEmbedded = FALSE]
  /\ UNCHANGED <<job, store, page, request>>

\* reader.onload: the file has columns, and replaces the data chosen before; or not.
FileRead(f) ==
  /\ f \in form.reading
  /\ \/ form' = [form EXCEPT !.reading = @ \ {f}, !.csvFile = f, !.parsedColumns = f,
                             !.usingEmbedded = FALSE,
                             !.selectedColumns = ColumnsOf(f)]
     \/ form' = [form EXCEPT !.reading = @ \ {f}, !.fileError = TRUE]
  /\ UNCHANGED <<job, store, page, request>>

\* A tick of the timer: the list is fetched again with the spinner, the detail silently.
Tick(s) ==
  /\ Polling
  /\ IF page.name = "list"
     THEN Send(s, Sent("fetchJobs", NoJob)) /\ store' = Waiting(store)
     ELSE Send(s, Sent("refresh", page.on)) /\ UNCHANGED store
  /\ UNCHANGED <<job, page, form>>

Done(s) == [request EXCEPT ![s] = NoRequest]

Arrived(s, kind) == request[s] # NoRequest /\ request[s].served /\ request[s].kind = kind

\* The one job of an answer.
Received(s) == CHOOSE j \in request[s].got : TRUE

JobsFetched(s) ==
  /\ Arrived(s, "fetchJobs")
  /\ store' = [store EXCEPT !.jobs = request[s].got, !.loading = FALSE]
  /\ request' = Done(s)
  /\ UNCHANGED <<job, page, form>>

JobFetched(s) ==
  /\ Arrived(s, "fetchJob")
  /\ store' = [store EXCEPT !.currentJob = Received(s), !.loading = FALSE]
  /\ request' = Done(s)
  /\ UNCHANGED <<job, page, form>>

\* refresh: the answer is shown, of whatever job it is.
Refreshed(s) ==
  /\ Arrived(s, "refresh")
  /\ store' = [store EXCEPT !.currentJob = Received(s)]
  /\ request' = Done(s)
  /\ UNCHANGED <<job, page, form>>

\* The new job is put into the list, and handleSubmit goes there, from wherever the
\* client is by now.
JobCreated(s) ==
  /\ Arrived(s, "createJob")
  /\ Show("list", NoJob, s,
          [store EXCEPT !.jobs = @ \cup request[s].got, !.loading = FALSE], Done(s))
  /\ UNCHANGED job

\* JobResultPage.load: a job that is not completed has no result, and its detail is
\* shown instead; the result of one that is completed is asked for.
StatusRead(s) ==
  /\ Arrived(s, "status")
  /\ IF Received(s).status # "completed"
     THEN Show("detail", request[s].on, s, store, Done(s))
     ELSE /\ request' = [request EXCEPT ![s] =
                           [Sent("result", request[s].on) EXCEPT !.live = request[s].live]]
          /\ UNCHANGED <<store, page, form>>
  /\ UNCHANGED job

ResultRead(s) ==
  /\ Arrived(s, "result")
  /\ page' = IF request[s].live THEN [page EXCEPT !.view = "shown"] ELSE page
  /\ request' = Done(s)
  /\ UNCHANGED <<job, store, form>>

\* Mutant: an error leaves loading as it is.
FailedLoading(s) ==
  /\ ~Free(s)
  /\ store' = IF request[s].kind \in {"fetchJobs", "fetchJob", "createJob"}
              THEN [store EXCEPT !.error = TRUE] ELSE store
  /\ page' = IF request[s].kind \in {"status", "result"} /\ request[s].live
             THEN [page EXCEPT !.view = "error"] ELSE page
  /\ request' = Done(s)
  /\ UNCHANGED <<job, form>>

\* A request fails, or times out before or after the server has served it.  Polling the
\* detail hides its errors.
Failed(s) ==
  /\ ~Free(s)
  /\ store' = IF request[s].kind \in {"fetchJobs", "fetchJob", "createJob"}
              THEN [store EXCEPT !.error = TRUE, !.loading = FALSE] ELSE store
  /\ page' = IF request[s].kind \in {"status", "result"} /\ request[s].live
             THEN [page EXCEPT !.view = "error"] ELSE page
  /\ request' = Done(s)
  /\ UNCHANGED <<job, form>>

Deliver(s) ==
  \/ JobsFetched(s) \/ JobFetched(s) \/ Refreshed(s) \/ JobCreated(s)
  \/ StatusRead(s) \/ ResultRead(s)

-----------------------------------------------------------------------------
(* What the backend does: see ChunkPipeline for the life of a job.         *)

Entries(ids) == {[id |-> j, status |-> job[j]] : j \in {i \in ids : job[i] # "none"}}

Pending(s) == ~Free(s) /\ ~request[s].served

Answered(s, got) == [request EXCEPT ![s].served = TRUE, ![s].got = got]

Serve(s) ==
  /\ Pending(s) /\ request[s].kind # "createJob"
  /\ request[s].kind = "result" => job[request[s].on] = "completed"
  /\ request' = Answered(s, Entries(IF request[s].kind = "fetchJobs" THEN Jobs
                                    ELSE {request[s].on}))
  /\ UNCHANGED <<job, store, page, form>>

ServeCreation(s, j) ==
  /\ Pending(s) /\ request[s].kind = "createJob"
  /\ job[j] = "none"
  /\ job' = [job EXCEPT ![j] = "processing"]
  /\ request' = Answered(s, {[id |-> j, status |-> "processing"]})
  /\ UNCHANGED <<store, page, form>>

CloseJob(j) ==
  /\ isInFlight(job[j])
  /\ \E status \in Terminal : job' = [job EXCEPT ![j] = status]
  /\ UNCHANGED <<store, page, form, request>>

-----------------------------------------------------------------------------
Init ==
  /\ job \in [Jobs -> {"none", "processing"}]
  /\ store = [jobs |-> {}, currentJob |-> NoJob, loading |-> FALSE, error |-> FALSE]
  /\ page = [name |-> "away", on |-> NoJob, view |-> "none"]
  /\ form = EmptyForm
  /\ request = [s \in Slots |-> NoRequest]

Next ==
  \/ EditForm
  \/ \E f \in Files : FileRead(f)
  \/ \E s \in Slots :
       \/ Client(s) \/ Tick(s) \/ Deliver(s) \/ Failed(s) \/ Serve(s)
       \/ \E j \in Jobs : ServeCreation(s, j)
  \/ \E j \in Jobs : CloseJob(j)

Spec == Init /\ [][Next]_vars

\* Timers tick; requests end, and some of those that are sent are served, and delivered.
Fairness ==
  /\ WF_vars(\E s \in Slots : Tick(s))
  /\ WF_vars(\E s \in Slots : Failed(s))
  /\ SF_vars(\E s \in Slots : Serve(s))
  /\ SF_vars(\E s \in Slots : Deliver(s))

FairSpec == Spec /\ Fairness

-----------------------------------------------------------------------------
(* Properties.                                                             *)

\* The columns that a creation asks for are columns of the data that it sends, although
\* a file is read while the client goes on with the form (NewJobPage.tsx:96 and 110).
ColumnsOfTheDataSent ==
  \A s \in Slots :
    ~Free(s) /\ request[s].kind = "createJob" =>
      request[s].columns # {} /\ request[s].columns \subseteq ColumnsOf(request[s].data)

\* The store waits only for requests that are under way: no page is left with a spinner,
\* nor the form with a button that is disabled for ever (jobStore.ts:34 to 72).
LoadingMeansWaiting ==
  store.loading =>
    \E s \in Slots : ~Free(s) /\ request[s].kind \in {"fetchJobs", "fetchJob", "createJob"}

\* The list page goes on polling until each job it shows has the outcome that the job
\* has (JobListPage.tsx:156), or is left.
ListFollows ==
  \A j \in Jobs :
    (page.name = "list" /\ job[j] \in Terminal)
      ~> (page.name # "list" \/ \A e \in store.jobs : e.id = j => e.status = job[j])

\* The detail page goes on polling until it shows the outcome of its job, is left, or
\* shows another job (JobDetailPage.tsx:112).
DetailFollows ==
  \A j \in Jobs :
    LET Here == page.name = "detail" /\ page.on = j
                /\ store.currentJob # NoJob /\ store.currentJob.id = j
    IN (Here /\ job[j] \in Terminal) ~> (~Here \/ store.currentJob.status = job[j])

=============================================================================
