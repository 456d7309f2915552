--------------------------- MODULE JobPagesProofs ---------------------------
(***************************************************************************)
(* Proofs about JobPages, for every number of jobs, files and requests in  *)
(* flight, in whatever order the answers come.                             *)
(***************************************************************************)
EXTENDS JobPages, TLAPS

-----------------------------------------------------------------------------
(* Types.  That an answer about one job is that job needs that no page and no *)
(* request names a job the backend does not have.                             *)

Known(j) == j \in Jobs /\ job[j] # "none"

JobTyped == job \in [Jobs -> JobStatus \cup {"none"}]

StoreGood(state) ==
  /\ state \in JobState
  /\ \A e \in state.jobs : Known(e.id)
  /\ state.currentJob # NoJob => Known(state.currentJob.id)

PageGood == page \in Page /\ (page.name \in {"detail", "result"} => Known(page.on))

\* The columns selected are columns of the data that would be sent.
FormGood ==
  /\ form \in Form
  /\ form.parsedColumns = IF form.usingEmbedded THEN sample ELSE form.csvFile
  /\ form.selectedColumns \subseteq ColumnsOf(form.parsedColumns)

\* The requests about one job.
About == {"fetchJob", "refresh", "status", "result"}

RequestGood(r) ==
  /\ r \in Request
  /\ \A e \in r.got : Known(e.id)
  /\ r.kind \in About => Known(r.on) /\ (r.served => r.got # {})
  /\ r.kind = "createJob" => r.columns # {} /\ r.columns \subseteq ColumnsOf(r.data)

Requests == [Slots -> Request \cup {NoRequest}]

RequestsGood(requests) ==
  requests \in Requests /\ \A s \in Slots : requests[s] # NoRequest => RequestGood(requests[s])

TypeInv == JobTyped /\ StoreGood(store) /\ PageGood /\ FormGood /\ RequestsGood(request)

LEMMA TypeInvImplies == TypeInv => TypeOK
  BY DEF TypeInv, TypeOK, JobTyped, StoreGood, PageGood, FormGood, RequestsGood, Requests

LEMMA EmptyFormGood == form = EmptyForm => FormGood
  BY DEF EmptyForm, Form, FormGood

LEMMA TypedInit == Init => TypeInv
<1> SUFFICES ASSUME Init PROVE TypeInv
  OBVIOUS
<1>1. JobTyped
  BY DEF Init, JobTyped, JobStatus, IN_FLIGHT
<1>2. StoreGood(store)
  BY DEF Init, StoreGood, JobState
<1>3. PageGood
  BY DEF Init, PageGood, Page
<1>4. RequestsGood(request)
  BY DEF Init, RequestsGood, Requests
<1> QED BY <1>1, <1>2, <1>3, <1>4, EmptyFormGood DEF Init, TypeInv

\* What is good stays so, as no job disappears.
JobsStay == \A j : Known(j) => Known(j)'

LEMMA JobsStayIf == UNCHANGED job => JobsStay
  BY DEF JobsStay, Known

LEMMA FormStays ==
  ASSUME FormGood, form' = form
  PROVE  FormGood'
  BY DEF FormGood

LEMMA StoreStays ==
  ASSUME JobsStay, NEW state, StoreGood(state), store' = state
  PROVE  StoreGood(store)'
  BY DEF JobsStay, StoreGood

LEMMA RequestStays ==
  ASSUME JobsStay, NEW s \in Slots, NEW r, RequestGood(r), request'[s] = r
  PROVE  RequestGood(request[s])'
  BY DEF JobsStay, RequestGood

LEMMA RequestsStay ==
  ASSUME JobsStay, NEW requests, RequestsGood(requests), request' = requests
  PROVE  RequestsGood(request)'
<1>1. ASSUME NEW s \in Slots, request'[s] # NoRequest
      PROVE  RequestGood(request[s])'
  BY <1>1, RequestStays DEF RequestsGood
<1> QED BY <1>1 DEF RequestsGood

LEMMA PageStays ==
  ASSUME JobsStay, PageGood, page' = page
  PROVE  PageGood'
  BY DEF JobsStay, PageGood

LEMMA SentGood ==
  ASSUME NEW kind \in {"fetchJobs"} \cup About,
         NEW j \in Jobs \cup {NoJob}, kind \in About => Known(j)
  PROVE  RequestGood(Sent(kind, j)) /\ Sent(kind, j) # NoRequest
<1>1. Sent(kind, j) \in Request
  BY DEF Sent, Request, About
<1> QED BY <1>1, NoRequestAssumption DEF RequestGood, Sent, About

LEMMA SlotGood ==
  ASSUME NEW requests, RequestsGood(requests), NEW s \in Slots,
         NEW r, r = NoRequest \/ RequestGood(r)
  PROVE  RequestsGood([requests EXCEPT ![s] = r])
<1>1. r \in Request \cup {NoRequest}
  BY DEF RequestGood
<1> QED BY <1>1 DEF RequestsGood, Requests

LEMMA WaitingGood ==
  ASSUME NEW state, StoreGood(state)
  PROVE  StoreGood(Waiting(state))
  BY DEF StoreGood, Waiting, JobState

LEMMA LiveRequest ==
  ASSUME NEW r \in Request, NEW b \in BOOLEAN
  PROVE  LET q == [r EXCEPT !.live = b] IN
         /\ q \in Request /\ q.kind = r.kind /\ q.got = r.got /\ q.on = r.on
         /\ q.served = r.served /\ q.data = r.data /\ q.columns = r.columns
  BY DEF Request

LEMMA UnheardGood ==
  ASSUME NEW requests, RequestsGood(requests)
  PROVE  RequestsGood(Unheard(requests))
<1>1. ASSUME NEW s \in Slots, requests[s] # NoRequest
      PROVE  RequestGood([requests[s] EXCEPT !.live = FALSE])
  BY <1>1, LiveRequest DEF RequestsGood, RequestGood
<1>2. \A s \in Slots : Unheard(requests)[s] = NoRequest \/ RequestGood(Unheard(requests)[s])
  BY <1>1 DEF Unheard, RequestsGood
<1>3. Unheard(requests) \in Requests
  BY <1>2 DEF Unheard, Requests, RequestGood
<1> QED BY <1>2, <1>3 DEF RequestsGood

LEMMA DoneGood ==
  ASSUME RequestsGood(request), NEW s \in Slots
  PROVE  RequestsGood(Done(s))
  BY SlotGood DEF Done

LEMMA ShowStep ==
  ASSUME TypeInv, UNCHANGED job, NEW name \in {"away", "list", "detail", "result", "new"},
         NEW j \in Jobs \cup {NoJob}, name \in {"detail", "result"} => Known(j),
         NEW s \in Slots, NEW state, StoreGood(state),
         NEW requests, RequestsGood(requests), Show(name, j, s, state, requests)
  PROVE  TypeInv'
<1>0. JobsStay /\ JobTyped'
  BY JobsStayIf DEF TypeInv, JobTyped
<1>1. CASE page.name = name /\ page.on = j
  <2>1. page' = page /\ form' = form /\ store' = state /\ request' = requests
    BY <1>1 DEF Show
  <2> QED BY <1>0, <2>1, PageStays, FormStays, StoreStays, RequestsStay DEF TypeInv
<1>2. CASE ~(page.name = name /\ page.on = j)
  <2>1. /\ page' = [name |-> name, on |-> j,
                    view |-> IF name = "result" THEN "loading" ELSE "none"]
        /\ form' = EmptyForm
        /\ store' = IF name \in {"list", "detail"} THEN Waiting(state) ELSE state
        /\ request' = [Unheard(requests) EXCEPT ![s] = FirstRequest(name, j)]
    BY <1>2 DEF Show
  <2>2. PageGood'
    BY <1>0, <2>1 DEF PageGood, Page, JobsStay
  <2>3. StoreGood(store)'
    BY <1>0, <2>1, WaitingGood, StoreStays
  <2>4. FirstRequest(name, j) = NoRequest \/ RequestGood(FirstRequest(name, j))
    BY SentGood DEF FirstRequest, About
  <2>5. RequestsGood([Unheard(requests) EXCEPT ![s] = FirstRequest(name, j)])
    BY <2>4, UnheardGood, SlotGood
  <2>6. RequestsGood(request)'
    BY <1>0, <2>1, <2>5, RequestsStay
  <2>7. FormGood'
    BY <2>1 DEF FormGood, EmptyForm, Form
  <2> QED BY <1>0, <2>2, <2>3, <2>6, <2>7 DEF TypeInv
<1> QED BY <1>1, <1>2

\* A step that leaves the jobs alone.
LEMMA StepTyped ==
  ASSUME TypeInv, UNCHANGED job, FormGood',
         page' \in Page, page'.name = page.name, page'.on = page.on,
         NEW state, StoreGood(state), store' = state,
         NEW requests, RequestsGood(requests), request' = requests
  PROVE  TypeInv'
<1>1. JobsStay /\ JobTyped'
  BY JobsStayIf DEF TypeInv, JobTyped
<1>2. PageGood'
  BY <1>1 DEF TypeInv, PageGood, JobsStay
<1> QED BY <1>1, <1>2, StoreStays, RequestsStay DEF TypeInv

LEMMA SendTyped ==
  ASSUME TypeInv, UNCHANGED <<job, form>>,
         page' \in Page, page'.name = page.name, page'.on = page.on,
         NEW state, StoreGood(state), store' = state,
         NEW s \in Slots, NEW r, RequestGood(r), Send(s, r)
  PROVE  TypeInv'
<1>1. RequestsGood([request EXCEPT ![s] = r])
  BY SlotGood DEF TypeInv
<1> QED BY <1>1, StepTyped, FormStays DEF Send, TypeInv

LEMMA ColumnsTyped ==
  ASSUME NEW d \in Data
  PROVE  ColumnsOf(d) \in SUBSET Column /\ ColumnsOf(d) # {}
<1>1. [of |-> d, n |-> 1] \in ColumnsOf(d)
  BY DEF ColumnsOf
<1> QED BY <1>1 DEF ColumnsOf, Column

LEMMA CreationGood ==
  ASSUME NEW d \in Data, NEW columns \in SUBSET Column, NEW chosen \in SUBSET Column,
         columns # {}, columns \subseteq ColumnsOf(d)
  PROVE  LET r == [Sent("createJob", NoJob) EXCEPT !.data = d, !.chosen = chosen,
                                                   !.columns = columns]
         IN RequestGood(r) /\ r.kind = "createJob"
  BY DEF RequestGood, Request, Sent, About

\* The embedded data go with their own columns, and a file with columns of its own.
LEMMA SubmitSends ==
  ASSUME TypeInv, NEW s \in Slots, SubmitJob(s)
  PROVE  \E r : /\ RequestGood(r) /\ r.kind = "createJob" /\ Send(s, r)
               /\ store' = Waiting(store) /\ UNCHANGED <<job, page, form>>
<1> DEFINE d == IF form.usingEmbedded THEN sample ELSE form.csvFile
           columns == IF form.usingEmbedded THEN ColumnsOf(form.parsedColumns)
                      ELSE form.selectedColumns
<1>1. /\ d \in Data
      /\ Send(s, [Sent("createJob", NoJob) EXCEPT !.data = d, !.chosen = form.selectedColumns,
                                                  !.columns = columns])
      /\ store' = Waiting(store)
      /\ UNCHANGED <<job, page, form>>
      /\ form.selectedColumns # {}
  BY DEF SubmitJob, TypeInv, FormGood, Form, Data
<1>2. /\ columns \in SUBSET Column /\ columns # {} /\ columns \subseteq ColumnsOf(d)
      /\ form.selectedColumns \in SUBSET Column
  BY <1>1, ColumnsTyped DEF TypeInv, FormGood, Form
<1> HIDE DEF d, columns
<1> DEFINE r == [Sent("createJob", NoJob) EXCEPT !.data = d, !.chosen = form.selectedColumns,
                                                !.columns = columns]
<1>3. RequestGood(r) /\ r.kind = "createJob"
  BY <1>1, <1>2, CreationGood
<1> QED BY <1>1, <1>3

LEMMA SubmitTyped ==
  ASSUME TypeInv, NEW s \in Slots, SubmitJob(s)
  PROVE  TypeInv'
<1>1. PICK r : /\ RequestGood(r) /\ Send(s, r)
               /\ store' = Waiting(store) /\ UNCHANGED <<job, page, form>>
  BY SubmitSends
<1> QED BY <1>1, SendTyped, WaitingGood DEF TypeInv, PageGood

LEMMA ClientTyped ==
  ASSUME TypeInv, NEW s \in Slots, Client(s)
  PROVE  TypeInv'
<1> USE DEF TypeInv
<1>1. CASE GoToList(s)
  BY <1>1, ShowStep DEF GoToList, Visit
<1>2. CASE GoAway(s)
  BY <1>2, ShowStep DEF GoAway, Visit
<1>3. CASE NewJob(s)
  BY <1>3, ShowStep DEF NewJob, Visit
<1>4. CASE ReloadList(s)
  <2>1. RequestGood(Sent("fetchJobs", NoJob))
    BY SentGood DEF About
  <2> QED BY <1>4, <2>1, SendTyped, WaitingGood DEF ReloadList, PageGood
<1>5. ASSUME NEW j \in Jobs, OpenJob(j, s) PROVE TypeInv'
  <2>1. Known(j)
    BY <1>5 DEF OpenJob, StoreGood
  <2> QED BY <1>5, <2>1, ShowStep DEF OpenJob, Visit
<1>6. CASE OpenResult(s)
  <2>1. Known(store.currentJob.id)
    BY <1>6 DEF OpenResult, StoreGood
  <2> QED BY <1>6, <2>1, ShowStep DEF OpenResult, Visit, Known
<1>7. CASE RetryDetail(s)
  <2>1. RequestGood(Sent("fetchJob", page.on))
    BY <1>7, SentGood DEF RetryDetail, About, PageGood, Known
  <2> QED BY <1>7, <2>1, SendTyped, WaitingGood DEF RetryDetail, PageGood
<1>8. CASE BackToDetail(s)
  BY <1>8, ShowStep DEF BackToDetail, Visit, PageGood, Known
<1>9. CASE RetryResult(s)
  <2>1. page' \in Page /\ page'.name = page.name /\ page'.on = page.on
    BY <1>9 DEF RetryResult, PageGood, Page
  <2>2. RequestGood(Sent("status", page.on))
    BY <1>9, SentGood DEF RetryResult, About, PageGood, Known
  <2> QED BY <1>9, <2>1, <2>2, SendTyped DEF RetryResult
<1>10. CASE SubmitJob(s)
  BY <1>10, SubmitTyped
<1> QED BY <1>1, <1>2, <1>3, <1>4, <1>5, <1>6, <1>7, <1>8, <1>9, <1>10 DEF Client

LEMMA TickTyped ==
  ASSUME TypeInv, NEW s \in Slots, Tick(s)
  PROVE  TypeInv'
<1>1. page' \in Page /\ page'.name = page.name /\ page'.on = page.on
  BY DEF Tick, TypeInv, PageGood
<1>2. CASE page.name = "list"
  <2>1. RequestGood(Sent("fetchJobs", NoJob))
    BY SentGood DEF About
  <2> QED BY <1>1, <1>2, <2>1, SendTyped, WaitingGood DEF Tick, TypeInv
<1>3. CASE page.name # "list"
  <2>1. RequestGood(Sent("refresh", page.on))
    BY <1>3, SentGood DEF Tick, Polling, About, TypeInv, PageGood, Known
  <2> QED BY <1>1, <1>3, <2>1, SendTyped DEF Tick, TypeInv
<1> QED BY <1>2, <1>3

LEMMA EditTyped ==
  ASSUME TypeInv, EditForm \/ \E f \in Files : FileRead(f)
  PROVE  TypeInv'
<1>1. UNCHANGED <<job, page, request>>
  BY DEF EditForm, ChooseFile, handleUseSampleData, toggleColumn, ToStep, FileRead
<1>2. store' = store \/ store' = [store EXCEPT !.error = FALSE]
  BY DEF EditForm, ChooseFile, handleUseSampleData, toggleColumn, ToStep, FileRead
<1>3. StoreGood([store EXCEPT !.error = FALSE])
  BY DEF TypeInv, StoreGood, JobState
<1>4. FormGood'
  <2> USE DEF TypeInv, FormGood, Form
  <2>1. ASSUME NEW f \in Files, ChooseFile(f) PROVE FormGood'
    <3>1. CASE form' = [form EXCEPT !.fileError = TRUE]
      BY <3>1
    <3>2. CASE form' = [form EXCEPT !.fileError = FALSE, !.reading = @ \cup {f}]
      <4>1. form.reading \cup {f} \in SUBSET Files
        OBVIOUS
      <4> QED BY <3>2, <4>1
    <3> QED BY <2>1, <3>1, <3>2 DEF ChooseFile
  <2>2. CASE handleUseSampleData
    BY <2>2, ColumnsTyped DEF handleUseSampleData, Data
  <2>3. ASSUME NEW c \in Column, toggleColumn(c) PROVE FormGood'
    BY <2>3 DEF toggleColumn
  <2>4. ASSUME NEW n \in {1, 2}, ToStep(n) PROVE FormGood'
    BY <2>4 DEF ToStep
  <2>5. ASSUME NEW f \in Files, FileRead(f) PROVE FormGood'
    <3>1. form.reading \ {f} \in SUBSET Files /\ ColumnsOf(f) \in SUBSET Column
      BY ColumnsTyped DEF Data
    <3>2. CASE form' = [form EXCEPT !.reading = @ \ {f}, !.csvFile = f, !.parsedColumns = f,
                                    !.usingEmbedded = FALSE, !.selectedColumns = ColumnsOf(f)]
      BY <3>1, <3>2 DEF Data
    <3>3. CASE form' = [form EXCEPT !.reading = @ \ {f}, !.fileError = TRUE]
      BY <3>1, <3>3
    <3> QED BY <2>5, <3>2, <3>3 DEF FileRead
  <2> QED BY <2>1, <2>2, <2>3, <2>4, <2>5 DEF EditForm
<1> QED BY <1>1, <1>2, <1>3, <1>4, StepTyped DEF TypeInv, PageGood

\* The one job of an answer is a job of the backend.
LEMMA ReceivedGood ==
  ASSUME TypeInv, NEW s \in Slots, request[s] # NoRequest, request[s].served,
         request[s].kind \in About
  PROVE  Received(s) \in Job /\ Known(Received(s).id)
<1>1. request[s] \in Request /\ request[s].got # {}
      /\ \A e \in request[s].got : Known(e.id)
  BY DEF TypeInv, RequestsGood, RequestGood
<1>2. Received(s) \in request[s].got
  BY <1>1 DEF Received
<1> QED BY <1>1, <1>2 DEF Request

LEMMA DeliverTyped ==
  ASSUME TypeInv, NEW s \in Slots, Deliver(s)
  PROVE  TypeInv'
<1>1. RequestsGood(Done(s)) /\ RequestsGood(request) /\ StoreGood(store)
  BY DoneGood DEF TypeInv
<1>2. request[s] # NoRequest => RequestGood(request[s])
  BY <1>1 DEF RequestsGood
<1>3. UNCHANGED page => page' \in Page /\ page'.name = page.name /\ page'.on = page.on
  BY DEF TypeInv, PageGood
<1>4. CASE JobsFetched(s)
  <2>1. StoreGood([store EXCEPT !.jobs = request[s].got, !.loading = FALSE])
    BY <1>1, <1>2, <1>4 DEF JobsFetched, Arrived, StoreGood, RequestGood, JobState, Request
  <2> QED BY <1>1, <1>3, <1>4, <2>1, StepTyped, FormStays DEF JobsFetched, TypeInv
<1>5. CASE JobFetched(s)
  <2>1. Received(s) \in Job /\ Known(Received(s).id)
    BY <1>5, ReceivedGood DEF JobFetched, Arrived, About
  <2>2. StoreGood([store EXCEPT !.currentJob = Received(s), !.loading = FALSE])
    BY <1>1, <2>1 DEF StoreGood, JobState
  <2> QED BY <1>1, <1>3, <1>5, <2>2, StepTyped, FormStays DEF JobFetched, TypeInv
<1>6. CASE Refreshed(s)
  <2>1. Received(s) \in Job /\ Known(Received(s).id)
    BY <1>6, ReceivedGood DEF Refreshed, Arrived, About
  <2>2. StoreGood([store EXCEPT !.currentJob = Received(s)])
    BY <1>1, <2>1 DEF StoreGood, JobState
  <2> QED BY <1>1, <1>3, <1>6, <2>2, StepTyped, FormStays DEF Refreshed, TypeInv
<1>7. CASE JobCreated(s)
  <2>1. StoreGood([store EXCEPT !.jobs = @ \cup request[s].got, !.loading = FALSE])
    BY <1>1, <1>2, <1>7 DEF JobCreated, Arrived, StoreGood, RequestGood, JobState, Request
  <2> QED BY <1>1, <1>7, <2>1, ShowStep DEF JobCreated
<1>8. CASE StatusRead(s)
  <2>1. Known(request[s].on) /\ request[s] # NoRequest
    BY <1>2, <1>8 DEF StatusRead, Arrived, RequestGood, About
  <2>2. CASE Received(s).status # "completed"
    BY <1>1, <1>8, <2>1, <2>2, ShowStep DEF StatusRead, Known
  <2>3. CASE Received(s).status = "completed"
    <3> DEFINE r == [Sent("result", request[s].on) EXCEPT !.live = request[s].live]
    <3>1. RequestGood(Sent("result", request[s].on))
      BY <2>1, SentGood DEF About, Known
    <3>2. request[s].live \in BOOLEAN
      BY <1>2, <2>1 DEF RequestGood, Request
    <3> DEFINE b == request[s].live
               p == Sent("result", request[s].on)
    <3>3. RequestGood(r)
      <4>1. p \in Request /\ b \in BOOLEAN
        BY <3>1, <3>2 DEF RequestGood
      <4>2. r = [p EXCEPT !.live = b]
        OBVIOUS
      <4> HIDE DEF r, p, b
      <4>3. /\ r \in Request /\ r.kind = p.kind /\ r.got = p.got /\ r.on = p.on
            /\ r.served = p.served /\ r.data = p.data /\ r.columns = p.columns
        BY <4>1, <4>2, LiveRequest
      <4> QED BY <3>1, <4>3 DEF RequestGood, p
    <3> HIDE DEF r
    <3>4. RequestsGood([request EXCEPT ![s] = r])
      BY <1>1, <3>3, SlotGood
    <3>5. request' = [request EXCEPT ![s] = r] /\ UNCHANGED <<job, store, page, form>>
      BY <1>8, <2>3 DEF StatusRead, r
    <3> QED BY <1>1, <1>3, <3>4, <3>5, StepTyped, FormStays DEF TypeInv
  <2> QED BY <2>2, <2>3
<1>9. CASE ResultRead(s)
  <2>1. page' \in Page /\ page'.name = page.name /\ page'.on = page.on
    BY <1>9 DEF ResultRead, TypeInv, PageGood, Page
  <2> QED BY <1>1, <1>9, <2>1, StepTyped, FormStays DEF ResultRead, TypeInv
<1> QED BY <1>4, <1>5, <1>6, <1>7, <1>8, <1>9 DEF Deliver

LEMMA FailedTyped ==
  ASSUME TypeInv, NEW s \in Slots, Failed(s)
  PROVE  TypeInv'
<1>1. page' \in Page /\ page'.name = page.name /\ page'.on = page.on
  BY DEF Failed, TypeInv, PageGood, Page
<1>2. PICK state \in {store, [store EXCEPT !.error = TRUE, !.loading = FALSE]} : store' = state
  BY DEF Failed
<1>3. StoreGood([store EXCEPT !.error = TRUE, !.loading = FALSE])
  BY DEF TypeInv, StoreGood, JobState
<1>4. StoreGood(state)
  BY <1>2, <1>3 DEF TypeInv
<1> QED BY <1>1, <1>2, <1>4, DoneGood, StepTyped, FormStays DEF Failed, TypeInv

\* The server answers with jobs it has.
LEMMA AnsweredGood ==
  ASSUME NEW r \in Request, NEW got \in SUBSET Job
  PROVE  LET q == [r EXCEPT !.served = TRUE, !.got = got] IN
         /\ q \in Request /\ q.kind = r.kind /\ q.got = got /\ q.on = r.on
         /\ q.data = r.data /\ q.columns = r.columns
  BY DEF Request

LEMMA EntriesGood ==
  ASSUME JobTyped, NEW ids \in SUBSET Jobs
  PROVE  /\ Entries(ids) \in SUBSET Job
         /\ \A e \in Entries(ids) : Known(e.id)
         /\ \A j \in ids : Known(j) => Entries(ids) # {}
<1>1. ASSUME NEW j \in ids, Known(j)
      PROVE  [id |-> j, status |-> job[j]] \in Entries(ids)
  BY <1>1 DEF Entries, Known
<1>2. \A e \in Entries(ids) : e \in Job /\ Known(e.id)
  BY DEF JobTyped, Entries, Job, Known
<1> QED BY <1>1, <1>2

LEMMA ServeTyped ==
  ASSUME TypeInv, NEW s \in Slots, Serve(s)
  PROVE  TypeInv'
<1> DEFINE ids == IF request[s].kind = "fetchJobs" THEN Jobs ELSE {request[s].on}
           q == [request[s] EXCEPT !.served = TRUE, !.got = Entries(ids)]
<1>1. /\ RequestGood(request[s]) /\ RequestsGood(request)
      /\ request[s].kind # "createJob" /\ JobTyped
      /\ request' = [request EXCEPT ![s].served = TRUE, ![s].got = Entries(ids)]
      /\ UNCHANGED <<job, store, page, form>>
  BY DEF Serve, Pending, Free, Answered, TypeInv, RequestsGood
<1>2. ids \in SUBSET Jobs /\ (request[s].kind \in About => Known(request[s].on) /\ request[s].on \in ids)
  <2>1. request[s].kind \in {"fetchJobs"} \cup About
    BY <1>1 DEF RequestGood, Request, About
  <2> QED BY <1>1, <2>1 DEF RequestGood, Known, About
<1>3. request' = [request EXCEPT ![s] = q]
  BY <1>1 DEF RequestsGood, Requests
<1> HIDE DEF ids
<1>4. /\ Entries(ids) \in SUBSET Job
      /\ \A e \in Entries(ids) : Known(e.id)
      /\ request[s].kind \in About => Entries(ids) # {}
  BY <1>1, <1>2, EntriesGood
<1>5. /\ q \in Request /\ q.kind = request[s].kind /\ q.got = Entries(ids)
      /\ q.on = request[s].on /\ q.data = request[s].data /\ q.columns = request[s].columns
  BY <1>1, <1>4, AnsweredGood DEF RequestGood
<1> HIDE DEF q
<1>6. RequestGood(q)
  BY <1>1, <1>2, <1>4, <1>5 DEF RequestGood
<1>7. RequestsGood([request EXCEPT ![s] = q])
  BY <1>1, <1>6, SlotGood
<1> QED BY <1>1, <1>3, <1>7, StepTyped, FormStays DEF TypeInv, PageGood

LEMMA CreationTyped ==
  ASSUME TypeInv, NEW s \in Slots, NEW j \in Jobs, ServeCreation(s, j)
  PROVE  TypeInv'
<1> DEFINE e == [id |-> j, status |-> "processing"]
           q == [request[s] EXCEPT !.served = TRUE, !.got = {e}]
<1>1. /\ RequestGood(request[s]) /\ RequestsGood(request) /\ request[s].kind = "createJob"
      /\ job' = [job EXCEPT ![j] = "processing"]
      /\ request' = [request EXCEPT ![s].served = TRUE, ![s].got = {e}]
      /\ UNCHANGED <<store, page, form>>
  BY DEF ServeCreation, Pending, Free, Answered, TypeInv, RequestsGood
<1>2. JobTyped' /\ JobsStay /\ Known(j)'
  BY <1>1 DEF TypeInv, JobTyped, JobsStay, Known, JobStatus, IN_FLIGHT
<1>3. request' = [request EXCEPT ![s] = q]
  BY <1>1 DEF RequestsGood, Requests
<1>4. e \in Job /\ e.id = j
  BY DEF Job, JobStatus, IN_FLIGHT
<1> HIDE DEF e
<1>5. /\ q \in Request /\ q.kind = "createJob" /\ q.got = {e}
      /\ q.data = request[s].data /\ q.columns = request[s].columns
  BY <1>1, <1>4, AnsweredGood DEF RequestGood
<1> HIDE DEF q
<1>6. ASSUME NEW u \in Slots, request'[u] # NoRequest
      PROVE  RequestGood(request[u])'
  <2>1. CASE u = s
    <3>1. request'[u] = q
      BY <1>1, <1>3, <2>1 DEF RequestsGood, Requests
    <3> QED BY <1>1, <1>2, <1>4, <1>5, <3>1 DEF RequestGood, About
  <2>2. CASE u # s
    BY <1>1, <1>2, <1>3, <1>6, <2>2, RequestStays DEF RequestsGood, Requests
  <2> QED BY <2>1, <2>2
<1>7. request' \in Requests
  BY <1>1, <1>3, <1>5 DEF RequestsGood, Requests
<1> QED BY <1>1, <1>2, <1>6, <1>7, PageStays, FormStays, StoreStays DEF TypeInv, RequestsGood

LEMMA CloseTyped ==
  ASSUME TypeInv, NEW j \in Jobs, CloseJob(j)
  PROVE  TypeInv'
<1>1. JobTyped' /\ JobsStay
  BY DEF CloseJob, TypeInv, JobTyped, JobsStay, Known, Terminal, JobStatus, IN_FLIGHT
<1> QED BY <1>1, PageStays, FormStays, StoreStays, RequestsStay DEF CloseJob, TypeInv

LEMMA TypedStep == TypeInv /\ [Next]_vars => TypeInv'
<1> SUFFICES ASSUME TypeInv, [Next]_vars PROVE TypeInv'
  OBVIOUS
<1>1. CASE UNCHANGED vars
  <2>1. JobsStay /\ JobTyped'
    BY <1>1, JobsStayIf DEF vars, TypeInv, JobTyped
  <2> QED BY <1>1, <2>1, PageStays, FormStays, StoreStays, RequestsStay DEF vars, TypeInv
<1>2. CASE EditForm \/ \E f \in Files : FileRead(f)
  BY <1>2, EditTyped
<1>3. ASSUME NEW s \in Slots,
             Client(s) \/ Tick(s) \/ Deliver(s) \/ Failed(s) \/ Serve(s)
             \/ \E j \in Jobs : ServeCreation(s, j)
      PROVE  TypeInv'
  BY <1>3, ClientTyped, TickTyped, DeliverTyped, FailedTyped, ServeTyped, CreationTyped
<1>4. ASSUME NEW j \in Jobs, CloseJob(j) PROVE TypeInv'
  BY <1>4, CloseTyped
<1> QED BY <1>1, <1>2, <1>3, <1>4 DEF Next

LEMMA Typed == Spec => []TypeInv
  BY TypedInit, TypedStep, PTL DEF Spec

\* The store, the pages and the requests keep their types; in particular the answer
\* about a job is never empty, as no page leads to a job that the backend does not have
\* (jobStore.ts, JobResultPage.tsx:57).
THEOREM JobsTypeCorrect == Spec => []TypeOK
  BY Typed, TypeInvImplies, PTL

-----------------------------------------------------------------------------
(* What the form sends: part of TypeInv, as an answer to a creation could     *)
(* otherwise not be typed.                                                    *)

\* A job is created with columns of the data it is created with, whichever of the files
\* chosen is read first, and whether the embedded data are chosen before or after
\* (NewJobPage.tsx:96 and 110).
THEOREM ColumnsFitTheData == Spec => []ColumnsOfTheDataSent
<1>1. TypeInv => ColumnsOfTheDataSent
  BY DEF TypeInv, RequestsGood, RequestGood, ColumnsOfTheDataSent, Free
<1> QED BY <1>1, Typed, PTL

-----------------------------------------------------------------------------
(* What the store waits for.                                                  *)

Awaited == {"fetchJobs", "fetchJob", "createJob"}

Waits(requests) == \E s \in Slots : requests[s] # NoRequest /\ requests[s].kind \in Awaited

WaitInv == store.loading => Waits(request)

\* A slot that awaits nothing can be used for something else.
LEMMA WaitsStill ==
  ASSUME NEW requests \in Requests, NEW s \in Slots, NEW r, Waits(requests),
         requests[s] # NoRequest => requests[s].kind \notin Awaited
  PROVE  Waits([requests EXCEPT ![s] = r])
  BY DEF Waits, Requests

LEMMA WaitsNow ==
  ASSUME NEW requests \in Requests, NEW s \in Slots, NEW r \in Request, r.kind \in Awaited
  PROVE  Waits([requests EXCEPT ![s] = r])
  BY NoRequestAssumption DEF Waits, Requests

LEMMA UnheardWaits ==
  ASSUME NEW requests \in Requests
  PROVE  /\ Unheard(requests) \in Requests
         /\ \A s \in Slots :
              /\ Unheard(requests)[s] = NoRequest <=> requests[s] = NoRequest
              /\ requests[s] # NoRequest => Unheard(requests)[s].kind = requests[s].kind
<1>1. \A s \in Slots : requests[s] # NoRequest =>
        LET q == [requests[s] EXCEPT !.live = FALSE] IN
        q \in Request /\ q.kind = requests[s].kind
  BY LiveRequest DEF Requests
<1> QED BY <1>1, NoRequestAssumption DEF Unheard, Requests

LEMMA ShowWaits ==
  ASSUME TypeInv, NEW name \in {"away", "list", "detail", "result", "new"},
         NEW j \in Jobs \cup {NoJob}, name \in {"detail", "result"} => Known(j),
         NEW s \in Slots, NEW state, StoreGood(state),
         NEW requests \in Requests, Show(name, j, s, state, requests),
         state.loading => Waits(requests),
         requests[s] # NoRequest => requests[s].kind \notin Awaited
  PROVE  WaitInv'
<1>1. CASE page.name = name /\ page.on = j
  BY <1>1 DEF Show, WaitInv
<1>2. CASE ~(page.name = name /\ page.on = j)
  <2>1. /\ store' = IF name \in {"list", "detail"} THEN Waiting(state) ELSE state
        /\ request' = [Unheard(requests) EXCEPT ![s] = FirstRequest(name, j)]
    BY <1>2 DEF Show
  <2>2. CASE name \in {"list", "detail"}
    <3>1. FirstRequest(name, j) \in Request /\ FirstRequest(name, j).kind \in Awaited
      <4>1. name = "list" => FirstRequest(name, j) = Sent("fetchJobs", NoJob)
        BY DEF FirstRequest
      <4>2. name = "detail" => FirstRequest(name, j) = Sent("fetchJob", j)
        BY DEF FirstRequest
      <4>3. RequestGood(Sent("fetchJobs", NoJob))
        BY SentGood DEF About
      <4>4. name = "detail" => RequestGood(Sent("fetchJob", j))
        BY SentGood DEF About
      <4>5. Sent("fetchJobs", NoJob).kind \in Awaited /\ Sent("fetchJob", j).kind \in Awaited
        BY DEF Sent, Awaited
      <4>6. CASE name = "list"
        BY <4>1, <4>3, <4>5, <4>6 DEF RequestGood
      <4>7. CASE name = "detail"
        BY <4>2, <4>4, <4>5, <4>7 DEF RequestGood
      <4> QED BY <2>2, <4>6, <4>7
    <3>2. Waits(request')
      BY <2>1, <3>1, UnheardWaits, WaitsNow
    <3> QED BY <3>2 DEF WaitInv, Waits
  <2>3. CASE name \notin {"list", "detail"}
    <3>1. state.loading => Waits(Unheard(requests))
      BY UnheardWaits DEF Waits
    <3>2. state.loading => Waits(request')
      BY <2>1, <3>1, UnheardWaits, WaitsStill
    <3> QED BY <2>1, <2>3, <3>2 DEF WaitInv, Waits
  <2> QED BY <2>2, <2>3
<1> QED BY <1>1, <1>2

\* A step that sends what the store waits for, or nothing, and does not begin to wait.
LEMMA SendWaits ==
  ASSUME TypeInv, WaitInv, NEW s \in Slots, NEW r \in Request, Send(s, r),
         r.kind \in Awaited \/ store' = store
  PROVE  WaitInv'
<1>1. request \in Requests /\ request[s] = NoRequest /\ request' = [request EXCEPT ![s] = r]
  BY DEF Send, Free, TypeInv, RequestsGood
<1>2. CASE r.kind \in Awaited
  BY <1>1, <1>2, WaitsNow DEF WaitInv, Waits
<1>3. CASE store' = store
  BY <1>1, <1>3, WaitsStill DEF WaitInv, Waits
<1> QED BY <1>2, <1>3

\* A step that ends, or changes, a request for which the store does not wait.
LEMMA OtherWaits ==
  ASSUME TypeInv, WaitInv, NEW s \in Slots, NEW r, request' = [request EXCEPT ![s] = r],
         request[s] # NoRequest => request[s].kind \notin Awaited,
         store'.loading => store.loading
  PROVE  WaitInv'
  BY WaitsStill DEF WaitInv, Waits, TypeInv, RequestsGood

\* What is served is still awaited.
LEMMA AnswerWaits ==
  ASSUME TypeInv, WaitInv, NEW s \in Slots, NEW got \in SUBSET Job, request[s] # NoRequest,
         request' = [request EXCEPT ![s].served = TRUE, ![s].got = got], store' = store
  PROVE  WaitInv'
<1> DEFINE q == [request[s] EXCEPT !.served = TRUE, !.got = got]
<1>1. request \in Requests /\ request[s] \in Request
  BY DEF TypeInv, RequestsGood, Requests
<1>2. request' = [request EXCEPT ![s] = q]
  BY <1>1 DEF Requests
<1>3. q \in Request /\ q.kind = request[s].kind
  BY <1>1, AnsweredGood
<1> HIDE DEF q
<1>4. Waits(request) => Waits([request EXCEPT ![s] = q])
  BY <1>1, <1>3, WaitsNow, WaitsStill
<1>5. Waits(request) => Waits(request')
  BY <1>2, <1>4
<1> QED BY <1>5 DEF WaitInv, Waits

LEMMA ClientWaits ==
  ASSUME TypeInv, WaitInv, NEW s \in Slots, Client(s) \/ Tick(s)
  PROVE  WaitInv'
<1>1. /\ request \in Requests /\ StoreGood(store) /\ PageGood
      /\ store.loading => Waits(request)
  BY DEF TypeInv, RequestsGood, WaitInv
<1>2. \A name \in {"away", "list", "detail", "result", "new"}, j \in Jobs \cup {NoJob} :
        (name \in {"detail", "result"} => Known(j)) /\ Visit(name, j, s) => WaitInv'
  BY <1>1, ShowWaits DEF Visit, Free
<1>3. CASE GoToList(s) \/ GoAway(s) \/ NewJob(s)
  BY <1>2, <1>3 DEF GoToList, GoAway, NewJob
<1>4. ASSUME NEW j \in Jobs, OpenJob(j, s) PROVE WaitInv'
  <2>1. Known(j)
    BY <1>1, <1>4 DEF OpenJob, StoreGood
  <2> QED BY <1>2, <1>4, <2>1 DEF OpenJob
<1>5. CASE OpenResult(s)
  <2>1. Known(store.currentJob.id)
    BY <1>1, <1>5 DEF OpenResult, StoreGood
  <2> QED BY <1>2, <1>5, <2>1 DEF OpenResult, Known
<1>6. CASE BackToDetail(s)
  BY <1>1, <1>2, <1>6 DEF BackToDetail, PageGood, Known
<1>7. Sent("fetchJobs", NoJob) \in Request /\ Sent("fetchJobs", NoJob).kind \in Awaited
  <2>1. RequestGood(Sent("fetchJobs", NoJob))
    BY SentGood DEF About
  <2> QED BY <2>1 DEF RequestGood, Sent, Awaited
<1>8. ASSUME NEW kind \in About, NEW j \in Jobs, Known(j)
      PROVE  Sent(kind, j) \in Request /\ Sent(kind, j).kind = kind
  <2>1. RequestGood(Sent(kind, j))
    BY <1>8, SentGood
  <2> QED BY <2>1 DEF RequestGood, Sent
<1>9. CASE ReloadList(s)
  BY <1>7, <1>9, SendWaits DEF ReloadList
<1>10. CASE RetryDetail(s)
  <2>1. Known(page.on) /\ page.on \in Jobs
    BY <1>1, <1>10 DEF RetryDetail, PageGood, Known
  <2> QED BY <1>8, <1>10, <2>1, SendWaits DEF RetryDetail, About, Awaited
<1>11. CASE RetryResult(s)
  <2>1. Known(page.on) /\ page.on \in Jobs
    BY <1>1, <1>11 DEF RetryResult, PageGood, Known
  <2> QED BY <1>8, <1>11, <2>1, SendWaits DEF RetryResult, About
<1>12. CASE SubmitJob(s)
  <2>1. PICK r : RequestGood(r) /\ r.kind = "createJob" /\ Send(s, r)
    BY <1>12, SubmitSends
  <2> QED BY <2>1, SendWaits DEF RequestGood, Awaited
<1>13. CASE Tick(s)
  <2>1. CASE page.name = "list"
    BY <1>7, <1>13, <2>1, SendWaits DEF Tick
  <2>2. CASE page.name # "list"
    <3>1. Known(page.on) /\ page.on \in Jobs
      BY <1>1, <1>13, <2>2 DEF Tick, Polling, PageGood, Known
    <3> QED BY <1>8, <1>13, <2>2, <3>1, SendWaits DEF Tick, About
  <2> QED BY <2>1, <2>2
<1> QED BY <1>3, <1>4, <1>5, <1>6, <1>9, <1>10, <1>11, <1>12, <1>13 DEF Client

LEMMA DeliverWaits ==
  ASSUME TypeInv, WaitInv, NEW s \in Slots, Deliver(s)
  PROVE  WaitInv'
<1>1. /\ request \in Requests /\ StoreGood(store) /\ RequestsGood(request)
      /\ request[s] # NoRequest => RequestGood(request[s])
  BY DEF TypeInv, RequestsGood
<1>2. Done(s) = [request EXCEPT ![s] = NoRequest] /\ Done(s) \in Requests
      /\ Done(s)[s] = NoRequest
  BY <1>1 DEF Done, Requests
<1>3. CASE JobsFetched(s) \/ JobFetched(s)
  <2>1. store'.loading = FALSE
    BY <1>1, <1>3 DEF JobsFetched, JobFetched, StoreGood, JobState
  <2> QED BY <2>1 DEF WaitInv
<1>4. CASE Refreshed(s)
  <2>1. store'.loading = store.loading /\ request[s].kind \notin Awaited
        /\ request' = [request EXCEPT ![s] = NoRequest]
    BY <1>1, <1>2, <1>4 DEF Refreshed, Arrived, StoreGood, JobState, Awaited
  <2> QED BY <2>1, OtherWaits
<1>5. CASE JobCreated(s)
  <2> DEFINE state == [store EXCEPT !.jobs = @ \cup request[s].got, !.loading = FALSE]
  <2>1. StoreGood(state) /\ state.loading = FALSE
    BY <1>1, <1>5 DEF JobCreated, Arrived, StoreGood, RequestGood, JobState, Request
  <2>2. Show("list", NoJob, s, state, Done(s))
    BY <1>5 DEF JobCreated
  <2> HIDE DEF state
  <2> QED BY <1>2, <2>1, <2>2, ShowWaits
<1>6. CASE StatusRead(s)
  <2>1. /\ Known(request[s].on) /\ request[s] # NoRequest /\ request[s].on \in Jobs
        /\ request[s].kind \notin Awaited
    BY <1>1, <1>6 DEF StatusRead, Arrived, RequestGood, About, Awaited, Known
  <2>2. CASE Received(s).status # "completed"
    <3>1. Waits(request) => Waits([request EXCEPT ![s] = NoRequest])
      BY <1>1, <2>1, WaitsStill
    <3>2. store.loading => Waits(Done(s))
      BY <1>2, <3>1 DEF WaitInv
    <3> QED BY <1>1, <1>2, <1>6, <2>1, <2>2, <3>2, ShowWaits DEF StatusRead
  <2>3. CASE Received(s).status = "completed"
    BY <1>6, <2>1, <2>3, OtherWaits DEF StatusRead
  <2> QED BY <2>2, <2>3
<1>7. CASE ResultRead(s)
  BY <1>2, <1>7, OtherWaits DEF ResultRead, Arrived, Awaited
<1> QED BY <1>3, <1>4, <1>5, <1>6, <1>7 DEF Deliver

LEMMA FailedWaits ==
  ASSUME TypeInv, WaitInv, NEW s \in Slots, Failed(s)
  PROVE  WaitInv'
<1>1. CASE request[s].kind \in Awaited
  <2>1. store'.loading = FALSE
    BY <1>1 DEF Failed, TypeInv, StoreGood, JobState, Awaited
  <2> QED BY <2>1 DEF WaitInv
<1>2. CASE request[s].kind \notin Awaited
  BY <1>2, OtherWaits DEF Failed, Done, Awaited
<1> QED BY <1>1, <1>2

LEMMA ServeWaits ==
  ASSUME TypeInv, WaitInv, NEW s \in Slots, Serve(s) \/ \E j \in Jobs : ServeCreation(s, j)
  PROVE  WaitInv'
<1>1. request[s] # NoRequest /\ RequestGood(request[s]) /\ JobTyped /\ store' = store
  BY DEF Serve, ServeCreation, Pending, Free, TypeInv, RequestsGood
<1>2. CASE Serve(s)
  <2> DEFINE ids == IF request[s].kind = "fetchJobs" THEN Jobs ELSE {request[s].on}
  <2>1. ids \in SUBSET Jobs
    BY <1>1, <1>2 DEF Serve, RequestGood, Request, About, Known
  <2>2. request' = [request EXCEPT ![s].served = TRUE, ![s].got = Entries(ids)]
    BY <1>2 DEF Serve, Answered
  <2> HIDE DEF ids
  <2> QED BY <1>1, <2>1, <2>2, EntriesGood, AnswerWaits
<1>3. ASSUME NEW j \in Jobs, ServeCreation(s, j) PROVE WaitInv'
  <2>1. {[id |-> j, status |-> "processing"]} \in SUBSET Job
    BY DEF Job, JobStatus, IN_FLIGHT
  <2> QED BY <1>1, <1>3, <2>1, AnswerWaits DEF ServeCreation, Answered
<1> QED BY <1>2, <1>3

LEMMA WaitStep == TypeInv /\ WaitInv /\ [Next]_vars => WaitInv'
<1> SUFFICES ASSUME TypeInv, WaitInv, [Next]_vars PROVE WaitInv'
  OBVIOUS
<1>1. CASE UNCHANGED vars
  BY <1>1 DEF vars, WaitInv, Waits
<1>2. CASE EditForm \/ \E f \in Files : FileRead(f)
  <2>1. request' = request
    BY <1>2 DEF EditForm, ChooseFile, handleUseSampleData, toggleColumn, ToStep, FileRead
  <2>2. store' = store \/ store' = [store EXCEPT !.error = FALSE]
    BY <1>2 DEF EditForm, ChooseFile, handleUseSampleData, toggleColumn, ToStep, FileRead
  <2>3. store'.loading = store.loading
    BY <2>2 DEF TypeInv, StoreGood, JobState
  <2> QED BY <2>1, <2>3 DEF WaitInv, Waits
<1>3. ASSUME NEW s \in Slots,
             Client(s) \/ Tick(s) \/ Deliver(s) \/ Failed(s) \/ Serve(s)
             \/ \E j \in Jobs : ServeCreation(s, j)
      PROVE  WaitInv'
  BY <1>3, ClientWaits, DeliverWaits, FailedWaits, ServeWaits
<1>4. ASSUME NEW j \in Jobs, CloseJob(j) PROVE WaitInv'
  BY <1>4 DEF CloseJob, WaitInv, Waits
<1> QED BY <1>1, <1>2, <1>3, <1>4 DEF Next

\* The store never waits without a request that will end its wait, in whatever order the
\* answers to the list, to a detail and to a creation come, and although each of them
\* resets the one flag they share (jobStore.ts:34 to 72).
THEOREM SpinnersAreAwaited == Spec => []LoadingMeansWaiting
<1>1. Init => WaitInv
  BY DEF Init, WaitInv
<1>2. WaitInv => LoadingMeansWaiting
  BY DEF WaitInv, Waits, Awaited, LoadingMeansWaiting, Free
<1> QED BY <1>1, <1>2, Typed, WaitStep, PTL DEF Spec

=============================================================================
