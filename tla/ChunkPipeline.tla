--------------------------- MODULE ChunkPipeline ---------------------------
(***************************************************************************)
(* The compute pipeline of the backend: POST /work/claim and               *)
(* POST /work/{chunk_id}/submit, from the claim transaction through the    *)
(* consensus of replicas to payment and to the closing of the job.         *)
(*                                                                         *)
(* The HTTP handlers are synchronous functions that run in the thread      *)
(* pools of two Uvicorn processes.  Each is a sequence of separate calls   *)
(* to the database, so one step of a thread here is one database call (or  *)
(* one transaction), and the steps of different threads interleave.        *)
(***************************************************************************)
EXTENDS Naturals, FiniteSets

CONSTANTS
  Jobs,         \* the jobs whose chunks are in the database
  Chunks,       \* the chunks
  JobOf,        \* chunks.job_id
  Providers,    \* the providers that run workers
  Values,       \* the results a worker can submit, up to _canonical
  Threads,      \* the server threads that run handlers
  MaxAttempts,  \* MAX_CHUNK_ATTEMPTS
  MaxClaim,     \* the largest max_chunks a client asks for
  NoJob, NoChunk, NoProvider, NoValue

ASSUME ConstantsAssumption ==
  /\ JobOf \in [Chunks -> Jobs]
  /\ IsFiniteSet(Chunks)
  /\ IsFiniteSet(Providers)
  /\ MaxAttempts \in Nat \ {0}
  /\ MaxClaim \in Nat \ {0}
  /\ NoJob \notin Jobs
  /\ NoChunk \notin Chunks
  /\ NoProvider \notin Providers
  /\ NoValue \notin Values

VARIABLES
  job,      \* table jobs
  chunk,    \* table chunks
  answer,   \* table chunk_results: the result a provider delivered for a chunk
  verdict,  \* table chunk_results: is_valid
  ledger,   \* wallet credits and trust penalties a provider got for a chunk
  thread    \* the handlers in flight

tables == <<job, chunk, answer, verdict, ledger>>
vars == <<job, chunk, answer, verdict, ledger, thread>>

-----------------------------------------------------------------------------
(* Rows and handlers. *)

JobStatus == {"absent", "pending", "splitting", "processing", "completed", "failed"}
ClosedStatus == {"completed", "failed"}
ChunkStatus == {"absent", "pending", "assigned", "done", "rejected"}
TerminalStatus == {"done", "rejected"}

\* completed is completed_chunks; result is the set of chunk_results rows that
\* were reduced into it; closes counts the writes of completed_at.
JobRow == [status : JobStatus, completed : Nat,
           result : SUBSET (Chunks \X Providers), closes : Nat]

\* expired abstracts assigned_at: TRUE once it is older than the TTL.
ChunkRow == [status : ChunkStatus, assignedTo : Providers \cup {NoProvider},
             expired : BOOLEAN, attempts : Nat, abandonedBy : SUBSET Providers]

Account == [credits : Nat, penalties : Nat]

SubmitPC == {"check", "insert", "reload", "requeue", "validate", "verdict",
             "increment", "pay"}
ClosePC == {"count", "readjob", "failjob", "gather", "complete"}

\* seen and winners are what the handler computed from its last read of
\* chunk_results; left is what remains of the loop it is in; closing is the
\* jobs it still has to pass to _try_close_job, job the one it is working on.
Handler == [pc : {"idle"} \cup SubmitPC \cup ClosePC,
            who : Providers \cup {NoProvider}, on : Chunks \cup {NoChunk},
            seen : SUBSET Providers, winners : SUBSET Providers,
            left : SUBSET Providers,
            closing : SUBSET Jobs, job : Jobs \cup {NoJob},
            outcome : {"none", "completed", "failed"},
            gathered : SUBSET (Chunks \X Providers)]

Idle == [pc |-> "idle", who |-> NoProvider, on |-> NoChunk, seen |-> {},
         winners |-> {}, left |-> {}, closing |-> {}, job |-> NoJob,
         outcome |-> "none", gathered |-> {}]

FreshJob == [status |-> "processing", completed |-> 0, result |-> {}, closes |-> 0]
FreshChunk == [status |-> "pending", assignedTo |-> NoProvider, expired |-> FALSE,
               attempts |-> 0, abandonedBy |-> {}]

ChunksOf(j) == {c \in Chunks : JobOf[c] = j}
Answered(c) == {p \in Providers : answer[c][p] # NoValue}
InStatus(j, S) == {c \in ChunksOf(j) : chunk[c].status \in S}

\* The handler of a submit for chunk c by its present assignee is in flight.
Handled(c) ==
  \E t \in Threads : /\ thread[t].pc \in SubmitPC
                     /\ thread[t].on = c
                     /\ thread[t].who = chunk[c].assignedTo

-----------------------------------------------------------------------------
(* Consensus over the results a handler has read. *)

\* The providers of S that answered v for chunk c.
Backers(c, S, v) == {p \in S : answer[c][p] = v}

\* Counter(canonicals).most_common(1): an answer with the most backers in S.
MostCommon(c, S) ==
  {v \in Values : \A w \in Values :
     Cardinality(Backers(c, S, w)) <= Cardinality(Backers(c, S, v))}

\* Mutant: a single backer is enough.
AgreedAlone(c, S, v) == v \in MostCommon(c, S) /\ Backers(c, S, v) # {}

\* Two results consent when equal; from three on a majority of two decides.
Agreed(c, S, v) ==
  /\ v \in MostCommon(c, S)
  /\ Cardinality(Backers(c, S, v)) >= 2

-----------------------------------------------------------------------------
(* Handlers: the close queue a handler runs when it has settled its chunks. *)

\* Go on with the next job to pass to _try_close_job, or answer the request.
CloseNext(rest) ==
  IF rest = {} THEN Idle ELSE [Idle EXCEPT !.pc = "count", !.closing = rest]

Goto(t, pc) == thread' = [thread EXCEPT ![t].pc = pc]
Reply(t) == thread' = [thread EXCEPT ![t] = Idle]

-----------------------------------------------------------------------------
(* POST /work/claim: one transaction of three statements.  Each statement  *)
(* passes over the rows it cannot lock (SKIP LOCKED): locked.              *)

Overtime(locked) ==
  {c \in Chunks \ locked : chunk[c].status = "assigned" /\ chunk[c].expired}

Reclaimed(row, abandoner) ==
  [row EXCEPT !.status = "pending", !.assignedTo = NoProvider, !.expired = FALSE,
              !.abandonedBy = @ \cup {abandoner}]

\* Mutant: assigned_to is read after it has been cleared.
AfterTTLCleared(locked) ==
  [c \in Chunks |-> IF c \in Overtime(locked) THEN Reclaimed(chunk[c], NoProvider)
                                              ELSE chunk[c]]

\* 1. TTL reclaim
AfterTTL(locked) ==
  [c \in Chunks |-> IF c \in Overtime(locked) THEN Reclaimed(chunk[c], chunk[c].assignedTo)
                                              ELSE chunk[c]]

\* Mutants: a chunk at the limit is not overdue; chunks of any status are.
OverdueAboveLimit(rows, locked) ==
  {c \in Chunks \ locked : rows[c].status = "pending" /\ rows[c].attempts > MaxAttempts}
OverdueAnyStatus(rows, locked) ==
  {c \in Chunks \ locked : rows[c].attempts >= MaxAttempts}

\* 2. attempts rejection, over the rows as statement 1 left them
Overdue(rows, locked) ==
  {c \in Chunks \ locked : rows[c].status = "pending" /\ rows[c].attempts >= MaxAttempts}

\* Mutants: a provider gets back what it abandoned, or what it has answered; a chunk that
\* is in the hands of another provider is handed out.
CandidatesAbandoned(rows, p, locked) ==
  {c \in Chunks \ locked : /\ rows[c].status = "pending"
                           /\ rows[c].attempts < MaxAttempts
                           /\ answer[c][p] = NoValue}
CandidatesAnswered(rows, p, locked) ==
  {c \in Chunks \ locked : /\ rows[c].status = "pending"
                           /\ rows[c].attempts < MaxAttempts
                           /\ p \notin rows[c].abandonedBy}
CandidatesAssigned(rows, p, locked) ==
  {c \in Chunks \ locked : /\ rows[c].status \in {"pending", "assigned"}
                           /\ rows[c].attempts < MaxAttempts
                           /\ p \notin rows[c].abandonedBy
                           /\ answer[c][p] = NoValue}

\* 3. the claim
Candidates(rows, p, locked) ==
  {c \in Chunks \ locked : /\ rows[c].status = "pending"
                           /\ rows[c].attempts < MaxAttempts
                           /\ p \notin rows[c].abandonedBy
                           /\ answer[c][p] = NoValue}

\* LIMIT max_chunks; the chunks of a job are inserted together and tie on created_at.
Limited(candidates, n) ==
  {S \in SUBSET candidates :
     Cardinality(S) = IF Cardinality(candidates) < n THEN Cardinality(candidates) ELSE n}

Refused(row) == [row EXCEPT !.status = "rejected"]

Assigned(row, p, attempts) ==
  [row EXCEPT !.status = "assigned", !.assignedTo = p, !.expired = FALSE,
              !.attempts = attempts]

\* Mutant: the assignment is not counted.
AfterClaimUncounted(rows, overdue, taken, p) ==
  [c \in Chunks |->
     CASE c \in overdue -> Refused(rows[c])
       [] c \in taken -> Assigned(rows[c], p, rows[c].attempts)
       [] OTHER -> rows[c]]

AfterClaim(rows, overdue, taken, p) ==
  [c \in Chunks |->
     CASE c \in overdue -> Refused(rows[c])
       [] c \in taken -> Assigned(rows[c], p, rows[c].attempts + 1)
       [] OTHER -> rows[c]]

\* process_chunk_claim; the jobs of the rejected chunks are closed afterwards.
Claim(t, p, n, locked) ==
  /\ thread[t].pc = "idle"
  /\ LET rows == AfterTTL(locked)
         overdue == Overdue(rows, locked)
     IN \E taken \in Limited(Candidates(rows, p, locked), n) :
          /\ chunk' = AfterClaim(rows, overdue, taken, p)
          /\ thread' = [thread EXCEPT ![t] = CloseNext({JobOf[c] : c \in overdue})]
  /\ UNCHANGED <<job, answer, verdict, ledger>>

\* assigned_at passes the TTL.
Expire(c) ==
  /\ chunk[c].status = "assigned"
  /\ ~chunk[c].expired
  /\ chunk' = [chunk EXCEPT ![c].expired = TRUE]
  /\ UNCHANGED <<job, answer, verdict, ledger, thread>>

-----------------------------------------------------------------------------
(* POST /work/{chunk_id}/submit.                                           *)

\* get_chunk.  A request for a chunk that is not assigned to the provider
\* changes nothing on any path, so only the others are followed.
Receive(t, p, c) ==
  /\ thread[t].pc = "idle"
  /\ chunk[c].status = "assigned"
  /\ chunk[c].assignedTo = p
  /\ thread' = [thread EXCEPT ![t] = [Idle EXCEPT !.pc = "check", !.who = p, !.on = c]]
  /\ UNCHANGED tables

\* get_chunk_results and the 409 check
Check(t) ==
  /\ thread[t].pc = "check"
  /\ IF thread[t].who \in Answered(thread[t].on) THEN Reply(t) ELSE Goto(t, "insert")
  /\ UNCHANGED tables

\* submit_chunk_result; UNIQUE (chunk_id, provider_id) turns a repetition into a 500.
Insert(t, v) ==
  LET c == thread[t].on  p == thread[t].who IN
  /\ thread[t].pc = "insert"
  /\ IF answer[c][p] # NoValue
       THEN Reply(t) /\ UNCHANGED answer
       ELSE Goto(t, "reload") /\ answer' = [answer EXCEPT ![c][p] = v]
  /\ UNCHANGED <<job, chunk, verdict, ledger>>

\* The results are read again; fewer than replicas_needed = 2, or two that
\* differ, put the chunk back in the queue.
ReloadUndecided(t) ==
  LET S == Answered(thread[t].on) IN
  /\ thread[t].pc = "reload"
  /\ Cardinality(S) <= 2
  /\ \A v \in Values : ~Agreed(thread[t].on, S, v)
  /\ Goto(t, "requeue")
  /\ UNCHANGED tables

\* Two equal results, or a majority of three or more.
ReloadAgreed(t) ==
  LET c == thread[t].on  S == Answered(c) IN
  /\ thread[t].pc = "reload"
  /\ \E v \in Values :
       /\ Agreed(c, S, v)
       /\ thread' = [thread EXCEPT ![t].pc = "validate", ![t].seen = S,
                                   ![t].winners = Backers(c, S, v), ![t].left = S]
  /\ UNCHANGED tables

\* Three or more results and no two equal.
ReloadAllDiffer(t) ==
  LET c == thread[t].on  S == Answered(c) IN
  /\ thread[t].pc = "reload"
  /\ Cardinality(S) >= 3
  /\ \A v \in Values : ~Agreed(c, S, v)
  /\ thread' = [thread EXCEPT ![t].pc = "validate", ![t].seen = S,
                              ![t].winners = {}, ![t].left = S]
  /\ UNCHANGED tables

\* update_chunk_status clears assigned_at, and assigned_to when back to pending.
Requeued(row) ==
  [row EXCEPT !.status = "pending", !.assignedTo = NoProvider, !.expired = FALSE]
Settled(row, status) == [row EXCEPT !.status = status, !.expired = FALSE]

\* update_chunk_status(chunk_id, "pending"), whatever the row holds by now
Requeue(t) ==
  LET c == thread[t].on IN
  /\ thread[t].pc = "requeue"
  /\ chunk' = [chunk EXCEPT ![c] = Requeued(@)]
  /\ Reply(t)
  /\ UNCHANGED <<job, answer, verdict, ledger>>

\* Mutant: every row of the round is marked valid.
MarkAllValid(t, q) == "valid"

Mark(t, q) == IF q \in thread[t].winners THEN "valid" ELSE "invalid"

\* validate_chunk_result for one of the results seen
Validate(t, q) ==
  LET c == thread[t].on  rest == thread[t].left \ {q} IN
  /\ thread[t].pc = "validate"
  /\ q \in thread[t].left
  /\ verdict' = [verdict EXCEPT ![c][q] = Mark(t, q)]
  /\ thread' = [thread EXCEPT ![t].left = rest,
                              ![t].pc = IF rest = {} THEN "verdict" ELSE "validate"]
  /\ UNCHANGED <<job, chunk, answer, ledger>>

\* Mutants: the chunk keeps its status; a rejected chunk is counted as completed.
DecidedUnwritten(t) == chunk[thread[t].on].status
AfterVerdictCounted(t) == "increment"

Decided(t) == IF thread[t].winners # {} THEN "done" ELSE "rejected"
AfterVerdict(t) == IF thread[t].winners # {} THEN "increment" ELSE "pay"

\* update_chunk_status(chunk_id, "done" or "rejected"); assigned_to is kept.
WriteVerdict(t) ==
  LET c == thread[t].on IN
  /\ thread[t].pc = "verdict"
  /\ chunk' = [chunk EXCEPT ![c] = Settled(@, Decided(t))]
  /\ thread' = [thread EXCEPT ![t].left = thread[t].seen, ![t].pc = AfterVerdict(t)]
  /\ UNCHANGED <<job, answer, verdict, ledger>>

\* increment_job_completed_chunks; the CHECK completed_chunks <= total_chunks
\* raises, and the exception ends the request.
Increment(t) ==
  LET j == JobOf[thread[t].on] IN
  /\ thread[t].pc = "increment"
  /\ IF job[j].completed < Cardinality(ChunksOf(j))
       THEN /\ job' = [job EXCEPT ![j].completed = @ + 1]
            /\ Goto(t, "pay")
       ELSE /\ Reply(t)
            /\ UNCHANGED job
  /\ UNCHANGED <<chunk, answer, verdict, ledger>>

\* Mutant: the loop stops after the first result.
PaidOneOnly(t, q) == thread' = [thread EXCEPT ![t] = CloseNext({JobOf[thread[t].on]})]

\* The loop over the results goes on, and after the last one the job is closed.
PaidOne(t, q) ==
  LET rest == thread[t].left \ {q} IN
  thread' = [thread EXCEPT ![t] = IF rest = {} THEN CloseNext({JobOf[thread[t].on]})
                                               ELSE [thread[t] EXCEPT !.left = rest]]

\* credit_reward_and_update_trust, one transaction for one provider
Pay(t, q) ==
  LET c == thread[t].on IN
  /\ thread[t].pc = "pay"
  /\ q \in thread[t].left
  /\ ledger' = IF q \in thread[t].winners
                 THEN [ledger EXCEPT ![c][q].credits = @ + 1]
                 ELSE [ledger EXCEPT ![c][q].penalties = @ + 1]
  /\ PaidOne(t, q)
  /\ UNCHANGED <<job, chunk, answer, verdict>>

-----------------------------------------------------------------------------
(* _try_close_job and finalize_job.                                        *)

\* count_done_and_rejected_chunks
Total(j) == Cardinality(InStatus(j, ChunkStatus \ {"absent"}))
Done(j) == Cardinality(InStatus(j, {"done"}))
Rejected(j) == Cardinality(InStatus(j, {"rejected"}))

\* Mutants: one chunk may still be open; half of the chunks rejected is too many.
AllTerminalButOne(j) == Total(j) > 0 /\ Done(j) + Rejected(j) + 1 >= Total(j)
TooManyRejectedAtHalf(j) == 2 * Rejected(j) >= Total(j)

AllTerminal(j) == Total(j) > 0 /\ Done(j) + Rejected(j) >= Total(j)
TooManyRejected(j) == 2 * Rejected(j) > Total(j)

CountTerminal(t) ==
  /\ thread[t].pc = "count"
  /\ \E j \in thread[t].closing :
       LET rest == thread[t].closing \ {j} IN
       thread' = [thread EXCEPT ![t] =
         IF AllTerminal(j)
           THEN [Idle EXCEPT !.pc = "readjob", !.closing = rest, !.job = j,
                   !.outcome = IF TooManyRejected(j) THEN "failed" ELSE "completed"]
           ELSE CloseNext(rest)]
  /\ UNCHANGED tables

\* get_job and the check that it is not closed already
ReadJob(t) ==
  /\ thread[t].pc = "readjob"
  /\ thread' = [thread EXCEPT ![t] =
       IF job[thread[t].job].status \in ClosedStatus
         THEN CloseNext(thread[t].closing)
         ELSE [thread[t] EXCEPT
                 !.pc = IF thread[t].outcome = "failed" THEN "failjob" ELSE "gather"]]
  /\ UNCHANGED tables

\* update_job_status with completed_at
Closed(row, status, result) ==
  [row EXCEPT !.status = status, !.result = result, !.closes = @ + 1]

\* update_job_status(job_id, "failed", completed_at)
FailJob(t) ==
  LET j == thread[t].job IN
  /\ thread[t].pc = "failjob"
  /\ job' = [job EXCEPT ![j] = Closed(@, "failed", @.result)]
  /\ thread' = [thread EXCEPT ![t] = CloseNext(thread[t].closing)]
  /\ UNCHANGED <<chunk, answer, verdict, ledger>>

\* Mutant: is_valid is not looked at.
ValidRowsUnfiltered(j) ==
  {r \in Chunks \X Providers : JobOf[r[1]] = j /\ r[2] \in Answered(r[1])}

\* get_valid_results_for_job
ValidRows(j) ==
  {r \in Chunks \X Providers : JobOf[r[1]] = j /\ verdict[r[1]][r[2]] = "valid"}

\* finalize_job reads the valid results
GatherResults(t) ==
  /\ thread[t].pc = "gather"
  /\ thread' = [thread EXCEPT ![t].pc = "complete",
                              ![t].gathered = ValidRows(thread[t].job)]
  /\ UNCHANGED tables

\* finalize_job writes their reduction: update_job_status(..., "completed", ...)
CompleteJob(t) ==
  LET j == thread[t].job IN
  /\ thread[t].pc = "complete"
  /\ job' = [job EXCEPT ![j] = Closed(@, "completed", thread[t].gathered)]
  /\ thread' = [thread EXCEPT ![t] = CloseNext(thread[t].closing)]
  /\ UNCHANGED <<chunk, answer, verdict, ledger>>

-----------------------------------------------------------------------------
(* Faults.                                                                 *)

\* The server process dies, or a database call raises and nobody catches it.
HandlerDies(t) ==
  /\ thread[t].pc # "idle"
  /\ Reply(t)
  /\ UNCHANGED tables

\* The transaction of a payment fails; _pay_and_update_trust logs and goes on.
PayFails(t, q) ==
  /\ thread[t].pc = "pay"
  /\ q \in thread[t].left
  /\ PaidOne(t, q)
  /\ UNCHANGED tables

\* A call under _try_close_job or finalize_job fails; both log and return.
CloseFails(t) ==
  /\ thread[t].pc \in ClosePC
  /\ \/ /\ thread[t].pc = "count"
        /\ \E j \in thread[t].closing :
             thread' = [thread EXCEPT ![t] = CloseNext(thread[t].closing \ {j})]
     \/ /\ thread[t].pc # "count"
        /\ thread' = [thread EXCEPT ![t] = CloseNext(thread[t].closing)]
  /\ UNCHANGED tables

-----------------------------------------------------------------------------
(* Specifications.                                                         *)

\* The jobs have been created and their chunks are in the queue.
Init ==
  /\ job = [j \in Jobs |-> FreshJob]
  /\ chunk = [c \in Chunks |-> FreshChunk]
  /\ answer = [c \in Chunks |-> [p \in Providers |-> NoValue]]
  /\ verdict = [c \in Chunks |-> [p \in Providers |-> "null"]]
  /\ ledger = [c \in Chunks |-> [p \in Providers |-> [credits |-> 0, penalties |-> 0]]]
  /\ thread = [t \in Threads |-> Idle]

\* A claim that reclaims no assignment whose submit is being handled, and the
\* other claims: the handler read the row before, and goes on as if it still held.
PromptClaim(t, p, n, locked) ==
  (\A c \in Overtime(locked) : ~Handled(c)) /\ Claim(t, p, n, locked)
LateClaim(t, p, n, locked) ==
  (\E c \in Overtime(locked) : Handled(c)) /\ Claim(t, p, n, locked)

Close(t) ==
  \/ CountTerminal(t)
  \/ ReadJob(t)
  \/ FailJob(t)
  \/ GatherResults(t)
  \/ CompleteJob(t)

Receives(t) == \E p \in Providers, c \in Chunks : Receive(t, p, c)

\* The steps of a request that has been received.
Progress(t) ==
  \/ Check(t)
  \/ \E v \in Values : Insert(t, v)
  \/ ReloadUndecided(t)
  \/ ReloadAgreed(t)
  \/ ReloadAllDiffer(t)
  \/ Requeue(t)
  \/ \E q \in Providers : Validate(t, q)
  \/ WriteVerdict(t)
  \/ Increment(t)
  \/ \E q \in Providers : Pay(t, q)
  \/ Close(t)

Fault(t) ==
  \/ HandlerDies(t)
  \/ \E q \in Providers : PayFails(t, q)
  \/ CloseFails(t)

PromptClaims(t) ==
  \E p \in Providers, n \in 1..MaxClaim, locked \in SUBSET Chunks :
    PromptClaim(t, p, n, locked)

LateClaims(t) ==
  \E p \in Providers, n \in 1..MaxClaim, locked \in SUBSET Chunks :
    LateClaim(t, p, n, locked)

\* Everything but the faults and the late claims.
SmoothNext ==
  \/ \E c \in Chunks : Expire(c)
  \/ \E t \in Threads : PromptClaims(t) \/ Receives(t) \/ Progress(t)

PromptNext == SmoothNext \/ \E t \in Threads : Fault(t)

Next == PromptNext \/ \E t \in Threads : LateClaims(t)

\* The whole program.
Spec == Init /\ [][Next]_vars

\* The program when no assignment is reclaimed under a submit being handled.
PromptSpec == Init /\ [][PromptNext]_vars

\* No faults, a server that finishes the requests it has begun, a clock that goes
\* on, and workers that keep polling /work/claim.  Nothing obliges a worker to
\* submit.  A claim needs a free thread, which comes and goes: hence SF.
Fairness ==
  /\ \A t \in Threads : WF_vars(Progress(t))
  /\ \A c \in Chunks : WF_vars(Expire(c))
  /\ \A p \in Providers : SF_vars(\E t \in Threads : PromptClaim(t, p, MaxClaim, {}))

SmoothSpec == Init /\ [][SmoothNext]_vars /\ Fairness

-----------------------------------------------------------------------------
(* Properties of the whole program.                                        *)

\* Every row and every handler has its type.
TypeOK ==
  /\ job \in [Jobs -> JobRow]
  /\ chunk \in [Chunks -> ChunkRow]
  /\ answer \in [Chunks -> [Providers -> Values \cup {NoValue}]]
  /\ verdict \in [Chunks -> [Providers -> {"null", "valid", "invalid"}]]
  /\ ledger \in [Chunks -> [Providers -> Account]]
  /\ thread \in [Threads -> Handler]

\* Two providers of S delivered the same answer for chunk c.
TwoAgree(c, S) ==
  \E p, q \in S : p # q /\ answer[c][p] = answer[c][q] /\ answer[c][p] # NoValue

\* Provider p is not alone with its answer for c, or is not in agreement with all.
Seconded(c, p) == \E q \in Providers \ {p} : answer[c][q] = answer[c][p]
Disputed(c, p) ==
  \E q \in Providers : answer[c][q] \notin {answer[c][p], NoValue}

\* Whatever the interleaving, a reward is credited and a row is marked valid only
\* if a second provider delivered the same answer, a penalty is applied only if
\* another answer differs, and a chunk is done only if two providers agree
\* (process_chunk_submission works on snapshots that may be stale by then).
ConsensusBacksEverySettlement ==
  \A c \in Chunks :
    /\ chunk[c].status = "done" => TwoAgree(c, Providers)
    /\ \A p \in Providers :
         /\ answer[c][p] = NoValue => /\ verdict[c][p] = "null"
                                      /\ ledger[c][p].credits = 0
                                      /\ ledger[c][p].penalties = 0
         /\ verdict[c][p] = "valid" \/ ledger[c][p].credits > 0 => Seconded(c, p)
         /\ verdict[c][p] = "invalid" \/ ledger[c][p].penalties > 0 => Disputed(c, p)

\* A provider whose assignment of a chunk was reclaimed never holds that chunk
\* again, through any later requeue, reclaim or rejection (SEC-36).
AbandonerNeverReassigned ==
  \A c \in Chunks : chunk[c].assignedTo \notin chunk[c].abandonedBy

\* A chunk is handed out at most MAX_CHUNK_ATTEMPTS times, and a chunk that is
\* out of attempts is not in anybody's hands without one of them being counted.
AttemptsBounded ==
  \A c \in Chunks :
    /\ chunk[c].attempts <= MaxAttempts
    /\ chunk[c].status = "assigned" => chunk[c].attempts > 0
    /\ Cardinality(chunk[c].abandonedBy) <= chunk[c].attempts

-----------------------------------------------------------------------------
(* Properties of the program when no reclaim overlaps a submit.            *)

\* A result is settled at most once: no second reward, no second penalty, never
\* both, although the settling handler acts on what it read several calls before.
SettledOnce ==
  \A c \in Chunks, p \in Providers :
    ledger[c][p].credits + ledger[c][p].penalties <= 1

\* Nothing is settled before the chunk has its final status.
SettlementFollowsVerdict ==
  \A c \in Chunks, p \in Providers :
    /\ ledger[c][p].credits > 0 => chunk[c].status = "done" /\ verdict[c][p] = "valid"
    /\ ledger[c][p].penalties > 0 =>
         chunk[c].status \in TerminalStatus /\ verdict[c][p] = "invalid"

\* Handlers that have decided a chunk of job j and have not counted it yet.
StillToCount(j) == {t \in Threads : thread[t].pc = "increment" /\ JobOf[thread[t].on] = j}

\* Every done chunk is counted once at most: completed_chunks, with what the handlers on
\* their way to increment it will add, never exceeds the chunks that are done, so no two
\* handlers that both saw two equal results both count (consensus_service.py:193-195).
\* Handlers may die before they count: nothing is said of how far the count falls short.
CompletedCountsDone ==
  \A j \in Jobs :
    job[j].completed + Cardinality(StillToCount(j)) <= Cardinality(InStatus(j, {"done"}))

\* The providers that were handed chunk c: they delivered, abandoned, or hold it.
Engaged(c) ==
  Answered(c) \cup chunk[c].abandonedBy \cup
    (IF chunk[c].status = "assigned" THEN {chunk[c].assignedTo} ELSE {})

\* attempts counts distinct providers: a chunk is never handed to one twice.
EachAttemptAnotherProvider ==
  \A c \in Chunks : chunk[c].attempts = Cardinality(Engaged(c))

\* A chunk that is done or rejected stays so: no handler requeues, reassigns or
\* decides it again.
TerminalChunksStay ==
  [][\A c \in Chunks :
       chunk[c].status \in TerminalStatus => chunk'[c] = chunk[c]]_chunk

\* Two handlers may close one job, but the second changes neither its status nor
\* its result.
ClosedJobsStay ==
  [][\A j \in Jobs : job[j].status \in ClosedStatus =>
       job'[j].status = job[j].status /\ job'[j].result = job[j].result]_job

\* The result of a completed job reduces every done chunk: from each at least two
\* rows, and all that it takes from one chunk hold the same answer, although they were
\* marked one by one, perhaps by several handlers, and are read after other calls.
ResultReducesDoneChunks ==
  \A j \in Jobs : job[j].status = "completed" =>
    \A c \in ChunksOf(j) : chunk[c].status = "done" =>
      LET rows == {p \in Providers : <<c, p>> \in job[j].result} IN
      /\ Cardinality(rows) >= 2
      /\ \A p, q \in rows : answer[c][p] = answer[c][q]

-----------------------------------------------------------------------------
(* The pipeline implements what VerifiedWork promises.                     *)

DecisionOf(c) ==
  CASE chunk[c].status = "done" -> "accepted"
    [] chunk[c].status = "rejected" -> "refused"
    [] OTHER -> "open"

AccountOf(c, p) ==
  CASE ledger[c][p] = [credits |-> 0, penalties |-> 0] -> "none"
    [] ledger[c][p] = [credits |-> 1, penalties |-> 0] -> "credited"
    [] ledger[c][p] = [credits |-> 0, penalties |-> 1] -> "penalised"
    [] OTHER -> "settled twice"

StateOf(j) == IF job[j].status \in ClosedStatus THEN job[j].status ELSE "open"

Promise == INSTANCE VerifiedWork WITH
  decision <- [c \in Chunks |-> DecisionOf(c)],
  account <- [c \in Chunks |-> [p \in Providers |-> AccountOf(c, p)]],
  state <- [j \in Jobs |-> StateOf(j)]

\* When no reclaim overlaps a submit, every step of the handlers is a step of the
\* abstract specification or changes nothing it sees: decided once, settled once,
\* closed once, however the calls of several handlers interleave or break off.
ImplementsVerifiedWork == Promise!Spec

-----------------------------------------------------------------------------
(* Properties of the program without faults.                               *)

\* With at least MAX_CHUNK_ATTEMPTS providers polling, every job is closed in the
\* end, whatever the workers answer and however many assignments they abandon.
JobsClose == \A j \in Jobs : <>(job[j].status \in ClosedStatus)

\* In the end every done chunk is counted and every result that was validated or
\* refused has been settled.
AllSettledInTheEnd ==
  <>[](/\ \A j \in Jobs : job[j].completed = Cardinality(InStatus(j, {"done"}))
       /\ \A c \in Chunks, p \in Providers :
            /\ verdict[c][p] = "valid" => ledger[c][p].credits = 1
            /\ verdict[c][p] = "invalid" => ledger[c][p].penalties = 1)

=============================================================================
