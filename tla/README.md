# A verification project for Co-Computing

Co-Computing is a marketplace for computing work. Clients upload data sets as
*jobs*, which the backend splits into *chunks*; providers run workers that claim
chunks, compute them and submit results; the backend hands every chunk to several
providers, compares what they deliver, pays those that agree and closes the job.
An older half of the product lets providers accept *tasks* published by clients,
whose rewards are held in escrow. A web frontend shows both halves, each page with
a state of its own that is fetched, polled and sent over HTTP.

This directory holds TLA+ modules translated from the source under `src/`, TLC
configurations that check them on small instances, and proofs for TLAPS.

    tlc -config Replicas.cfg MCChunkPipeline.tla      # any of the *.cfg
    tlapm ChunkPipelineProofs.tla                     # proofs: each of the *Proofs.tla

## 1. Inventory of the system

| component | state | operations | interacts with |
|---|---|---|---|
| Chunk pipeline: `routers/work.py`, `services/consensus_service.py`, `db/queries/compute_queries.py` | tables `jobs`, `chunks`, `chunk_results` | claim (TTL reclaim, rejection, assignment), submit (store, compare, validate, settle), close a job | wallet (pays), reduction (finalize) |
| Job creation: `services/compute_service.py`, `routers/compute.py` | `jobs`, `chunks` | create job, split CSV or inline data, insert chunks, mark processing, clean up a failure | pipeline (its chunks are visible at once) |
| Reduction: `finalize_job` in `compute_service.py` | `jobs.result` | reduce valid rows by operation | pipeline (called by close), worker plugin (the shape of a row) |
| Worker: `worker/main.py`, `sandbox.py`, `plugins/` | token, back-off | login, poll, compute in a subprocess, submit | pipeline, over HTTP |
| Task lifecycle: `services/task_lifecycle.py`, `db/queries/task_queries.py` | `tasks.slots_left`, `task_assignments`, statistics of the provider | accept, start, complete, fail | wallet, escrow, trust score |
| Client: `services/client_service.py`, `db/queries/client_queries.py` | `escrows`, the client's wallet | deposit, publish, cancel | task lifecycle (release) |
| Wallet: `services/wallet_service.py`, `db/queries/wallet_queries.py` | `wallets`, `transactions` | withdraw, credit | all that pay |
| Trust score: `services/trust_score.py` | none (pure) | accuracy, rates, score, rank | lifecycle, pipeline |
| Progress: `services/progress_service.py` | none (pure: start time and clock) | percentage, stage, whether a task may be completed (80 %) | task lifecycle, processing page |
| Rate limit: `core/rate_limit.py` | `rate_limit_counters` | count in a fixed window, clean up | login, register, work, compute |
| Auth and profile: `routers/auth.py`, `core/security.py`, `auth_queries.py`, `profile_queries.py` | `providers`, tokens | register (provider, then wallet), login | wallet |
| Session of the frontend: `api/client.ts`, `store/authStore.ts`, `hooks/useAuth.ts`, `App.tsx`, `LoginPage`, `RegisterPage` | the store of each tab, `localStorage`, requests in flight | log in, register, log out, reload, merge a changed profile, react to a 401 | every page, the API |
| Pages of the jobs: `store/jobStore.ts`, `JobListPage`, `NewJobPage`, `JobDetailPage`, `JobResultPage` | one store for all, the form, the file being read | list, poll, create, show a result | pipeline, creation |
| Pages of a provider's tasks: `TaskListPage`, `TaskDetailPage`, `ProcessingPage`, `hooks/useProgress.ts`, `DashboardPage` | a state in each page | filter, accept, start, poll, complete, fail, announce the outcome | task lifecycle, progress |
| Pages that move money: `WalletPage`, `DepositPage`, `PublishTaskPage`, `MyTasksPage`, `ClientTaskDetailPage` | a state in each page | withdraw, turn the pages of the history, deposit, publish, cancel | wallet, client |
| Profile page, landing page, layout, badges: the rest of `frontend/src` | forms | change name, online state, hardware; render | session |
| Software factory: `factory/`, `run.py` | stage and status file | run agents stage by stage | none at run time |

What is hard about it:

* **Interleaving.** Handlers are synchronous functions in the thread pools of two
  Uvicorn processes. Apart from a few transactions (the claim, the reward, the
  escrow operations) every database call commits on its own, so handlers
  interleave between any two calls, on rows they read earlier.
* **Failure.** A call that raises ends a request half done; payment and closing
  swallow exceptions and go on; a process can die at any point. Nothing is retried
  but through the TTL of an assignment.
* **Time.** An assignment expires after `CHUNK_ASSIGNMENT_TTL_MINUTES` (10), whether or
  not its provider is submitting at that moment.
* **Asynchrony of the pages.** Nothing is cancelled when a page is left or its state
  changes; answers arrive in any order, also at pages that did not ask; after 15
  seconds a page gives up on a command that the backend carries out all the same.
* **Adversity.** Workers may vanish, answer late, or deliver a wrong result.

For each component, what makes it right:

* *Pipeline*: nobody is paid, penalised or marked without the consensus for it;
  results are settled once; decisions are final; attempts are counted and bounded;
  a provider gets a chunk once; jobs are closed exactly when their chunks are
  settled, once, and in the end.
* *Creation*: no job is left between states; none is reopened.
* *Reduction*: the result equals the operation over the whole data set.
* *Tasks and escrow*: what is held equals what is owed; each completion is paid
  once and covered by the escrow; slots and assignments agree.
* *Wallet*: balances equal the sum of the transactions and are never negative.
* *Session*: what is done is done by the account that is shown; a logout leaves
  nothing; a rejected session reaches the form.
* *Pages*: what is announced is what the backend has; a command is sent once, with
  what was confirmed; nothing waits for what is not in flight; polling goes on until
  the outcome is shown.
* *Rate limit*: no more than the limit is admitted in a window.

The main hazards behind these properties are listed, each at its line, in `PROJECT.json`; those of parts
that no module models are in section 6.

## 2. Modules

| module | models |
|---|---|
| `ChunkPipeline` | claim, submit, consensus, payment and closing, one step per database call |
| `VerifiedWork` | the abstract promise of the pipeline: decide once, settle once, close once |
| `MCChunkPipeline` | the small instances: who may own which chunk, symmetry, answers |
| `ChunkPipelineProofs` | proofs about `ChunkPipeline`: types, abandoners, attempts, and that every settlement is backed by a consensus |
| `PromptProofs` | proofs about `PromptSpec`: decisions are final, attempts, single settlement, verdicts before money; the count of done chunks, handlers that close together, what a result takes; and the refinement of `VerifiedWork` |
| `TaskMarket` | deposit, publish, cancel, accept, start, complete, fail: slots, assignments, escrow and wallets, one step per database call |
| `MCTaskMarket` | its instances, and claims of the documents that it does not keep |
| `TaskMarketProofs` | proofs about `TaskMarket`: slots, single payment, final outcomes, balances and types, the funding of accepted work, conservation of money |
| `SumProofs` | lemmas about sums over finite sets, for the proofs about money |
| `Session` | the store of each tab, `localStorage`, tokens and their expiry, requests answered late |
| `SessionProofs` | proofs about `Session`: types, that requests act for the account shown, and that logouts are final |
| `JobPages` | the four pages of the jobs over `jobStore` |
| `ProviderPages` | catalogue, detail, processing page with its poll, and the announcement of the dashboard |
| `MoneyPages` | wallet, deposit, publishing, cancelling, and the handlers that move money, call by call |
| `JobPagesProofs`, `ProviderPagesProofs`, `MoneyPagesProofs` | proofs about the pages: types, what is sent, announced and shown, what is waited for, and balances against transactions |
| `MCSession`, `MCJobPages`, `MCProviderPages`, `MCMoneyPages` | their instances, and claims of the documents that the pages do not keep |

Backend and frontend meet in the statuses: `JobPages` has the life of a job that
`ChunkPipeline` promises (`processing`, then closed once) as its backend, `ProviderPages` and
`MoneyPages` that of an assignment, a task and a wallet as `TaskMarket` moves them, their
handlers taken apart into the calls that write, and a command that a page has given up goes on
through them. The withdrawal is in `MoneyPages` alone.

### ChunkPipeline

*State.* `job`, `chunk`, `answer`, `verdict` are the tables `jobs`, `chunks` and the
two columns of `chunk_results` that matter (`result`, up to what `_canonical`
identifies, and `is_valid`). `ledger[c][p]` counts the rewards and the penalties
provider `p` got for chunk `c`: the effect of `credit_reward_and_update_trust`.
`thread` holds the handlers in flight: where they are and what they remember of
the database. `assigned_at` is abstracted to `expired`, set by `Expire` at any time
while the chunk is assigned: no property depends on how long the TTL is.

*Actions.* One per database call, which is the grain at which handlers interleave:

| action | code |
|---|---|
| `Claim` | the transaction of `claim_chunks_atomic`: `AfterTTL`, `Overdue`, `Candidates`, `AfterClaim` are its three statements in order; `locked` are the rows its `FOR UPDATE SKIP LOCKED` passes over; then the jobs of the rejected chunks are queued for closing (`process_chunk_claim`) |
| `Receive`, `Check`, `Insert` | the checks of `process_chunk_submission` and `submit_chunk_result` |
| `ReloadUndecided`, `ReloadAgreed`, `ReloadAllDiffer` | the second read of `chunk_results` and the four outcomes of the comparison |
| `Requeue`, `Validate`, `WriteVerdict`, `Increment`, `Pay` | the writes that follow, in the order of the code |
| `CountTerminal`, `ReadJob`, `FailJob`, `GatherResults`, `CompleteJob` | `_try_close_job` and `finalize_job` |
| `Expire` | the clock |
| `HandlerDies`, `PayFails`, `CloseFails` | an uncaught error or the death of a process; the two `except Exception` blocks |

The loops over results are modelled one row at a time in any order: the code's order
is that of a query sorted by time of submission, and no property depends on it.

*Three specifications.* `Spec` is the whole program. `PromptSpec` leaves out
`LateClaims`, the claims that reclaim an assignment *while its submit is being
handled*: the handler's reading of the chunk is then stale and the code has no
defence (section 4). What does hold nevertheless is stated about `Spec`;
everything else is stated about `PromptSpec`, and the runs that violate it under
`Spec` show that the assumption is needed. `SmoothSpec` adds fairness and takes
the faults away.

*Fairness.* A handler that has begun goes on (`WF Progress`): the thread pool runs
it to its end. The clock goes on (`WF Expire`). Providers keep polling
`/work/claim`: each worker is an endless loop, but a claim needs a thread that is
free, which comes and goes, hence `SF`. Nothing obliges a worker to submit:
`Receive` has no fairness, so liveness holds although every assignment may be
abandoned. Without the condition that as many providers poll as a chunk has
attempts, `JobsClose` is false: each provider gets a chunk once, and a chunk that
has been with all of them and has attempts left is never claimed again.

*Deadlock.* All configurations say `CHECK_DEADLOCK FALSE`: when all jobs are
closed, or no worker is entitled to what is left, the pipeline rests.

### VerifiedWork

Chunks are open, accepted or refused; an account is settled once, and only on a
chunk that has been decided; a job is closed once, when all its chunks are
decided, as failed exactly when more than half were refused. `ChunkPipeline`
maps its tables to this state (`Promise`) and implements it
(`ImplementsVerifiedWork`) under `PromptSpec`: every step of every interleaving,
faults included, is a step of it or leaves it alone.

### TaskMarket

*State.* `task`, `assignment`, `escrow`, `wallet` are the tables, reduced to the
columns a handler decides on; `completed` is `providers.tasks_completed`. `paid`
counts the rewards credited to a provider for a task, `deposited` what an account
deposited: both are what the rows of `transactions` add up to. `thread` holds the
handlers in flight; `read` is a number that one has read and will write back.

| action | code |
|---|---|
| `AcceptCheck`, `ReadSlots`, `TakeSlot`, `CreateAssignment` | `accept_task`: the checks, the two calls of `decrement_slots_atomic`, the insert and its UNIQUE constraint |
| `StartCheck` … `FailDelta` | `start_task`, `complete_task`, `fail_task`: a read, then the writes in their order |
| `Credit`, `Release` | `update_wallet_on_task_complete` and the transaction of `release_escrow_slot`, which skips an escrow that is not active |
| `ReadProfile`, `WriteStats` | the counter, read and written back |
| `Deposit`, `PublishCheck`, `InsertTask`, `Hold`, `DeleteTask` | `deposit`, and `create_task` with its roll-back, which an assignment restricts |
| `CancelTask`, `Refund` | `cancel_task` |
| `HandlerDies` | a call raises or the process dies; only where `Faults` |

A task is published at most once: `Tasks` are the tasks that may come to exist.
The reads of a check are one step; what they read of a task (owner, reward) never
changes, and its row is deleted only while nobody has an assignment of it, which the
next read notices. Amounts are whole numbers: the code rounds to cents, and all
amounts of an escrow are multiples of the reward. A task is published by one account
and its providers are others. Scores (accuracy, response time, trust) are left out.

*Three specifications.* `Spec` allows any requests at any time. In `SerialSpec` a
provider waits for each answer before it makes its next request; nothing
in the backend enforces it, the page that completes a task does so only in part
(`TwoDecisions.cfg`), and `OutcomeChanged.cfg` shows that single payment needs it. In `OrderlySpec` moreover tasks are accepted only once they are funded
and not cancelled, cancelled only when nobody works on them, and no handler fails:
under these conditions money is conserved, and the runs of section 4 show what
happens without them. `CHECK_DEADLOCK FALSE`: a market in which all is done rests.

### The modules of the pages

*Requests.* All four have a variable `request`: what is in flight, in a bounded
number of slots. The life of a request is several steps, of different actors: it is sent by an action
of the user or a timer; served (`Serve…`) with what the backend has *then*; delivered
(`JobFetched`, `Withdrawn`, …), which is the code after the `await`; or it fails
(`Failed`, `Lost`, `GiveUp`), which is the `catch` and the `finally`. Any number of other steps
come in between, so answers arrive in any order. `live` (in `MoneyPages`,
`wait`) says whether the page that sent it is still there: React drops the state of a
page that is left, but what its handlers do to a store, to `localStorage` or to the
address they still do, which is where pages get in each other's way.
A command that has timed out can be carried out later, with nobody to hear of it.

*Session.* `tab` is `authStore` and the page of each tab, `storage` the keys of
`localStorage`. `Sent` takes the token from `storage`, as the interceptor does, and
remembers the account that the tab showed. `Rejected` is the interceptor for 401s: it
empties `localStorage` and navigates, and *leaves the store alone*; `At` and `Routed`
are the redirects of `ProtectedRoute` and of the forms that then follow. `Reload`,
`Expire` and a second tab are the environment. A provider is `of` an account, and carries
`data` that was last merged into it (`updateProvider`): after the logout of one account and the
login of another, an answer to the first brings its data into the second (`ProfileMerged.cfg`), but
neither its token nor its identity (`LoggedOutStaysOut`).

*JobPages.* `store` is `jobStore`, shared by all pages and never reset. `Show` is
what a navigation does, `FirstRequest` what the page then fetches. `Polling` and `Tick`
are the two effects with timers: that of the list uses `fetchJobs` and its spinner, that of
the detail a silent fetch of the job in the *address*. `ChooseFile` and `FileRead`
are two steps, because a `FileReader` calls back; files and the sample are sets of columns.

*ProviderPages.* `assignment`, `ready` (80 % have passed) and `full` (no slot left)
are the backend's. Its handlers are taken apart as in `TaskMarket`: `CheckCommand` reads the
assignment, `WriteCommand` writes it without comparing it with what was read
(`update_assignment_status`), and a completion or a failure writes its status again with
`trust_delta` (`RewriteCommand`); after any call the handler may end (`Failed`,
`HandlerEnds`). Commands come from the page, from a page that gave up, and from another tab
(`CommandElsewhere`; `Elsewhere` bounds which). So two handlers may have the assignment of one task in hand at
once: from the two modals of one page, a start sent again after a timeout, or another
tab. The history variables say when that happened (`contested`) and which outcomes an
assignment has had (`had`). `AnnouncedOutcomeIsTrue` relates what the dashboard says
to them: the outcome is one the assignment has had, and, unless it was contested, has. The
exception is real (`AnnouncedOverwritten.cfg`). `Return` is the processing page's address,
typed or kept. `Readdress` goes from one processing page to another: React keeps the
component, so polls of the former address are heard, and the modals decide for the
task of the last poll (`processing.on`). The progress is reduced to whether it has reached the threshold.

*MoneyPages.* `wallet` is the row, `ledger` what the rows of `transactions` add up to.
Every handler that moves money writes the wallet in one call, which commits, and
records the transaction in a later one, which can fail and gives nothing back:

| handler | calls, in order |
|---|---|
| `process_withdrawal` | `CheckWithdrawal`, `ReadWallet`, `WriteBack`, `Record` |
| `deposit` | `Deposit`, `Record` |
| `create_task` | `CheckBalance`, `InsertTask`, `HoldEscrow`, `Record`; or `DeleteTask` when the hold is refused |
| `cancel_task` | `CancelTask`, `RefundEscrow`, `Record`; nothing to record when no escrow was active |
| `complete_task`, for a task of others | `CreditTask`, `Record` |

`RecordFails` is a failure of the last call, `HandlerFails` one before the money is moved.
`ReleaseEscrow` (a provider completes the client's task) and `CreditChunk` (the pipeline pays, wallet
and transaction in one transaction of the database) are single steps in the code too. `slips` is a history variable: whether
a withdrawal has written over another movement, and how many movements are
left unrecorded. `MoneyAddsUp` says that while neither has happened, wallet and
ledger differ by the movements in hand, whatever else interleaves or fails.

*Fairness.* `JobPages` and `ProviderPages` have liveness. Timers tick (an interval of the browser);
requests end, because `apiClient` has a timeout (`WF` of failing, which is always possible
while a request is in flight); and some requests get through (`SF` of serving and delivering): a
connection that loses every request for ever shows nothing to anybody. `SF` of the tick in
`ProviderPages` is about the bound on requests alone, which can make a tick wait for a slot.
`MoneyPages` has no timer and no liveness. `FairSpec` of `Session` is used by the by-hand
configuration `SessionExpired.cfg`. All configurations of the pages say
`CHECK_DEADLOCK FALSE`: a user need not do anything.

## 3. Runs

| run | instance | question |
|---|---|---|
| `replicas_late` | 1 chunk, 3 providers, 2 answers, 2 threads, 3 attempts; all faults, late claims | What holds whatever happens: types, consensus behind every settlement, abandoners stay away, attempts are bounded |
| `replicas` | 1 chunk, 4 providers, 3 answers, 2 threads, 4 attempts; all faults | settlement, verdict, attempts and result of a chunk |
| `two_chunks` | 1 job of 2 chunks, 2 providers, 2 threads, 2 attempts; all faults | the refinement (when a job is closed, and as what, included), closed jobs that stay as they are, and done chunks that are counted once: with two chunks to count up to, the CHECK of the schema hides no second count |
| `progress` | 1 chunk, 3 providers, 2 answers, 2 threads, 3 attempts; fairness | jobs close, payments and counters catch up |
| `market` | 1 task of 2 slots, 2 providers, 2 threads; all faults | types, slots, pending balance, releases against payments |
| `market_serial` | as `market`, serial providers | single payment, final outcomes |
| `market_orderly` | 2 tasks of 1 slot with different rewards, 2 providers, orderly requests | conservation of money, accepted work is funded |
| `session` | 1 tab, 2 accounts, 3 tokens, 3 requests in flight | requests act for the account shown, storage is the session shown, and an account that has logged out stays out, whoever is logged in by then |
| `job_pages` | 1 job, a file and the sample with two columns each, 2 requests; fairness | columns fit the data, the store never waits for nothing, list and detail follow the job to its outcome |
| `provider_pages` | 1 task, 1 filter besides none, 2 requests, any command from another tab; fairness | announced outcomes are true although handlers overlap, nothing waits for what is not in flight, the processing page is left |
| `money_pages` | 1 task with a reward of 1, amounts 1 and 2, an opening balance of 1, pages of 1 row, 2 movements, 2 requests | sums of wallet and transactions over the separate calls, one command at a time, pages of the history |
| `paid_twice` | 1 job of 2 chunks, 2 providers, 1 answer, 2 threads, 2 attempts; late claims | expected to fail: section 4 |

Two more configurations are run by hand: `TwoJobs.cfg` (one claim may have to close
two jobs; liveness) and `TwoTasks.cfg` (3.2 million states, `AnnouncedOutcomeIsTrue` with two tasks, both accepted
and filled: the pages of two assignments, polls of a former address and
`Readdress`, and failures from another tab). Both pass.

The bounds are those at which the cases of the code exist: two results that agree
or differ, three of which two agree, three that all differ, four (a tie of two
against two, which an earlier two-equal branch makes unreachable in order but not
when handlers interleave); two handlers at the same point; a job with half and
with more than half of its chunks rejected. `MaxAttempts` stands for
`MAX_CHUNK_ATTEMPTS`, which is 5 in the code, and is never less than the number of
replicas that the run is about. All variables of the pipeline are finite without constraints: attempts are bounded by the program
itself, and each handler ends. In the market `MaxDeposit` bounds what an account
deposits: enough for all its tasks, reached in steps, so that a balance for
either but not for both occurs. Two threads suffice for every race of the code, which are
between two handlers; two providers for the last slot and for a task shared.

For the pages, the bound that matters is the number of requests in flight (`Slots`).
Two are any pair of answers, in either order, one of which may come from a page that was
left, or from a command that was given up and is carried out later; the session has three, which is
a request of an earlier session, the login of the next one and a request of that. Three
tokens are a login after a logout after a login. One job and one task are enough for a
status to grow old on a page; the two accounts are those that a late answer may
confuse. A file and the sample have two columns each and none in common, so that a choice
of columns can be some of them or all, and is wrong for the other data. `MAX_CONSECUTIVE_ERRORS` is 3 in
the code and 1 in the instance: none, and at the limit, where the tick has to go on. A page, a page
that gave up and another tab can have any two commands of a task in hand at once. A balance of 1 that
withdrawals of 1 and 2 and deposits move is one that two withdrawals can both find
sufficient; two rows on pages of one are a first page, a last, and one that a refresh takes
away. `MIN_WITHDRAW_AMOUNT` is 1, so that the refusal of an amount is that of the
balance. `MaxRows` is the number
of movements after which none begins: two, so that one can be recorded, lost or
overwritten while another is in hand.

## 4. Disagreements with the documents

`paid_twice` is a run that TLC must find violated: a submit is overtaken by the reclaim of
its own assignment; another provider answers; both handlers settle, and both providers are
paid twice. `PROJECT.json` quotes the document that says this is not possible.

The others are configurations to run by hand. TLC finds the property in each of them
violated; the MC module of the component states it with the line of the document.

| configuration | what happens in the backend |
|---|---|
| `PaidFromAir.cfg` | A task is completed before its escrow is held, or after it was refunded: the provider is paid and no escrow pays for it. |
| `CancelledHeld.cfg` | A task is cancelled between its insertion and the hold: the escrow is held for ever. |
| `SlotLost.cfg` | A provider that failed accepts again: it takes a slot, and the UNIQUE constraint then refuses the assignment. |
| `UnfundedKept.cfg` | A task is accepted between its insertion and a hold that fails: it cannot be deleted and stays without escrow. |
| `TerminalLate.cfg` | As in `paid_twice`, but the late handler writes `pending` over `done`. |
| `RejectedReduced.cfg` | A handler dies while it validates the rows of a chunk, which a later claim rejects: the rows marked valid stay valid and are reduced into the result of the job, since `get_valid_results_for_job` (`compute_queries.py:432`) filters on `is_valid` only. `docs/02-backlog.md:1196` marks the rows of chunks that become done. |
| `ClosedTwice.cfg` | Two handlers pass the status check of `_try_close_job` and both close the job. Harmless, as `ClosedJobsStay` shows, but the documents say it cannot happen. |
| `RewardTotal.cfg` | Every replica is paid the whole reward of the chunk; `reward_total` counts it once. |
| `CancelledAccepted.cfg` | `accept_task` does not look at the status of the task. |
| `OutcomeChanged.cfg` | A completion and a failure, both checked before either is written. |
| `CompletionUncounted.cfg` | Two completions are credited and counted as one. |
| `WithdrawalLost.cfg` | Two withdrawals read the same balance: both are recorded, one is deducted. `docs/02-requisitos.md:258` calls the total the sum of all; `docs/05-review.md:23` knows the race. |

The configurations about the market have `Faults` FALSE: no failure is needed.

| configuration | what happens in the frontend |
|---|---|
| `SessionExpired.cfg` | A 401 empties `localStorage` and not the store: the login form sends the user back to the dashboard, with a session that has no token. `docs/03-design/00-mapa-navegacion.md:231` has the store emptied and the form shown. |
| `TwoTabs.cfg` | After a login in a second tab, the first shows one account and acts for the other. No document speaks of tabs; the configuration shows that the theorems about `Session` need `OneTab`. |
| `ColumnsIgnored.cfg` | The client chooses columns, and all columns of the file are sent (`jobStore.ts:62`); `docs/02-backlog.md:985`. |
| `SubmittedTwice.cfg` | Another request of the store ends while the form is being sent, and clears the flag that disabled its button: the job is created twice; `docs/02-backlog.md:993`. |
| `DetailStuck.cfg` | An answer for a job shown earlier arrives at the detail page of another, which then neither shows its job nor asks for it; `docs/02-backlog.md:1045`. |
| `TwoDecisions.cfg` | A completion and a report of a problem are sent from the two modals of one page: that a provider makes one request at a time, which `SerialSpec` assumes, is not kept by the page either. |
| `AnnouncedOverwritten.cfg` | An outcome is announced that does not stay: a start was sent twice, the first given up, and the late one writes `procesando` over the outcome announced. This is what `AnnouncedOutcomeIsTrue` excepts. |
| `WithdrawnTwice.cfg` | A withdrawal is given up after 15 s and offered again with its amount (`WalletPage.tsx:156`): it is sent a second time while the first is still carried out. |
| `ProfileMerged.cfg` | A save of one account is answered after its logout and the login of another: its data are merged into the provider of the other, in the store and in `localStorage` (`authStore.ts:46`). |
| `LateRejection.cfg` | A 401 that answers a request of the session before empties `localStorage` under the session opened since (`client.ts:29`). |
| `FilterRace.cfg` | The answers to two filters arrive in the other order: the list shows tasks that the filter excludes; `docs/02-requisitos.md:128`. |

Noticed while reading, without a configuration: of two providers that read the same number of
slots one is told that none are left (`task_queries.py:92`, against
`docs/04-arquitectura.md:504`); a chunk rejected because all results differ keeps `assigned_to`
(against `migrations/004_compute.sql:143`); a provider whose handler died after storing a result is
entered in `abandoned_by` as one that never submitted (against
`migrations/007_chunk_abandon_tracking.sql:10`); when the refresh after a withdrawal fails, success
is shown with a history without it (against `docs/02-requisitos.md:303`); a task that failed leads the processing
page to the dashboard (`useProgress.ts`), where `docs/02-backlog.md:414` and
`docs/03-design/00-mapa-navegacion.md:249` have the catalogue; `complete_task` does not check
the threshold of 80 %, only the page does; `refreshMe` (`useAuth.ts:40`) has no caller.

## 5. Proofs

TLAPS checks the following for every number of jobs, chunks, providers, answers,
tasks, slots, accounts and threads, and every `MaxAttempts` and `MaxClaim`. The
assumptions about the pipeline are those of
`ConstantsAssumption`: a chunk has a job, there are finitely many chunks and
providers, the limits are positive, and the null values are not values.

* `TypeCorrect`: `Spec => []TypeOK`. Inductive together with two facts
  (`TypeInv`): an assigned chunk has an assignee, without which the reclaim would
  put NULL among the abandoners; a handler of a submit has a chunk and a provider.
* `AbandonersStayAway`: `Spec => []AbandonerNeverReassigned`, also with late
  claims. The only step that gives a chunk to a provider tests `abandoned_by`, and
  the only one that adds to it clears `assigned_to` in the same statement.
* `AttemptsStayBounded`: `Spec => []AttemptsBounded`. Inductive when strengthened
  to `Bounded` rows: an assigned chunk has one attempt more than it can have
  abandoners, so that a reclaim may add one.
* `SettlementsAreBacked`: `Spec => []ConsensusBacksEverySettlement`. The property
  speaks of tables only, while the handlers act on what they remember; the
  inductive invariant adds `HandlersGrounded`, which says that what a handler
  remembers is still true because results are never changed or deleted: those it
  saw are there, its winners gave one answer and were two at least, and whoever
  did not win is contradicted by another answer. That is why a consensus stands
  behind every settlement even when a handler is late, and why the number of
  settlements, which is not monotone, has no such protection (`paid_twice`).
* `SlotsAreNeverOversold`: `TaskMarket!Spec => []SlotsNeverOversold`, for any number of
  tasks, slots, providers and handlers. The property is not inductive: between
  taking a slot and making the assignment a slot belongs to a handler, so the
  invariant (`Budget`) counts slots left, assignments, and handlers at
  `assign`. Two more facts keep the count from being reset: a task that is not yet
  in its table has no assignments and only its publisher is about it (`Unborn`,
  `Inserting`), and a handler that writes a status writes it on an assignment that
  exists (`Assigned`).
* `ProvidersArePaidOnce`, `OutcomesAreFinal`: `SerialSpec => []PaidOnce` and
  `SerialSpec => OutcomesStay`. What a handler read of its assignment is still true when
  it writes (`Standing`), because a provider has at most one handler (`Lone`) and
  only a handler of the same provider and task writes that row (`ProviderEffect`).
  The assumptions are those of `MarketAssumption`; finite accounts and threads are
  needed to count.
* `DecisionsAreFinal`, `AttemptsAreOfDistinctProviders`, `ResultsAreSettledOnce`,
  `SettlementsFollowVerdicts` (`PromptProofs`): `TerminalChunksStay`,
  `EachAttemptAnotherProvider`, `SettledOnce` and `SettlementFollowsVerdict` of `PromptSpec`,
  in which no reclaim overtakes a submit. First `HoldInv`: a handler that has arrived,
  decides or pays still holds its chunk, assigned to its provider, and behind the insert
  it is alone on it. So what it read is still true when it writes. Then `SettleInv`: each row has
  been settled exactly as far as the handler that pays for it has come
  (`HandlersReady`, `RowsSettled`), and a chunk that is done has its two consenting rows
  (`DoneConsents`). In `Spec`, where the reclaim is free, `TerminalLate.cfg` and `paid_twice` refute the
  first and the third.
* `CompletedCountsOnce`, `ClosingsAgree`, `DoneChunksAreReduced`,
  `PipelineKeepsItsPromise` (`PromptProofs` too): `CompletedCountsDone`, `ClosedJobsStay`,
  `ResultReducesDoneChunks` and `ImplementsVerifiedWork`. `ClosingInv` adds to
  `SettleInv` that the count of a job and the handlers that have yet to count come to no more
  than its done chunks (`Counted`), which is `CompletedCountsDone`, and that a handler which passed the status check of
  `_try_close_job`, and a job that is closed, have judged the chunks as they will be
  judged by any other (`Judged`). With it each step of `PromptSpec` is mapped to a step
  of `VerifiedWork` or to a stutter: one lemma for each action.
* `BalancesStayTyped`, `PendingCoversEscrows`, `ReleasesAreEarned`: `TypeOK`,
  `PendingMatchesEscrows` and `ReleasesFollowPayments` of `TaskMarket!Spec`. They hold together or
  not at all: that no balance becomes negative rests on the pending balance being the
  sum of what the open escrows have left (`Billed`, `Covered`), and that the
  escrow a release takes from is open and large enough rests on the rewards credited
  before (`Escrowed`, `Earned`); their conjunction is `BalanceInv`.
* `AcceptedWorkStaysFunded`, `MoneyIsConserved`: `AcceptedWorkIsFunded` and `MoneyConserved`
  of `OrderlySpec`. `FundInv` counts, for each task, what its escrow owes: a reward for every
  slot left, assignment and release in progress (`Owed`, `Funded`), with a single handler about
  the task where the orderly market asks for one (`Sole`). `MoneyInv` adds `BalanceInv` and
  `Conserved`, an equation between four sums that holds between any two calls of a handler.

  A sum over a set is a fold, and nothing about a fold can be proved by induction here:
  the theorems of the library take an operator as a parameter. `SumProofs`
  proves that a sum does not depend on the order of its terms, and what it does when a
  term changes, by the smallest counterexample: the set of the sizes at which the
  statement fails would have a least element (`WFMin`), and there is none. The
  market has to be of finitely many tasks for that, which `MarketAssumption` asks.

  `HoldInv`, `SettleInv`, `ClosingInv`, `BalanceInv` and `MoneyInv` were model-checked as invariants
  of the runs' instances before they were proved.

* `SessionTypeCorrect`: `Session!Spec => []TypeOK`, for any number of tabs, accounts, tokens
  and requests in flight, from `SessionAssumption`. Inductive together with
  `FormsNameAnAccount`: a login or a registration that is in flight names the account whose session
  its answer will store.
* `LogoutsAreFinal`: `LoggedOutStaysOut` of `Session`, an action property, with any number of
  tabs. The accounts whose token or identity is kept anywhere (`Remembered`) grow by a login
  only: each other action writes into `localStorage` or a tab what is in one of them, and a late answer
  of an account that has logged out can merge no more than data into the provider shown.
* `RequestsActAsShown`, `SessionsAreStored`, `LogoutsLeaveNothing`: `[]ActsAsShown`,
  `[]StoredSessionIsShown` and `[]NothingLeftAfterLogout` of `Session` under `OneTab`, which says that
  the browser has one tab. Each property relates the two copies of the session, in the store
  and in `localStorage`, which the handlers write separately and late. The
  proof first shows that whatever a step of any action does to the
  pair is one of five things (`Effect`): it is kept, emptied, filled by a login, restored by a
  reload, or a profile is merged into it; and that requests are carried over or
  sent with the token that is stored (`Carried`). The invariant `SafeInv` then has to be
  shown for these, not for each action. With two tabs it is false (`TwoTabs.cfg`).

The pages are proved for any number of requests in flight, where TLC has two or three:
an answer can be as late, and be overtaken by as many others, as one likes.

* `JobsTypeCorrect`, `ColumnsFitTheData` (`JobPagesProofs`): `TypeOK` and
  `ColumnsOfTheDataSent` of `JobPages`, from one invariant, `TypeInv`. No page and no request names a job
  that the backend does not have (`Known`), without which an answer about one job could be
  empty; what is selected in the form are columns of the data it would send
  (`FormGood`), whichever of the files chosen is read first; and a creation in flight
  has both (`RequestGood`).
* `SpinnersAreAwaited`: `[]LoadingMeansWaiting`. Lists, details and creations share one flag. It is
  inductive next to `TypeInv`: who sets the flag sends something, and any answer that could be the
  last resets it. What the sharing does cost is in `SubmittedTwice.cfg`.
* `ProviderTypeCorrect`, `AnnouncementsAreTrue` (`ProviderPagesProofs`): `TypeOK` and
  `AnnouncedOutcomeIsTrue` of `ProviderPages`. `TypeInv` says of each answer in flight which outcome it
  tells of (`Tells`), and that this is true in the sense of the property (`Truth`). What
  keeps it true while calls of other handlers interleave is `SerialInv`: where no
  two handlers have met, one at most has an assignment in hand and what it checked is
  what it will find when it writes. So an outcome is overwritten only where it is contested, however late
  its answer comes (`OutcomesStay`, `RequestStays`).
* `FlagsAreReleased`: `[]BusyMeansWaiting`. `WaitInv` adds to `TypeInv` that a page which was left has
  nothing open and awaits nothing (`ViewsGood`), so that a button can only be disabled by a
  request of the page shown, and that the page no longer listens to a command it gave up.
* `WithdrawalsStayConfirmed`, `CommandsAreSentOnce` (`MoneyPagesProofs`): `SentAsConfirmed` and
  `OneCommandAtATime` of `MoneyPages`. `CommandInv` says what a page keeps while it waits for a command:
  its flag is set, its dialogue is open with what was sent (`Shown`), and no other
  command is waited for (`Busy`).
* `HistoriesShowPages`: `[]HistoryPageExists`. `HistoryInv` relates the page shown, the page asked for, and
  the totals in the answers that are under way to the rows there are (`Asked`, `Exists`); all of them are
  true for ever because rows are only added.
* `BalancesAddUp`, `MoneyTypeCorrect`: `MoneyAddsUp` and `TypeOK` of `MoneyPages`. `MoneyInv` is the equation of
  `MoneyAddsUp`, with the sum of what the handlers have moved and not recorded taken over all
  slots. Each step is one of a few things to the sums: it moves money and has the movement in
  hand, records one, gives one up as unrecorded, changes both sides alike, or touches none of
  it; a page that is left or gives up never touches a movement.
  No balance becomes negative, since the withdrawal is refused by the CHECK of the schema and the hold by its own condition.

  Two assumptions were added to the modules for these proofs, and TLC evaluates them: no request is
  the null value `NoRequest`, and the slots of `MoneyPages` are finitely many, over
  which its sums are taken.

Only model-checked: liveness, which is out of the prover's reach (`JobsClose`,
`AllSettledInTheEnd`, `ListFollows`, `DetailFollows`, `ProcessingIsLeft`). Every invariant and
every action property that a passing run checks is a theorem; so is `NothingLeftAfterLogout`
(while no session is shown, nothing is stored), which no run checks.

## 6. Not modelled, and the plan

Not modelled, and why:

* *Creation* (`compute_service.py:115`). To `JobPages` it is one step, and to `ChunkPipeline` a job begins
  in `processing` with its chunks. In the code the job becomes `processing` after its
  chunks are visible (line 179), so that a job a worker finished first is reopened; a
  failed creation is cleaned up in further calls (line 188) that can fail as well. A
  composition of both with `ChunkPipeline` multiplies its states beyond what TLC can do
  with three replicas; one with a single chunk and no replication is possible.
* *Reduction* (`finalize_job`, line 290). Which rows it takes is in `ChunkPipeline`
  (`ResultReducesDoneChunks`); what it computes is arithmetic over cells, once for each
  valid replica, so that counts and sums are multiples of those of the data.
* *Rate limit* (`core/rate_limit.py:25`). A fixed window admits twice the limit across its
  boundary and everything when the database fails. It never changes what the requests it
  lets through do.
* *Worker loop*: back-off, re-login, sandbox. To the pipeline a worker is whoever claims and
  may or may not submit. A submit whose answer is lost ends the worker
  (`worker/main.py:87`), which is a worker that never submits the rest.
* *Progress*: the percentage of the time that has passed is one step past the threshold.
* *Trust score*: arithmetic on the penalties and rewards that the pipeline records.
* *Profile page*: its forms and hardware. What it writes into the session is in `Session`.
* *History of tasks, figures of the dashboard*: a fetch on arrival each.
* *Landing page, layout, presentational components, `taskStore`*: no state that outlives a
  click; nothing imports `taskStore`.
* *Software factory, deployment, seeds, hashing, SQL and HTTP plumbing*: no state of the
  running product.

What is left of the plan:

1. What survives of `SettledOnce` and `TerminalChunksStay` when the reclaim is free: a
   bound on the settlements of a result by the handlers that were late.
2. The safety of `VerifiedWork` stated in its own terms (decided, settled and closed once), proved
   there and carried over to `PromptSpec` by the refinement.
3. The creation of a job with a single chunk, composed with the pipeline.
