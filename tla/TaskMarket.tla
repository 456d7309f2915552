----------------------------- MODULE TaskMarket -----------------------------
(***************************************************************************)
(* The task market of the backend: clients deposit, publish tasks and      *)
(* cancel them; providers accept, start, complete and fail them.  The      *)
(* reward of every slot of a task is held in an escrow while the task is   *)
(* open.                                                                   *)
(*                                                                         *)
(* As in ChunkPipeline, a handler is a sequence of database calls that     *)
(* commit one by one, and one step of a thread is one call.  Calls that    *)
(* insert rows nobody reads back (transactions) are left out.              *)
(***************************************************************************)
EXTENDS Integers, FiniteSets, FiniteSetsExt

CONSTANTS
  Tasks,       \* tasks of the seed, and tasks that clients may publish
  Accounts,    \* rows of providers, each with its wallet
  Providers,   \* the accounts that take tasks
  OwnerOf,     \* tasks.client_id, NoAccount for a task of the seed
  Slots,       \* tasks.total_slots
  Reward,      \* tasks.reward
  MaxDeposit,  \* bound: what an account deposits in all
  Threads,
  Faults,      \* whether handlers may die
  NoAccount, NoTask

ASSUME MarketAssumption ==
  /\ IsFiniteSet(Tasks) /\ IsFiniteSet(Accounts) /\ IsFiniteSet(Threads)
  /\ NoAccount \notin Accounts
  /\ NoTask \notin Tasks
  /\ Providers \subseteq Accounts
  /\ OwnerOf \in [Tasks -> Accounts \cup {NoAccount}]
  /\ Slots \in [Tasks -> Nat \ {0}]
  /\ Reward \in [Tasks -> Nat \ {0}]
  /\ MaxDeposit \in Nat
  /\ Faults \in BOOLEAN

VARIABLES
  task,        \* table tasks
  assignment,  \* table task_assignments, UNIQUE (task_id, provider_id)
  escrow,      \* table escrows
  wallet,      \* table wallets
  completed,   \* providers.tasks_completed
  paid,        \* the rewards credited to a provider for a task
  deposited,   \* the sum of the deposits of an account
  thread       \* the handlers in flight

money == <<escrow, wallet, paid, deposited>>
vars == <<task, assignment, escrow, wallet, completed, paid, deposited, thread>>

-----------------------------------------------------------------------------
(* Rows and handlers. *)

\* No code writes en_progreso or completada.
TaskRow == [status : {"absent", "disponible", "cancelada", "deleted"}, slots : Nat]
AssignmentStatus == {"none", "aceptada", "procesando", "completada", "fallida"}
Active == {"aceptada", "procesando"}
EscrowRow == [status : {"none", "activo", "cancelado", "completado"},
              held : Nat, released : Nat]
WalletRow == [available : Nat, pending : Nat]

\* read is the number a handler has read and will write back changed.
Handler == [pc : {"idle", "slots", "take", "assign", "start", "complete", "credit",
                  "release", "profile", "stats", "delta", "fail", "faildelta",
                  "insert", "hold", "delete", "refund"},
            who : Accounts \cup {NoAccount}, on : Tasks \cup {NoTask}, read : Nat]

Idle == [pc |-> "idle", who |-> NoAccount, on |-> NoTask, read |-> 0]

Seeded == {k \in Tasks : OwnerOf[k] = NoAccount}
Exists(k) == task[k].status \in {"disponible", "cancelada"}
TotalCost(k) == Reward[k] * Slots[k]
Unspent(k) == escrow[k].held - escrow[k].released

Begin(t, pc, a, k) ==
  /\ thread[t].pc = "idle"
  /\ thread' = [thread EXCEPT ![t] = [pc |-> pc, who |-> a, on |-> k, read |-> 0]]
Goto(t, pc) == thread' = [thread EXCEPT ![t].pc = pc]
Reply(t) == thread' = [thread EXCEPT ![t] = Idle]

-----------------------------------------------------------------------------
(* POST /tasks/{id}/accept *)

\* The task exists, and the provider has no active assignment of it.
AcceptCheck(t, p, k) ==
  /\ Exists(k)
  /\ assignment[k][p] \notin Active
  /\ Begin(t, "slots", p, k)
  /\ UNCHANGED <<task, assignment, completed, money>>

\* decrement_slots_atomic reads slots_left
ReadSlots(t) ==
  LET left == task[thread[t].on].slots IN
  /\ thread[t].pc = "slots"
  /\ IF Exists(thread[t].on) /\ left > 0
       THEN thread' = [thread EXCEPT ![t].pc = "take", ![t].read = left]
       ELSE Reply(t)
  /\ UNCHANGED <<task, assignment, completed, money>>

\* Mutant: the update does not compare.
SlotsAsRead(t) == Exists(thread[t].on)
\* The row the conditional update is looking for.
SlotsUnchanged(t) ==
  Exists(thread[t].on) /\ task[thread[t].on].slots = thread[t].read

\* ... and writes it back one less, if it is still what was read
TakeSlot(t) ==
  LET k == thread[t].on IN
  /\ thread[t].pc = "take"
  /\ IF SlotsUnchanged(t)
       THEN /\ task' = [task EXCEPT ![k].slots = thread[t].read - 1]
            /\ Goto(t, "assign")
       ELSE Reply(t) /\ UNCHANGED task
  /\ UNCHANGED <<assignment, completed, money>>

\* create_assignment; the UNIQUE and the foreign key can make it raise.
CreateAssignment(t) ==
  LET k == thread[t].on  p == thread[t].who IN
  /\ thread[t].pc = "assign"
  /\ assignment' = IF Exists(k) /\ assignment[k][p] = "none"
                     THEN [assignment EXCEPT ![k][p] = "aceptada"]
                     ELSE assignment
  /\ Reply(t)
  /\ UNCHANGED <<task, completed, money>>

-----------------------------------------------------------------------------
(* POST /tasks/{id}/start, /complete, /fail: the assignment is read, and   *)
(* then written whatever its status is by then (update_assignment_status). *)

\* Mutants: an assignment may be completed, or failed, in other states as well.
MayCompleteAgain(k, p) == assignment[k][p] \in {"procesando", "completada"}
MayFailAnyTime(k, p) == assignment[k][p] # "none"

MayStart(k, p) == assignment[k][p] = "aceptada"
MayComplete(k, p) == assignment[k][p] = "procesando"
MayFail(k, p) == assignment[k][p] = "procesando"

WriteStatus(t, status) ==
  assignment' = [assignment EXCEPT ![thread[t].on][thread[t].who] = status]

StartCheck(t, p, k) ==
  /\ MayStart(k, p)
  /\ Begin(t, "start", p, k)
  /\ UNCHANGED <<task, assignment, completed, money>>

Start(t) ==
  /\ thread[t].pc = "start"
  /\ WriteStatus(t, "procesando")
  /\ Reply(t)
  /\ UNCHANGED <<task, completed, money>>

CompleteCheck(t, p, k) ==
  /\ MayComplete(k, p)
  /\ Begin(t, "complete", p, k)
  /\ UNCHANGED <<task, assignment, completed, money>>

\* Mutant: the escrow is released first.
CompleteUncredited(t) ==
  /\ thread[t].pc = "complete"
  /\ WriteStatus(t, "completada")
  /\ Goto(t, "release")
  /\ UNCHANGED <<task, completed, money>>

Complete(t) ==
  /\ thread[t].pc = "complete"
  /\ WriteStatus(t, "completada")
  /\ Goto(t, "credit")
  /\ UNCHANGED <<task, completed, money>>

\* update_wallet_on_task_complete
Credit(t) ==
  LET k == thread[t].on  p == thread[t].who IN
  /\ thread[t].pc = "credit"
  /\ wallet' = [wallet EXCEPT ![p].available = @ + Reward[k]]
  /\ paid' = [paid EXCEPT ![k][p] = @ + 1]
  /\ Goto(t, IF k \in Seeded THEN "profile" ELSE "release")
  /\ UNCHANGED <<task, assignment, completed, escrow, deposited>>

\* Mutant: the escrow stays active to the end.
ReleasedOpen(row, amount) == [row EXCEPT !.released = @ + amount]

Released(row, amount) ==
  [row EXCEPT !.released = @ + amount,
              !.status = IF row.released + amount >= row.held THEN "completado" ELSE @]

\* release_escrow_slot, one transaction; an escrow that is not active is skipped.
Release(t) ==
  LET k == thread[t].on  r == Reward[k]  c == OwnerOf[k] IN
  /\ thread[t].pc = "release"
  /\ IF escrow[k].status = "activo"
       THEN /\ escrow' = [escrow EXCEPT ![k] = Released(@, r)]
            /\ wallet' = IF wallet[c].pending >= r
                           THEN [wallet EXCEPT ![c].pending = @ - r]
                           ELSE wallet
       ELSE UNCHANGED <<escrow, wallet>>
  /\ Goto(t, "profile")
  /\ UNCHANGED <<task, assignment, completed, paid, deposited>>

\* get_provider_by_id
ReadProfile(t) ==
  /\ thread[t].pc = "profile"
  /\ thread' = [thread EXCEPT ![t].pc = "stats", ![t].read = completed[thread[t].who]]
  /\ UNCHANGED <<task, assignment, completed, money>>

\* update_provider
WriteStats(t) ==
  /\ thread[t].pc = "stats"
  /\ completed' = [completed EXCEPT ![thread[t].who] = thread[t].read + 1]
  /\ Goto(t, "delta")
  /\ UNCHANGED <<task, assignment, money>>

\* The status is written once more, with trust_delta.
WriteDelta(t) ==
  /\ thread[t].pc = "delta"
  /\ WriteStatus(t, "completada")
  /\ Reply(t)
  /\ UNCHANGED <<task, completed, money>>

FailCheck(t, p, k) ==
  /\ MayFail(k, p)
  /\ Begin(t, "fail", p, k)
  /\ UNCHANGED <<task, assignment, completed, money>>

\* The slot and the escrow stay as they are.
Fail(t) ==
  /\ thread[t].pc = "fail"
  /\ WriteStatus(t, "fallida")
  /\ Goto(t, "faildelta")
  /\ UNCHANGED <<task, completed, money>>

FailDelta(t) ==
  /\ thread[t].pc = "faildelta"
  /\ WriteStatus(t, "fallida")
  /\ Reply(t)
  /\ UNCHANGED <<task, completed, money>>

-----------------------------------------------------------------------------
(* POST /client/deposit, /client/tasks, /client/tasks/{id}/cancel *)

Deposit(a, n) ==
  /\ deposited[a] + n <= MaxDeposit
  /\ wallet' = [wallet EXCEPT ![a].available = @ + n]
  /\ deposited' = [deposited EXCEPT ![a] = @ + n]
  /\ UNCHANGED <<task, assignment, escrow, completed, paid, thread>>

\* The balance suffices; k is the task of this request.
PublishCheck(t, k) ==
  /\ task[k].status = "absent"
  /\ \A u \in Threads : thread[u].on # k
  /\ wallet[OwnerOf[k]].available >= TotalCost(k)
  /\ Begin(t, "insert", OwnerOf[k], k)
  /\ UNCHANGED <<task, assignment, completed, money>>

\* create_client_task: from here on the task is in the catalogue.
InsertTask(t) ==
  LET k == thread[t].on IN
  /\ thread[t].pc = "insert"
  /\ task' = [task EXCEPT ![k] = [status |-> "disponible", slots |-> Slots[k]]]
  /\ Goto(t, "hold")
  /\ UNCHANGED <<assignment, completed, money>>

Held(row, total) == [row EXCEPT !.available = @ - total, !.pending = @ + total]

\* hold_escrow, one transaction
Hold(t) ==
  LET k == thread[t].on  c == thread[t].who  total == TotalCost(k) IN
  /\ thread[t].pc = "hold"
  /\ IF wallet[c].available >= total
       THEN /\ wallet' = [wallet EXCEPT ![c] = Held(@, total)]
            /\ escrow' = [escrow EXCEPT ![k] = [status |-> "activo", held |-> total,
                                                released |-> 0]]
            /\ Reply(t)
       ELSE Goto(t, "delete") /\ UNCHANGED <<escrow, wallet>>
  /\ UNCHANGED <<task, assignment, completed, paid, deposited>>

\* _delete_task_unsafe; an assignment keeps the row (ON DELETE RESTRICT).
DeleteTask(t) ==
  LET k == thread[t].on IN
  /\ thread[t].pc = "delete"
  /\ task' = IF \A p \in Providers : assignment[k][p] = "none"
               THEN [task EXCEPT ![k].status = "deleted"]
               ELSE task
  /\ Reply(t)
  /\ UNCHANGED <<assignment, completed, money>>

\* cancel_task_db
CancelTask(t, k) ==
  /\ task[k].status = "disponible"
  /\ Begin(t, "refund", OwnerOf[k], k)
  /\ task' = [task EXCEPT ![k].status = "cancelada"]
  /\ UNCHANGED <<assignment, completed, money>>

\* Mutant: what has been released is refunded as well.
RefundOfAll(k) == escrow[k].held
RefundOf(k) == Unspent(k)

\* refund_escrow, one transaction
Refund(t) ==
  LET k == thread[t].on  c == thread[t].who IN
  /\ thread[t].pc = "refund"
  /\ IF escrow[k].status = "activo"
       THEN /\ escrow' = [escrow EXCEPT ![k].status = "cancelado"]
            /\ wallet' = [wallet EXCEPT ![c].available = @ + RefundOf(k),
                                        ![c].pending = @ - RefundOf(k)]
       ELSE UNCHANGED <<escrow, wallet>>
  /\ Reply(t)
  /\ UNCHANGED <<task, assignment, completed, paid, deposited>>

-----------------------------------------------------------------------------
(* Specifications. *)

\* The process dies or a call raises.
HandlerDies(t) ==
  /\ Faults
  /\ thread[t].pc # "idle"
  /\ Reply(t)
  /\ UNCHANGED <<task, assignment, completed, money>>

Init ==
  /\ task = [k \in Tasks |-> IF k \in Seeded
                               THEN [status |-> "disponible", slots |-> Slots[k]]
                               ELSE [status |-> "absent", slots |-> 0]]
  /\ assignment = [k \in Tasks |-> [p \in Providers |-> "none"]]
  /\ escrow = [k \in Tasks |-> [status |-> "none", held |-> 0, released |-> 0]]
  /\ wallet = [a \in Accounts |-> [available |-> 0, pending |-> 0]]
  /\ completed = [p \in Providers |-> 0]
  /\ paid = [k \in Tasks |-> [p \in Providers |-> 0]]
  /\ deposited = [a \in Accounts |-> 0]
  /\ thread = [t \in Threads |-> Idle]

Progress(t) ==
  \/ ReadSlots(t) \/ TakeSlot(t) \/ CreateAssignment(t)
  \/ Start(t)
  \/ Complete(t) \/ Credit(t) \/ Release(t)
  \/ ReadProfile(t) \/ WriteStats(t) \/ WriteDelta(t)
  \/ Fail(t) \/ FailDelta(t)
  \/ InsertTask(t) \/ Hold(t) \/ DeleteTask(t)
  \/ Refund(t)

\* The requests a provider makes on the task it has, and the client's.
Work(t, p, k) == StartCheck(t, p, k) \/ CompleteCheck(t, p, k) \/ FailCheck(t, p, k)
Owned == Tasks \ Seeded
Deposits == \E k \in Owned : \E n \in 1..MaxDeposit : Deposit(OwnerOf[k], n)
Publishes(t) == \E k \in Owned : PublishCheck(t, k)

Request(t) ==
  \/ \E p \in Providers, k \in Tasks : AcceptCheck(t, p, k) \/ Work(t, p, k)
  \/ \E k \in Owned : CancelTask(t, k)

Next ==
  \/ Deposits
  \/ \E t \in Threads : Publishes(t) \/ Request(t) \/ Progress(t) \/ HandlerDies(t)

\* Any requests, in any number at a time, and any failure.
Spec == Init /\ [][Next]_vars

\* Every provider waits for the answer to one request before it makes the next.
Waiting(a) == \E t \in Threads : thread[t].who = a

SerialRequest(t) ==
  \/ \E p \in Providers, k \in Tasks :
       ~Waiting(p) /\ (AcceptCheck(t, p, k) \/ Work(t, p, k))
  \/ \E k \in Owned : CancelTask(t, k)

SerialNext ==
  \/ Deposits
  \/ \E t \in Threads : Publishes(t) \/ SerialRequest(t) \/ Progress(t) \/ HandlerDies(t)

SerialSpec == Init /\ [][SerialNext]_vars

\* Moreover no handler fails, a task is accepted when it is funded and not cancelled,
\* and cancelled when nobody is working on it or about to.
InUse(k) ==
  \/ \E p \in Providers : assignment[k][p] \in Active
  \/ \E t \in Threads : thread[t].on = k

OrderlyRequest(t) ==
  \/ \E p \in Providers, k \in Tasks :
       /\ ~Waiting(p)
       /\ \/ /\ task[k].status = "disponible"
             /\ k \in Seeded \/ escrow[k].status = "activo"
             /\ AcceptCheck(t, p, k)
          \/ Work(t, p, k)
  \/ \E k \in Owned : ~InUse(k) /\ CancelTask(t, k)

OrderlyNext ==
  \/ Deposits
  \/ \E t \in Threads : Publishes(t) \/ OrderlyRequest(t) \/ Progress(t)

OrderlySpec == Init /\ [][OrderlyNext]_vars

-----------------------------------------------------------------------------
(* Properties of any behaviour. *)

\* Every row and handler has its type; in particular no balance becomes negative,
\* which the CHECK constraints on wallets would turn into an error.
TypeOK ==
  /\ task \in [Tasks -> TaskRow]
  /\ assignment \in [Tasks -> [Providers -> AssignmentStatus]]
  /\ escrow \in [Tasks -> EscrowRow]
  /\ wallet \in [Accounts -> WalletRow]
  /\ completed \in [Providers -> Nat]
  /\ paid \in [Tasks -> [Providers -> Nat]]
  /\ deposited \in [Accounts -> Nat]
  /\ thread \in [Threads -> Handler]

Taken(k) == {p \in Providers : assignment[k][p] # "none"}

\* No task has more assignments than slots, although slots_left is read and written
\* in two calls; every slot that is left is still unassigned.
SlotsNeverOversold ==
  \A k \in Tasks : Exists(k) => task[k].slots + Cardinality(Taken(k)) <= Slots[k]

\* A client's pending_balance is what its active escrows have not released: holds,
\* releases and refunds move both in one transaction (client_queries).
PendingMatchesEscrows ==
  \A a \in Accounts :
    wallet[a].pending =
      MapThenSumSet(Unspent, {k \in Owned : OwnerOf[k] = a /\ escrow[k].status = "activo"})

Payments(k) == MapThenSumSet(LAMBDA p : paid[k][p], Providers)
Releasing(k) == {t \in Threads : thread[t].pc = "release" /\ thread[t].on = k}

\* An escrow never releases what no provider has been paid: complete_task credits
\* the provider first.
ReleasesFollowPayments ==
  \A k \in Owned : escrow[k].released <= Reward[k] * Payments(k)

-----------------------------------------------------------------------------
(* Properties when a provider makes one request at a time. *)

\* A provider is paid at most once for a task, and only for one it completed.
PaidOnce ==
  \A k \in Tasks, p \in Providers :
    paid[k][p] <= 1 /\ (paid[k][p] = 1 => assignment[k][p] = "completada")

\* A completed or failed assignment stays so (docs/02-requisitos.md, RF-07).
OutcomesStay ==
  [][\A k \in Tasks, p \in Providers :
       assignment[k][p] \in {"completada", "fallida"} =>
         assignment'[k][p] = assignment[k][p]]_assignment

-----------------------------------------------------------------------------
(* Properties of orderly behaviours. *)

Balance(a) == wallet[a].available + wallet[a].pending

\* No money appears or vanishes: the balances of all accounts are what was deposited,
\* the rewards of seeded tasks, and the rewards credited but not yet released.
MoneyConserved ==
  MapThenSumSet(Balance, Accounts) =
    MapThenSumSet(LAMBDA a : deposited[a], Accounts)
    + MapThenSumSet(LAMBDA k : Reward[k] * Payments(k), Seeded)
    + MapThenSumSet(LAMBDA k : Reward[k] * Cardinality(Releasing(k)), Owned)

\* The escrow of a task covers every slot that is left, every assignment that may
\* still be completed, and every reward that is being released.
AcceptedWorkIsFunded ==
  \A k \in Owned :
    LET active == {p \in Providers : assignment[k][p] \in Active}
    IN /\ escrow[k].status = "activo" =>
            Unspent(k) >= Reward[k] * (task[k].slots + Cardinality(active)
                                         + Cardinality(Releasing(k)))
       /\ escrow[k].status # "activo" => active = {} /\ Releasing(k) = {}

=============================================================================
