----------------------------- MODULE MoneyPages -----------------------------
(***************************************************************************)
(* The pages that move money: the wallet of a provider with its history    *)
(* and its withdrawals (WalletPage), and the pages of a client that        *)
(* deposits, publishes tasks and cancels them (DepositPage,                *)
(* PublishTaskPage, MyTasksPage, ClientTaskDetailPage).  An account is     *)
(* both and has one wallet.                                                *)
(*                                                                         *)
(* In the backend every handler moves the money of the wallet in one call  *)
(* and records the movement in a later one, which others come in between   *)
(* and which may fail.  A withdrawal moves it by reading the wallet and    *)
(* writing it back with no lock, the others in one statement.              *)
(*                                                                         *)
(* A page that is left no longer shows the answers to what it asked: only  *)
(* its commands are kept, for what the server makes of them.               *)
(***************************************************************************)
EXTENDS Integers, FiniteSets, FiniteSetsExt

CONSTANTS
  Tasks,          \* that the client may publish; each holds an escrow of Reward
  Amounts,        \* that may be typed for a withdrawal
  MIN_WITHDRAW_AMOUNT, PAGE_SIZE,
  Opening,        \* balance of the wallet at first
  Reward,         \* of a task of one slot, and amount of a deposit
  MaxRows,        \* bound: movements recorded or lost, when another one begins
  Slots,          \* bound: requests that may be in flight together
  NoTask, NoRequest

ASSUME MoneyPagesAssumption ==
  /\ Amounts \subseteq Nat /\ MIN_WITHDRAW_AMOUNT \in Nat \ {0} /\ PAGE_SIZE \in Nat \ {0}
  /\ Opening \in Nat /\ Reward \in Nat \ {0} /\ MaxRows \in Nat
  /\ NoTask \notin Tasks
  /\ IsFiniteSet(Slots)

VARIABLES
  wallet,   \* the row of wallets in the database
  ledger,   \* what the rows of transactions add up to
  task,     \* status of each task in the database
  escrow,   \* status of the escrow of each task
  slips,    \* history: the ways in which wallet and ledger have come apart
  page,     \* the page shown
  funds,    \* state of WalletPage
  form,     \* state of DepositPage or of PublishTaskPage
  sheet,    \* state of MyTasksPage or of ClientTaskDetailPage
  request   \* requests in flight

server == <<wallet, ledger, task, escrow, slips>>
client == <<page, funds, form, sheet>>
vars == <<wallet, ledger, task, escrow, slips, page, funds, form, sheet, request>>

\* No code writes "en_progreso" or "completada", which the schema knows.
TaskStatus == {"none", "disponible", "cancelada", "deleted"}
EscrowStatus == {"none", "activo", "completado", "cancelado"}

\* overwritten: a withdrawal has written over another movement.  unrecorded: movements
\* whose transaction will never be written.
Slips == [overwritten : BOOLEAN, unrecorded : Nat]

Page ==
  [name : {"wallet", "deposit", "publish", "mine", "task"}, on : Tasks \cup {NoTask}]

\* known, shown: the available balance as last fetched.  total, at: the number of
\* transactions and the page of them, as last fetched.  modal: of withdrawals, with its
\* two steps.  sending: withdrawLoading.
Funds ==
  [known : BOOLEAN, shown : Nat, loading : BOOLEAN, error : BOOLEAN, total : Nat, at : Nat,
   txLoading : BOOLEAN, modal : {"closed", "form", "confirm"}, amount : Amounts \cup {0},
   sending : BOOLEAN, success : BOOLEAN]

Form == [loading : BOOLEAN, success : BOOLEAN]

\* tasks: as last fetched.
Sheet ==
  [loading : BOOLEAN, known : BOOLEAN, tasks : [Tasks -> TaskStatus],
   cancelOpen : BOOLEAN, cancelling : BOOLEAN]

Commands == {"withdraw", "deposit", "publish", "cancel"}
Queries == {"wallet", "rows", "refreshWallet", "refreshRows", "tasks"}

\* phase: those from "checked" to "written" are inside a handler, the last of them with
\* the money moved and not recorded.  kind: complete_task credits the account for a task
\* of others with no page of this module asking.  read: the wallet as it was read to be
\* written back.  wait: the page waits for the answer; it was left; or it gave up
\* waiting.  got: the answer to a query.
Before == {"checked", "read", "inserted", "unpaid", "cancelled"}
Request ==
  [kind : Commands \cup Queries \cup {"credit"}, on : Tasks \cup {NoTask},
   amount : Amounts \cup {0}, at : Nat, phase : Before \cup {"sent", "written", "served"},
   read : [available : Nat, withdrawn : Nat], wait : {"here", "left", "gone"},
   got : Nat, tasks : [Tasks -> TaskStatus]]

ASSUME NoRequestAssumption == NoRequest \notin Request

TypeOK ==
  /\ wallet \in [available : Nat, withdrawn : Nat]
  /\ ledger \in [rows : Nat, balance : Int, withdrawn : Nat]
  /\ task \in [Tasks -> TaskStatus] /\ escrow \in [Tasks -> EscrowStatus]
  /\ slips \in Slips
  /\ page \in Page /\ funds \in Funds /\ form \in Form /\ sheet \in Sheet
  /\ \A s \in Slots : request[s] # NoRequest => request[s] \in Request

-----------------------------------------------------------------------------
Unseen == [k \in Tasks |-> "none"]
Nothing == [available |-> 0, withdrawn |-> 0]
NoSlips == [overwritten |-> FALSE, unrecorded |-> 0]

\* The tasks as a query finds them.
Listed == [k \in Tasks |-> IF task[k] = "deleted" THEN "none" ELSE task[k]]

EmptyFunds ==
  [known |-> FALSE, shown |-> 0, loading |-> FALSE, error |-> FALSE, total |-> 0,
   at |-> 0, txLoading |-> FALSE, modal |-> "closed", amount |-> 0, sending |-> FALSE,
   success |-> FALSE]

EmptyForm == [loading |-> FALSE, success |-> FALSE]

EmptySheet ==
  [loading |-> FALSE, known |-> FALSE, tasks |-> Unseen, cancelOpen |-> FALSE,
   cancelling |-> FALSE]

Sent(kind) ==
  [kind |-> kind, on |-> NoTask, amount |-> 0, at |-> 0, phase |-> "sent",
   read |-> Nothing, wait |-> "here", got |-> 0, tasks |-> Unseen]

Free(s) == request[s] = NoRequest
Send(s, r) == Free(s) /\ request' = [request EXCEPT ![s] = r]
Done(s) == [request EXCEPT ![s] = NoRequest]

Arrived(s, kind) ==
  ~Free(s) /\ request[s].phase = "served" /\ request[s].kind = kind

\* The page is left: queries are forgotten, and of the commands only the cancellation
\* does something with its answer, which is to navigate.
Left(requests) ==
  [s \in Slots |->
     LET r == requests[s] IN
     IF r = NoRequest \/ r.kind \in Queries THEN NoRequest
     ELSE [r EXCEPT !.wait = IF r.kind = "cancel" /\ @ # "gone" THEN "left" ELSE "gone"]]

\* Shows another page, which begins by fetching what it shows.
Mount(p, requests) ==
  LET rest == Left(requests)
      free == {s \in Slots : rest[s] = NoRequest}
  IN /\ page' = p
     /\ funds' = [EmptyFunds EXCEPT !.loading = p.name = "wallet", !.txLoading = p.name = "wallet"]
     /\ form' = EmptyForm
     /\ sheet' = [EmptySheet EXCEPT !.loading = p.name \in {"mine", "task"}]
     /\ \/ /\ p.name = "wallet"
           /\ \E s, t \in free : s # t /\
                request' = [rest EXCEPT ![s] = Sent("wallet"), ![t] = Sent("rows")]
        \/ /\ p.name \in {"mine", "task"}
           /\ \E s \in free : request' = [rest EXCEPT ![s] = Sent("tasks")]
        \/ p.name \in {"deposit", "publish"} /\ request' = rest

\* The links of the pages and of the Navbar.  A task is opened from the list, or as
\* soon as it is published.
Visit(p) ==
  /\ p # page
  /\ p.name = "task" => \/ page.name = "mine" /\ sheet.known /\ sheet.tasks[p.on] # "none"
                        \/ page.name = "publish" /\ form.success /\ Listed[p.on] # "none"
  /\ Mount(p, request)
  /\ UNCHANGED server

-----------------------------------------------------------------------------
(* WalletPage.                                                             *)

OnWallet == page.name = "wallet"

\* The card of the balances, and with it the button, is hidden while loading.
openWithdrawModal ==
  /\ OnWallet /\ ~funds.loading /\ funds.known /\ funds.shown >= MIN_WITHDRAW_AMOUNT
  /\ funds.modal = "closed"
  /\ funds' = [funds EXCEPT !.modal = "form", !.amount = 0]
  /\ UNCHANGED <<server, page, form, sheet, request>>

TypeAmount(a) ==
  /\ funds.modal = "form" /\ funds.amount # a
  /\ funds' = [funds EXCEPT !.amount = a]
  /\ UNCHANGED <<server, page, form, sheet, request>>

validateWithdraw == funds.amount >= MIN_WITHDRAW_AMOUNT /\ (funds.known => funds.amount <= funds.shown)

handleWithdrawNext ==
  /\ funds.modal = "form" /\ validateWithdraw
  /\ funds' = [funds EXCEPT !.modal = "confirm"]
  /\ UNCHANGED <<server, page, form, sheet, request>>

\* Mutant: the modal closes also while its withdrawal is sent.
CloseModalAnyTime ==
  /\ funds.modal # "closed"
  /\ funds' = [funds EXCEPT !.modal = "closed"]
  /\ UNCHANGED <<server, page, form, sheet, request>>

\* "Cancelar" of the first step closes it in any case; Escape, the background and the
\* cross only when nothing is being sent.
CloseModal ==
  /\ \/ funds.modal = "form"
     \/ funds.modal = "confirm" /\ ~funds.sending
  /\ funds' = [funds EXCEPT !.modal = "closed"]
  /\ UNCHANGED <<server, page, form, sheet, request>>

Back ==
  /\ funds.modal = "confirm" /\ ~funds.sending
  /\ funds' = [funds EXCEPT !.modal = "form"]
  /\ UNCHANGED <<server, page, form, sheet, request>>

handleWithdrawConfirm(s) ==
  /\ funds.modal = "confirm" /\ ~funds.sending
  /\ funds' = [funds EXCEPT !.sending = TRUE]
  /\ Send(s, [Sent("withdraw") EXCEPT !.amount = funds.amount])
  /\ UNCHANGED <<server, page, form, sheet>>

\* The answer closes the modal and goes on by fetching the balances, then the history.
Withdrawn(s) ==
  /\ Arrived(s, "withdraw")
  /\ IF request[s].wait = "here"
     THEN /\ funds' = [funds EXCEPT !.modal = "closed", !.success = TRUE,
                                      !.loading = TRUE, !.error = FALSE]
          /\ request' = [request EXCEPT ![s] = Sent("refreshWallet")]
     ELSE UNCHANGED funds /\ request' = Done(s)
  /\ UNCHANGED <<server, page, form, sheet>>

\* After the balances, fetched or not, comes the history.
ThenRows(s) ==
  IF request[s].kind = "refreshWallet" THEN [request EXCEPT ![s] = Sent("refreshRows")]
  ELSE Done(s)

loadWallet(s) ==
  /\ Arrived(s, "wallet") \/ Arrived(s, "refreshWallet")
  /\ funds' = [funds EXCEPT !.known = TRUE, !.shown = request[s].got, !.loading = FALSE,
                            !.txLoading = @ \/ request[s].kind = "refreshWallet"]
  /\ request' = ThenRows(s)
  /\ UNCHANGED <<server, page, form, sheet>>

\* "Reintentar", offered with the error of the balances.
RetryWallet(s) ==
  /\ OnWallet /\ funds.error
  /\ funds' = [funds EXCEPT !.loading = TRUE, !.error = FALSE]
  /\ Send(s, Sent("wallet"))
  /\ UNCHANGED <<server, page, form, sheet>>

loadTransactions(s) ==
  LET r == request[s] IN
  /\ Arrived(s, "rows") \/ Arrived(s, "refreshRows")
  /\ funds' = [funds EXCEPT !.total = r.got, !.at = r.at, !.txLoading = FALSE,
                            !.sending = @ /\ r.kind # "refreshRows"]
  /\ request' = Done(s)
  /\ UNCHANGED <<server, page, form, sheet>>

totalPages == (funds.total + PAGE_SIZE - 1) \div PAGE_SIZE

\* Mutant: one page too many.
TurnBeyond(p, s) ==
  /\ OnWallet /\ totalPages > 1 /\ ~funds.txLoading
  /\ \/ p = funds.at - 1 /\ funds.at # 0
     \/ p = funds.at + 1 /\ funds.at <= totalPages - 1
  /\ funds' = [funds EXCEPT !.txLoading = TRUE]
  /\ Send(s, [Sent("rows") EXCEPT !.at = p])
  /\ UNCHANGED <<server, page, form, sheet>>

\* "Anterior" and "Siguiente".
Turn(p, s) ==
  /\ OnWallet /\ totalPages > 1 /\ ~funds.txLoading
  /\ \/ p = funds.at - 1 /\ funds.at # 0
     \/ p = funds.at + 1 /\ funds.at < totalPages - 1
  /\ funds' = [funds EXCEPT !.txLoading = TRUE]
  /\ Send(s, [Sent("rows") EXCEPT !.at = p])
  /\ UNCHANGED <<server, page, form, sheet>>

-----------------------------------------------------------------------------
(* DepositPage and PublishTaskPage.                                        *)

\* Mutant: the button stays enabled.
handleSubmitAgain(s) ==
  /\ page.name \in {"deposit", "publish"} /\ ~form.success
  /\ form' = [form EXCEPT !.loading = TRUE]
  /\ Send(s, Sent(page.name))
  /\ UNCHANGED <<server, page, funds, sheet>>

handleSubmit(s) ==
  /\ page.name \in {"deposit", "publish"} /\ ~form.success /\ ~form.loading
  /\ form' = [form EXCEPT !.loading = TRUE]
  /\ Send(s, Sent(page.name))
  /\ UNCHANGED <<server, page, funds, sheet>>

Submitted(s) ==
  /\ Arrived(s, "deposit") \/ Arrived(s, "publish")
  /\ form' = IF request[s].wait = "here" THEN [loading |-> FALSE, success |-> TRUE] ELSE form
  /\ request' = Done(s)
  /\ UNCHANGED <<server, page, funds, sheet>>

\* "Otro depósito".
AnotherDeposit ==
  /\ page.name = "deposit" /\ form.success
  /\ form' = EmptyForm
  /\ UNCHANGED <<server, page, funds, sheet, request>>

-----------------------------------------------------------------------------
(* MyTasksPage and ClientTaskDetailPage.                                   *)

TasksFetched(s) ==
  /\ Arrived(s, "tasks")
  /\ sheet' = [sheet EXCEPT !.loading = FALSE, !.known = TRUE, !.tasks = request[s].tasks]
  /\ request' = Done(s)
  /\ UNCHANGED <<server, page, funds, form>>

canCancel ==
  page.name = "task" /\ ~sheet.loading /\ sheet.known /\ sheet.tasks[page.on] = "disponible"

\* Unlike the modal of withdrawals, this one closes while its command is in flight.
ToggleCancel ==
  /\ canCancel
  /\ sheet' = [sheet EXCEPT !.cancelOpen = ~@]
  /\ UNCHANGED <<server, page, funds, form, request>>

handleCancel(s) ==
  /\ canCancel /\ sheet.cancelOpen /\ ~sheet.cancelling
  /\ sheet' = [sheet EXCEPT !.cancelling = TRUE]
  /\ Send(s, [Sent("cancel") EXCEPT !.on = page.on])
  /\ UNCHANGED <<server, page, funds, form>>

\* navigate('/cliente/mis-tareas'), also from wherever the user is by now; it does
\* nothing on that page itself.
Cancelled(s) ==
  LET mine == [name |-> "mine", on |-> NoTask] IN
  /\ Arrived(s, "cancel")
  /\ IF page = mine THEN request' = Done(s) /\ UNCHANGED client ELSE Mount(mine, Done(s))
  /\ UNCHANGED server

-----------------------------------------------------------------------------
\* What the page does about an error, when it still waits.
AfterErrorOnFunds(kind) ==
  CASE kind = "withdraw"      -> [funds EXCEPT !.modal = "form", !.sending = FALSE]
    [] kind = "wallet"        -> [funds EXCEPT !.loading = FALSE, !.error = TRUE]
    [] kind = "refreshWallet" -> [funds EXCEPT !.loading = FALSE, !.error = TRUE,
                                               !.txLoading = TRUE]
    [] kind = "rows"          -> [funds EXCEPT !.txLoading = FALSE]
    [] kind = "refreshRows"   -> [funds EXCEPT !.txLoading = FALSE, !.sending = FALSE]
    [] OTHER                  -> funds

AfterErrorOnForm(kind) ==
  IF kind \in {"deposit", "publish"} THEN [form EXCEPT !.loading = FALSE] ELSE form

AfterErrorOnSheet(kind) ==
  CASE kind = "tasks"  -> [sheet EXCEPT !.loading = FALSE]
    [] kind = "cancel" -> [sheet EXCEPT !.cancelling = FALSE]
    [] OTHER           -> sheet

PageSeesError(s) ==
  IF request[s].wait = "here"
  THEN /\ funds' = AfterErrorOnFunds(request[s].kind)
       /\ form' = AfterErrorOnForm(request[s].kind)
       /\ sheet' = AfterErrorOnSheet(request[s].kind)
       /\ UNCHANGED page
  ELSE UNCHANGED client

\* The backend answers with an error: it refuses, or one of its calls fails.
Refused(s) == PageSeesError(s) /\ request' = ThenRows(s)

\* A request does not reach the backend, or its answer does not come back.
Lost(s) ==
  /\ ~Free(s) /\ request[s].phase \in {"sent", "served"} /\ request[s].wait # "gone"
  /\ Refused(s)
  /\ UNCHANGED server

\* The timeout of apiClient: the page gives up on a command that the backend still
\* carries out.
GiveUp(s) ==
  /\ ~Free(s) /\ request[s].kind \in Commands /\ request[s].phase # "served"
  /\ request[s].wait # "gone"
  /\ PageSeesError(s)
  /\ request' = [request EXCEPT ![s].wait = "gone"]
  /\ UNCHANGED server

-----------------------------------------------------------------------------
(* The backend.                                                            *)

At(s, kind, phase) == ~Free(s) /\ request[s].kind = kind /\ request[s].phase = phase

\* The answer is on its way, or there is no one to hear it.
Answered(s) ==
  IF request[s].wait = "gone" THEN Done(s) ELSE [request EXCEPT ![s].phase = "served"]

\* There is room to begin another movement.
Room == ledger.rows + slips.unrecorded < MaxRows

\* What a handler adds to the available balance.
Moved(r) ==
  CASE r.kind = "withdraw" -> -r.amount
    [] r.kind = "publish"  -> -Reward
    [] OTHER               -> Reward

\* A handler moves money in one statement, and goes on to record it.
Move(s, n) ==
  /\ wallet' = [wallet EXCEPT !.available = @ + n]
  /\ request' = [request EXCEPT ![s].phase = "written"]

ServeQuery(s) ==
  /\ ~Free(s) /\ request[s].kind \in Queries /\ request[s].phase = "sent"
  /\ request' = [request EXCEPT ![s].phase = "served",
       ![s].got = CASE request[s].kind \in {"wallet", "refreshWallet"} -> wallet.available
                    [] request[s].kind \in {"rows", "refreshRows"}     -> ledger.rows
                    [] OTHER                                           -> 0,
       ![s].tasks = IF request[s].kind = "tasks" THEN Listed ELSE Unseen]
  /\ UNCHANGED <<server, client>>

\* process_withdrawal: reads the wallet and compares ...
CheckWithdrawal(s) ==
  LET a == request[s].amount IN
  /\ At(s, "withdraw", "sent") /\ Room
  /\ IF a < MIN_WITHDRAW_AMOUNT \/ a > wallet.available THEN Refused(s)
     ELSE request' = [request EXCEPT ![s].phase = "checked"] /\ UNCHANGED client
  /\ UNCHANGED server

\* ... update_wallet_on_withdraw reads it again ...
ReadWallet(s) ==
  /\ At(s, "withdraw", "checked")
  /\ request' = [request EXCEPT ![s].phase = "read", ![s].read = wallet]
  /\ UNCHANGED <<server, client>>

\* Mutants: nothing keeps the balance from becoming negative; the total is not kept.
WriteBackUnchecked(s) ==
  LET r == request[s]
      left == r.read.available - r.amount
  IN /\ At(s, "withdraw", "read")
     /\ wallet' = [available |-> left, withdrawn |-> r.read.withdrawn + r.amount]
     /\ slips' = [slips EXCEPT !.overwritten = @ \/ r.read # wallet]
     /\ request' = [request EXCEPT ![s].phase = "written", ![s].read = Nothing]
     /\ UNCHANGED <<ledger, task, escrow, client>>

WriteBackUntotalled(s) ==
  LET r == request[s]
      left == r.read.available - r.amount
  IN /\ At(s, "withdraw", "read")
     /\ IF left < 0 THEN Refused(s) /\ UNCHANGED server
        ELSE /\ wallet' = [available |-> left, withdrawn |-> r.read.withdrawn]
             /\ slips' = [slips EXCEPT !.overwritten = @ \/ r.read # wallet]
             /\ request' = [request EXCEPT ![s].phase = "written", ![s].read = Nothing]
             /\ UNCHANGED <<ledger, task, escrow, client>>

\* ... and writes back both values, unless the database refuses a negative balance.
WriteBack(s) ==
  LET r == request[s]
      left == r.read.available - r.amount
  IN /\ At(s, "withdraw", "read")
     /\ IF left < 0 THEN Refused(s) /\ UNCHANGED server
        ELSE /\ wallet' = [available |-> left, withdrawn |-> r.read.withdrawn + r.amount]
             /\ slips' = [slips EXCEPT !.overwritten = @ \/ r.read # wallet]
             /\ request' = [request EXCEPT ![s].phase = "written", ![s].read = Nothing]
             /\ UNCHANGED <<ledger, task, escrow, client>>

Deposit(s) ==
  /\ At(s, "deposit", "sent") /\ Room
  /\ Move(s, Reward)
  /\ UNCHANGED <<ledger, task, escrow, slips, client>>

\* create_task: looks at the balance, ...
CheckBalance(s) ==
  /\ At(s, "publish", "sent") /\ Room
  /\ IF wallet.available < Reward THEN Refused(s)
     ELSE request' = [request EXCEPT ![s].phase = "checked"] /\ UNCHANGED client
  /\ UNCHANGED server

\* ... inserts the task, which is on offer from now on, ...
InsertTask(s, k) ==
  /\ At(s, "publish", "checked") /\ task[k] = "none"
  /\ task' = [task EXCEPT ![k] = "disponible"]
  /\ request' = [request EXCEPT ![s].phase = "inserted", ![s].on = k]
  /\ UNCHANGED <<wallet, ledger, escrow, slips, client>>

\* ... hold_escrow takes the money, if it is still there, ...
HoldEscrow(s) ==
  /\ At(s, "publish", "inserted")
  /\ IF wallet.available < Reward
     THEN request' = [request EXCEPT ![s].phase = "unpaid"] /\ UNCHANGED <<wallet, escrow>>
     ELSE Move(s, -Reward) /\ escrow' = [escrow EXCEPT ![request[s].on] = "activo"]
  /\ UNCHANGED <<ledger, task, slips, client>>

\* ... and if it is not, the task is deleted.
DeleteTask(s) ==
  /\ At(s, "publish", "unpaid")
  /\ task' = [task EXCEPT ![request[s].on] = "deleted"]
  /\ Refused(s)
  /\ UNCHANGED <<wallet, ledger, escrow, slips>>

\* cancel_task: cancels the task, ...
CancelTask(s) ==
  LET k == request[s].on IN
  /\ At(s, "cancel", "sent") /\ Room
  /\ IF task[k] # "disponible" THEN Refused(s) /\ UNCHANGED server
     ELSE /\ task' = [task EXCEPT ![k] = "cancelada"]
          /\ request' = [request EXCEPT ![s].phase = "cancelled"]
          /\ UNCHANGED <<wallet, ledger, escrow, slips, client>>

\* ... and refund_escrow gives the escrow back, if there is one to give back.
RefundEscrow(s) ==
  LET k == request[s].on IN
  /\ At(s, "cancel", "cancelled")
  /\ IF escrow[k] = "activo"
     THEN Move(s, Reward) /\ escrow' = [escrow EXCEPT ![k] = "cancelado"]
     ELSE request' = Answered(s) /\ UNCHANGED <<wallet, escrow>>
  /\ UNCHANGED <<ledger, task, slips, client>>

\* The account completes a task of others, and complete_task credits it.
CreditTask(s) ==
  /\ Free(s) /\ Room
  /\ wallet' = [wallet EXCEPT !.available = @ + Reward]
  /\ request' =
       [request EXCEPT ![s] = [Sent("credit") EXCEPT !.phase = "written", !.wait = "gone"]]
  /\ UNCHANGED <<ledger, task, escrow, slips, client>>

\* create_transaction records what was moved ...
Record(s) ==
  LET r == request[s] IN
  /\ ~Free(s) /\ r.phase = "written"
  /\ ledger' = [ledger EXCEPT !.rows = @ + 1, !.balance = @ + Moved(r),
                              !.withdrawn = IF r.kind = "withdraw" THEN @ + r.amount ELSE @]
  /\ request' = Answered(s)
  /\ UNCHANGED <<wallet, task, escrow, slips, client>>

\* ... or fails, and nothing moves it back.
RecordFails(s) ==
  /\ ~Free(s) /\ request[s].phase = "written"
  /\ slips' = [slips EXCEPT !.unrecorded = @ + 1]
  /\ Refused(s)
  /\ UNCHANGED <<wallet, ledger, task, escrow>>

\* A handler fails before it has moved money: a task stays inserted, or cancelled.
HandlerFails(s) ==
  /\ ~Free(s) /\ request[s].phase \in Before
  /\ Refused(s)
  /\ UNCHANGED server

\* A provider completes a task of the client, whose one slot is released.
ReleaseEscrow(k) ==
  /\ escrow[k] = "activo"
  /\ escrow' = [escrow EXCEPT ![k] = "completado"]
  /\ UNCHANGED <<wallet, ledger, task, slips, client, request>>

\* The account is paid for a chunk: wallet and transaction are written in one
\* transaction of the database.
CreditChunk ==
  /\ Room
  /\ wallet' = [wallet EXCEPT !.available = @ + Reward]
  /\ ledger' = [ledger EXCEPT !.rows = @ + 1, !.balance = @ + Reward]
  /\ UNCHANGED <<task, escrow, slips, client, request>>

-----------------------------------------------------------------------------
Init ==
  /\ wallet = [available |-> Opening, withdrawn |-> 0]
  /\ ledger = [rows |-> 0, balance |-> Opening, withdrawn |-> 0]
  /\ task = Unseen
  /\ escrow = [k \in Tasks |-> "none"]
  /\ slips = NoSlips
  /\ page = [name |-> "deposit", on |-> NoTask]
  /\ funds = EmptyFunds /\ form = EmptyForm /\ sheet = EmptySheet
  /\ request = [s \in Slots |-> NoRequest]

User(s) ==
  \/ handleWithdrawConfirm(s) \/ RetryWallet(s) \/ handleSubmit(s) \/ handleCancel(s)
  \/ \E p \in {funds.at - 1, funds.at + 1} : Turn(p, s)

Browse ==
  \/ \E p \in Page : (p.name = "task") = (p.on # NoTask) /\ Visit(p)
  \/ openWithdrawModal \/ handleWithdrawNext \/ CloseModal \/ Back
  \/ \E a \in Amounts : TypeAmount(a)
  \/ AnotherDeposit \/ ToggleCancel

Deliver(s) ==
  Withdrawn(s) \/ loadWallet(s) \/ loadTransactions(s) \/ Submitted(s) \/ TasksFetched(s)
    \/ Cancelled(s)

Serve(s) ==
  \/ ServeQuery(s) \/ CheckWithdrawal(s) \/ ReadWallet(s) \/ WriteBack(s)
  \/ Deposit(s) \/ CheckBalance(s) \/ HoldEscrow(s) \/ DeleteTask(s) \/ CancelTask(s)
  \/ RefundEscrow(s) \/ Record(s) \/ RecordFails(s) \/ HandlerFails(s)
  \/ \E k \in Tasks : InsertTask(s, k)

Next ==
  \/ Browse
  \/ \E s \in Slots : User(s) \/ Deliver(s) \/ Lost(s) \/ GiveUp(s) \/ Serve(s) \/ CreditTask(s)
  \/ \E k \in Tasks : ReleaseEscrow(k)
  \/ CreditChunk

Spec == Init /\ [][Next]_vars

-----------------------------------------------------------------------------
(* Properties.                                                             *)

\* Movements that are not recorded yet, and what they come to.
InHand == {s \in Slots : ~Free(s) /\ request[s].phase = "written"}
Pending == MapThenSumSet(LAMBDA s : Moved(request[s]), InHand)
PendingWithdrawn ==
  MapThenSumSet(LAMBDA s : request[s].amount, {s \in InHand : request[s].kind = "withdraw"})

\* The balance is what the transactions and the movements in hand add up to, and the
\* total withdrawn is the sum of the withdrawals, as long as no withdrawal has written
\* over another movement and every movement has been recorded: however the handlers
\* interleave, fail or are given up on, these are the ways for the two to come apart, and
\* a refusal, a deleted task or a refund of nothing is none (wallet_service.py:78,
\* wallet_queries.py:135, client_service.py:26, 95 and 162, task_lifecycle.py:144).
MoneyAddsUp ==
  slips = NoSlips => /\ wallet.available = ledger.balance + Pending
                     /\ wallet.withdrawn = ledger.withdrawn + PendingWithdrawn

Waiting(kinds) == {s \in Slots : ~Free(s) /\ request[s].kind \in kinds /\ request[s].wait = "here"}

\* While a withdrawal is sent its confirmation stays open with the amount that was sent,
\* so that it can neither be sent twice nor fail unseen (WalletPage.tsx:138 and 416).
SentAsConfirmed ==
  \A s \in Waiting({"withdraw"}) :
    /\ funds.modal = "confirm" /\ funds.sending
    /\ request[s].amount = funds.amount

\* A page has one command in flight at most, however often its button is pressed
\* (DepositPage.tsx:28, PublishTaskPage.tsx:126, ClientTaskDetailPage.tsx:77).
OneCommandAtATime == Cardinality(Waiting(Commands)) <= 1

\* The history never shows a page beyond its last, in whatever order the answers to its
\* buttons and to the refresh after a withdrawal arrive (WalletPage.tsx:79 and 173).
HistoryPageExists == funds.at = 0 \/ funds.at < totalPages

=============================================================================
