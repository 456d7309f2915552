-------------------------- MODULE MoneyPagesProofs --------------------------
(***************************************************************************)
(* Proofs about MoneyPages, for every number of tasks, amounts and         *)
(* requests in flight, and whatever is lost, refused or given up on.       *)
(***************************************************************************)
EXTENDS MoneyPages, SumProofs

-----------------------------------------------------------------------------
(* Types. *)

Requests == [Slots -> Request \cup {NoRequest}]

ServerTyped ==
  /\ wallet \in [available : Nat, withdrawn : Nat]
  /\ ledger \in [rows : Nat, balance : Int, withdrawn : Nat]
  /\ task \in [Tasks -> TaskStatus] /\ escrow \in [Tasks -> EscrowStatus]
  /\ slips \in Slips
ClientTyped == page \in Page /\ funds \in Funds /\ form \in Form /\ sheet \in Sheet
TypeInv == ServerTyped /\ ClientTyped /\ request \in Requests

LEMMA EmptyTyped ==
  /\ Unseen \in [Tasks -> TaskStatus]
  /\ EmptyFunds \in Funds /\ EmptyForm \in Form /\ EmptySheet \in Sheet
  /\ \A kind \in Commands \cup Queries \cup {"credit"} : Sent(kind) \in Request
<1>1. Unseen \in [Tasks -> TaskStatus]
  BY DEF Unseen, TaskStatus
<1>2. EmptyFunds \in Funds
  BY DEF EmptyFunds, Funds
<1>3. EmptySheet \in Sheet
  BY <1>1 DEF EmptySheet, Sheet
<1>4. \A kind \in Commands \cup Queries \cup {"credit"} : Sent(kind) \in Request
  BY <1>1 DEF Sent, Nothing, Request
<1> QED BY <1>1, <1>2, <1>3, <1>4 DEF EmptyForm, Form

LEMMA TypedInit == Init => TypeInv
<1> SUFFICES ASSUME Init PROVE TypeInv
  OBVIOUS
<1>1. ServerTyped
  BY EmptyTyped, MoneyPagesAssumption DEF Init, ServerTyped, EscrowStatus, Slips, NoSlips
<1>2. ClientTyped
  BY EmptyTyped DEF Init, ClientTyped, Page
<1>3. request \in Requests
  BY DEF Init, Requests
<1> QED BY <1>1, <1>2, <1>3 DEF TypeInv

\* One request changes, or ends.
LEMMA OneRequest ==
  ASSUME NEW q \in Requests, NEW s \in Slots, NEW r \in Request \cup {NoRequest}
  PROVE  /\ [q EXCEPT ![s] = r] \in Requests
         /\ [q EXCEPT ![s] = r][s] = r
         /\ \A u \in Slots : u # s => [q EXCEPT ![s] = r][u] = q[u]
BY DEF Requests

LEMMA LeftTyped ==
  ASSUME NEW q \in Requests
  PROVE  /\ Left(q) \in Requests
         /\ \A s \in Slots : Left(q)[s] # NoRequest =>
              /\ q[s] # NoRequest /\ Left(q)[s].kind = q[s].kind /\ q[s].kind \notin Queries
              /\ Left(q)[s].phase = q[s].phase /\ Left(q)[s].amount = q[s].amount
              /\ Left(q)[s].wait \in {"left", "gone"}
         /\ \A s \in Slots : q[s] # NoRequest /\ q[s].kind \notin Queries =>
              Left(q)[s] # NoRequest
<1>1. ASSUME NEW s \in Slots
      PROVE  \/ Left(q)[s] = NoRequest /\ (q[s] = NoRequest \/ q[s].kind \in Queries)
             \/ /\ q[s] # NoRequest /\ q[s].kind \notin Queries
                /\ Left(q)[s] \in Request
                /\ Left(q)[s].kind = q[s].kind
                /\ Left(q)[s].phase = q[s].phase /\ Left(q)[s].amount = q[s].amount
                /\ Left(q)[s].wait \in {"left", "gone"}
  <2>1. CASE q[s] = NoRequest \/ q[s].kind \in Queries
    BY <2>1 DEF Left
  <2>2. CASE q[s] # NoRequest /\ q[s].kind \notin Queries
    <3>1. q[s] \in Request
      BY <2>2 DEF Requests
    <3> DEFINE w == IF q[s].kind = "cancel" /\ q[s].wait # "gone" THEN "left" ELSE "gone"
    <3>2. Left(q)[s] = [q[s] EXCEPT !.wait = w] /\ w \in {"left", "gone"}
      BY <2>2 DEF Left
    <3> HIDE DEF w
    <3> QED BY <2>2, <3>1, <3>2 DEF Request
  <2> QED BY <2>1, <2>2
<1>2. Left(q) = [s \in Slots |-> Left(q)[s]]
  BY DEF Left
<1> QED BY <1>1, <1>2, NoRequestAssumption DEF Requests

LEMMA MountTyped ==
  ASSUME NEW p \in Page, NEW q \in Requests, Mount(p, q)
  PROVE  ClientTyped' /\ request' \in Requests
<1>1. funds' \in Funds /\ form' \in Form /\ sheet' \in Sheet
  <2>1. \A b \in BOOLEAN : /\ [EmptyFunds EXCEPT !.loading = b, !.txLoading = b] \in Funds
                           /\ [EmptySheet EXCEPT !.loading = b] \in Sheet
    BY EmptyTyped DEF Funds, Sheet
  <2> DEFINE here == p.name = "wallet"
             there == p.name \in {"mine", "task"}
  <2>2. /\ funds' = [EmptyFunds EXCEPT !.loading = here, !.txLoading = here]
        /\ sheet' = [EmptySheet EXCEPT !.loading = there]
        /\ form' = EmptyForm
    BY DEF Mount
  <2>3. here \in BOOLEAN /\ there \in BOOLEAN
    OBVIOUS
  <2> HIDE DEF here, there
  <2> QED BY <2>1, <2>2, <2>3, EmptyTyped
<1>2. Left(q) \in Requests
  BY LeftTyped
<1>3. /\ Sent("wallet") \in Request /\ Sent("rows") \in Request /\ Sent("tasks") \in Request
  BY EmptyTyped DEF Queries
<1>4. \A s, t \in Slots :
        /\ [Left(q) EXCEPT ![s] = Sent("wallet"), ![t] = Sent("rows")] \in Requests
        /\ [Left(q) EXCEPT ![s] = Sent("tasks")] \in Requests
  BY <1>2, <1>3 DEF Requests
<1>5. request' \in Requests
  BY <1>2, <1>4 DEF Mount
<1> QED BY <1>1, <1>5 DEF Mount, ClientTyped

LEMMA ErrorTyped ==
  ASSUME TypeInv, NEW s \in Slots, PageSeesError(s)
  PROVE  ClientTyped'
<1>1. AfterErrorOnFunds(request[s].kind) \in Funds
  BY DEF TypeInv, ClientTyped, AfterErrorOnFunds, Funds
<1>2. AfterErrorOnForm(request[s].kind) \in Form
  BY DEF TypeInv, ClientTyped, AfterErrorOnForm, Form
<1>3. AfterErrorOnSheet(request[s].kind) \in Sheet
  BY DEF TypeInv, ClientTyped, AfterErrorOnSheet, Sheet
<1> QED BY <1>1, <1>2, <1>3 DEF PageSeesError, TypeInv, ClientTyped, client

\* A request that ends, or goes on.
LEMMA GoesOn ==
  ASSUME TypeInv, NEW s \in Slots
  PROVE  Done(s) \in Requests /\ ThenRows(s) \in Requests
<1>1. Sent("refreshRows") \in Request
  BY EmptyTyped DEF Queries
<1> QED BY <1>1, OneRequest DEF TypeInv, Done, ThenRows

LEMMA RefusedTyped ==
  ASSUME TypeInv, NEW s \in Slots, Refused(s)
  PROVE  ClientTyped' /\ request' \in Requests
BY GoesOn, ErrorTyped DEF Refused

\* What a handler of the backend does to its request.
Phases == Before \cup {"sent", "written", "served"}

LEMMA PhaseTyped ==
  ASSUME TypeInv, NEW s \in Slots, ~Free(s)
  PROVE  /\ request[s] \in Request /\ Answered(s) \in Requests
         /\ \A phase \in Phases : [request EXCEPT ![s].phase = phase] \in Requests
         /\ [request EXCEPT ![s].wait = "gone"] \in Requests
<1>1. request[s] \in Request
  BY DEF TypeInv, Requests, Free
<1>2. /\ \A phase \in Phases : [request[s] EXCEPT !.phase = phase] \in Request
      /\ [request[s] EXCEPT !.wait = "gone"] \in Request
  BY <1>1 DEF Request, Phases
<1>3. /\ \A phase \in Phases : [request EXCEPT ![s].phase = phase] \in Requests
      /\ [request EXCEPT ![s].wait = "gone"] \in Requests
  BY <1>2 DEF TypeInv, Requests
<1> QED BY <1>1, <1>3, GoesOn DEF Answered, Phases

(* The steps of the pages. *)

\* What a page sends.
LEMMA SendTyped ==
  ASSUME TypeInv, NEW s \in Slots, NEW r \in Request, Send(s, r)
  PROVE  request' \in Requests
BY OneRequest DEF Send, TypeInv

LEMMA SentFields ==
  ASSUME NEW kind \in Commands \cup Queries, NEW a \in Amounts \cup {0}, NEW n \in Nat,
         NEW k \in Tasks \cup {NoTask}
  PROVE  /\ [Sent(kind) EXCEPT !.amount = a] \in Request
         /\ [Sent(kind) EXCEPT !.at = n] \in Request
         /\ [Sent(kind) EXCEPT !.on = k] \in Request
BY EmptyTyped DEF Request

LEMMA UserTyped ==
  ASSUME TypeInv, NEW s \in Slots, User(s)
  PROVE  TypeInv'
<1>1. /\ funds \in Funds /\ form \in Form /\ sheet \in Sheet /\ page \in Page
      /\ funds.amount \in Amounts \cup {0}
  BY DEF TypeInv, ClientTyped, Funds
<1>2. UNCHANGED server
  BY DEF User, handleWithdrawConfirm, RetryWallet, handleSubmit, handleCancel, Turn
<1>3. CASE handleWithdrawConfirm(s)
  <2>1. request' \in Requests
    BY <1>1, <1>3, SentFields, SendTyped DEF handleWithdrawConfirm, Commands
  <2>2. funds' \in Funds
    BY <1>1, <1>3 DEF handleWithdrawConfirm, Funds
  <2> QED BY <1>2, <1>3, <2>1, <2>2 DEF handleWithdrawConfirm, TypeInv, ClientTyped,
             ServerTyped, server
<1>4. CASE RetryWallet(s)
  <2>1. request' \in Requests
    BY <1>4, EmptyTyped, SendTyped DEF RetryWallet, Queries
  <2>2. funds' \in Funds
    BY <1>1, <1>4 DEF RetryWallet, Funds
  <2> QED BY <1>2, <1>4, <2>1, <2>2 DEF RetryWallet, TypeInv, ClientTyped, ServerTyped, server
<1>5. CASE handleSubmit(s)
  <2>1. request' \in Requests
    BY <1>5, EmptyTyped, SendTyped DEF handleSubmit, Commands
  <2>2. form' \in Form
    BY <1>1, <1>5 DEF handleSubmit, Form
  <2> QED BY <1>2, <1>5, <2>1, <2>2 DEF handleSubmit, TypeInv, ClientTyped, ServerTyped, server
<1>6. CASE handleCancel(s)
  <2>1. request' \in Requests
    BY <1>1, <1>6, SentFields, SendTyped DEF handleCancel, Commands, Page
  <2>2. sheet' \in Sheet
    BY <1>1, <1>6 DEF handleCancel, Sheet
  <2> QED BY <1>2, <1>6, <2>1, <2>2 DEF handleCancel, TypeInv, ClientTyped, ServerTyped, server
<1>7. ASSUME NEW p \in {funds.at - 1, funds.at + 1}, Turn(p, s) PROVE TypeInv'
  <2>1. p \in Nat
    BY <1>1, <1>7 DEF Turn, Funds
  <2>2. request' \in Requests
    BY <1>7, <2>1, SentFields, SendTyped DEF Turn, Queries
  <2>3. funds' \in Funds
    BY <1>1, <1>7 DEF Turn, Funds
  <2> QED BY <1>2, <1>7, <2>2, <2>3 DEF Turn, TypeInv, ClientTyped, ServerTyped, server
<1> QED BY <1>3, <1>4, <1>5, <1>6, <1>7 DEF User

LEMMA BrowseTyped ==
  ASSUME TypeInv, Browse PROVE TypeInv'
<1>1. /\ funds \in Funds /\ form \in Form /\ sheet \in Sheet /\ page \in Page
      /\ request \in Requests /\ ServerTyped
  BY DEF TypeInv, ClientTyped
<1>2. UNCHANGED server
  BY DEF Browse, Visit, openWithdrawModal, handleWithdrawNext, CloseModal, Back, TypeAmount,
     AnotherDeposit, ToggleCancel
<1>3. ServerTyped'
  BY <1>1, <1>2 DEF ServerTyped, server
<1>4. CASE \E p \in Page : Visit(p)
  BY <1>1, <1>3, <1>4, MountTyped DEF Visit, TypeInv
<1>5. CASE openWithdrawModal \/ handleWithdrawNext \/ CloseModal \/ Back
           \/ \E a \in Amounts : TypeAmount(a)
  <2>1. funds' \in Funds
    BY <1>1, <1>5 DEF openWithdrawModal, handleWithdrawNext, CloseModal, Back, TypeAmount, Funds
  <2>2. UNCHANGED <<page, form, sheet, request>>
    BY <1>5 DEF openWithdrawModal, handleWithdrawNext, CloseModal, Back, TypeAmount
  <2> QED BY <1>1, <1>3, <2>1, <2>2 DEF TypeInv, ClientTyped
<1>6. CASE AnotherDeposit
  BY <1>1, <1>3, <1>6, EmptyTyped DEF AnotherDeposit, TypeInv, ClientTyped
<1>7. CASE ToggleCancel
  <2>1. sheet' \in Sheet
    BY <1>1, <1>7 DEF ToggleCancel, Sheet
  <2> QED BY <1>1, <1>3, <1>7, <2>1 DEF ToggleCancel, TypeInv, ClientTyped
<1> QED BY <1>4, <1>5, <1>6, <1>7 DEF Browse

LEMMA DeliverTyped ==
  ASSUME TypeInv, NEW s \in Slots, Deliver(s)
  PROVE  TypeInv'
<1>1. /\ funds \in Funds /\ form \in Form /\ sheet \in Sheet /\ page \in Page
      /\ request \in Requests /\ ServerTyped /\ Done(s) \in Requests /\ ThenRows(s) \in Requests
  BY GoesOn DEF TypeInv, ClientTyped
<1>2. UNCHANGED server
  BY DEF Deliver, Withdrawn, loadWallet, loadTransactions, Submitted, TasksFetched, Cancelled
<1>3. ServerTyped'
  BY <1>1, <1>2 DEF ServerTyped, server
<1>4. /\ request[s] \in Request
      /\ request[s].got \in Nat /\ request[s].at \in Nat
      /\ request[s].tasks \in [Tasks -> TaskStatus]
  <2>1. ~Free(s)
    BY DEF Deliver, Withdrawn, loadWallet, loadTransactions, Submitted, TasksFetched, Cancelled,
       Arrived
  <2>2. request[s] \in Request
    BY <1>1, <2>1 DEF Requests, Free
  <2> QED BY <2>2 DEF Request
<1>5. CASE Withdrawn(s)
  <2>1. request' \in Requests
    BY <1>1, <1>5, EmptyTyped, OneRequest DEF Withdrawn, Queries
  <2>2. funds' \in Funds
    BY <1>1, <1>5 DEF Withdrawn, Funds
  <2> QED BY <1>1, <1>3, <1>5, <2>1, <2>2 DEF Withdrawn, TypeInv, ClientTyped
<1>6. CASE loadWallet(s)
  <2>1. \A b \in BOOLEAN :
          [funds EXCEPT !.known = TRUE, !.shown = request[s].got, !.loading = FALSE,
                        !.txLoading = b] \in Funds
    BY <1>1, <1>4 DEF Funds
  <2>2. funds.txLoading \in BOOLEAN
    BY <1>1 DEF Funds
  <2>3. funds' \in Funds
    BY <1>6, <2>1, <2>2 DEF loadWallet
  <2> QED BY <1>1, <1>3, <1>6, <2>3 DEF loadWallet, TypeInv, ClientTyped
<1>7. CASE loadTransactions(s)
  <2>1. \A b \in BOOLEAN :
          [funds EXCEPT !.total = request[s].got, !.at = request[s].at, !.txLoading = FALSE,
                        !.sending = b] \in Funds
    BY <1>1, <1>4 DEF Funds
  <2>2. funds.sending \in BOOLEAN
    BY <1>1 DEF Funds
  <2>3. funds' \in Funds
    BY <1>7, <2>1, <2>2 DEF loadTransactions
  <2> QED BY <1>1, <1>3, <1>7, <2>3 DEF loadTransactions, TypeInv, ClientTyped
<1>8. CASE Submitted(s)
  <2>1. form' \in Form
    BY <1>1, <1>8 DEF Submitted, Form
  <2> QED BY <1>1, <1>3, <1>8, <2>1 DEF Submitted, TypeInv, ClientTyped
<1>9. CASE TasksFetched(s)
  <2>1. sheet' \in Sheet
    BY <1>1, <1>4, <1>9 DEF TasksFetched, Sheet
  <2> QED BY <1>1, <1>3, <1>9, <2>1 DEF TasksFetched, TypeInv, ClientTyped
<1>10. CASE Cancelled(s)
  <2>1. [name |-> "mine", on |-> NoTask] \in Page
    BY DEF Page
  <2>2. CASE request' = Done(s) /\ UNCHANGED client
    BY <1>1, <1>3, <2>2 DEF client, TypeInv, ClientTyped
  <2>3. CASE Mount([name |-> "mine", on |-> NoTask], Done(s))
    BY <1>1, <1>3, <2>1, <2>3, MountTyped DEF TypeInv
  <2> QED BY <1>10, <2>2, <2>3 DEF Cancelled
<1> QED BY <1>5, <1>6, <1>7, <1>8, <1>9, <1>10 DEF Deliver

(* The steps of the backend. *)

Ledgers == [rows : Nat, balance : Int, withdrawn : Nat]
Wallets == [available : Nat, withdrawn : Nat]

LEMMA AmountsNat == \A a \in Amounts \cup {0} : a \in Nat
BY MoneyPagesAssumption

\* What a handler moves is an amount, given or taken.
LEMMA MovedTyped ==
  ASSUME NEW r \in Request
  PROVE  r.amount \in Nat /\ Moved(r) \in Int
<1>1. r.amount \in Amounts \cup {0}
  BY DEF Request
<1>2. r.amount \in Nat /\ Reward \in Nat
  BY <1>1, AmountsNat, MoneyPagesAssumption
<1> QED BY <1>2 DEF Moved

LEMMA Fills ==
  ASSUME ServerTyped, NEW n \in Nat
  PROVE  /\ [wallet EXCEPT !.available = n] \in Wallets
         /\ [wallet EXCEPT !.available = n].available = n
         /\ [wallet EXCEPT !.available = n].withdrawn = wallet.withdrawn
BY DEF ServerTyped, Wallets

\* A movement is paid in, or taken when it is there.
LEMMA Moves ==
  ASSUME TypeInv, NEW s \in Slots, ~Free(s), NEW n \in Int, wallet.available + n >= 0, Move(s, n)
  PROVE  /\ wallet' \in Wallets /\ request' \in Requests
         /\ wallet'.available = wallet.available + n /\ wallet'.withdrawn = wallet.withdrawn
<1>1. ServerTyped /\ wallet.available + n \in Nat
  BY DEF TypeInv, ServerTyped
<1>2. wallet' = [wallet EXCEPT !.available = wallet.available + n]
  BY DEF Move
<1>3. request' \in Requests
  BY PhaseTyped DEF Move, Phases
<1> DEFINE m == wallet.available + n
<1>4. m \in Nat /\ wallet' = [wallet EXCEPT !.available = m]
  BY <1>1, <1>2
<1> HIDE DEF m
<1>5. wallet' \in Wallets /\ wallet'.available = m /\ wallet'.withdrawn = wallet.withdrawn
  BY <1>1, <1>4, Fills
<1> QED BY <1>3, <1>5 DEF m

\* What is recorded.
LEMMA Records ==
  ASSUME TypeInv, NEW s \in Slots, Record(s)
  PROVE  /\ ledger' \in Ledgers /\ ledger'.rows = ledger.rows + 1
         /\ ledger'.balance = ledger.balance + Moved(request[s])
         /\ request[s].kind = "withdraw" =>
              ledger'.withdrawn = ledger.withdrawn + request[s].amount
         /\ request[s].kind # "withdraw" => ledger'.withdrawn = ledger.withdrawn
<1> DEFINE n == ledger.rows + 1
           b == ledger.balance + Moved(request[s])
           w == IF request[s].kind = "withdraw" THEN ledger.withdrawn + request[s].amount
                ELSE ledger.withdrawn
<1>1. request[s] \in Request
  BY DEF Record, TypeInv, Requests, Free
<1>2. /\ ledger \in Ledgers /\ ledger.rows \in Nat /\ ledger.balance \in Int
      /\ ledger.withdrawn \in Nat
  BY DEF TypeInv, ServerTyped, Ledgers
<1>3. n \in Nat /\ b \in Int /\ w \in Nat
  BY <1>1, <1>2, MovedTyped
<1>4. ledger' = [ledger EXCEPT !.rows = n, !.balance = b, !.withdrawn = w]
  BY DEF Record
<1> HIDE DEF n, b, w
<1>5. /\ ledger' \in Ledgers /\ ledger'.rows = n /\ ledger'.balance = b
      /\ ledger'.withdrawn = w
  BY <1>2, <1>3, <1>4 DEF Ledgers
<1> QED BY <1>5 DEF n, b, w

LEMMA ServeTyped ==
  ASSUME TypeInv, NEW s \in Slots, Serve(s)
  PROVE  TypeInv'
<1>1. ~Free(s)
  BY DEF Serve, ServeQuery, CheckWithdrawal, ReadWallet, WriteBack, Deposit, CheckBalance, InsertTask,
     HoldEscrow, DeleteTask, CancelTask, RefundEscrow, Record, RecordFails, HandlerFails, At
<1>2. /\ request[s] \in Request /\ Answered(s) \in Requests
      /\ \A phase \in Phases : [request EXCEPT ![s].phase = phase] \in Requests
      /\ request[s].amount \in Nat
  BY <1>1, PhaseTyped, MovedTyped
<1>3. /\ ServerTyped /\ ClientTyped /\ request \in Requests
      /\ wallet.available \in Nat /\ wallet.withdrawn \in Nat
      /\ request[s].read \in [available : Nat, withdrawn : Nat]
      /\ request[s].read.available \in Nat /\ request[s].read.withdrawn \in Nat
      /\ request[s].on \in Tasks \cup {NoTask} /\ Reward \in Nat
      /\ slips \in Slips /\ slips.unrecorded \in Nat /\ slips.overwritten \in BOOLEAN
      /\ task \in [Tasks -> TaskStatus] /\ escrow \in [Tasks -> EscrowStatus]
  BY <1>2, MoneyPagesAssumption DEF TypeInv, ServerTyped, Request, Slips
<1>4. ASSUME Refused(s), ServerTyped' PROVE TypeInv'
  BY <1>4, RefusedTyped DEF TypeInv
<1>5. ASSUME UNCHANGED client, request' \in Requests, ServerTyped' PROVE TypeInv'
  BY <1>3, <1>5 DEF TypeInv, ClientTyped, client
<1>6. ASSUME UNCHANGED server PROVE ServerTyped'
  BY <1>3, <1>6 DEF ServerTyped, server
<1>7. CASE ServeQuery(s)
  <2> DEFINE n == CASE request[s].kind \in {"wallet", "refreshWallet"} -> wallet.available
                    [] request[s].kind \in {"rows", "refreshRows"}     -> ledger.rows
                    [] OTHER                                           -> 0
             tasks == IF request[s].kind = "tasks" THEN Listed ELSE Unseen
  <2>1. n \in Nat /\ tasks \in [Tasks -> TaskStatus]
    BY <1>3, EmptyTyped DEF ServerTyped, Listed, TaskStatus
  <2>2. request' = [request EXCEPT ![s].phase = "served", ![s].got = n, ![s].tasks = tasks]
    BY <1>7 DEF ServeQuery
  <2> HIDE DEF n, tasks
  <2>3. [request[s] EXCEPT !.phase = "served", !.got = n, !.tasks = tasks] \in Request
    BY <1>2, <2>1 DEF Request
  <2>4. request' \in Requests
    BY <1>3, <2>2, <2>3 DEF Requests
  <2> QED BY <1>5, <1>6, <1>7, <2>4 DEF ServeQuery
<1>8. CASE CheckWithdrawal(s) \/ CheckBalance(s)
  <2>1. CASE Refused(s)
    BY <1>4, <1>6, <1>8, <2>1 DEF CheckWithdrawal, CheckBalance
  <2>2. CASE request' = [request EXCEPT ![s].phase = "checked"] /\ UNCHANGED client
    BY <1>2, <1>5, <1>6, <1>8, <2>2 DEF CheckWithdrawal, CheckBalance, Phases, Before
  <2> QED BY <1>8, <2>1, <2>2 DEF CheckWithdrawal, CheckBalance
<1>9. CASE ReadWallet(s)
  <2>1. [request[s] EXCEPT !.phase = "read", !.read = wallet] \in Request
    BY <1>2, <1>3 DEF Request, ServerTyped, Before
  <2>2. request' \in Requests
    BY <1>3, <1>9, <2>1 DEF ReadWallet, Requests
  <2> QED BY <1>5, <1>6, <1>9, <2>2 DEF ReadWallet
<1>10. CASE WriteBack(s)
  <2> DEFINE left == request[s].read.available - request[s].amount
             new == slips.overwritten \/ request[s].read # wallet
  <2>1. CASE left < 0
    BY <1>4, <1>6, <1>10, <2>1 DEF WriteBack
  <2>2. CASE ~(left < 0)
    <3>1. left \in Nat /\ request[s].read.withdrawn + request[s].amount \in Nat
      BY <1>2, <1>3, <2>2
    <3>2. /\ wallet' = [available |-> left, withdrawn |-> request[s].read.withdrawn + request[s].amount]
          /\ slips' = [slips EXCEPT !.overwritten = new]
          /\ UNCHANGED <<ledger, task, escrow>>
      BY <1>10, <2>2 DEF WriteBack
    <3>3. request' = [request EXCEPT ![s].phase = "written", ![s].read = Nothing]
      BY <1>10, <2>2 DEF WriteBack
    <3>4. UNCHANGED client
      BY <1>10, <2>2 DEF WriteBack
    <3>5. new \in BOOLEAN
      BY <1>3
    <3> HIDE DEF left, new
    <3>6. slips' \in Slips
      BY <1>3, <3>2, <3>5 DEF Slips
    <3>7. ServerTyped'
      BY <1>3, <3>1, <3>2, <3>6 DEF ServerTyped
    <3>8. [request[s] EXCEPT !.phase = "written", !.read = Nothing] \in Request
      BY <1>2 DEF Request, Nothing
    <3>9. request' \in Requests
      BY <1>3, <3>3, <3>8 DEF Requests
    <3> QED BY <1>5, <3>4, <3>7, <3>9
  <2> QED BY <2>1, <2>2
<1>11. CASE Deposit(s)
  <2>1. Reward \in Int /\ wallet.available + Reward >= 0
    BY <1>3
  <2>2. wallet' \in Wallets /\ request' \in Requests
    BY <1>1, <1>11, <2>1, Moves DEF Deposit
  <2> QED BY <1>3, <1>5, <1>11, <2>2 DEF Deposit, ServerTyped, Wallets
<1>12. ASSUME NEW k \in Tasks, InsertTask(s, k) PROVE TypeInv'
  <2>1. task' \in [Tasks -> TaskStatus]
    BY <1>3, <1>12 DEF InsertTask, TaskStatus
  <2>2. [request[s] EXCEPT !.phase = "inserted", !.on = k] \in Request
    BY <1>2 DEF Request, Before
  <2>3. request' \in Requests
    BY <1>3, <1>12, <2>2 DEF InsertTask, Requests
  <2> QED BY <1>3, <1>5, <1>12, <2>1, <2>3 DEF InsertTask, ServerTyped
<1>13. CASE HoldEscrow(s)
  <2>1. CASE wallet.available < Reward
    <3>1. request' \in Requests
      BY <1>2, <1>13, <2>1 DEF HoldEscrow, Phases, Before
    <3> QED BY <1>3, <1>5, <1>13, <2>1, <3>1 DEF HoldEscrow, ServerTyped
  <2>2. CASE ~(wallet.available < Reward)
    <3>1. -Reward \in Int /\ wallet.available + (-Reward) >= 0
      BY <1>3, <2>2
    <3>2. wallet' \in Wallets /\ request' \in Requests
      BY <1>1, <1>13, <2>2, <3>1, Moves DEF HoldEscrow
    <3>3. escrow' \in [Tasks -> EscrowStatus]
      BY <1>3, <1>13, <2>2 DEF HoldEscrow, EscrowStatus
    <3> QED BY <1>3, <1>5, <1>13, <3>2, <3>3 DEF HoldEscrow, ServerTyped, Wallets
  <2> QED BY <2>1, <2>2
<1>14. CASE DeleteTask(s)
  <2>1. task' \in [Tasks -> TaskStatus]
    BY <1>3, <1>14 DEF DeleteTask, TaskStatus
  <2> QED BY <1>3, <1>4, <1>14, <2>1 DEF DeleteTask, ServerTyped
<1>15. CASE CancelTask(s)
  <2>1. CASE task[request[s].on] # "disponible"
    BY <1>4, <1>6, <1>15, <2>1 DEF CancelTask
  <2>2. CASE task[request[s].on] = "disponible"
    <3>1. task' \in [Tasks -> TaskStatus]
      BY <1>3, <1>15, <2>2 DEF CancelTask, TaskStatus
    <3>2. request' \in Requests
      BY <1>2, <1>15, <2>2 DEF CancelTask, Phases, Before
    <3> QED BY <1>3, <1>5, <1>15, <2>2, <3>1, <3>2 DEF CancelTask, ServerTyped
  <2> QED BY <2>1, <2>2
<1>16. CASE RefundEscrow(s)
  <2>1. CASE escrow[request[s].on] = "activo"
    <3>1. Reward \in Int /\ wallet.available + Reward >= 0
      BY <1>3
    <3>2. wallet' \in Wallets /\ request' \in Requests
      BY <1>1, <1>16, <2>1, <3>1, Moves DEF RefundEscrow
    <3>3. escrow' \in [Tasks -> EscrowStatus]
      BY <1>3, <1>16, <2>1 DEF RefundEscrow, EscrowStatus
    <3> QED BY <1>3, <1>5, <1>16, <3>2, <3>3 DEF RefundEscrow, ServerTyped, Wallets
  <2>2. CASE escrow[request[s].on] # "activo"
    BY <1>2, <1>3, <1>5, <1>16, <2>2 DEF RefundEscrow, ServerTyped
  <2> QED BY <2>1, <2>2
<1>17. CASE Record(s)
  BY <1>2, <1>3, <1>5, <1>17, Records DEF Record, ServerTyped, Ledgers
<1>18. CASE RecordFails(s)
  <2>1. slips' \in Slips
    BY <1>3, <1>18 DEF RecordFails, Slips
  <2> QED BY <1>3, <1>4, <1>18, <2>1 DEF RecordFails, ServerTyped
<1>19. CASE HandlerFails(s)
  BY <1>4, <1>6, <1>19 DEF HandlerFails
<1> QED BY <1>7, <1>8, <1>9, <1>10, <1>11, <1>12, <1>13, <1>14, <1>15, <1>16, <1>17, <1>18, <1>19
        DEF Serve

\* What a handler of complete_task begins with, here.
LEMMA CreditSlot ==
  ASSUME TypeInv, NEW s \in Slots, CreditTask(s)
  PROVE  /\ request' \in Requests /\ Free(s)
         /\ \A u \in Slots : u # s => request'[u] = request[u]
         /\ request'[s] # NoRequest /\ request'[s].kind = "credit"
         /\ request'[s].phase = "written" /\ request'[s].wait = "gone"
         /\ wallet' \in Wallets /\ wallet'.withdrawn = wallet.withdrawn
         /\ wallet'.available = wallet.available + Reward
<1> DEFINE r == [Sent("credit") EXCEPT !.phase = "written", !.wait = "gone"]
<1>1. r \in Request /\ r.kind = "credit" /\ r.phase = "written" /\ r.wait = "gone"
  BY EmptyTyped DEF Sent, Request
<1>2. request' = [request EXCEPT ![s] = r] /\ Free(s)
  BY DEF CreditTask
<1> HIDE DEF r
<1>3. request' \in Requests /\ request'[s] = r /\ \A u \in Slots : u # s => request'[u] = request[u]
  <2>1. request \in Requests
    BY DEF TypeInv
  <2>2. r \in Request \cup {NoRequest}
    BY <1>1
  <2> QED BY <1>2, <2>1, <2>2 DEF Requests
<1> DEFINE m == wallet.available + Reward
<1>4. ServerTyped /\ m \in Nat
  BY MoneyPagesAssumption DEF TypeInv, ServerTyped
<1>5. wallet' = [wallet EXCEPT !.available = m]
  BY DEF CreditTask
<1> HIDE DEF m
<1>6. wallet' \in Wallets /\ wallet'.available = m /\ wallet'.withdrawn = wallet.withdrawn
  BY <1>4, <1>5, Fills
<1> QED BY <1>1, <1>2, <1>3, <1>6, NoRequestAssumption DEF m

\* A chunk is paid for: both change by the same amount.
LEMMA ChunkPaid ==
  ASSUME TypeInv, CreditChunk
  PROVE  /\ wallet' \in Wallets /\ wallet'.withdrawn = wallet.withdrawn
         /\ wallet'.available = wallet.available + Reward
         /\ ledger' \in Ledgers /\ ledger'.withdrawn = ledger.withdrawn
         /\ ledger'.balance = ledger.balance + Reward /\ ledger'.rows = ledger.rows + 1
<1> DEFINE m == wallet.available + Reward
           n == ledger.rows + 1
           b == ledger.balance + Reward
<1>1. ServerTyped /\ m \in Nat /\ n \in Nat /\ b \in Int /\ ledger \in Ledgers
  BY MoneyPagesAssumption DEF TypeInv, ServerTyped, Ledgers
<1>2. /\ wallet' = [wallet EXCEPT !.available = m]
      /\ ledger' = [ledger EXCEPT !.rows = n, !.balance = b]
  BY DEF CreditChunk
<1> HIDE DEF m, n, b
<1>3. wallet' \in Wallets /\ wallet'.available = m /\ wallet'.withdrawn = wallet.withdrawn
  BY <1>1, <1>2, Fills
<1>4. /\ ledger' \in Ledgers /\ ledger'.rows = n /\ ledger'.balance = b
      /\ ledger'.withdrawn = ledger.withdrawn
  BY <1>1, <1>2 DEF Ledgers
<1> QED BY <1>3, <1>4 DEF m, n, b

LEMMA TypedStep == TypeInv /\ [Next]_vars => TypeInv'
<1> SUFFICES ASSUME TypeInv, [Next]_vars PROVE TypeInv'
  OBVIOUS
<1>1. ServerTyped /\ ClientTyped /\ request \in Requests
  BY DEF TypeInv
<1>2. ASSUME UNCHANGED server PROVE ServerTyped'
  BY <1>1, <1>2 DEF ServerTyped, server
<1>3. ASSUME NEW s \in Slots, Lost(s) PROVE TypeInv'
  BY <1>2, <1>3, RefusedTyped DEF Lost, TypeInv
<1>4. ASSUME NEW s \in Slots, GiveUp(s) PROVE TypeInv'
  <2>1. request' \in Requests
    BY <1>4, PhaseTyped DEF GiveUp
  <2> QED BY <1>2, <1>4, <2>1, ErrorTyped DEF GiveUp, TypeInv
<1>5. ASSUME NEW k \in Tasks, ReleaseEscrow(k) PROVE TypeInv'
  <2>1. escrow' \in [Tasks -> EscrowStatus]
    BY <1>1, <1>5 DEF ReleaseEscrow, ServerTyped, EscrowStatus
  <2> QED BY <1>1, <1>5, <2>1 DEF ReleaseEscrow, TypeInv, ServerTyped, ClientTyped, client
<1>6. CASE CreditChunk
  BY <1>1, <1>6, ChunkPaid DEF CreditChunk, TypeInv, ServerTyped, ClientTyped, client, Ledgers, Wallets
<1>7. ASSUME NEW s \in Slots, CreditTask(s) PROVE TypeInv'
  BY <1>1, <1>7, CreditSlot DEF CreditTask, TypeInv, ServerTyped, ClientTyped, client, Wallets
<1>8. CASE UNCHANGED vars
  BY <1>1, <1>8 DEF vars, TypeInv, ServerTyped, ClientTyped
<1> QED BY <1>3, <1>4, <1>5, <1>6, <1>7, <1>8, BrowseTyped, UserTyped, DeliverTyped, ServeTyped DEF Next

-----------------------------------------------------------------------------
(* Commands. *)

Refreshes == {"refreshWallet", "refreshRows"}
Waits(s) == ~Free(s) /\ request[s].wait = "here"
Busy(s) == Waits(s) /\ request[s].kind \in Commands \cup Refreshes

\* What the page keeps while it waits for the answer.
Shown(s) ==
  LET r == request[s] IN
  /\ r.kind = "withdraw" =>
       page.name = "wallet" /\ funds.modal = "confirm" /\ funds.sending /\ r.amount = funds.amount
  /\ r.kind \in Refreshes => page.name = "wallet" /\ funds.sending
  /\ r.kind \in {"deposit", "publish"} => page.name = r.kind /\ form.loading /\ ~form.success
  /\ r.kind = "cancel" => page.name = "task" /\ sheet.cancelling

\* The page waits for whatever it has asked, until it is left, and is answered at once.
Heard ==
  \A s \in Slots : ~Free(s) /\ request[s].kind \in Queries =>
    request[s].wait = "here" /\ request[s].phase \in {"sent", "served"}

CommandInv ==
  /\ funds.modal # "closed" => page.name = "wallet"
  /\ \A s \in Slots : Busy(s) => Shown(s)
  /\ \A s, t \in Slots : Busy(s) /\ Busy(t) => s = t

\* What a page that is shown anew makes of a request.
LEMMA MountSlots ==
  ASSUME NEW p, NEW q \in Requests, Mount(p, q), NEW u \in Slots
  PROVE  \/ request'[u] = Left(q)[u]
         \/ /\ Left(q)[u] = NoRequest
            /\ \E kind \in {"wallet", "rows", "tasks"} : request'[u] = Sent(kind)
<1> DEFINE rest == Left(q)
           free == {s \in Slots : rest[s] = NoRequest}
<1>1. rest \in Requests
  BY LeftTyped
<1>2. \/ \E s, t \in free : s # t /\ request' = [rest EXCEPT ![s] = Sent("wallet"), ![t] = Sent("rows")]
      \/ \E s \in free : request' = [rest EXCEPT ![s] = Sent("tasks")]
      \/ request' = rest
  BY DEF Mount
<1> HIDE DEF rest
<1>3. ASSUME NEW s \in free, NEW t \in free,
             request' = [rest EXCEPT ![s] = Sent("wallet"), ![t] = Sent("rows")]
      PROVE  \/ request'[u] = rest[u]
             \/ rest[u] = NoRequest /\ \E kind \in {"wallet", "rows", "tasks"} : request'[u] = Sent(kind)
  BY <1>1, <1>3 DEF Requests
<1>4. ASSUME NEW s \in free, request' = [rest EXCEPT ![s] = Sent("tasks")]
      PROVE  \/ request'[u] = rest[u]
             \/ rest[u] = NoRequest /\ \E kind \in {"wallet", "rows", "tasks"} : request'[u] = Sent(kind)
  BY <1>1, <1>4 DEF Requests
<1> QED BY <1>2, <1>3, <1>4 DEF rest

LEMMA MountQuiet ==
  ASSUME NEW p \in Page, NEW q \in Requests, Mount(p, q)
  PROVE  funds'.modal = "closed" /\ \A u \in Slots : ~Busy(u)'
<1>1. funds'.modal = "closed"
  BY DEF Mount, EmptyFunds
<1>2. ASSUME NEW u \in Slots PROVE ~Busy(u)'
  <2>1. CASE request'[u] = Left(q)[u]
    BY <2>1, LeftTyped DEF Busy, Waits, Free
  <2>2. ASSUME NEW kind \in {"wallet", "rows", "tasks"}, request'[u] = Sent(kind) PROVE ~Busy(u)'
    BY <2>2 DEF Busy, Commands, Refreshes, Sent
  <2> QED BY <2>1, <2>2, MountSlots
<1> QED BY <1>1, <1>2

\* The ways in which a step preserves the invariant: nobody waits for a command ...
LEMMA Quiet ==
  ASSUME \A u \in Slots : ~Busy(u)', (funds.modal # "closed" => page.name = "wallet")'
  PROVE  CommandInv'
BY DEF CommandInv

\* ... or whoever does has done so before, and its page has not changed ...
LEMMA Carried ==
  ASSUME CommandInv,
         \A u \in Slots : Busy(u)' =>
           Busy(u) /\ request'[u].kind = request[u].kind /\ request'[u].amount = request[u].amount,
         page' = page, funds'.modal = funds.modal, funds'.sending = funds.sending,
         funds'.amount = funds.amount, form' = form, sheet'.cancelling = sheet.cancelling
  PROVE  CommandInv'
BY DEF CommandInv, Shown

\* ... or one command is sent, or goes on, that is all that is waited for.
LEMMA Alone ==
  ASSUME NEW s \in Slots, \A u \in Slots : u # s => ~Busy(u)', Busy(s)' => Shown(s)',
         (funds.modal # "closed" => page.name = "wallet")'
  PROVE  CommandInv'
BY DEF CommandInv

\* Nobody is waited for but s.
LEMMA AloneBefore ==
  ASSUME CommandInv, NEW s \in Slots, Busy(s),
         \A u \in Slots : u # s => request'[u] = request[u]
  PROVE  \A u \in Slots : u # s => ~Busy(u)'
BY DEF CommandInv, Busy, Waits, Free

\* Only the request s changes.
Others(s) == \A u \in Slots : u # s => request'[u] = request[u]

LEMMA OthersKept ==
  ASSUME TypeInv, NEW s \in Slots
  PROVE  /\ \A r : Send(s, r) => Others(s) /\ request'[s] = r /\ Free(s)
         /\ request' = Done(s) => Others(s) /\ request'[s] = NoRequest
         /\ request' = ThenRows(s) =>
              /\ Others(s)
              /\ request[s].kind = "refreshWallet" => request'[s] = Sent("refreshRows")
              /\ request[s].kind # "refreshWallet" => request'[s] = NoRequest
         /\ request' = [request EXCEPT ![s] = Sent("refreshWallet")] =>
              Others(s) /\ request'[s] = Sent("refreshWallet")
BY DEF TypeInv, Requests, Others, Send, Done, ThenRows

LEMMA CommandUser ==
  ASSUME TypeInv, CommandInv, NEW s \in Slots, User(s)
  PROVE  CommandInv'
<1>1. /\ funds \in Funds /\ form \in Form /\ sheet \in Sheet /\ page \in Page
      /\ \A kind \in Commands \cup Queries : Sent(kind) \in Request
  BY EmptyTyped DEF TypeInv, ClientTyped
<1>2. CASE handleWithdrawConfirm(s)
  <2> DEFINE r == [Sent("withdraw") EXCEPT !.amount = funds.amount]
  <2>1. Others(s) /\ request'[s] = r /\ Free(s)
    BY <1>2, OthersKept DEF handleWithdrawConfirm
  <2>2. r.kind = "withdraw" /\ r.amount = funds.amount
    BY DEF Sent
  <2>3. /\ page' = page /\ page.name = "wallet" /\ funds.modal = "confirm" /\ ~funds.sending
        /\ funds'.modal = "confirm" /\ funds'.sending /\ funds'.amount = funds.amount
    BY <1>1, <1>2 DEF handleWithdrawConfirm, CommandInv, Funds
  <2> HIDE DEF r
  <2>4. \A u \in Slots : ~Busy(u)
    BY <2>3 DEF CommandInv, Busy, Shown, Commands, Refreshes
  <2>5. \A u \in Slots : u # s => ~Busy(u)'
    BY <2>1, <2>4 DEF Others, Busy, Waits, Free
  <2>6. Busy(s)' => Shown(s)'
    BY <2>1, <2>2, <2>3 DEF Shown, Refreshes
  <2> QED BY <2>3, <2>5, <2>6, Alone
<1>3. CASE RetryWallet(s)
  <2>1. Others(s) /\ request'[s] = Sent("wallet")
    BY <1>3, OthersKept DEF RetryWallet
  <2>2. \A u \in Slots : Busy(u)' => u # s
    BY <2>1 DEF Busy, Sent, Commands, Refreshes
  <2>3. /\ page' = page /\ form' = form /\ sheet' = sheet /\ funds'.modal = funds.modal
        /\ funds'.sending = funds.sending /\ funds'.amount = funds.amount
    BY <1>1, <1>3 DEF RetryWallet, Funds
  <2>4. \A u \in Slots : Busy(u)' => Busy(u) /\ request'[u] = request[u]
    BY <2>1, <2>2 DEF Others, Busy, Waits, Free
  <2> QED BY <2>3, <2>4, Carried
<1>4. CASE handleSubmit(s)
  <2>1. Others(s) /\ request'[s] = Sent(page.name) /\ Sent(page.name).kind = page.name
    BY <1>4, OthersKept DEF handleSubmit, Sent
  <2>2. /\ page' = page /\ page.name \in {"deposit", "publish"} /\ ~form.loading /\ ~form.success
        /\ form'.loading /\ ~form'.success /\ funds' = funds
    BY <1>1, <1>4 DEF handleSubmit, Form
  <2>3. \A u \in Slots : ~Busy(u)
    BY <2>2 DEF CommandInv, Busy, Shown, Commands, Refreshes
  <2>4. \A u \in Slots : u # s => ~Busy(u)'
    BY <2>1, <2>3 DEF Others, Busy, Waits, Free
  <2>5. Busy(s)' => Shown(s)'
    BY <2>1, <2>2 DEF Shown, Refreshes
  <2> QED BY <2>2, <2>4, <2>5, Alone DEF CommandInv
<1>5. CASE handleCancel(s)
  <2> DEFINE r == [Sent("cancel") EXCEPT !.on = page.on]
  <2>1. Others(s) /\ request'[s] = r
    BY <1>5, OthersKept DEF handleCancel
  <2>2. r.kind = "cancel"
    BY DEF Sent
  <2>3. /\ page' = page /\ page.name = "task" /\ ~sheet.cancelling /\ sheet'.cancelling
        /\ funds' = funds
    BY <1>1, <1>5 DEF handleCancel, canCancel, Sheet
  <2> HIDE DEF r
  <2>4. \A u \in Slots : ~Busy(u)
    BY <2>3 DEF CommandInv, Busy, Shown, Commands, Refreshes
  <2>5. \A u \in Slots : u # s => ~Busy(u)'
    BY <2>1, <2>4 DEF Others, Busy, Waits, Free
  <2>6. Busy(s)' => Shown(s)'
    BY <2>1, <2>2, <2>3 DEF Shown, Refreshes
  <2> QED BY <2>3, <2>5, <2>6, Alone DEF CommandInv
<1>6. ASSUME NEW p \in {funds.at - 1, funds.at + 1}, Turn(p, s) PROVE CommandInv'
  <2> DEFINE r == [Sent("rows") EXCEPT !.at = p]
  <2>1. Others(s) /\ request'[s] = r /\ r.kind = "rows"
    BY <1>6, OthersKept DEF Turn, Sent
  <2> HIDE DEF r
  <2>2. \A u \in Slots : Busy(u)' => u # s
    BY <2>1 DEF Busy, Commands, Refreshes
  <2>3. /\ page' = page /\ form' = form /\ sheet' = sheet /\ funds'.modal = funds.modal
        /\ funds'.sending = funds.sending /\ funds'.amount = funds.amount
    BY <1>1, <1>6 DEF Turn, Funds
  <2>4. \A u \in Slots : Busy(u)' => Busy(u) /\ request'[u] = request[u]
    BY <2>1, <2>2 DEF Others, Busy, Waits, Free
  <2> QED BY <2>3, <2>4, Carried
<1> QED BY <1>2, <1>3, <1>4, <1>5, <1>6 DEF User

LEMMA CommandBrowse ==
  ASSUME TypeInv, CommandInv, Browse
  PROVE  CommandInv'
<1>1. funds \in Funds /\ form \in Form /\ sheet \in Sheet /\ page \in Page /\ request \in Requests
  BY DEF TypeInv, ClientTyped
<1>2. ASSUME UNCHANGED request
      PROVE  \A u \in Slots : /\ Busy(u)' = Busy(u)
                              /\ request'[u] = request[u]
  BY <1>2 DEF Busy, Waits, Free
<1>3. ASSUME NEW p \in Page, Visit(p) PROVE CommandInv'
  BY <1>1, <1>3, MountQuiet, Quiet DEF Visit
<1>4. CASE openWithdrawModal \/ handleWithdrawNext \/ CloseModal \/ Back
             \/ \E a \in Amounts : TypeAmount(a)
  <2>1. /\ UNCHANGED <<page, form, sheet, request>> /\ funds'.sending = funds.sending
        /\ page.name = "wallet"
    BY <1>1, <1>4 DEF openWithdrawModal, handleWithdrawNext, CloseModal, Back, TypeAmount, OnWallet,
       CommandInv, Funds
  <2>2. funds.modal # "confirm" \/ ~funds.sending
    BY <1>4 DEF openWithdrawModal, handleWithdrawNext, CloseModal, Back, TypeAmount
  <2>3. ASSUME NEW u \in Slots, Busy(u) PROVE Shown(u)'
    BY <2>1, <2>2, <2>3 DEF CommandInv, Shown
  <2> QED BY <1>2, <2>1, <2>3 DEF CommandInv
<1>5. CASE AnotherDeposit
  <2>1. UNCHANGED <<page, funds, sheet, request>> /\ page.name = "deposit" /\ form.success
    BY <1>5 DEF AnotherDeposit
  <2>2. \A u \in Slots : ~Busy(u)
    BY <2>1 DEF CommandInv, Busy, Shown, Commands, Refreshes
  <2> QED BY <1>2, <2>1, <2>2, Quiet DEF CommandInv
<1>6. CASE ToggleCancel
  <2>1. UNCHANGED <<page, funds, form, request>> /\ sheet'.cancelling = sheet.cancelling
    BY <1>1, <1>6 DEF ToggleCancel, Sheet
  <2> QED BY <1>2, <2>1, Carried
<1> QED BY <1>3, <1>4, <1>5, <1>6 DEF Browse

\* What the backend does to a request: its page and what it asks for stay the same.
Same(s) ==
  /\ request'[s] # NoRequest /\ request'[s].kind = request[s].kind
  /\ request'[s].amount = request[s].amount /\ request'[s].at = request[s].at
  /\ request'[s].wait = request[s].wait

LEMMA AnsweredSlot ==
  ASSUME TypeInv, NEW s \in Slots, ~Free(s)
  PROVE  /\ \A phase \in Phases : request' = [request EXCEPT ![s].phase = phase] =>
              Others(s) /\ Same(s) /\ request'[s].phase = phase
         /\ request' = Answered(s) =>
              /\ Others(s)
              /\ request'[s] = NoRequest \/ (Same(s) /\ request'[s].phase = "served")
<1>1. request[s] \in Request /\ request \in Requests
  BY DEF TypeInv, Requests, Free
<1>2. ASSUME NEW phase \in Phases, request' = [request EXCEPT ![s].phase = phase]
      PROVE  Others(s) /\ Same(s) /\ request'[s].phase = phase
  <2>1. request'[s] = [request[s] EXCEPT !.phase = phase] /\ Others(s)
    BY <1>1, <1>2 DEF Requests, Others
  <2>2. [request[s] EXCEPT !.phase = phase] \in Request
    BY <1>1 DEF Request, Phases
  <2> QED BY <1>1, <2>1, <2>2, NoRequestAssumption DEF Same, Request
<1>3. ASSUME request' = Answered(s)
      PROVE  Others(s) /\ (request'[s] = NoRequest \/ (Same(s) /\ request'[s].phase = "served"))
  <2>1. CASE request' = Done(s)
    BY <2>1, OthersKept
  <2>2. CASE request' = [request EXCEPT ![s].phase = "served"]
    BY <1>2, <2>2 DEF Phases
  <2> QED BY <1>3, <2>1, <2>2 DEF Answered
<1> QED BY <1>2, <1>3

LEMMA ServeKind ==
  ASSUME Heard, NEW s \in Slots, Serve(s)
  PROVE  ~Free(s) /\ (ServeQuery(s) \/ request[s].kind \notin Queries)
<1>1. CASE ServeQuery(s)
  BY <1>1 DEF ServeQuery
<1>2. CASE Record(s) \/ RecordFails(s) \/ HandlerFails(s)
  BY <1>2 DEF Record, RecordFails, HandlerFails, Heard, Before
<1>3. CASE ~(ServeQuery(s) \/ Record(s) \/ RecordFails(s) \/ HandlerFails(s))
  BY <1>3 DEF Serve, CheckWithdrawal, ReadWallet, WriteBack, Deposit, CheckBalance, InsertTask,
     HoldEscrow, DeleteTask, CancelTask, RefundEscrow, At, Queries
<1> QED BY <1>1, <1>2, <1>3

\* A query is answered with the page of the history that it asks for.
LEMMA QuerySlot ==
  ASSUME TypeInv, NEW s \in Slots, ServeQuery(s)
  PROVE  /\ Others(s) /\ Same(s) /\ UNCHANGED client /\ UNCHANGED server
         /\ request'[s].phase = "served" /\ request[s].phase = "sent"
         /\ request[s].kind \in {"rows", "refreshRows"} => request'[s].got = ledger.rows
<1> DEFINE n == CASE request[s].kind \in {"wallet", "refreshWallet"} -> wallet.available
                  [] request[s].kind \in {"rows", "refreshRows"}     -> ledger.rows
                  [] OTHER                                           -> 0
           tasks == IF request[s].kind = "tasks" THEN Listed ELSE Unseen
<1>1. request[s] \in Request /\ request \in Requests
  BY DEF ServeQuery, TypeInv, Requests, Free
<1>2. n \in Nat /\ tasks \in [Tasks -> TaskStatus]
  BY EmptyTyped DEF TypeInv, ServerTyped, Listed, TaskStatus
<1>3. request' = [request EXCEPT ![s].phase = "served", ![s].got = n, ![s].tasks = tasks]
      /\ UNCHANGED client /\ UNCHANGED server /\ request[s].phase = "sent"
  BY DEF ServeQuery
<1>4. request[s].kind \in {"rows", "refreshRows"} => n = ledger.rows
  OBVIOUS
<1> HIDE DEF n, tasks
<1>5. [request[s] EXCEPT !.phase = "served", !.got = n, !.tasks = tasks] \in Request
  BY <1>1, <1>2 DEF Request
<1>6. request'[s] = [request[s] EXCEPT !.phase = "served", !.got = n, !.tasks = tasks] /\ Others(s)
  BY <1>1, <1>3 DEF Requests, Others
<1>7. Same(s) /\ request'[s].phase = "served" /\ request'[s].got = n
  BY <1>1, <1>5, <1>6, NoRequestAssumption DEF Same, Request
<1> QED BY <1>3, <1>4, <1>6, <1>7

LEMMA ServeSlot ==
  ASSUME TypeInv, Heard, NEW s \in Slots, Serve(s)
  PROVE  /\ ~Free(s) /\ Others(s)
         /\ \/ UNCHANGED client /\ (request'[s] = NoRequest \/ Same(s))
            \/ request[s].kind \notin Queries /\ PageSeesError(s) /\ request'[s] = NoRequest
<1> DEFINE Goal == /\ Others(s)
                   /\ \/ UNCHANGED client /\ (request'[s] = NoRequest \/ Same(s))
                      \/ request[s].kind \notin Queries /\ PageSeesError(s) /\ request'[s] = NoRequest
<1>1. ~Free(s) /\ (ServeQuery(s) \/ request[s].kind \notin Queries)
  BY ServeKind
<1>2. request[s] \in Request /\ request \in Requests
  BY <1>1 DEF TypeInv, Requests, Free
<1>3. ASSUME Refused(s), request[s].kind \notin Queries PROVE Goal
  BY <1>3, OthersKept DEF Refused, Queries
<1>4. CASE ServeQuery(s)
  BY <1>1, <1>4, QuerySlot
<1>5. ASSUME ~ServeQuery(s) PROVE Goal
  <2>1. ASSUME NEW phase \in Phases, request' = [request EXCEPT ![s].phase = phase], UNCHANGED client
        PROVE  Goal
    BY <1>1, <2>1, AnsweredSlot
  <2>2. Refused(s) => Goal
    BY <1>1, <1>3, <1>5
  <2>3. request' = Answered(s) /\ UNCHANGED client => Goal
    BY <1>1, AnsweredSlot
  <2>. HIDE DEF Goal
  <2>4. CASE CheckWithdrawal(s) \/ CheckBalance(s)
    BY <2>1, <2>2, <2>4 DEF CheckWithdrawal, CheckBalance, Phases, Before
  <2>5. CASE ReadWallet(s)
    <3>1. [request[s] EXCEPT !.phase = "read", !.read = wallet] \in Request
      BY <1>2 DEF Request, TypeInv, ServerTyped, Before
    <3>2. request'[s] = [request[s] EXCEPT !.phase = "read", !.read = wallet] /\ Others(s)
      BY <1>2, <2>5 DEF ReadWallet, Requests, Others
    <3> QED BY <1>1, <1>2, <2>5, <3>1, <3>2, NoRequestAssumption DEF Same, Request, ReadWallet, Goal
  <2>6. CASE WriteBack(s)
    <3>1. [request[s] EXCEPT !.phase = "written", !.read = Nothing] \in Request
      BY <1>2 DEF Request, Nothing
    <3>2. \/ Refused(s)
          \/ /\ request' = [request EXCEPT ![s].phase = "written", ![s].read = Nothing]
             /\ UNCHANGED client
      BY <2>6 DEF WriteBack
    <3>3. ASSUME request' = [request EXCEPT ![s].phase = "written", ![s].read = Nothing]
          PROVE  /\ request'[s] = [request[s] EXCEPT !.phase = "written", !.read = Nothing]
                 /\ Others(s)
      BY <1>2, <3>3 DEF Requests, Others
    <3> QED BY <1>1, <1>2, <2>2, <3>1, <3>2, <3>3, NoRequestAssumption DEF Same, Request, Goal
  <2>7. CASE Deposit(s) \/ HoldEscrow(s) \/ RefundEscrow(s)
    <3>1. UNCHANGED client
      BY <2>7 DEF Deposit, HoldEscrow, RefundEscrow
    <3>2. \/ \E phase \in {"written", "unpaid"} : request' = [request EXCEPT ![s].phase = phase]
          \/ request' = Answered(s)
      BY <2>7 DEF Deposit, HoldEscrow, RefundEscrow, Move
    <3> QED BY <2>1, <2>3, <3>1, <3>2 DEF Phases, Before
  <2>8. ASSUME NEW k \in Tasks, InsertTask(s, k) PROVE Goal
    <3>1. [request[s] EXCEPT !.phase = "inserted", !.on = k] \in Request
      BY <1>2 DEF Request, Before
    <3>2. request'[s] = [request[s] EXCEPT !.phase = "inserted", !.on = k] /\ Others(s)
      BY <1>2, <2>8 DEF InsertTask, Requests, Others
    <3>3. Same(s)
      BY <1>2, <3>1, <3>2, NoRequestAssumption DEF Same, Request
    <3>4. UNCHANGED client
      BY <2>8 DEF InsertTask
    <3> QED BY <3>2, <3>3, <3>4 DEF Goal
  <2>9. CASE DeleteTask(s) \/ RecordFails(s) \/ HandlerFails(s)
    BY <2>2, <2>9 DEF DeleteTask, RecordFails, HandlerFails
  <2>10. CASE CancelTask(s)
    BY <2>1, <2>2, <2>10 DEF CancelTask, Phases, Before
  <2>11. CASE Record(s)
    BY <2>3, <2>11 DEF Record
  <2> QED BY <1>5, <2>4, <2>5, <2>6, <2>7, <2>8, <2>9, <2>10, <2>11 DEF Serve
<1> QED BY <1>1, <1>4, <1>5

LEMMA HeardStep == TypeInv /\ Heard /\ [Next]_vars => Heard'
<1> SUFFICES ASSUME TypeInv, Heard, [Next]_vars PROVE Heard'
  OBVIOUS
<1>1. request \in Requests /\ \A s \in Slots : Done(s) \in Requests
  BY GoesOn DEF TypeInv
<1>2. ASSUME UNCHANGED request PROVE Heard'
  BY <1>2 DEF Heard, Free
<1>3. ASSUME NEW s \in Slots, Others(s),
             request'[s] # NoRequest /\ request'[s].kind \in Queries =>
               request'[s].wait = "here" /\ request'[s].phase \in {"sent", "served"}
      PROVE  Heard'
  BY <1>3 DEF Heard, Others, Free
<1>4. ASSUME NEW p, NEW q \in Requests, Mount(p, q) PROVE Heard'
  <2> SUFFICES ASSUME NEW u \in Slots, request'[u] # NoRequest, request'[u].kind \in Queries
               PROVE  request'[u].wait = "here" /\ request'[u].phase \in {"sent", "served"}
    BY DEF Heard, Free
  <2>1. CASE request'[u] = Left(q)[u]
    BY <1>4, <2>1, LeftTyped
  <2>2. ASSUME NEW kind, request'[u] = Sent(kind)
        PROVE  request'[u].wait = "here" /\ request'[u].phase = "sent"
    BY <2>2 DEF Sent
  <2> QED BY <1>4, <2>1, <2>2, MountSlots
<1>5. CASE Browse
  <2>1. CASE \E p \in Page : Visit(p)
    BY <1>1, <1>4, <2>1 DEF Visit
  <2>2. CASE UNCHANGED request
    BY <1>2, <2>2
  <2> QED BY <1>5, <2>1, <2>2 DEF Browse, openWithdrawModal, handleWithdrawNext, CloseModal, Back,
             TypeAmount, AnotherDeposit, ToggleCancel
<1>6. ASSUME NEW s \in Slots, User(s) PROVE Heard'
  <2>1. \E r : Send(s, r) /\ r.wait = "here" /\ r.phase = "sent"
    <3> DEFINE New(r) == r.wait = "here" /\ r.phase = "sent"
    <3>1. \A kind : /\ New(Sent(kind))
                    /\ \A a : /\ New([Sent(kind) EXCEPT !.amount = a])
                              /\ New([Sent(kind) EXCEPT !.at = a])
                              /\ New([Sent(kind) EXCEPT !.on = a])
      BY DEF Sent
    <3> HIDE DEF New
    <3>2. \E r : Send(s, r) /\ New(r)
      BY <1>6, <3>1 DEF User, handleWithdrawConfirm, RetryWallet, handleSubmit, handleCancel, Turn
    <3> QED BY <3>2 DEF New
  <2> QED BY <1>3, <2>1, OthersKept
<1>7. ASSUME NEW s \in Slots, Deliver(s) PROVE Heard'
  <2>1. ASSUME request' = Done(s) PROVE Heard'
    BY <1>3, <2>1, OthersKept
  <2>2. ASSUME request' = ThenRows(s) PROVE Heard'
    BY <1>3, <2>2, OthersKept DEF Sent
  <2>3. ASSUME request' = [request EXCEPT ![s] = Sent("refreshWallet")] PROVE Heard'
    <3>1. Others(s) /\ request'[s] = Sent("refreshWallet")
      BY <2>3, OthersKept
    <3> QED BY <1>3, <3>1 DEF Sent
  <2>4. CASE Cancelled(s)
    <3>1. request' = Done(s) \/ Mount([name |-> "mine", on |-> NoTask], Done(s))
      BY <2>4 DEF Cancelled
    <3> QED BY <1>1, <1>4, <2>1, <3>1
  <2> QED BY <1>7, <2>1, <2>2, <2>3, <2>4
          DEF Deliver, Withdrawn, loadWallet, loadTransactions, Submitted, TasksFetched
<1>8. ASSUME NEW s \in Slots, Lost(s) PROVE Heard'
  BY <1>3, <1>8, OthersKept DEF Lost, Refused, Sent
<1>9. ASSUME NEW s \in Slots, GiveUp(s) PROVE Heard'
  <2>1. /\ request[s] \in Request /\ request[s].kind \in Commands
        /\ request' = [request EXCEPT ![s].wait = "gone"]
    BY <1>1, <1>9 DEF GiveUp, Free, Requests
  <2>2. Others(s) /\ request'[s].kind = request[s].kind
    BY <1>1, <2>1 DEF Others, Requests, Request
  <2> QED BY <1>3, <2>1, <2>2 DEF Commands, Queries
<1>10. ASSUME NEW s \in Slots, Serve(s) PROVE Heard'
  <2>1. CASE ServeQuery(s)
    BY <1>3, <2>1, QuerySlot DEF Same, Heard, ServeQuery
  <2>2. CASE ~ServeQuery(s)
    BY <1>3, <1>10, <2>2, ServeSlot, ServeKind DEF Same
  <2> QED BY <2>1, <2>2
<1>11. ASSUME NEW s \in Slots, CreditTask(s) PROVE Heard'
  BY <1>3, <1>11, CreditSlot DEF Others, Queries
<1>12. CASE UNCHANGED request
  BY <1>2, <1>12
<1> QED BY <1>5, <1>6, <1>7, <1>8, <1>9, <1>10, <1>11, <1>12 DEF Next, ReleaseEscrow, CreditChunk, vars

LEMMA CommandDeliver ==
  ASSUME TypeInv, Heard, CommandInv, NEW s \in Slots, Deliver(s)
  PROVE  CommandInv'
<1>1. /\ funds \in Funds /\ form \in Form /\ sheet \in Sheet /\ page \in Page
      /\ request \in Requests /\ Done(s) \in Requests
  BY GoesOn DEF TypeInv, ClientTyped
<1>2. ~Free(s)
  BY DEF Deliver, Withdrawn, loadWallet, loadTransactions, Submitted, TasksFetched, Cancelled,
     Arrived
<1>3. ASSUME Others(s), ~Busy(s)'
      PROVE  \A u \in Slots : Busy(u)' => u # s /\ Busy(u) /\ request'[u] = request[u]
  BY <1>3 DEF Others, Busy, Waits, Free
<1>4. ASSUME Others(s), Busy(s), ~Busy(s)' PROVE \A u \in Slots : ~Busy(u)'
  BY <1>4, AloneBefore DEF Others
<1>5. ASSUME request' = Done(s) PROVE Others(s) /\ ~Busy(s)'
  BY <1>5, OthersKept DEF Busy, Waits, Free
<1>6. CASE Withdrawn(s)
  <2>1. request[s].kind = "withdraw"
    BY <1>6 DEF Withdrawn, Arrived
  <2>2. CASE request[s].wait = "here"
    <3>1. Busy(s) /\ Shown(s)
      BY <1>2, <2>1, <2>2 DEF Busy, Waits, Commands, CommandInv
    <3>2. Others(s) /\ request'[s] = Sent("refreshWallet")
      BY <1>6, <2>2, OthersKept DEF Withdrawn
    <3>3. page' = page /\ page.name = "wallet" /\ funds'.sending = funds.sending /\ funds.sending
      BY <1>1, <1>6, <2>1, <2>2, <3>1 DEF Withdrawn, Shown, Funds
    <3>4. Shown(s)'
      BY <3>2, <3>3 DEF Shown, Refreshes, Sent
    <3> QED BY <3>1, <3>2, <3>3, <3>4, AloneBefore, Alone DEF Others
  <2>3. CASE request[s].wait # "here"
    <3>1. request' = Done(s) /\ UNCHANGED <<page, funds, form, sheet>>
      BY <1>6, <2>3 DEF Withdrawn
    <3> QED BY <1>3, <1>5, <3>1, Carried
  <2> QED BY <2>2, <2>3
<1>7. CASE loadWallet(s)
  <2>1. /\ UNCHANGED <<page, form, sheet>> /\ request' = ThenRows(s)
        /\ funds'.modal = funds.modal /\ funds'.sending = funds.sending
        /\ funds'.amount = funds.amount
    BY <1>1, <1>7 DEF loadWallet, Funds
  <2>2. CASE request[s].kind = "refreshWallet"
    <3>1. Others(s) /\ request'[s] = Sent("refreshRows")
      BY <2>1, <2>2, OthersKept
    <3>2. Busy(s)
      BY <1>2, <2>2 DEF Heard, Busy, Waits, Refreshes, Queries
    <3>3. page.name = "wallet" /\ funds.sending
      BY <2>2, <3>2 DEF CommandInv, Shown, Refreshes
    <3>4. Shown(s)'
      BY <2>1, <3>1, <3>3 DEF Shown, Refreshes, Sent
    <3> QED BY <2>1, <3>1, <3>2, <3>4, AloneBefore, Alone DEF Others, CommandInv
  <2>3. CASE request[s].kind # "refreshWallet"
    <3>1. Others(s) /\ request'[s] = NoRequest
      BY <2>1, <2>3, OthersKept
    <3>2. ~Busy(s)'
      BY <3>1 DEF Busy, Waits, Free
    <3> QED BY <1>3, <2>1, <3>1, <3>2, Carried
  <2> QED BY <2>2, <2>3
<1>8. CASE loadTransactions(s)
  <2>1. /\ UNCHANGED <<page, form, sheet>> /\ request' = Done(s)
        /\ funds'.modal = funds.modal /\ funds'.amount = funds.amount
    BY <1>1, <1>8 DEF loadTransactions, Funds
  <2>2. CASE request[s].kind = "refreshRows"
    <3>1. Busy(s)
      BY <1>2, <2>2 DEF Heard, Busy, Waits, Refreshes, Queries
    <3>2. \A u \in Slots : ~Busy(u)'
      BY <1>4, <1>5, <2>1, <3>1
    <3> QED BY <2>1, <3>2, Quiet DEF CommandInv
  <2>3. CASE request[s].kind # "refreshRows"
    <3>1. funds'.sending = funds.sending
      BY <1>1, <1>8, <2>3 DEF loadTransactions, Funds
    <3> QED BY <1>3, <1>5, <2>1, <3>1, Carried
  <2> QED BY <2>2, <2>3
<1>9. CASE Submitted(s)
  <2>1. UNCHANGED <<page, funds, sheet>> /\ request' = Done(s)
        /\ request[s].kind \in {"deposit", "publish"}
    BY <1>9 DEF Submitted, Arrived
  <2>2. CASE request[s].wait = "here"
    <3>1. Busy(s)
      BY <1>2, <2>1, <2>2 DEF Busy, Waits, Commands
    <3>2. \A u \in Slots : ~Busy(u)'
      BY <1>4, <1>5, <2>1, <3>1
    <3> QED BY <2>1, <3>2, Quiet DEF CommandInv
  <2>3. CASE request[s].wait # "here"
    <3>1. form' = form
      BY <1>9, <2>3 DEF Submitted
    <3> QED BY <1>3, <1>5, <2>1, <3>1, Carried
  <2> QED BY <2>2, <2>3
<1>10. CASE TasksFetched(s)
  <2>1. UNCHANGED <<page, funds, form>> /\ request' = Done(s)
        /\ sheet'.cancelling = sheet.cancelling
    BY <1>1, <1>10 DEF TasksFetched, Sheet
  <2> QED BY <1>3, <1>5, <2>1, Carried
<1>11. CASE Cancelled(s)
  <2>1. CASE request' = Done(s) /\ UNCHANGED client
    BY <1>3, <1>5, <2>1, Carried DEF client
  <2>2. CASE Mount([name |-> "mine", on |-> NoTask], Done(s))
    BY <1>1, <2>2, MountQuiet, Quiet DEF Page
  <2> QED BY <1>11, <2>1, <2>2 DEF Cancelled
<1> QED BY <1>6, <1>7, <1>8, <1>9, <1>10, <1>11 DEF Deliver

\* An error, or the page giving up, when the request s then is no longer waited for.
LEMMA CommandError ==
  ASSUME TypeInv, Heard, CommandInv, NEW s \in Slots, ~Free(s), PageSeesError(s), Others(s),
         request'[s] # NoRequest => \/ request'[s].wait # "here"
                                    \/ request'[s] = Sent("refreshRows") /\ request[s].kind = "refreshWallet"
  PROVE  CommandInv'
<1>1. /\ funds \in Funds /\ form \in Form /\ sheet \in Sheet /\ page \in Page
      /\ request[s] \in Request
  BY DEF TypeInv, ClientTyped, Requests, Free
<1>2. ASSUME ~Busy(s)'
      PROVE  \A u \in Slots : Busy(u)' => u # s /\ Busy(u) /\ request'[u] = request[u]
  BY <1>2 DEF Others, Busy, Waits, Free
<1>3. CASE request[s].wait # "here"
  <2>1. ~Busy(s)'
    BY <1>1, <1>3 DEF Heard, Queries, Busy, Waits, Free
  <2>2. UNCHANGED client
    BY <1>3 DEF PageSeesError
  <2> QED BY <1>2, <2>1, <2>2, Carried DEF client
<1>4. CASE request[s].wait = "here"
  <2>1. /\ funds' = AfterErrorOnFunds(request[s].kind)
        /\ form' = AfterErrorOnForm(request[s].kind)
        /\ sheet' = AfterErrorOnSheet(request[s].kind)
        /\ page' = page
    BY <1>4 DEF PageSeesError
  <2>2. CASE request[s].kind \in Commands
    <3>1. Busy(s) /\ Shown(s)
      BY <1>4, <2>2 DEF Busy, Waits, CommandInv
    <3>2. ~Busy(s)'
      BY <2>2 DEF Busy, Waits, Free, Commands
    <3>3. \A u \in Slots : ~Busy(u)'
      BY <3>1, <3>2, AloneBefore DEF Others
    <3>4. funds'.modal # "closed" => page.name = "wallet"
      <4>1. CASE request[s].kind = "withdraw"
        BY <3>1, <4>1 DEF Shown
      <4>2. CASE request[s].kind # "withdraw"
        BY <2>1, <2>2, <4>2 DEF AfterErrorOnFunds, Commands, CommandInv
      <4> QED BY <4>1, <4>2
    <3> QED BY <2>1, <3>3, <3>4, Quiet
  <2>3. CASE request[s].kind = "refreshWallet"
    <3>1. Busy(s) /\ Shown(s)
      BY <1>4, <2>3 DEF Busy, Waits, CommandInv, Refreshes
    <3>2. funds'.modal = funds.modal /\ funds'.sending = funds.sending
      BY <1>1, <2>1, <2>3 DEF AfterErrorOnFunds, Funds
    <3>3. Busy(s)' => Shown(s)'
      <4>1. ASSUME request'[s] = Sent("refreshRows") PROVE Shown(s)'
        BY <2>1, <2>3, <3>1, <3>2, <4>1 DEF Shown, Refreshes, Sent
      <4> QED BY <4>1 DEF Busy, Waits, Free
    <3> QED BY <2>1, <3>1, <3>2, <3>3, AloneBefore, Alone DEF Others, CommandInv
  <2>4. CASE request[s].kind = "refreshRows"
    <3>1. Busy(s)
      BY <1>4, <2>4 DEF Busy, Waits, Refreshes
    <3>2. ~Busy(s)'
      BY <2>4 DEF Busy, Waits, Free
    <3>3. \A u \in Slots : ~Busy(u)'
      BY <3>1, <3>2, AloneBefore DEF Others
    <3>4. funds'.modal = funds.modal
      BY <1>1, <2>1, <2>4 DEF AfterErrorOnFunds, Funds
    <3> QED BY <2>1, <3>3, <3>4, Quiet DEF CommandInv
  <2>5. CASE request[s].kind \in {"wallet", "rows", "tasks", "credit"}
    <3>1. ~Busy(s)'
      BY <2>5 DEF Busy, Waits, Free
    <3>2. /\ funds'.modal = funds.modal /\ funds'.sending = funds.sending
          /\ funds'.amount = funds.amount /\ form' = form
          /\ sheet'.cancelling = sheet.cancelling
      BY <1>1, <2>1, <2>5 DEF AfterErrorOnFunds, AfterErrorOnForm, AfterErrorOnSheet, Funds, Sheet
    <3> QED BY <1>2, <2>1, <3>1, <3>2, Carried
  <2> QED BY <1>1, <2>2, <2>3, <2>4, <2>5 DEF Request, Queries
<1> QED BY <1>3, <1>4

LEMMA CommandStep == TypeInv /\ Heard /\ CommandInv /\ [Next]_vars => CommandInv'
<1> SUFFICES ASSUME TypeInv, Heard, CommandInv, [Next]_vars PROVE CommandInv'
  OBVIOUS
<1>1. ASSUME NEW s \in Slots, Lost(s) PROVE CommandInv'
  BY <1>1, OthersKept, CommandError DEF Lost, Refused
<1>2. ASSUME NEW s \in Slots, GiveUp(s) PROVE CommandInv'
  <2>1. /\ request[s] \in Request /\ request \in Requests
        /\ request' = [request EXCEPT ![s].wait = "gone"]
    BY <1>2 DEF GiveUp, Free, Requests, TypeInv
  <2>2. Others(s) /\ request'[s].wait # "here"
    BY <2>1 DEF Others, Requests, Request
  <2> QED BY <1>2, <2>2, CommandError DEF GiveUp
<1>3. ASSUME NEW s \in Slots, Serve(s) PROVE CommandInv'
  <2>1. CASE UNCHANGED client /\ (request'[s] = NoRequest \/ Same(s))
    <3>1. \A u \in Slots : Busy(u)' =>
            Busy(u) /\ request'[u].kind = request[u].kind /\ request'[u].amount = request[u].amount
      BY <1>3, <2>1, ServeSlot DEF Others, Same, Busy, Waits, Free
    <3> QED BY <2>1, <3>1, Carried DEF client
  <2>2. CASE PageSeesError(s) /\ request'[s] = NoRequest
    BY <1>3, <2>2, ServeSlot, CommandError
  <2> QED BY <1>3, <2>1, <2>2, ServeSlot
<1>4. CASE UNCHANGED <<client, request>>
  <2>1. \A u \in Slots : Busy(u)' = Busy(u) /\ request'[u] = request[u]
    BY <1>4 DEF Busy, Waits, Free
  <2> QED BY <1>4, <2>1, Carried DEF client
<1>5. ASSUME NEW s \in Slots, CreditTask(s) PROVE CommandInv'
  <2>1. \A u \in Slots : Busy(u)' => Busy(u) /\ request'[u] = request[u]
    BY <1>5, CreditSlot DEF Busy, Waits, Free
  <2> QED BY <1>5, <2>1, Carried DEF CreditTask, client
<1> QED BY <1>1, <1>2, <1>3, <1>4, <1>5, CommandBrowse, CommandUser, CommandDeliver
        DEF Next, ReleaseEscrow, CreditChunk, vars, client

PageInv == TypeInv /\ Heard /\ CommandInv

LEMMA PagesKeep == Spec => []PageInv
<1>1. Init => PageInv
  BY TypedInit DEF Init, PageInv, Heard, CommandInv, EmptyFunds, Busy, Waits, Free
<1>2. PageInv /\ [Next]_vars => PageInv'
  BY TypedStep, HeardStep, CommandStep DEF PageInv
<1> QED BY <1>1, <1>2, PTL DEF Spec

\* SentAsConfirmed: while a withdrawal is sent its confirmation stays open with the
\* amount that was sent, whatever other answers arrive meanwhile (WalletPage.tsx:138, 416).
THEOREM WithdrawalsStayConfirmed == Spec => []SentAsConfirmed
<1>1. PageInv => SentAsConfirmed
  BY DEF PageInv, CommandInv, SentAsConfirmed, Waiting, Busy, Waits, Commands, Shown
<1> QED BY <1>1, PagesKeep, PTL

\* OneCommandAtATime: a page waits for one command at most (DepositPage.tsx:28,
\* PublishTaskPage.tsx:126, ClientTaskDetailPage.tsx:77).
THEOREM CommandsAreSentOnce == Spec => []OneCommandAtATime
<1>1. PageInv => OneCommandAtATime
  <2> SUFFICES ASSUME PageInv PROVE Cardinality(Waiting(Commands)) <= 1
    BY DEF OneCommandAtATime
  <2>1. \A s, t \in Waiting(Commands) : s = t
    BY DEF PageInv, CommandInv, Waiting, Busy, Waits
  <2>2. CASE Waiting(Commands) = {}
    BY <2>2, FS_EmptySet
  <2>3. CASE Waiting(Commands) # {}
    <3>1. PICK s : Waiting(Commands) = {s}
      BY <2>1, <2>3
    <3> QED BY <3>1, FS_Singleton
  <2> QED BY <2>2, <2>3
<1> QED BY <1>1, PagesKeep, PTL

-----------------------------------------------------------------------------
(* Movements that are not recorded yet. *)

Inside(s) == ~Free(s) /\ request[s].phase = "written"

Steady(s) ==
  /\ Inside(s)' <=> Inside(s)
  /\ Inside(s) => /\ request'[s].kind = request[s].kind
                  /\ request'[s].amount = request[s].amount

\* No step of a page touches a movement that the backend has in hand, whether its page
\* is left, gives up or shows another.
LEMMA MountSteady ==
  ASSUME Heard, NEW p, request \in Requests,
         NEW q \in Requests, Mount(p, q), NEW u \in Slots,
         q[u] = request[u] \/ (q[u] = NoRequest /\ ~Inside(u))
  PROVE  Steady(u)
<1>1. CASE request'[u] = Left(q)[u]
  <2>1. CASE Left(q)[u] = NoRequest
    <3>1. q[u] = NoRequest \/ q[u].kind \in Queries
      BY <2>1, LeftTyped
    <3>2. ~Inside(u)
      BY <3>1 DEF Inside, Heard, Free
    <3> QED BY <1>1, <2>1, <3>2 DEF Steady, Inside, Free
  <2>2. CASE Left(q)[u] # NoRequest
    <3>1. /\ q[u] # NoRequest /\ Left(q)[u].kind = q[u].kind
          /\ Left(q)[u].phase = q[u].phase /\ Left(q)[u].amount = q[u].amount
      BY <2>2, LeftTyped
    <3> QED BY <1>1, <2>2, <3>1 DEF Steady, Inside, Free
  <2> QED BY <2>1, <2>2
<1>2. ASSUME NEW kind, request'[u] = Sent(kind), Left(q)[u] = NoRequest PROVE Steady(u)
  <2>1. q[u] = NoRequest \/ q[u].kind \in Queries
    BY <1>2, LeftTyped
  <2>2. ~Inside(u)
    BY <2>1 DEF Inside, Heard, Free
  <2>3. request'[u].phase = "sent"
    BY <1>2 DEF Sent
  <2> QED BY <2>2, <2>3 DEF Steady, Inside
<1> QED BY <1>1, <1>2, MountSlots

LEMMA PagesSteady ==
  ASSUME TypeInv, Heard, NEW u \in Slots,
         Browse \/ (\E s \in Slots : User(s) \/ Deliver(s) \/ Lost(s) \/ GiveUp(s))
  PROVE  Steady(u)
<1>1. request \in Requests /\ \A s \in Slots : Done(s) \in Requests
  BY GoesOn DEF TypeInv
<1>2. ASSUME request'[u] = request[u] PROVE Steady(u)
  BY <1>2 DEF Steady, Inside, Free
<1>3. ASSUME ~Inside(u), request'[u] = NoRequest \/ request'[u].phase \in {"sent", "served"}
      PROVE  Steady(u)
  BY <1>3 DEF Steady, Inside, Free
<1>4. CASE Browse
  <2>1. CASE \E p \in Page : Visit(p)
    BY <1>1, <2>1, MountSteady DEF Visit
  <2>2. CASE UNCHANGED request
    BY <1>2, <2>2
  <2> QED BY <1>4, <2>1, <2>2 DEF Browse, openWithdrawModal, handleWithdrawNext, CloseModal, Back,
             TypeAmount, AnotherDeposit, ToggleCancel
<1>5. ASSUME NEW s \in Slots, User(s) PROVE Steady(u)
  <2>1. \E r : Send(s, r) /\ r.phase = "sent"
    <3>1. \A kind : /\ Sent(kind).phase = "sent"
                    /\ \A a : /\ [Sent(kind) EXCEPT !.amount = a].phase = "sent"
                              /\ [Sent(kind) EXCEPT !.at = a].phase = "sent"
                              /\ [Sent(kind) EXCEPT !.on = a].phase = "sent"
      BY DEF Sent
    <3> QED BY <1>5, <3>1 DEF User, handleWithdrawConfirm, RetryWallet, handleSubmit, handleCancel, Turn
  <2>2. Others(s) /\ Free(s) /\ request'[s].phase = "sent"
    BY <2>1, OthersKept
  <2> QED BY <1>2, <1>3, <2>2 DEF Others, Inside
<1>6. ASSUME NEW s \in Slots, ~Inside(s), request' = ThenRows(s) PROVE Steady(u)
  BY <1>2, <1>3, <1>6, OthersKept DEF Others, Sent
<1>7. ASSUME NEW s \in Slots, ~Inside(s), request' = Done(s) PROVE Steady(u)
  BY <1>2, <1>3, <1>7, OthersKept DEF Others
<1>8. ASSUME NEW s \in Slots, Deliver(s) PROVE Steady(u)
  <2>1. ~Inside(s)
    BY <1>8 DEF Deliver, Withdrawn, loadWallet, loadTransactions, Submitted, TasksFetched, Cancelled,
       Arrived, Inside
  <2>2. ASSUME request' = [request EXCEPT ![s] = Sent("refreshWallet")] PROVE Steady(u)
    <3>1. Others(s) /\ request'[s] = Sent("refreshWallet")
      BY <2>2, OthersKept
    <3> QED BY <1>2, <1>3, <2>1, <3>1 DEF Others, Sent
  <2>3. CASE Cancelled(s)
    <3>1. request' = Done(s) \/ Mount([name |-> "mine", on |-> NoTask], Done(s))
      BY <2>3 DEF Cancelled
    <3>2. Done(s)[u] = request[u] \/ (Done(s)[u] = NoRequest /\ ~Inside(u))
      BY <1>1, <2>1 DEF Done, Requests
    <3> QED BY <1>1, <1>7, <2>1, <3>1, <3>2, MountSteady
  <2> QED BY <1>6, <1>7, <1>8, <2>1, <2>2, <2>3
          DEF Deliver, Withdrawn, loadWallet, loadTransactions, Submitted, TasksFetched
<1>9. ASSUME NEW s \in Slots, Lost(s) PROVE Steady(u)
  BY <1>6, <1>9 DEF Lost, Refused, Inside
<1>10. ASSUME NEW s \in Slots, GiveUp(s) PROVE Steady(u)
  <2>1. /\ request[s] \in Request /\ request \in Requests /\ request[s] # NoRequest
        /\ request' = [request EXCEPT ![s].wait = "gone"] /\ request' \in Requests
    BY <1>10, PhaseTyped DEF GiveUp, Free, Requests, TypeInv
  <2>2. CASE u = s
    <3>1. request'[u] = [request[u] EXCEPT !.wait = "gone"]
      BY <2>1, <2>2 DEF Requests
    <3>2. [request[u] EXCEPT !.wait = "gone"] \in Request
      BY <2>1, <2>2 DEF Request
    <3>3. request'[u] # NoRequest
      BY <3>1, <3>2, NoRequestAssumption
    <3>4. /\ request'[u].kind = request[u].kind /\ request'[u].phase = request[u].phase
          /\ request'[u].amount = request[u].amount
      BY <2>1, <2>2, <3>1 DEF Request
    <3> QED BY <2>1, <2>2, <3>3, <3>4 DEF Steady, Inside, Free
  <2>3. CASE u # s
    BY <1>2, <2>1, <2>3 DEF Requests
  <2> QED BY <2>2, <2>3
<1> QED BY <1>4, <1>5, <1>8, <1>9, <1>10

\* A step of the backend that does not move money or record it has nothing in hand,
\* before or after.
LEMMA ServeSteady ==
  ASSUME TypeInv, Heard, NEW s \in Slots, Serve(s), ~Inside(s), ~Inside(s)'
  PROVE  \A u \in Slots : Steady(u)
<1>1. Steady(s)
  BY DEF Steady
<1>2. ASSUME NEW u \in Slots, u # s PROVE Steady(u)
  <2>1. request'[u] = request[u]
    BY <1>2, ServeSlot DEF Others
  <2> QED BY <2>1 DEF Steady, Inside, Free
<1> QED BY <1>1, <1>2

\* A step adds one row at most.
LEMMA RowsMove ==
  ASSUME TypeInv, [Next]_vars
  PROVE  ledger' = ledger \/ ledger'.rows = ledger.rows + 1
<1>1. ASSUME NEW s \in Slots, Serve(s) PROVE ledger' = ledger \/ ledger'.rows = ledger.rows + 1
  <2>1. CASE Record(s)
    BY <2>1, Records
  <2>2. CASE ~Record(s)
    BY <1>1, <2>2 DEF Serve, ServeQuery, CheckWithdrawal, ReadWallet, WriteBack, Deposit, CheckBalance,
       InsertTask, HoldEscrow, DeleteTask, CancelTask, RefundEscrow, RecordFails, HandlerFails, server
  <2> QED BY <2>1, <2>2
<1>2. CASE CreditChunk
  BY <1>2, ChunkPaid
<1>3. CASE Browse \/ \E s \in Slots : User(s) \/ Deliver(s) \/ Lost(s) \/ GiveUp(s)
  <2>1. UNCHANGED server
    BY <1>3 DEF Browse, Visit, openWithdrawModal, handleWithdrawNext, CloseModal, Back, TypeAmount,
       AnotherDeposit, ToggleCancel, User, handleWithdrawConfirm, RetryWallet, handleSubmit,
       handleCancel, Turn, Deliver, Withdrawn, loadWallet, loadTransactions, Submitted,
       TasksFetched, Cancelled, Lost, GiveUp
  <2> QED BY <2>1 DEF server
<1>4. CASE (\E k \in Tasks : ReleaseEscrow(k)) \/ (\E s \in Slots : CreditTask(s)) \/ UNCHANGED vars
  BY <1>4 DEF ReleaseEscrow, CreditTask, vars
<1> QED BY <1>1, <1>2, <1>3, <1>4 DEF Next

\* TypeOK: tables, pages and requests keep their types; in particular no balance
\* becomes negative (wallet_queries.py:135, client_queries.py:43).
THEOREM MoneyTypeCorrect == Spec => []TypeOK
<1>1. TypeInv => TypeOK
  BY DEF TypeInv, TypeOK, ServerTyped, ClientTyped, Requests
<1> QED BY <1>1, TypedInit, TypedStep, PTL DEF Spec

-----------------------------------------------------------------------------
(* The history. *)

Pages(n) == (n + PAGE_SIZE - 1) \div PAGE_SIZE
Exists(p, n) == p = 0 \/ p < Pages(n)

\* More transactions fill no fewer pages.
LEMMA MorePages ==
  ASSUME NEW m \in Nat, NEW n \in Nat, m <= n, NEW p \in Nat, Exists(p, m)
  PROVE  Exists(p, n)
<1> DEFINE d == PAGE_SIZE
           a == m + d - 1
           b == n + d - 1
           x == a \div d
           y == b \div d
<1>1. d \in Nat /\ d > 0
  BY MoneyPagesAssumption
<1>2. a \in Nat /\ b \in Nat /\ a <= b
  BY <1>1
<1> HIDE DEF a, b, d
<1>3. x \in Nat /\ d * x <= a
  BY <1>1, <1>2
<1>4. y \in Nat /\ b < d * y + d
  BY <1>1, <1>2
<1> HIDE DEF x, y
<1>5. x <= y
  <2> SUFFICES ASSUME y + 1 <= x PROVE FALSE
    BY <1>3, <1>4
  <2>1. d * (y + 1) <= d * x
    BY <1>1, <1>3, <1>4
  <2>2. d * (y + 1) = d * y + d
    BY <1>1, <1>4
  <2>3. d * x \in Nat /\ d * y \in Nat
    BY <1>1, <1>3, <1>4
  <2> QED BY <1>1, <1>2, <1>3, <1>4, <2>1, <2>2, <2>3
<1>6. Pages(m) = x /\ Pages(n) = y
  BY DEF Pages, x, y, a, b, d
<1> QED BY <1>3, <1>4, <1>5, <1>6 DEF Exists

Histories == {"rows", "refreshRows"}

\* A page of the history exists when it is asked for, and when it is answered.
Asked(s) ==
  LET r == request[s] IN
  ~Free(s) /\ r.kind \in Histories =>
    /\ r.phase # "served" => Exists(r.at, ledger.rows)
    /\ r.phase = "served" => r.got <= ledger.rows /\ Exists(r.at, r.got)

HistoryInv ==
  /\ funds.total <= ledger.rows /\ Exists(funds.at, funds.total)
  /\ \A s \in Slots : Asked(s)

\* What a step makes of a request for the history.
Fresh(s) == request'[s].phase = "sent" /\ Exists(request'[s].at, ledger.rows)
Queried(s) ==
  /\ request[s] # NoRequest /\ request[s].kind = request'[s].kind /\ request[s].phase = "sent"
  /\ request'[s].phase = "served" /\ request'[s].at = request[s].at
  /\ request'[s].got = ledger.rows

HistorySlot(s) ==
  request'[s] # NoRequest /\ request'[s].kind \in Histories =>
    request'[s] = request[s] \/ Fresh(s) \/ Queried(s)

LEMMA HistoryMoves ==
  ASSUME TypeInv, Heard, HistoryInv, [Next]_vars, NEW u \in Slots
  PROVE  HistorySlot(u)
<1>1. request \in Requests /\ \A s \in Slots : Done(s) \in Requests
  BY GoesOn DEF TypeInv
<1>2. ASSUME NEW s \in Slots, Others(s), HistorySlot(s) PROVE HistorySlot(u)
  BY <1>2 DEF Others, HistorySlot
<1>3. ASSUME NEW p, NEW q \in Requests, Mount(p, q) PROVE HistorySlot(u)
  <2>1. CASE request'[u] = Left(q)[u]
    BY <1>3, <2>1, LeftTyped DEF HistorySlot, Histories, Queries
  <2>2. ASSUME NEW kind, request'[u] = Sent(kind) PROVE HistorySlot(u)
    BY <2>2 DEF HistorySlot, Fresh, Exists, Sent
  <2> QED BY <1>3, <2>1, <2>2, MountSlots
<1>4. CASE Browse
  <2>1. CASE \E p \in Page : Visit(p)
    BY <1>1, <1>3, <2>1 DEF Visit
  <2>2. CASE UNCHANGED request
    BY <2>2 DEF HistorySlot
  <2> QED BY <1>4, <2>1, <2>2 DEF Browse, openWithdrawModal, handleWithdrawNext, CloseModal, Back,
             TypeAmount, AnotherDeposit, ToggleCancel
<1>5. ASSUME NEW s \in Slots, User(s) PROVE HistorySlot(u)
  <2>1. CASE handleWithdrawConfirm(s) \/ RetryWallet(s) \/ handleSubmit(s) \/ handleCancel(s)
    <3>1. \E r : Send(s, r) /\ r.phase = "sent" /\ r.at = 0
      <4>1. \A kind : /\ Sent(kind).phase = "sent" /\ Sent(kind).at = 0
                      /\ \A a : /\ [Sent(kind) EXCEPT !.amount = a].phase = "sent"
                                /\ [Sent(kind) EXCEPT !.amount = a].at = 0
                                /\ [Sent(kind) EXCEPT !.on = a].phase = "sent"
                                /\ [Sent(kind) EXCEPT !.on = a].at = 0
        BY DEF Sent
      <4>2. CASE handleWithdrawConfirm(s)
        <5> DEFINE r == [Sent("withdraw") EXCEPT !.amount = funds.amount]
        <5>1. Send(s, r)
          BY <4>2 DEF handleWithdrawConfirm
        <5>2. r.phase = "sent" /\ r.at = 0
          BY <4>1
        <5> HIDE DEF r
        <5> QED BY <5>1, <5>2
      <4>3. CASE RetryWallet(s) \/ handleSubmit(s)
        BY <4>1, <4>3 DEF RetryWallet, handleSubmit
      <4>4. CASE handleCancel(s)
        <5> DEFINE r == [Sent("cancel") EXCEPT !.on = page.on]
        <5>1. Send(s, r)
          BY <4>4 DEF handleCancel
        <5>2. r.phase = "sent" /\ r.at = 0
          BY <4>1
        <5> HIDE DEF r
        <5> QED BY <5>1, <5>2
      <4> QED BY <2>1, <4>2, <4>3, <4>4
    <3>2. Others(s) /\ request'[s].phase = "sent" /\ request'[s].at = 0
      BY <3>1, OthersKept
    <3> QED BY <1>2, <3>2 DEF HistorySlot, Fresh, Exists
  <2>2. ASSUME NEW p \in {funds.at - 1, funds.at + 1}, Turn(p, s) PROVE HistorySlot(u)
    <3> DEFINE r == [Sent("rows") EXCEPT !.at = p]
    <3>1. Others(s) /\ request'[s] = r
      BY <2>2, OthersKept DEF Turn
    <3>2. r.at = p /\ r.phase = "sent"
      BY DEF Sent
    <3>3. /\ funds.at \in Nat /\ funds.total \in Nat /\ ledger.rows \in Nat
          /\ funds.total <= ledger.rows /\ Exists(funds.at, funds.total)
      BY DEF TypeInv, ServerTyped, ClientTyped, Funds, HistoryInv
    <3>4. totalPages = Pages(funds.total)
      BY DEF totalPages, Pages
    <3>5. Pages(funds.total) \in Int
      BY <3>3, MoneyPagesAssumption DEF Pages
    <3>6. p \in Nat /\ Exists(p, funds.total)
      BY <2>2, <3>3, <3>4, <3>5 DEF Turn, Exists
    <3>7. Exists(p, ledger.rows)
      BY <3>3, <3>6, MorePages
    <3> HIDE DEF r
    <3> QED BY <1>2, <3>1, <3>2, <3>7 DEF HistorySlot, Fresh
  <2> QED BY <1>5, <2>1, <2>2 DEF User
<1>6. ASSUME NEW s \in Slots, request' = ThenRows(s) PROVE HistorySlot(u)
  <2>1. Others(s) /\ (request'[s] = NoRequest \/ request'[s] = Sent("refreshRows"))
    BY <1>6, OthersKept
  <2>2. HistorySlot(s)
    BY <2>1 DEF HistorySlot, Fresh, Exists, Sent
  <2> QED BY <1>2, <2>1, <2>2
<1>7. ASSUME NEW s \in Slots, request' = Done(s) PROVE HistorySlot(u)
  <2>1. Others(s) /\ request'[s] = NoRequest
    BY <1>7, OthersKept
  <2> QED BY <1>2, <2>1 DEF HistorySlot
<1>8. ASSUME NEW s \in Slots, Deliver(s) PROVE HistorySlot(u)
  <2>1. ASSUME request' = [request EXCEPT ![s] = Sent("refreshWallet")] PROVE HistorySlot(u)
    <3>1. Others(s) /\ request'[s] = Sent("refreshWallet")
      BY <2>1, OthersKept
    <3> QED BY <1>2, <3>1 DEF HistorySlot, Fresh, Exists, Sent
  <2>2. CASE Cancelled(s)
    <3>1. request' = Done(s) \/ Mount([name |-> "mine", on |-> NoTask], Done(s))
      BY <2>2 DEF Cancelled
    <3> QED BY <1>1, <1>3, <1>7, <3>1
  <2> QED BY <1>6, <1>7, <1>8, <2>1, <2>2
          DEF Deliver, Withdrawn, loadWallet, loadTransactions, Submitted, TasksFetched
<1>9. ASSUME NEW s \in Slots, Lost(s) PROVE HistorySlot(u)
  BY <1>6, <1>9 DEF Lost, Refused
<1>10. ASSUME NEW s \in Slots, GiveUp(s) PROVE HistorySlot(u)
  <2>1. /\ request[s] \in Request /\ request[s].kind \in Commands
        /\ request' = [request EXCEPT ![s].wait = "gone"]
    BY <1>1, <1>10 DEF GiveUp, Free, Requests
  <2>2. Others(s) /\ request'[s].kind = request[s].kind
    BY <1>1, <2>1 DEF Others, Requests, Request
  <2> QED BY <1>2, <2>1, <2>2 DEF HistorySlot, Commands, Histories
<1>11. ASSUME NEW s \in Slots, Serve(s) PROVE HistorySlot(u)
  <2>1. Others(s) /\ (request'[s] = NoRequest \/ Same(s)) /\ ~Free(s)
    BY <1>11, ServeSlot
  <2>2. CASE ServeQuery(s)
    <3>1. HistorySlot(s)
      BY <2>1, <2>2, QuerySlot DEF HistorySlot, Queried, Same, Free, Histories
    <3> QED BY <1>2, <2>1, <3>1
  <2>3. CASE ~ServeQuery(s)
    <3>1. request[s].kind \notin Queries
      BY <1>11, <2>3, ServeKind
    <3> QED BY <1>2, <2>1, <3>1 DEF HistorySlot, Same, Queries, Histories
  <2> QED BY <2>2, <2>3
<1>12. ASSUME NEW s \in Slots, CreditTask(s) PROVE HistorySlot(u)
  BY <1>2, <1>12, CreditSlot DEF Others, HistorySlot, Histories
<1>13. CASE UNCHANGED request
  BY <1>13 DEF HistorySlot
<1> QED BY <1>4, <1>5, <1>8, <1>9, <1>10, <1>11, <1>12, <1>13
        DEF Next, ReleaseEscrow, CreditChunk, vars

\* What a step makes of the history shown.
LEMMA HistoryShown ==
  ASSUME TypeInv, Heard, [Next]_vars
  PROVE  \/ funds'.total = funds.total /\ funds'.at = funds.at
         \/ funds'.total = 0 /\ funds'.at = 0
         \/ \E s \in Slots : loadTransactions(s)
<1>1. funds \in Funds
  BY DEF TypeInv, ClientTyped
<1>2. ASSUME UNCHANGED funds PROVE funds'.total = funds.total /\ funds'.at = funds.at
  BY <1>2
<1>3. ASSUME NEW p, NEW q, Mount(p, q) PROVE funds'.total = 0 /\ funds'.at = 0
  BY <1>3 DEF Mount, EmptyFunds
<1>4. ASSUME NEW s \in Slots, PageSeesError(s)
      PROVE  funds'.total = funds.total /\ funds'.at = funds.at
  <2>1. /\ AfterErrorOnFunds(request[s].kind).total = funds.total
        /\ AfterErrorOnFunds(request[s].kind).at = funds.at
    BY <1>1 DEF AfterErrorOnFunds, Funds
  <2> QED BY <1>4, <2>1 DEF PageSeesError, client
<1>5. CASE Browse
  <2>1. CASE \E p \in Page : Visit(p)
    BY <1>3, <2>1 DEF Visit
  <2>2. CASE openWithdrawModal \/ handleWithdrawNext \/ CloseModal \/ Back
               \/ \E a \in Amounts : TypeAmount(a)
    BY <1>1, <2>2 DEF openWithdrawModal, handleWithdrawNext, CloseModal, Back, TypeAmount, Funds
  <2>3. CASE AnotherDeposit \/ ToggleCancel
    BY <2>3 DEF AnotherDeposit, ToggleCancel
  <2> QED BY <1>5, <2>1, <2>2, <2>3 DEF Browse
<1>6. ASSUME NEW s \in Slots, User(s)
      PROVE  funds'.total = funds.total /\ funds'.at = funds.at
  BY <1>1, <1>6 DEF User, handleWithdrawConfirm, RetryWallet, handleSubmit, handleCancel, Turn, Funds
<1>7. ASSUME NEW s \in Slots, Deliver(s), ~loadTransactions(s)
      PROVE  \/ funds'.total = funds.total /\ funds'.at = funds.at
             \/ funds'.total = 0 /\ funds'.at = 0
  <2>1. CASE Withdrawn(s) \/ loadWallet(s)
    BY <1>1, <2>1 DEF Withdrawn, loadWallet, Funds
  <2>2. CASE Submitted(s) \/ TasksFetched(s)
    BY <2>2 DEF Submitted, TasksFetched
  <2>3. CASE Cancelled(s)
    BY <1>3, <2>3 DEF Cancelled, client
  <2> QED BY <1>7, <2>1, <2>2, <2>3 DEF Deliver
<1>8. ASSUME NEW s \in Slots, Lost(s) \/ GiveUp(s)
      PROVE  funds'.total = funds.total /\ funds'.at = funds.at
  BY <1>4, <1>8 DEF Lost, Refused, GiveUp
<1>9. ASSUME NEW s \in Slots, Serve(s)
      PROVE  funds'.total = funds.total /\ funds'.at = funds.at
  BY <1>2, <1>4, <1>9, ServeSlot DEF client
<1> QED BY <1>2, <1>5, <1>6, <1>7, <1>8, <1>9
        DEF Next, ReleaseEscrow, CreditChunk, CreditTask, vars, client

LEMMA HistoryStep == TypeInv /\ Heard /\ HistoryInv /\ [Next]_vars => HistoryInv'
<1> SUFFICES ASSUME TypeInv, Heard, HistoryInv, [Next]_vars PROVE HistoryInv'
  OBVIOUS
<1>1. /\ ledger.rows \in Nat /\ ledger'.rows \in Nat /\ funds.total \in Nat /\ funds'.total \in Nat
      /\ request \in Requests /\ request' \in Requests
  BY TypedStep DEF TypeInv, ServerTyped, ClientTyped, Funds
<1>2. ledger.rows <= ledger'.rows
  BY <1>1, RowsMove
<1>3. ASSUME NEW p \in Nat, Exists(p, ledger.rows) PROVE Exists(p, ledger'.rows)
  BY <1>1, <1>2, <1>3, MorePages
<1>4. ASSUME NEW u \in Slots PROVE Asked(u)'
  <2> SUFFICES ASSUME request'[u] # NoRequest, request'[u].kind \in Histories
               PROVE  /\ request'[u].phase # "served" => Exists(request'[u].at, ledger'.rows)
                      /\ request'[u].phase = "served" =>
                           request'[u].got <= ledger'.rows /\ Exists(request'[u].at, request'[u].got)
    BY DEF Asked, Free, Exists, Pages
  <2>1. request'[u] \in Request /\ request'[u].at \in Nat /\ request'[u].got \in Nat
    BY <1>1 DEF Requests, Request
  <2>2. HistorySlot(u) /\ Asked(u)
    BY HistoryMoves DEF HistoryInv
  <2>3. CASE request'[u] = request[u]
    BY <1>1, <1>2, <1>3, <2>1, <2>2, <2>3 DEF Asked, Free
  <2>4. CASE Fresh(u)
    BY <1>3, <2>1, <2>4 DEF Fresh
  <2>5. CASE Queried(u)
    BY <1>1, <1>2, <2>2, <2>5 DEF Queried, Asked, Free
  <2> QED BY <2>2, <2>3, <2>4, <2>5 DEF HistorySlot
<1>5. funds'.total <= ledger'.rows /\ Exists(funds'.at, funds'.total)
  <2>1. CASE funds'.total = funds.total /\ funds'.at = funds.at
    BY <1>1, <1>2, <2>1 DEF HistoryInv
  <2>2. CASE funds'.total = 0 /\ funds'.at = 0
    BY <1>1, <2>2 DEF Exists
  <2>3. ASSUME NEW s \in Slots, loadTransactions(s)
        PROVE  funds'.total <= ledger'.rows /\ Exists(funds'.at, funds'.total)
    <3>1. /\ ~Free(s) /\ request[s].phase = "served" /\ request[s].kind \in Histories
          /\ Asked(s) /\ request[s] \in Request
      BY <1>1, <2>3 DEF loadTransactions, Arrived, Histories, HistoryInv, Requests, Free
    <3>2. request[s].got \in Nat /\ request[s].got <= ledger.rows /\ Exists(request[s].at, request[s].got)
      BY <3>1 DEF Asked, Request
    <3>3. funds'.total = request[s].got /\ funds'.at = request[s].at
      BY <2>3 DEF loadTransactions, TypeInv, ClientTyped, Funds
    <3> QED BY <1>1, <1>2, <3>2, <3>3
  <2> QED BY <2>1, <2>2, <2>3, HistoryShown
<1> QED BY <1>4, <1>5 DEF HistoryInv, Exists, Pages

\* HistoryPageExists: the history never shows a page beyond its last, in whatever order the
\* answers to its buttons and to the refresh arrive (WalletPage.tsx:79 and 173).
THEOREM HistoriesShowPages == Spec => []HistoryPageExists
<1>1. Init => TypeInv /\ HistoryInv
  BY TypedInit DEF Init, HistoryInv, Asked, Free, EmptyFunds, Exists
<1>2. PageInv /\ HistoryInv /\ [Next]_vars => HistoryInv'
  BY HistoryStep DEF PageInv
<1>3. HistoryInv => HistoryPageExists
  BY DEF HistoryInv, HistoryPageExists, Exists, Pages, totalPages
<1> QED BY <1>1, <1>2, <1>3, PagesKeep, PTL DEF Spec

-----------------------------------------------------------------------------
(* The balance and the transactions. *)

\* What has been moved in the wallet and is not recorded yet, and of it what has been
\* withdrawn.
Held == [s \in Slots |-> IF Inside(s) THEN Moved(request[s]) ELSE 0]
Taken ==
  [s \in Slots |-> IF Inside(s) /\ request[s].kind = "withdraw" THEN request[s].amount ELSE 0]

MoneyInv ==
  slips = NoSlips => /\ wallet.available = ledger.balance + Sum(Held, Slots)
                     /\ wallet.withdrawn = ledger.withdrawn + Sum(Taken, Slots)

LEMMA HeldTyped ==
  TypeInv => /\ \A u \in Slots : Held[u] \in Int /\ Taken[u] \in Int
             /\ Sum(Held, Slots) \in Int /\ Sum(Taken, Slots) \in Int
<1> SUFFICES ASSUME TypeInv
             PROVE  /\ \A u \in Slots : Held[u] \in Int /\ Taken[u] \in Int
                    /\ Sum(Held, Slots) \in Int /\ Sum(Taken, Slots) \in Int
  OBVIOUS
<1>1. ASSUME NEW s \in Slots PROVE Held[s] \in Int /\ Taken[s] \in Int
  <2>1. CASE Inside(s)
    <3>1. request[s] \in Request
      BY <2>1 DEF Inside, Free, TypeInv, Requests
    <3>2. Moved(request[s]) \in Int /\ request[s].amount \in Int
      BY <3>1, MovedTyped
    <3> QED BY <3>2 DEF Held, Taken
  <2>2. CASE ~Inside(s)
    BY <2>2 DEF Held, Taken
  <2> QED BY <2>1, <2>2
<1>2. IsFiniteSet(Slots)
  BY MoneyPagesAssumption
<1> QED BY <1>1, <1>2, SumType

\* A movement in hand that is left alone counts for what it counted.
LEMMA HeldSteady ==
  ASSUME NEW u \in Slots, Steady(u)
  PROVE  Held'[u] = Held[u] /\ Taken'[u] = Taken[u]
<1>1. Inside(u)' <=> Inside(u)
  BY DEF Steady
<1>2. Inside(u) => /\ request'[u].kind = request[u].kind /\ request'[u].amount = request[u].amount
                   /\ Moved(request'[u]) = Moved(request[u])
  BY DEF Steady, Moved
<1> QED BY <1>1, <1>2 DEF Held, Taken

\* What a step does to the sums, when it touches one movement at most.
LEMMA SumsMove ==
  ASSUME TypeInv, TypeInv', NEW s \in Slots, \A u \in Slots : u # s => Steady(u)
  PROVE  /\ Sum(Held', Slots) = Sum(Held, Slots) - Held[s] + Held'[s]
         /\ Sum(Taken', Slots) = Sum(Taken, Slots) - Taken[s] + Taken'[s]
<1>1. IsFiniteSet(Slots)
  BY MoneyPagesAssumption
<1>2. \A u \in Slots : Held[u] \in Int /\ Taken[u] \in Int
  BY HeldTyped
<1>3. (TypeInv => \A u \in Slots : Held[u] \in Int /\ Taken[u] \in Int)'
  BY HeldTyped, PTL
<1>4. \A u \in Slots : Held'[u] \in Int /\ Taken'[u] \in Int
  BY <1>3
<1>5. \A u \in Slots : u # s => Held'[u] = Held[u] /\ Taken'[u] = Taken[u]
  BY HeldSteady
<1> QED BY <1>1, <1>2, <1>4, <1>5, SumUpdate

\* Nothing is done to the movements in hand, and both change by the same amount.
LEMMA MoneyKept ==
  ASSUME TypeInv, TypeInv', MoneyInv, \A u \in Slots : Steady(u), slips' = slips,
         NEW n \in Int,
         wallet'.available = wallet.available + n, ledger'.balance = ledger.balance + n,
         wallet'.withdrawn = wallet.withdrawn, ledger'.withdrawn = ledger.withdrawn
  PROVE  MoneyInv'
<1>1. \A u \in Slots : Held'[u] = Held[u] /\ Taken'[u] = Taken[u]
  BY HeldSteady
<1>2. IsFiniteSet(Slots)
  BY MoneyPagesAssumption
<1>3. Sum(Held', Slots) = Sum(Held, Slots) /\ Sum(Taken', Slots) = Sum(Taken, Slots)
  BY <1>1, <1>2, SumEqual
<1>4. Sum(Held, Slots) \in Int /\ Sum(Taken, Slots) \in Int
  BY HeldTyped
<1>5. /\ wallet.available \in Nat /\ wallet.withdrawn \in Nat
      /\ ledger.balance \in Int /\ ledger.withdrawn \in Nat
  BY DEF TypeInv, ServerTyped
<1> QED BY <1>3, <1>4, <1>5 DEF MoneyInv

\* A handler moves money, and has the movement in hand.
LEMMA MoneyMoves ==
  ASSUME TypeInv, TypeInv', MoneyInv, NEW s \in Slots, \A u \in Slots : u # s => Steady(u),
         NEW n \in Int, NEW w \in Int,
         slips' = slips, ledger' = ledger, ~Inside(s), Inside(s)',
         wallet'.available = wallet.available + n, wallet'.withdrawn = wallet.withdrawn + w,
         Moved(request'[s]) = n,
         w = IF request'[s].kind = "withdraw" THEN request'[s].amount ELSE 0
  PROVE  MoneyInv'
<1>1. Held[s] = 0 /\ Taken[s] = 0
  BY DEF Held, Taken
<1>2. Held'[s] = n /\ Taken'[s] = w
  BY DEF Held, Taken
<1>3. /\ Sum(Held', Slots) = Sum(Held, Slots) - 0 + n
      /\ Sum(Taken', Slots) = Sum(Taken, Slots) - 0 + w
  BY <1>1, <1>2, SumsMove
<1>4. Sum(Held, Slots) \in Int /\ Sum(Taken, Slots) \in Int
  BY HeldTyped
<1>5. /\ wallet.available \in Nat /\ wallet.withdrawn \in Nat
      /\ ledger.balance \in Int /\ ledger.withdrawn \in Nat
  BY DEF TypeInv, ServerTyped
<1>6. CASE slips = NoSlips
  <2>1. /\ wallet.available = ledger.balance + Sum(Held, Slots)
        /\ wallet.withdrawn = ledger.withdrawn + Sum(Taken, Slots)
    BY <1>6 DEF MoneyInv
  <2>2. /\ wallet'.available = ledger'.balance + Sum(Held', Slots)
        /\ wallet'.withdrawn = ledger'.withdrawn + Sum(Taken', Slots)
    BY <1>3, <1>4, <1>5, <2>1
  <2> QED BY <2>2 DEF MoneyInv
<1>7. CASE slips # NoSlips
  BY <1>7 DEF MoneyInv, NoSlips
<1> QED BY <1>6, <1>7

\* A movement in hand is recorded.
LEMMA MoneyRecorded ==
  ASSUME TypeInv, TypeInv', MoneyInv, Heard, NEW s \in Slots, Record(s)
  PROVE  MoneyInv'
<1>1. Inside(s) /\ request[s] \in Request
  BY DEF Record, Inside, TypeInv, Requests, Free
<1>2. ~Inside(s)' /\ Others(s)
  BY <1>1, AnsweredSlot DEF Record, Inside, Free
<1>3. \A u \in Slots : u # s => Steady(u)
  BY <1>2 DEF Others, Steady, Inside, Free
<1> DEFINE n == Moved(request[s])
           w == IF request[s].kind = "withdraw" THEN request[s].amount ELSE 0
<1>4. Held[s] = n /\ Taken[s] = w /\ Held'[s] = 0 /\ Taken'[s] = 0
  BY <1>1, <1>2 DEF Held, Taken
<1>5. n \in Int /\ w \in Int
  BY <1>1, MovedTyped
<1>6. /\ wallet' = wallet /\ slips' = slips /\ ledger'.balance = ledger.balance + n
      /\ ledger'.withdrawn = ledger.withdrawn + w
  <2>1. ledger.withdrawn \in Nat
    BY DEF TypeInv, ServerTyped
  <2>2. wallet' = wallet /\ slips' = slips
    BY DEF Record
  <2>3. ledger'.balance = ledger.balance + n
    BY Records
  <2>4. ledger'.withdrawn = ledger.withdrawn + w
    BY <2>1, Records
  <2> QED BY <2>2, <2>3, <2>4
<1> HIDE DEF n, w
<1>7. /\ Sum(Held', Slots) = Sum(Held, Slots) - n + 0
      /\ Sum(Taken', Slots) = Sum(Taken, Slots) - w + 0
  BY <1>3, <1>4, SumsMove
<1>8. Sum(Held, Slots) \in Int /\ Sum(Taken, Slots) \in Int
  BY HeldTyped
<1>9. /\ wallet.available \in Nat /\ wallet.withdrawn \in Nat
      /\ ledger.balance \in Int /\ ledger.withdrawn \in Nat
  BY DEF TypeInv, ServerTyped
<1>10. CASE slips = NoSlips
  <2>1. /\ wallet.available = ledger.balance + Sum(Held, Slots)
        /\ wallet.withdrawn = ledger.withdrawn + Sum(Taken, Slots)
    BY <1>10 DEF MoneyInv
  <2>2. /\ wallet'.available = ledger'.balance + Sum(Held', Slots)
        /\ wallet'.withdrawn = ledger'.withdrawn + Sum(Taken', Slots)
    BY <1>5, <1>6, <1>7, <1>8, <1>9, <2>1
  <2> QED BY <2>2 DEF MoneyInv
<1>11. CASE slips # NoSlips
  BY <1>6, <1>11 DEF MoneyInv, NoSlips
<1> QED BY <1>10, <1>11

\* A withdrawal is written back over the wallet as it was read.
LEMMA MoneyWritten ==
  ASSUME TypeInv, TypeInv', MoneyInv, Heard, NEW s \in Slots, WriteBack(s), ~Refused(s)
  PROVE  MoneyInv'
<1> DEFINE a == request[s].amount
           r == [request[s] EXCEPT !.phase = "written", !.read = Nothing]
<1>1. request[s] \in Request /\ request \in Requests /\ request[s].kind = "withdraw" /\ ~Inside(s)
  BY DEF WriteBack, At, Inside, TypeInv, Requests, Free
<1>2. /\ request' = [request EXCEPT ![s].phase = "written", ![s].read = Nothing]
      /\ wallet'.available = request[s].read.available - a
      /\ wallet'.withdrawn = request[s].read.withdrawn + a
      /\ slips' = [slips EXCEPT !.overwritten = @ \/ request[s].read # wallet]
      /\ ledger' = ledger
  BY DEF WriteBack
<1>3. r \in Request /\ r.kind = "withdraw" /\ r.phase = "written" /\ r.amount = a
  BY <1>1 DEF Request, Nothing
<1>4. request'[s] = r /\ Others(s)
  BY <1>1, <1>2 DEF Requests, Others
<1>5. Inside(s)' /\ Moved(request'[s]) = -a /\ request'[s].kind = "withdraw" /\ request'[s].amount = a
  <2> HIDE DEF r
  <2> QED BY <1>3, <1>4, NoRequestAssumption DEF Inside, Free, Moved
<1>6. a \in Nat
  BY <1>1, MovedTyped
<1>7. \A u \in Slots : u # s => Steady(u)
  BY <1>4 DEF Others, Steady, Inside, Free
<1>8. CASE request[s].read # wallet
  <2>1. slips \in Slips
    BY DEF TypeInv, ServerTyped
  <2>2. slips' # NoSlips
    BY <1>2, <1>8, <2>1 DEF Slips, NoSlips
  <2> QED BY <2>2 DEF MoneyInv, NoSlips
<1>9. CASE request[s].read = wallet
  <2>1. slips' = slips
    <3>1. slips \in Slips
      BY DEF TypeInv, ServerTyped
    <3> QED BY <1>2, <1>9, <3>1 DEF Slips
  <2>2. wallet.available \in Nat /\ wallet.withdrawn \in Nat
    BY DEF TypeInv, ServerTyped
  <2> HIDE DEF a, r
  <2>3. wallet'.available = wallet.available + (-a) /\ wallet'.withdrawn = wallet.withdrawn + a
    BY <1>2, <1>6, <1>9, <2>2
  <2>4. -a \in Int /\ a \in Int
    BY <1>6
  <2>5. a = IF request'[s].kind = "withdraw" THEN request'[s].amount ELSE 0
    BY <1>5
  <2>6. ledger' = ledger /\ ~Inside(s) /\ Inside(s)' /\ Moved(request'[s]) = -a
    BY <1>1, <1>2, <1>5
  <2> QED BY <1>7, <2>1, <2>3, <2>4, <2>5, <2>6, MoneyMoves
<1> QED BY <1>8, <1>9

\* Money moved in one statement.
LEMMA MoneyServed ==
  ASSUME TypeInv, TypeInv', MoneyInv, Heard, NEW s \in Slots, Serve(s), ~Inside(s), ~Free(s),
         NEW n \in Int, wallet.available + n >= 0, Move(s, n), ledger' = ledger, slips' = slips,
         request[s].kind # "withdraw", Moved(request[s]) = n
  PROVE  MoneyInv'
<1>1. wallet'.available = wallet.available + n /\ wallet'.withdrawn = wallet.withdrawn
  BY Moves
<1>2. wallet.withdrawn \in Nat
  BY DEF TypeInv, ServerTyped
<1>3. Others(s) /\ Same(s) /\ request'[s].phase = "written"
  BY AnsweredSlot DEF Move, Phases
<1>4. Inside(s)' /\ Moved(request'[s]) = n /\ request'[s].kind # "withdraw"
  BY <1>3 DEF Same, Inside, Free, Moved
<1>5. \A u \in Slots : u # s => Steady(u)
  BY <1>3 DEF Others, Steady, Inside, Free
<1>6. wallet'.withdrawn = wallet.withdrawn + 0
  BY <1>1, <1>2
<1> QED BY <1>1, <1>4, <1>5, <1>6, MoneyMoves

LEMMA MoneyStep == TypeInv /\ Heard /\ MoneyInv /\ [Next]_vars => MoneyInv'
<1> SUFFICES ASSUME TypeInv, Heard, MoneyInv, [Next]_vars PROVE MoneyInv'
  OBVIOUS
<1>1. /\ TypeInv' /\ Reward \in Nat /\ request \in Requests
      /\ wallet.available \in Nat /\ wallet.withdrawn \in Nat
      /\ ledger.balance \in Int /\ ledger.withdrawn \in Nat
  BY TypedStep, MoneyPagesAssumption DEF TypeInv, ServerTyped
<1>2. ASSUME UNCHANGED <<wallet, ledger, slips>>, \A u \in Slots : Steady(u) PROVE MoneyInv'
  BY <1>1, <1>2, MoneyKept
<1>3. CASE Browse \/ \E s \in Slots : User(s) \/ Deliver(s) \/ Lost(s) \/ GiveUp(s)
  <2>1. UNCHANGED server
    BY <1>3 DEF Browse, Visit, openWithdrawModal, handleWithdrawNext, CloseModal, Back, TypeAmount,
       AnotherDeposit, ToggleCancel, User, handleWithdrawConfirm, RetryWallet, handleSubmit,
       handleCancel, Turn, Deliver, Withdrawn, loadWallet, loadTransactions, Submitted,
       TasksFetched, Cancelled, Lost, GiveUp
  <2>2. \A u \in Slots : Steady(u)
    BY <1>3, PagesSteady
  <2> QED BY <1>2, <2>1, <2>2 DEF server
<1>4. ASSUME UNCHANGED request PROVE \A u \in Slots : Steady(u)
  BY <1>4 DEF Steady, Inside, Free
<1>5. CASE (\E k \in Tasks : ReleaseEscrow(k)) \/ UNCHANGED vars
  BY <1>2, <1>4, <1>5 DEF ReleaseEscrow, vars
<1>6. CASE CreditChunk
  BY <1>1, <1>4, <1>6, ChunkPaid, MoneyKept DEF CreditChunk
<1>7. ASSUME NEW s \in Slots, CreditTask(s) PROVE MoneyInv'
  <2>1. \A u \in Slots : u # s => Steady(u)
    BY <1>7, CreditSlot DEF Steady, Inside, Free
  <2>2. ~Inside(s) /\ Inside(s)' /\ Moved(request'[s]) = Reward /\ request'[s].kind # "withdraw"
    BY <1>7, CreditSlot DEF Inside, Free, Moved
  <2>3. /\ wallet'.available = wallet.available + Reward
        /\ wallet'.withdrawn = wallet.withdrawn + 0
    BY <1>1, <1>7, CreditSlot
  <2>4. slips' = slips /\ ledger' = ledger
    BY <1>7 DEF CreditTask
  <2> QED BY <1>1, <2>1, <2>2, <2>3, <2>4, MoneyMoves
<1>8. ASSUME NEW s \in Slots, Serve(s) PROVE MoneyInv'
  <2>1. Others(s) /\ ~Free(s) /\ (request'[s] = NoRequest \/ Same(s)) /\ request[s] \in Request
    BY <1>1, <1>8, ServeSlot DEF Requests, Free
  <2>2. ASSUME UNCHANGED <<wallet, ledger, slips>>, ~Inside(s), ~Inside(s)' PROVE MoneyInv'
    BY <1>2, <1>8, <2>2, ServeSteady
  <2>3. ASSUME Refused(s), request[s].kind \notin Queries PROVE ~Inside(s)'
    BY <2>3, OthersKept DEF Refused, Queries, Inside, Free
  <2>4. ASSUME NEW phase \in Phases \ {"written"}, request' = [request EXCEPT ![s].phase = phase]
        PROVE  ~Inside(s)'
    BY <2>1, <2>4, AnsweredSlot DEF Inside
  <2>5. CASE ServeQuery(s)
    BY <2>2, <2>5, QuerySlot DEF Inside, server
  <2>6. CASE CheckWithdrawal(s) \/ CheckBalance(s)
    <3>1. ~Inside(s) /\ UNCHANGED <<wallet, ledger, slips>> /\ request[s].kind \notin Queries
      BY <2>6 DEF CheckWithdrawal, CheckBalance, At, Inside, server, Queries
    <3>2. ~Inside(s)'
      BY <2>3, <2>4, <2>6, <3>1 DEF CheckWithdrawal, CheckBalance, Phases, Before
    <3> QED BY <2>2, <3>1, <3>2
  <2>7. CASE ReadWallet(s)
    <3>1. request'[s] = [request[s] EXCEPT !.phase = "read", !.read = wallet]
      BY <1>1, <2>7 DEF ReadWallet, Requests
    <3>2. request'[s].phase = "read"
      BY <2>1, <3>1 DEF Request
    <3> QED BY <2>2, <2>7, <3>2 DEF ReadWallet, At, Inside, server
  <2>8. CASE WriteBack(s)
    <3>1. CASE Refused(s)
      <4>1. request[s].kind \notin Queries /\ ~Inside(s)
        BY <2>8 DEF WriteBack, At, Queries, Inside
      <4>2. ~Inside(s)'
        BY <2>3, <3>1, <4>1
      <4>3. UNCHANGED <<wallet, ledger, slips>>
        <5>1. request'[s] = NoRequest
          BY <2>8, <3>1, OthersKept DEF Refused, WriteBack, At
        <5>2. request' # [request EXCEPT ![s].phase = "written", ![s].read = Nothing]
          <6>1. [request[s] EXCEPT !.phase = "written", !.read = Nothing] \in Request
            BY <2>1 DEF Request, Nothing
          <6>2. [request EXCEPT ![s].phase = "written", ![s].read = Nothing][s]
                  = [request[s] EXCEPT !.phase = "written", !.read = Nothing]
            BY <1>1 DEF Requests
          <6> QED BY <5>1, <6>1, <6>2, NoRequestAssumption
        <5> QED BY <2>8, <5>2 DEF WriteBack, server
      <4> QED BY <2>2, <4>1, <4>2, <4>3
    <3>2. CASE ~Refused(s)
      BY <1>1, <2>8, <3>2, MoneyWritten
    <3> QED BY <3>1, <3>2
  <2>9. CASE Deposit(s)
    <3>1. /\ ~Inside(s) /\ Move(s, Reward) /\ ledger' = ledger /\ slips' = slips
          /\ request[s].kind # "withdraw" /\ Moved(request[s]) = Reward
      BY <2>9 DEF Deposit, At, Inside, Moved
    <3>2. Reward \in Int /\ wallet.available + Reward >= 0
      BY <1>1
    <3> QED BY <1>1, <1>8, <2>1, <3>1, <3>2, MoneyServed
  <2>10. ASSUME NEW k \in Tasks, InsertTask(s, k) PROVE MoneyInv'
    <3>1. request'[s] = [request[s] EXCEPT !.phase = "inserted", !.on = k]
      BY <1>1, <2>10 DEF InsertTask, Requests
    <3>2. request'[s].phase = "inserted"
      BY <2>1, <3>1 DEF Request
    <3> QED BY <2>2, <2>10, <3>2 DEF InsertTask, At, Inside
  <2>11. CASE HoldEscrow(s)
    <3>1. CASE wallet.available < Reward
      BY <2>2, <2>4, <2>11, <3>1 DEF HoldEscrow, At, Inside, Phases, Before
    <3>2. CASE ~(wallet.available < Reward)
      <4>1. /\ ~Inside(s) /\ Move(s, -Reward) /\ ledger' = ledger /\ slips' = slips
            /\ request[s].kind # "withdraw" /\ Moved(request[s]) = -Reward
        BY <2>11, <3>2 DEF HoldEscrow, At, Inside, Moved
      <4>2. -Reward \in Int /\ wallet.available + (-Reward) >= 0
        BY <1>1, <3>2
      <4> QED BY <1>1, <1>8, <2>1, <4>1, <4>2, MoneyServed
    <3> QED BY <3>1, <3>2
  <2>12. CASE DeleteTask(s)
    <3>1. UNCHANGED <<wallet, ledger, slips>> /\ ~Inside(s) /\ ~Inside(s)'
      BY <2>3, <2>12 DEF DeleteTask, At, Inside, Queries
    <3> QED BY <2>2, <3>1
  <2>13. CASE CancelTask(s)
    <3>1. UNCHANGED <<wallet, ledger, slips>> /\ ~Inside(s) /\ request[s].kind \notin Queries
      BY <2>13 DEF CancelTask, At, Inside, Queries, server
    <3>2. ~Inside(s)'
      BY <2>3, <2>4, <2>13, <3>1 DEF CancelTask, Phases, Before
    <3> QED BY <2>2, <3>1, <3>2
  <2>14. CASE RefundEscrow(s)
    <3>1. CASE escrow[request[s].on] = "activo"
      <4>1. /\ ~Inside(s) /\ Move(s, Reward) /\ ledger' = ledger /\ slips' = slips
            /\ request[s].kind # "withdraw" /\ Moved(request[s]) = Reward
        BY <2>14, <3>1 DEF RefundEscrow, At, Inside, Moved
      <4>2. Reward \in Int /\ wallet.available + Reward >= 0
        BY <1>1
      <4> QED BY <1>1, <1>8, <2>1, <4>1, <4>2, MoneyServed
    <3>2. CASE escrow[request[s].on] # "activo"
      <4>1. request' = Answered(s) /\ UNCHANGED <<wallet, ledger, slips>> /\ ~Inside(s)
        BY <2>14, <3>2 DEF RefundEscrow, At, Inside
      <4>2. ~Inside(s)'
        BY <2>1, <4>1, AnsweredSlot DEF Inside, Free
      <4> QED BY <2>2, <4>1, <4>2
    <3> QED BY <3>1, <3>2
  <2>15. CASE Record(s)
    BY <1>1, <2>15, MoneyRecorded
  <2>16. CASE RecordFails(s)
    <3>1. slips' = [slips EXCEPT !.unrecorded = slips.unrecorded + 1] /\ slips \in Slips
      BY <2>16 DEF RecordFails, TypeInv, ServerTyped
    <3>2. slips.unrecorded \in Nat /\ slips'.unrecorded = slips.unrecorded + 1
      BY <3>1 DEF Slips
    <3>3. slips' # NoSlips
      BY <3>2 DEF NoSlips
    <3> QED BY <3>3 DEF MoneyInv, NoSlips
  <2>17. CASE HandlerFails(s)
    <3>1. UNCHANGED <<wallet, ledger, slips>> /\ ~Inside(s) /\ request[s].kind \notin Queries
      BY <2>17 DEF HandlerFails, Before, Inside, server, Heard
    <3>2. ~Inside(s)'
      BY <2>3, <2>17, <3>1 DEF HandlerFails
    <3> QED BY <2>2, <3>1, <3>2
  <2> QED BY <1>8, <2>5, <2>6, <2>7, <2>8, <2>9, <2>10, <2>11, <2>12, <2>13, <2>14, <2>15, <2>16, <2>17
          DEF Serve
<1> QED BY <1>3, <1>5, <1>6, <1>7, <1>8 DEF Next

\* MapThenSumSet over the movements in hand is the sum of what is held ...
LEMMA PendingAddsUp == TypeInv => Pending = Sum(Held, Slots)
<1> SUFFICES ASSUME TypeInv PROVE Pending = Sum(Held, Slots)
  OBVIOUS
<1>1. IsFiniteSet(Slots) /\ IsFiniteSet(InHand) /\ InHand \subseteq Slots
  BY MoneyPagesAssumption, FS_Subset DEF InHand
<1> DEFINE F(j) == [s \in SUBSET InHand |-> IF s = {} THEN 0
                                            ELSE Moved(request[Pick(s)]) + j[s \ {Pick(s)}]]
<1>2. PICK h : Adds(h, Held, SUBSET InHand)
  BY <1>1, AddsExists
<1>3. \A s \in SUBSET InHand : s # {} => Held[Pick(s)] = Moved(request[Pick(s)])
  BY Picked DEF Held, InHand, Inside
<1>4. \A j : Adds(j, Held, SUBSET InHand) <=> j = F(j)
  BY <1>3 DEF Adds
<1>5. \E j : j = F(j)
  BY <1>2, <1>4
<1>6. \A j : j = F(j) => Sum(Held, InHand) = j[InHand]
  <2>1. ASSUME NEW j, Adds(j, Held, SUBSET InHand) PROVE Sum(Held, InHand) = j[InHand]
    BY <1>1, <2>1, SumPart
  <2> QED BY <1>4, <2>1
<1>7. Pending = Sum(Held, InHand)
  BY <1>5, <1>6 DEF Pending, MapThenSumSet, MapThenFoldSet, Pick
<1>8. \A s \in Slots \ InHand : Held[s] = 0
  BY DEF Held, InHand, Inside
<1>9. \A s \in InHand : Held[s] \in Int
  BY <1>1, HeldTyped
<1>10. Sum(Held, Slots) = Sum(Held, InHand)
  BY <1>1, <1>8, <1>9, SumSupport
<1> QED BY <1>7, <1>10

\* ... and over the withdrawals among them, of what has been withdrawn.
LEMMA WithdrawnAddsUp == TypeInv => PendingWithdrawn = Sum(Taken, Slots)
<1> SUFFICES ASSUME TypeInv PROVE PendingWithdrawn = Sum(Taken, Slots)
  OBVIOUS
<1> DEFINE Some == {s \in InHand : request[s].kind = "withdraw"}
<1>1. IsFiniteSet(Slots) /\ IsFiniteSet(Some) /\ Some \subseteq Slots
  BY MoneyPagesAssumption, FS_Subset DEF InHand
<1> DEFINE F(j) == [s \in SUBSET Some |-> IF s = {} THEN 0
                                          ELSE request[Pick(s)].amount + j[s \ {Pick(s)}]]
<1>2. PICK h : Adds(h, Taken, SUBSET Some)
  BY <1>1, AddsExists
<1>3. \A s \in SUBSET Some : s # {} => Taken[Pick(s)] = request[Pick(s)].amount
  BY Picked DEF Taken, InHand, Inside
<1>4. \A j : Adds(j, Taken, SUBSET Some) <=> j = F(j)
  BY <1>3 DEF Adds
<1>5. \E j : j = F(j)
  BY <1>2, <1>4
<1>6. \A j : j = F(j) => Sum(Taken, Some) = j[Some]
  <2>1. ASSUME NEW j, Adds(j, Taken, SUBSET Some) PROVE Sum(Taken, Some) = j[Some]
    BY <1>1, <2>1, SumPart
  <2> QED BY <1>4, <2>1
<1>7. PendingWithdrawn = Sum(Taken, Some)
  BY <1>5, <1>6 DEF PendingWithdrawn, MapThenSumSet, MapThenFoldSet, Pick
<1>8. \A s \in Slots \ Some : Taken[s] = 0
  BY DEF Taken, InHand, Inside
<1>9. \A s \in Some : Taken[s] \in Int
  BY <1>1, HeldTyped
<1>10. Sum(Taken, Slots) = Sum(Taken, Some)
  BY <1>1, <1>8, <1>9, SumSupport
<1> QED BY <1>7, <1>10

\* MoneyAddsUp: over the separate calls of every handler that moves money, the balance is
\* what the transactions and the movements in hand add up to, and the total withdrawn that
\* of the withdrawals, unless a withdrawal has written over another movement or a movement
\* has been left unrecorded (wallet_service.py:78, client_service.py:26, 95 and 162,
\* task_lifecycle.py:144).
THEOREM BalancesAddUp == Spec => []MoneyAddsUp
<1>1. Init => TypeInv /\ MoneyInv
  <2> SUFFICES ASSUME Init PROVE TypeInv /\ MoneyInv
    OBVIOUS
  <2>1. \A s \in Slots : Held[s] = 0 /\ Taken[s] = 0
    BY DEF Init, Held, Taken, Inside, Free
  <2>2. Sum(Held, Slots) = 0 /\ Sum(Taken, Slots) = 0
    BY <2>1, SumZero, MoneyPagesAssumption
  <2>3. Opening \in Nat
    BY MoneyPagesAssumption
  <2> QED BY <2>2, <2>3, TypedInit DEF Init, MoneyInv
<1>2. PageInv /\ MoneyInv /\ [Next]_vars => MoneyInv'
  BY MoneyStep DEF PageInv
<1>3. PageInv /\ MoneyInv => MoneyAddsUp
  BY PendingAddsUp, WithdrawnAddsUp DEF MoneyInv, MoneyAddsUp, PageInv
<1> QED BY <1>1, <1>2, <1>3, PagesKeep, PTL DEF Spec

=============================================================================
