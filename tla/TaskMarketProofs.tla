-------------------------- MODULE TaskMarketProofs --------------------------
(***************************************************************************)
(* Proofs about TaskMarket.                                                *)
(*                                                                         *)
(* Whatever requests interleave and fail: slots are never oversold, no     *)
(* balance becomes negative, the pending balance of a client is what its   *)
(* open escrows have not released, and no escrow releases what no provider *)
(* was credited.  When a provider makes one request at a time: it is paid  *)
(* at most once for a task, and outcomes are final.  In orderly            *)
(* behaviours: the escrow of a task covers the work accepted on it, and    *)
(* money is conserved.                                                     *)
(***************************************************************************)
EXTENDS TaskMarket, SumProofs

(* The types of what decides about slots, assignments and payments. *)
RowTypes ==
  /\ task \in [Tasks -> TaskRow]
  /\ assignment \in [Tasks -> [Providers -> AssignmentStatus]]
  /\ completed \in [Providers -> Nat]
  /\ paid \in [Tasks -> [Providers -> Nat]]
  /\ thread \in [Threads -> Handler]

(* A handler that is not idle is about a task; one of a provider has that provider. *)
OfProvider == {"slots", "take", "assign", "start", "complete", "credit", "release",
               "profile", "stats", "delta", "fail", "faildelta"}
Addressed ==
  \A t \in Threads :
    /\ thread[t].pc # "idle" => thread[t].on \in Tasks
    /\ thread[t].pc \in OfProvider => thread[t].who \in Providers
    /\ thread[t].pc = "take" => thread[t].read > 0
    /\ thread[t].pc = "insert" => thread[t].on \in Owned

Typed == RowTypes /\ Addressed

-----------------------------------------------------------------------------
(* Types. *)

LEMMA TypedInit == Init => Typed
<1> SUFFICES ASSUME Init PROVE Typed
  OBVIOUS
<1>1. Idle \in Handler
  BY DEF Idle, Handler
<1>2. task \in [Tasks -> TaskRow]
  <2>1. [status |-> "absent", slots |-> 0] \in TaskRow
    BY DEF TaskRow
  <2>2. \A k \in Tasks : [status |-> "disponible", slots |-> Slots[k]] \in TaskRow
    BY MarketAssumption DEF TaskRow
  <2> QED BY <2>1, <2>2 DEF Init
<1>3. assignment \in [Tasks -> [Providers -> AssignmentStatus]]
  BY DEF Init, AssignmentStatus
<1>4. completed \in [Providers -> Nat] /\ paid \in [Tasks -> [Providers -> Nat]]
  BY DEF Init
<1>5. thread \in [Threads -> Handler]
  BY <1>1 DEF Init
<1>6. Addressed
  BY DEF Init, Addressed, Idle, OfProvider
<1> QED BY <1>2, <1>3, <1>4, <1>5, <1>6 DEF Typed, RowTypes

(* Stepping one handler keeps handlers typed. *)
LEMMA BeginTyped ==
  ASSUME Typed, NEW t \in Threads, NEW a \in Accounts, NEW k \in Tasks,
         NEW pc \in {"slots", "start", "complete", "fail", "insert", "refund"},
         Begin(t, pc, a, k),
         pc \in OfProvider => a \in Providers, pc = "insert" => k \in Owned
  PROVE  thread' \in [Threads -> Handler] /\ Addressed'
<1>1. [pc |-> pc, who |-> a, on |-> k, read |-> 0] \in Handler
  BY DEF Handler
<1>2. thread' \in [Threads -> Handler]
  BY <1>1 DEF Begin, Typed, RowTypes
<1>3. \A u \in Threads : u # t => thread'[u] = thread[u]
  BY DEF Begin, Typed, RowTypes
<1>4. thread'[t] = [pc |-> pc, who |-> a, on |-> k, read |-> 0]
  BY DEF Begin, Typed, RowTypes
<1>5. Addressed'
  BY <1>3, <1>4 DEF Addressed, Typed, OfProvider
<1> QED BY <1>2, <1>5

LEMMA GotoTyped ==
  ASSUME Typed, NEW t \in Threads, thread[t].pc # "idle",
         NEW pc \in {"slots", "take", "assign", "start", "complete", "credit", "release",
                     "profile", "stats", "delta", "fail", "faildelta", "hold", "delete",
                     "refund"},
         NEW n \in Nat,
         thread' = [thread EXCEPT ![t].pc = pc, ![t].read = n],
         pc \in OfProvider => thread[t].pc \in OfProvider, pc = "take" => n > 0
  PROVE  thread' \in [Threads -> Handler] /\ Addressed'
<1>1. thread' \in [Threads -> Handler]
  BY DEF Typed, RowTypes, Handler
<1>2. \A u \in Threads : u # t => thread'[u] = thread[u]
  BY DEF Typed, RowTypes
<1>3. /\ thread'[t].pc = pc /\ thread'[t].read = n
      /\ thread'[t].who = thread[t].who /\ thread'[t].on = thread[t].on
  BY DEF Typed, RowTypes, Handler
<1>4. Addressed'
  BY <1>2, <1>3 DEF Addressed, Typed
<1> QED BY <1>1, <1>4

LEMMA ReplyTyped ==
  ASSUME Typed, NEW t \in Threads, Reply(t)
  PROVE  thread' \in [Threads -> Handler] /\ Addressed'
<1>1. Idle \in Handler
  BY DEF Idle, Handler
<1>2. thread' \in [Threads -> Handler] /\ thread'[t] = Idle
  BY <1>1 DEF Reply, Typed, RowTypes
<1>3. \A u \in Threads : u # t => thread'[u] = thread[u]
  BY DEF Reply, Typed, RowTypes
<1>4. Addressed'
  BY <1>2, <1>3 DEF Addressed, Typed, Idle, OfProvider
<1> QED BY <1>2, <1>4

LEMMA GotoPcTyped ==
  ASSUME Typed, NEW t \in Threads, thread[t].pc # "idle",
         NEW pc \in {"assign", "credit", "release", "profile", "delta", "faildelta", "hold",
                     "delete"},
         Goto(t, pc), pc \in OfProvider => thread[t].pc \in OfProvider
  PROVE  thread' \in [Threads -> Handler] /\ Addressed'
<1>1. thread' \in [Threads -> Handler]
  BY DEF Goto, Typed, RowTypes, Handler
<1>2. \A u \in Threads : u # t => thread'[u] = thread[u]
  BY DEF Goto, Typed, RowTypes
<1>3. thread'[t].pc = pc /\ thread'[t].who = thread[t].who /\ thread'[t].on = thread[t].on
  BY DEF Goto, Typed, RowTypes, Handler
<1>4. Addressed'
  BY <1>2, <1>3 DEF Addressed, Typed
<1> QED BY <1>1, <1>4

LEMMA StatusTyped ==
  ASSUME Typed, NEW t \in Threads, thread[t].pc \in OfProvider,
         NEW status \in AssignmentStatus, WriteStatus(t, status)
  PROVE  assignment' \in [Tasks -> [Providers -> AssignmentStatus]]
<1>1. thread[t].on \in Tasks /\ thread[t].who \in Providers
  BY DEF Typed, Addressed, OfProvider
<1> QED BY <1>1 DEF WriteStatus, Typed, RowTypes

LEMMA RequestTyped ==
  ASSUME Typed, NEW t \in Threads, Request(t) \/ Publishes(t)
  PROVE  Typed'
<1>1. Providers \subseteq Accounts
  BY MarketAssumption
<1>2. CASE \E p \in Providers, k \in Tasks : AcceptCheck(t, p, k) \/ Work(t, p, k)
  <2>1. PICK p \in Providers, k \in Tasks : AcceptCheck(t, p, k) \/ Work(t, p, k)
    BY <1>2
  <2>2. thread' \in [Threads -> Handler] /\ Addressed'
    BY <1>1, <2>1, BeginTyped DEF AcceptCheck, Work, StartCheck, CompleteCheck, FailCheck
  <2> QED BY <2>1, <2>2 DEF AcceptCheck, Work, StartCheck, CompleteCheck, FailCheck, Typed,
            RowTypes, money
<1>3. \A k \in Owned : k \in Tasks /\ OwnerOf[k] \in Accounts
  BY MarketAssumption DEF Owned, Seeded
<1>4. CASE \E k \in Owned : CancelTask(t, k)
  <2>1. PICK k \in Owned : CancelTask(t, k)
    BY <1>4
  <2>2. thread' \in [Threads -> Handler] /\ Addressed'
    BY <1>3, <2>1, BeginTyped DEF CancelTask, OfProvider
  <2>3. task' \in [Tasks -> TaskRow]
    BY <1>3, <2>1 DEF CancelTask, Typed, RowTypes, TaskRow
  <2> QED BY <2>1, <2>2, <2>3 DEF CancelTask, Typed, RowTypes, money
<1>5. CASE Publishes(t)
  <2>1. PICK k \in Owned : PublishCheck(t, k)
    BY <1>5 DEF Publishes
  <2>2. thread' \in [Threads -> Handler] /\ Addressed'
    BY <1>3, <2>1, BeginTyped DEF PublishCheck, OfProvider
  <2> QED BY <2>1, <2>2 DEF PublishCheck, Typed, RowTypes, money
<1> QED BY <1>2, <1>4, <1>5 DEF Request

LEMMA AcceptTyped ==
  ASSUME Typed, NEW t \in Threads, ReadSlots(t) \/ TakeSlot(t) \/ CreateAssignment(t)
  PROVE  Typed'
<1>1. thread[t].pc \in {"slots", "take", "assign"}
  BY DEF ReadSlots, TakeSlot, CreateAssignment
<1>2. thread[t].on \in Tasks /\ thread[t].who \in Providers
  BY <1>1 DEF Typed, Addressed, OfProvider
<1>3. thread' \in [Threads -> Handler] /\ Addressed'
  <2>1. CASE Reply(t)
    BY <2>1, ReplyTyped
  <2>2. CASE Goto(t, "assign")
    BY <1>1, <2>2, GotoPcTyped DEF OfProvider
  <2>3. CASE /\ task[thread[t].on].slots > 0
             /\ thread' = [thread EXCEPT ![t].pc = "take",
                                         ![t].read = task[thread[t].on].slots]
    <3>1. task[thread[t].on].slots \in Nat
      BY <1>2 DEF Typed, RowTypes, TaskRow
    <3> QED BY <1>1, <2>3, <3>1, GotoTyped DEF OfProvider
  <2> QED BY <2>1, <2>2, <2>3 DEF ReadSlots, TakeSlot, CreateAssignment
<1>4. CASE ReadSlots(t)
  BY <1>3, <1>4 DEF ReadSlots, Typed, RowTypes, money
<1>5. CASE TakeSlot(t)
  <2>1. thread[t].read - 1 \in Nat
    BY <1>5 DEF TakeSlot, Typed, Addressed, RowTypes, Handler
  <2>2. task' \in [Tasks -> TaskRow]
    BY <1>2, <1>5, <2>1 DEF TakeSlot, Typed, RowTypes, TaskRow
  <2> QED BY <1>3, <1>5, <2>2 DEF TakeSlot, Typed, RowTypes, money
<1>6. CASE CreateAssignment(t)
  <2>1. assignment' \in [Tasks -> [Providers -> AssignmentStatus]]
    BY <1>2, <1>6 DEF CreateAssignment, Typed, RowTypes, AssignmentStatus
  <2> QED BY <1>3, <1>6, <2>1 DEF CreateAssignment, Typed, RowTypes, money
<1> QED BY <1>4, <1>5, <1>6

LEMMA WorkTyped ==
  ASSUME Typed, NEW t \in Threads,
         \/ Start(t) \/ Complete(t) \/ Credit(t) \/ Release(t)
         \/ ReadProfile(t) \/ WriteStats(t) \/ WriteDelta(t) \/ Fail(t) \/ FailDelta(t)
  PROVE  Typed'
<1>1. thread[t].pc \in OfProvider /\ thread[t].pc # "idle"
  BY DEF Start, Complete, Credit, Release, ReadProfile, WriteStats, WriteDelta, Fail,
         FailDelta, OfProvider
<1>2. thread[t].on \in Tasks /\ thread[t].who \in Providers
  BY <1>1 DEF Typed, Addressed
<1>3. thread' \in [Threads -> Handler] /\ Addressed'
  <2>1. CASE Reply(t)
    BY <2>1, ReplyTyped
  <2>2. CASE \/ Goto(t, "credit") \/ Goto(t, "profile") \/ Goto(t, "release")
             \/ Goto(t, "delta") \/ Goto(t, "faildelta")
    BY <1>1, <2>2, GotoPcTyped
  <2>3. CASE thread' = [thread EXCEPT ![t].pc = "stats",
                                      ![t].read = completed[thread[t].who]]
    <3>1. completed[thread[t].who] \in Nat
      BY <1>2 DEF Typed, RowTypes
    <3> QED BY <1>1, <2>3, <3>1, GotoTyped
  <2> QED BY <2>1, <2>2, <2>3 DEF Start, Complete, Credit, Release, ReadProfile, WriteStats,
            WriteDelta, Fail, FailDelta
<1>4. CASE Start(t) \/ Complete(t) \/ WriteDelta(t) \/ Fail(t) \/ FailDelta(t)
  <2>1. assignment' \in [Tasks -> [Providers -> AssignmentStatus]]
    BY <1>1, <1>4, StatusTyped DEF Start, Complete, WriteDelta, Fail, FailDelta,
       AssignmentStatus
  <2> QED BY <1>3, <1>4, <2>1 DEF Start, Complete, WriteDelta, Fail, FailDelta, Typed,
            RowTypes, money
<1>5. CASE Credit(t)
  <2>1. paid' \in [Tasks -> [Providers -> Nat]]
    BY <1>2, <1>5 DEF Credit, Typed, RowTypes
  <2> QED BY <1>3, <1>5, <2>1 DEF Credit, Typed, RowTypes
<1>6. CASE Release(t) \/ ReadProfile(t)
  BY <1>3, <1>6 DEF Release, ReadProfile, Typed, RowTypes, money
<1>7. CASE WriteStats(t)
  <2>1. completed' \in [Providers -> Nat]
    BY <1>2, <1>7 DEF WriteStats, Typed, RowTypes, Handler
  <2> QED BY <1>3, <1>7, <2>1 DEF WriteStats, Typed, RowTypes, money
<1> QED BY <1>4, <1>5, <1>6, <1>7

LEMMA ClientTyped ==
  ASSUME Typed, NEW t \in Threads,
         InsertTask(t) \/ Hold(t) \/ DeleteTask(t) \/ Refund(t) \/ HandlerDies(t)
  PROVE  Typed'
<1>1. thread[t].pc # "idle"
  BY DEF InsertTask, Hold, DeleteTask, Refund, HandlerDies
<1>2. thread[t].on \in Tasks
  BY <1>1 DEF Typed, Addressed
<1>3. thread' \in [Threads -> Handler] /\ Addressed'
  <2>1. CASE Reply(t)
    BY <2>1, ReplyTyped
  <2>2. CASE Goto(t, "hold") \/ Goto(t, "delete")
    BY <1>1, <2>2, GotoPcTyped DEF OfProvider
  <2> QED BY <2>1, <2>2 DEF InsertTask, Hold, DeleteTask, Refund, HandlerDies
<1>4. CASE InsertTask(t)
  <2>1. [status |-> "disponible", slots |-> Slots[thread[t].on]] \in TaskRow
    BY <1>2, MarketAssumption DEF TaskRow
  <2>2. task' \in [Tasks -> TaskRow]
    BY <1>2, <1>4, <2>1 DEF InsertTask, Typed, RowTypes
  <2> QED BY <1>3, <1>4, <2>2 DEF InsertTask, Typed, RowTypes, money
<1>5. CASE DeleteTask(t)
  <2>1. task' \in [Tasks -> TaskRow]
    BY <1>2, <1>5 DEF DeleteTask, Typed, RowTypes, TaskRow
  <2> QED BY <1>3, <1>5, <2>1 DEF DeleteTask, Typed, RowTypes, money
<1>6. CASE Hold(t) \/ Refund(t) \/ HandlerDies(t)
  BY <1>3, <1>6 DEF Hold, Refund, HandlerDies, Typed, RowTypes, money
<1> QED BY <1>4, <1>5, <1>6

LEMMA TypedStep == Typed /\ [Next]_vars => Typed'
<1> SUFFICES ASSUME Typed, [Next]_vars PROVE Typed'
  OBVIOUS
<1>1. CASE UNCHANGED vars
  BY <1>1 DEF vars, Typed, RowTypes, Addressed
<1>2. CASE Deposits
  BY <1>2 DEF Deposits, Deposit, Typed, RowTypes, Addressed
<1>3. CASE \E t \in Threads : Publishes(t) \/ Request(t) \/ Progress(t) \/ HandlerDies(t)
  BY <1>3, RequestTyped, AcceptTyped, WorkTyped, ClientTyped DEF Progress
<1> QED BY <1>1, <1>2, <1>3 DEF Next

THEOREM RowsTyped == Spec => []Typed
<1>1. Typed /\ [Next]_vars => Typed'
  BY TypedStep
<1> QED BY <1>1, TypedInit, PTL DEF Spec

-----------------------------------------------------------------------------
(* Slots.  A handler that has taken a slot and not yet made its assignment  *)
(* owns that slot: only with it does the count stay within total_slots.     *)

Assigning(k) == {t \in Threads : thread[t].pc = "assign" /\ thread[t].on = k}

Budget(k) ==
  Exists(k) => task[k].slots + Cardinality(Taken(k)) + Cardinality(Assigning(k)) <= Slots[k]

\* A task that is not in its table has no assignments, and only its publisher is about it.
Unborn ==
  \A k \in Tasks :
    task[k].status = "absent" =>
      /\ Taken(k) = {}
      /\ \A t \in Threads : thread[t].on = k => thread[t].pc = "insert"
Inserting ==
  \A t \in Threads :
    thread[t].pc = "insert" =>
      /\ task[thread[t].on].status = "absent"
      /\ \A u \in Threads : thread[u].on = thread[t].on => u = t

\* Whoever works on an assignment has one.
Working == OfProvider \ {"slots", "take", "assign"}
Assigned ==
  \A t \in Threads : thread[t].pc \in Working => thread[t].who \in Taken(thread[t].on)

SlotInv == Typed /\ Unborn /\ Inserting /\ Assigned /\ \A k \in Tasks : Budget(k)

LEMMA Finite ==
  \A k \in Tasks : /\ IsFiniteSet(Taken(k)) /\ Cardinality(Taken(k)) \in Nat
                   /\ IsFiniteSet(Assigning(k)) /\ Cardinality(Assigning(k)) \in Nat
<1>1. IsFiniteSet(Providers) /\ IsFiniteSet(Threads)
  BY MarketAssumption, FS_Subset
<1> QED BY <1>1, FS_Subset, FS_CardinalityType DEF Taken, Assigning

LEMMA SlotInit == Init => SlotInv
<1> SUFFICES ASSUME Init PROVE SlotInv
  OBVIOUS
<1>1. \A k \in Tasks : Taken(k) = {} /\ Assigning(k) = {}
  BY DEF Init, Taken, Assigning, Idle
<1>2. \A k \in Tasks : Exists(k) => task[k].slots = Slots[k]
  BY DEF Init, Exists
<1>3. \A k \in Tasks : Budget(k)
  BY <1>1, <1>2, FS_EmptySet, MarketAssumption DEF Budget
<1>4. Unborn /\ Inserting /\ Assigned
  BY <1>1, MarketAssumption DEF Init, Unborn, Inserting, Assigned, Working, OfProvider, Idle
<1> QED BY <1>3, <1>4, TypedInit DEF SlotInv

\* When nothing but the handlers changes and none takes a slot, budgets are kept.
LEMMA BudgetKept ==
  ASSUME SlotInv, NEW k \in Tasks, Budget(k),
         Exists(k)' => Exists(k) /\ task'[k].slots = task[k].slots,
         Taken(k)' = Taken(k), Assigning(k)' \subseteq Assigning(k)
  PROVE  Budget(k)'
<1>1. Cardinality(Assigning(k)') <= Cardinality(Assigning(k))
  BY Finite, FS_Subset
<1>2. Cardinality(Assigning(k)') \in Nat
  BY Finite, FS_Subset, FS_CardinalityType
<1>3. Exists(k) => task[k].slots \in Nat
  BY DEF SlotInv, Typed, RowTypes, TaskRow
<1>4. Slots[k] \in Nat
  BY MarketAssumption
<1> QED BY <1>1, <1>2, <1>3, <1>4, Finite DEF Budget

LEMMA TakeSlotBudget ==
  ASSUME SlotInv, NEW t \in Threads, TakeSlot(t), NEW k \in Tasks
  PROVE  Budget(k)'
<1>1. thread[t].on \in Tasks /\ thread[t].pc = "take" /\ thread \in [Threads -> Handler]
  BY DEF TakeSlot, SlotInv, Typed, Addressed, RowTypes
<1>2. Taken(k)' = Taken(k)
  BY DEF TakeSlot, Taken
<1>3. CASE SlotsUnchanged(t) /\ k = thread[t].on
  <2>1. Exists(k) /\ task[k].slots = thread[t].read
    BY <1>3 DEF SlotsUnchanged
  <2>2. task[k].slots \in Nat /\ task[k].slots > 0
    BY <1>1, <2>1 DEF SlotInv, Typed, RowTypes, TaskRow, Addressed
  <2>3. task'[k].slots = task[k].slots - 1
    <3>1. task' = [task EXCEPT ![k].slots = task[k].slots - 1]
      BY <1>3, <2>1 DEF TakeSlot
    <3> QED BY <3>1 DEF SlotInv, Typed, RowTypes, TaskRow
  <2>4. Assigning(k)' = Assigning(k) \cup {t} /\ t \notin Assigning(k)
    <3>1. thread' = [thread EXCEPT ![t].pc = "assign"]
      BY <1>3 DEF TakeSlot, Goto
    <3>2. thread'[t].pc = "assign" /\ thread'[t].on = k
      BY <1>1, <1>3, <3>1 DEF Handler
    <3>3. \A u \in Threads : u # t => thread'[u] = thread[u]
      BY <1>1, <3>1
    <3> QED BY <1>1, <3>2, <3>3 DEF Assigning
  <2>5. Cardinality(Assigning(k)') = Cardinality(Assigning(k)) + 1
    BY <2>4, Finite, FS_AddElement
  <2>6. Slots[k] \in Nat
    BY MarketAssumption
  <2>7. task[k].slots + Cardinality(Taken(k)) + Cardinality(Assigning(k)) <= Slots[k]
    BY <2>1 DEF SlotInv, Budget
  <2> QED BY <1>2, <2>2, <2>3, <2>5, <2>6, <2>7, Finite DEF Budget
<1>4. CASE ~(SlotsUnchanged(t) /\ k = thread[t].on)
  <2>1. task'[k] = task[k]
    BY <1>1, <1>4 DEF TakeSlot, SlotInv, Typed, RowTypes
  <2>2. \A u \in Threads : u # t => thread'[u] = thread[u]
    BY <1>1 DEF TakeSlot, Goto, Reply
  <2>3. thread'[t].pc = "assign" => thread'[t].on # k
    BY <1>1, <1>4 DEF TakeSlot, Goto, Reply, Idle, Handler
  <2>4. Assigning(k)' \subseteq Assigning(k)
    BY <2>2, <2>3 DEF Assigning
  <2> QED BY <1>2, <2>1, <2>4, BudgetKept DEF Exists, SlotInv
<1> QED BY <1>3, <1>4

LEMMA CreateBudget ==
  ASSUME SlotInv, NEW t \in Threads, CreateAssignment(t), NEW k \in Tasks
  PROVE  Budget(k)'
<1> DEFINE p == thread[t].who
<1>1. /\ thread[t].on \in Tasks /\ p \in Providers /\ thread[t].pc = "assign"
      /\ thread \in [Threads -> Handler]
      /\ assignment \in [Tasks -> [Providers -> AssignmentStatus]]
  BY DEF CreateAssignment, SlotInv, Typed, Addressed, RowTypes, OfProvider
<1>2. thread'[t] = Idle /\ \A u \in Threads : u # t => thread'[u] = thread[u]
  BY <1>1 DEF CreateAssignment, Reply
<1>3. Assigning(k)' = Assigning(k) \ {t}
  BY <1>2 DEF Assigning, Idle
<1>4. task' = task
  BY DEF CreateAssignment
<1>5. CASE Taken(k)' = Taken(k)
  BY <1>3, <1>4, <1>5, BudgetKept DEF Exists, SlotInv
<1>6. CASE Taken(k)' # Taken(k)
  <2>1. thread[t].on = k /\ assignment[k][p] = "none"
    BY <1>1, <1>6 DEF CreateAssignment, Taken
  <2>2. assignment' = [assignment EXCEPT ![k][p] = "aceptada"]
    BY <1>6, <2>1 DEF CreateAssignment, Taken
  <2>3. Taken(k)' = Taken(k) \cup {p} /\ p \notin Taken(k)
    BY <1>1, <2>1, <2>2 DEF Taken
  <2>4. Cardinality(Taken(k)') = Cardinality(Taken(k)) + 1
    BY <2>3, Finite, FS_AddElement
  <2>5. t \in Assigning(k)
    BY <1>1, <2>1 DEF Assigning
  <2>6. Cardinality(Assigning(k)') = Cardinality(Assigning(k)) - 1
    BY <1>3, <2>5, Finite, FS_RemoveElement
  <2>7. Exists(k) => task[k].slots \in Nat
    BY DEF SlotInv, Typed, RowTypes, TaskRow
  <2>8. Exists(k)' = Exists(k) /\ task'[k].slots = task[k].slots
    BY <1>4 DEF Exists
  <2>9. Budget(k) /\ Slots[k] \in Nat
    BY MarketAssumption DEF SlotInv
  <2> QED BY <2>4, <2>6, <2>7, <2>8, <2>9, Finite DEF Budget
<1> QED BY <1>5, <1>6

\* A handler other than t is where it was, and t may go on with the same task.
LEMMA BudgetsKept ==
  ASSUME SlotInv, NEW t \in Threads, \A u \in Threads : u # t => thread'[u] = thread[u],
         thread'[t].pc # "assign",
         \A k \in Tasks : /\ Exists(k)' => Exists(k) /\ task'[k].slots = task[k].slots
                          /\ Taken(k)' = Taken(k)
  PROVE  \A k \in Tasks : Budget(k)'
<1>1. \A k \in Tasks : Assigning(k)' \subseteq Assigning(k)
  BY DEF Assigning
<1> QED BY <1>1, BudgetKept DEF SlotInv

LEMMA SlotRequest ==
  ASSUME SlotInv, NEW t \in Threads, Request(t) \/ Publishes(t), Typed'
  PROVE  SlotInv'
<1>1. PICK a \in Accounts, k \in Tasks, pc \in {"slots", "start", "complete", "fail", "insert",
                                               "refund"} :
        /\ Begin(t, pc, a, k)
        /\ assignment' = assignment
        /\ pc # "refund" => task' = task
        /\ pc = "refund" => /\ task[k].status = "disponible"
                            /\ task' = [task EXCEPT ![k].status = "cancelada"]
        /\ pc \in {"start", "complete", "fail"} => a \in Taken(k)
        /\ pc = "slots" => Exists(k)
        /\ pc = "insert" => task[k].status = "absent" /\ \A u \in Threads : thread[u].on # k
  <2>1. Providers \subseteq Accounts
    BY MarketAssumption
  <2>2. \A k \in Owned : k \in Tasks /\ OwnerOf[k] \in Accounts
    BY MarketAssumption DEF Owned, Seeded
  <2>3. CASE \E p \in Providers, k \in Tasks : AcceptCheck(t, p, k)
    BY <2>1, <2>3 DEF AcceptCheck
  <2>4. CASE \E p \in Providers, k \in Tasks : Work(t, p, k)
    BY <2>1, <2>4 DEF Work, StartCheck, CompleteCheck, FailCheck, MayStart, MayComplete,
       MayFail, Taken
  <2>5. CASE \E k \in Owned : CancelTask(t, k)
    BY <2>2, <2>5 DEF CancelTask
  <2>6. CASE Publishes(t)
    BY <2>2, <2>6 DEF Publishes, PublishCheck
  <2> QED BY <2>3, <2>4, <2>5, <2>6 DEF Request
<1>2. thread \in [Threads -> Handler] /\ task \in [Tasks -> TaskRow]
  BY DEF SlotInv, Typed, RowTypes
<1>3. /\ thread[t].pc = "idle"
      /\ thread'[t] = [pc |-> pc, who |-> a, on |-> k, read |-> 0]
      /\ \A u \in Threads : u # t => thread'[u] = thread[u]
  BY <1>1, <1>2 DEF Begin
<1>4. \A j \in Tasks : Taken(j)' = Taken(j)
  BY <1>1 DEF Taken
<1>5. \A j \in Tasks : /\ task'[j].slots = task[j].slots
                       /\ Exists(j)' = Exists(j)
                       /\ task'[j].status = "absent" <=> task[j].status = "absent"
  <2>1. CASE pc # "refund"
    BY <1>1, <2>1 DEF Exists
  <2>2. CASE pc = "refund"
    BY <1>1, <1>2, <2>2 DEF Exists, TaskRow
  <2> QED BY <2>1, <2>2
<1>6. \A j \in Tasks : Budget(j)'
  BY <1>3, <1>4, <1>5, BudgetsKept
<1>7. Assigned'
  <2>1. \A u \in Threads : thread[u].pc \in Working => thread[u].on \in Tasks
    BY DEF SlotInv, Typed, Addressed, Working, OfProvider
  <2> QED BY <1>1, <1>3, <1>4, <2>1 DEF SlotInv, Assigned, Working, OfProvider
<1>8. Inserting'
  <2>1. \A u \in Threads : thread[u].pc = "insert" => thread[u].on \in Tasks
    BY DEF SlotInv, Typed, Addressed
  <2>2. \A u \in Threads : u # t /\ thread[u].pc = "insert" => thread[u].on # k
    BY <1>1, <2>1 DEF SlotInv, Inserting, Exists, Unborn
  <2>3. \A u \in Threads : u # t /\ thread'[u].pc = "insert" =>
          /\ task'[thread'[u].on].status = "absent"
          /\ \A w \in Threads : thread'[w].on = thread'[u].on => w = u
    BY <1>3, <1>5, <2>1, <2>2 DEF SlotInv, Inserting
  <2>4. thread'[t].pc = "insert" =>
          /\ task'[thread'[t].on].status = "absent"
          /\ \A w \in Threads : thread'[w].on = thread'[t].on => w = t
    BY <1>1, <1>3
  <2> QED BY <2>3, <2>4 DEF Inserting
<1>9. Unborn'
  BY <1>1, <1>3, <1>4, <1>5 DEF SlotInv, Unborn, Exists
<1> QED BY <1>6, <1>7, <1>8, <1>9 DEF SlotInv

\* A handler that goes on, or replies, and makes no task appear.
LEMMA Onward ==
  ASSUME SlotInv, NEW t \in Threads, thread[t].pc # "insert",
         \A u \in Threads : u # t => thread'[u] = thread[u],
         \/ thread'[t] = Idle
         \/ /\ thread[t].pc # "idle" /\ thread'[t].pc # "insert"
            /\ thread'[t].on = thread[t].on /\ thread'[t].who = thread[t].who
            /\ thread'[t].pc \in Working =>
                 \A j \in Tasks : j = thread[t].on => thread[t].who \in Taken(j)',
         \A j \in Tasks : /\ task'[j].status = "absent" <=> task[j].status = "absent"
                          /\ Taken(j) \subseteq Taken(j)'
                          /\ task[j].status = "absent" => Taken(j)' = {}
  PROVE  Unborn' /\ Inserting' /\ Assigned'
<1>1. \A u \in Threads : thread[u].pc # "idle" => thread[u].on \in Tasks
  BY DEF SlotInv, Typed, Addressed
<1>2. Idle.pc = "idle" /\ Idle.on \notin Tasks
  BY MarketAssumption DEF Idle
<1>3. Unborn'
  BY <1>2 DEF SlotInv, Unborn
<1>4. Inserting'
  BY <1>1, <1>2 DEF SlotInv, Inserting
<1>5. Assigned'
  BY <1>1, <1>2 DEF SlotInv, Assigned, Working, OfProvider
<1> QED BY <1>3, <1>4, <1>5

LEMMA SlotAccept ==
  ASSUME SlotInv, NEW t \in Threads, ReadSlots(t) \/ TakeSlot(t) \/ CreateAssignment(t),
         Typed'
  PROVE  SlotInv'
<1>1. /\ thread[t].pc \in {"slots", "take", "assign"} /\ thread[t].on \in Tasks
      /\ thread[t].who \in Providers
      /\ thread \in [Threads -> Handler] /\ task \in [Tasks -> TaskRow]
      /\ assignment \in [Tasks -> [Providers -> AssignmentStatus]]
  BY DEF ReadSlots, TakeSlot, CreateAssignment, SlotInv, Typed, RowTypes, Addressed, OfProvider
<1>2. \A u \in Threads : u # t => thread'[u] = thread[u]
  BY <1>1 DEF ReadSlots, TakeSlot, CreateAssignment, Goto, Reply
<1>3. \/ thread'[t] = Idle
      \/ /\ thread'[t].pc \in {"take", "assign"}
         /\ thread'[t].on = thread[t].on /\ thread'[t].who = thread[t].who
  BY <1>1 DEF ReadSlots, TakeSlot, CreateAssignment, Goto, Reply, Handler
<1>4. \A j \in Tasks : /\ task'[j].status = task[j].status
                       /\ Taken(j) \subseteq Taken(j)'
                       /\ task[j].status = "absent" => Taken(j)' = {}
  <2>1. CASE assignment' = assignment
    <3>1. \A j \in Tasks : Taken(j)' = Taken(j)
      BY <2>1 DEF Taken
    <3>2. \A j \in Tasks : task'[j].status = task[j].status
      BY <1>1 DEF ReadSlots, TakeSlot, CreateAssignment, TaskRow
    <3> QED BY <3>1, <3>2 DEF SlotInv, Unborn
  <2>2. CASE /\ Exists(thread[t].on) /\ task' = task
             /\ assignment' = [assignment EXCEPT ![thread[t].on][thread[t].who] = "aceptada"]
    <3>1. \A j \in Tasks : j # thread[t].on => Taken(j)' = Taken(j)
      BY <1>1, <2>2 DEF Taken
    <3>2. \A j \in Tasks : j = thread[t].on => Taken(j) \subseteq Taken(j)'
      BY <1>1, <2>2 DEF Taken
    <3> QED BY <1>1, <2>2, <3>1, <3>2 DEF SlotInv, Unborn, Exists
  <2> QED BY <2>1, <2>2 DEF ReadSlots, TakeSlot, CreateAssignment
<1>5. Unborn' /\ Inserting' /\ Assigned'
  BY <1>1, <1>2, <1>3, <1>4, Onward DEF Working, OfProvider
<1>6. \A k \in Tasks : Budget(k)'
  <2>1. CASE ReadSlots(t)
    <3>1. thread'[t].pc # "assign"
      BY <1>1, <2>1 DEF ReadSlots, Reply, Idle, Handler
    <3>2. \A k \in Tasks : Taken(k)' = Taken(k) /\ Exists(k)' = Exists(k) /\ task' = task
      BY <2>1 DEF ReadSlots, Taken, Exists
    <3> QED BY <1>2, <3>1, <3>2, BudgetsKept
  <2> QED BY <2>1, TakeSlotBudget, CreateBudget
<1> QED BY <1>5, <1>6 DEF SlotInv

LEMMA SlotWork ==
  ASSUME SlotInv, NEW t \in Threads,
         \/ Start(t) \/ Complete(t) \/ Credit(t) \/ Release(t)
         \/ ReadProfile(t) \/ WriteStats(t) \/ WriteDelta(t) \/ Fail(t) \/ FailDelta(t),
         Typed'
  PROVE  SlotInv'
<1>1. /\ thread[t].pc \in Working
      /\ task' = task
      /\ \/ assignment' = assignment
         \/ \E s \in AssignmentStatus \ {"none"} : WriteStatus(t, s)
  BY DEF Start, Complete, Credit, Release, ReadProfile, WriteStats, WriteDelta, Fail,
         FailDelta, Working, OfProvider, AssignmentStatus, money
<1>2. /\ thread[t].on \in Tasks /\ thread[t].who \in Providers
      /\ thread[t].who \in Taken(thread[t].on)
      /\ thread \in [Threads -> Handler]
      /\ assignment \in [Tasks -> [Providers -> AssignmentStatus]]
  BY <1>1 DEF SlotInv, Typed, RowTypes, Addressed, Working, OfProvider, Assigned
<1>3. \A k \in Tasks : Taken(k)' = Taken(k) /\ Exists(k)' = Exists(k)
  <2>1. CASE assignment' = assignment
    BY <1>1, <2>1 DEF Taken, Exists
  <2>2. CASE \E s \in AssignmentStatus \ {"none"} : WriteStatus(t, s)
    <3>1. PICK s \in AssignmentStatus \ {"none"} :
            assignment' = [assignment EXCEPT ![thread[t].on][thread[t].who] = s]
      BY <2>2 DEF WriteStatus
    <3>2. s # "none"
      OBVIOUS
    <3>3. assignment[thread[t].on][thread[t].who] # "none"
      BY <1>2 DEF Taken
    <3>4. \A k \in Tasks, p \in Providers :
            assignment'[k][p] # "none" <=> assignment[k][p] # "none"
      BY <1>2, <3>1, <3>2, <3>3
    <3> QED BY <1>1, <3>4 DEF Taken, Exists
  <2> QED BY <1>1, <2>1, <2>2
<1>4. \A u \in Threads : u # t => thread'[u] = thread[u]
  BY <1>2 DEF Start, Complete, Credit, Release, ReadProfile, WriteStats, WriteDelta, Fail,
     FailDelta, Goto, Reply
<1>5. \/ thread'[t] = Idle
      \/ /\ thread'[t].pc \in Working
         /\ thread'[t].on = thread[t].on /\ thread'[t].who = thread[t].who
  <2>1. CASE Reply(t)
    BY <1>2, <2>1 DEF Reply
  <2>2. CASE \E pc \in Working : Goto(t, pc)
    BY <1>2, <2>2 DEF Goto, Handler
  <2>3. CASE thread' = [thread EXCEPT ![t].pc = "stats",
                                      ![t].read = completed[thread[t].who]]
    BY <1>2, <2>3 DEF Handler, Working, OfProvider
  <2> QED BY <2>1, <2>2, <2>3 DEF Start, Complete, Credit, Release, ReadProfile, WriteStats,
            WriteDelta, Fail, FailDelta, Working, OfProvider
<1>6. thread[t].pc \notin {"idle", "insert"} /\ thread'[t].pc \notin {"insert", "assign"}
  BY <1>1, <1>5 DEF Working, OfProvider, Idle
<1>7. \A k \in Tasks : Budget(k)'
  BY <1>1, <1>3, <1>4, <1>6, BudgetsKept
<1>8. Unborn' /\ Inserting' /\ Assigned'
  <2>1. \A k \in Tasks : /\ task'[k].status = "absent" <=> task[k].status = "absent"
                         /\ Taken(k) \subseteq Taken(k)'
                         /\ task[k].status = "absent" => Taken(k)' = {}
    BY <1>1, <1>3 DEF SlotInv, Unborn
  <2>2. \A j \in Tasks : j = thread[t].on => thread[t].who \in Taken(j)'
    BY <1>2, <1>3
  <2> QED BY <1>4, <1>5, <1>6, <2>1, <2>2, Onward
<1> QED BY <1>7, <1>8 DEF SlotInv

LEMMA SlotClient ==
  ASSUME SlotInv, NEW t \in Threads,
         InsertTask(t) \/ Hold(t) \/ DeleteTask(t) \/ Refund(t) \/ HandlerDies(t), Typed'
  PROVE  SlotInv'
<1>1. /\ thread \in [Threads -> Handler] /\ task \in [Tasks -> TaskRow]
      /\ thread[t].pc # "idle"
  BY DEF InsertTask, Hold, DeleteTask, Refund, HandlerDies, SlotInv, Typed, RowTypes
<1>2. thread[t].on \in Tasks
  BY <1>1 DEF SlotInv, Typed, Addressed
<1>3. \A k \in Tasks : Taken(k)' = Taken(k)
  BY DEF InsertTask, Hold, DeleteTask, Refund, HandlerDies, Taken
<1>4. \A u \in Threads : u # t => thread'[u] = thread[u]
  BY <1>1 DEF InsertTask, Hold, DeleteTask, Refund, HandlerDies, Goto, Reply
<1>5. \/ thread'[t] = Idle
      \/ /\ thread'[t].pc \in {"hold", "delete"}
         /\ thread'[t].on = thread[t].on /\ thread'[t].who = thread[t].who
  BY <1>1 DEF InsertTask, Hold, DeleteTask, Refund, HandlerDies, Goto, Reply, Handler
<1>6. Idle.pc = "idle" /\ Idle.on \notin Tasks
  BY MarketAssumption DEF Idle
<1>7. CASE InsertTask(t)
  <2>1. /\ thread[t].pc = "insert" /\ task[thread[t].on].status = "absent"
        /\ \A u \in Threads : thread[u].on = thread[t].on => u = t
    BY <1>7 DEF InsertTask, SlotInv, Inserting
  <2>2. \A k \in Tasks : k # thread[t].on => task'[k] = task[k]
    BY <1>1, <1>2, <1>7 DEF InsertTask
  <2>3. task'[thread[t].on] = [status |-> "disponible", slots |-> Slots[thread[t].on]]
    BY <1>1, <1>2, <1>7 DEF InsertTask
  <2>4. thread'[t].pc = "hold" /\ thread'[t].on = thread[t].on
    BY <1>1, <1>7 DEF InsertTask, Goto, Handler
  <2>5. Unborn'
    BY <1>3, <1>4, <2>2, <2>3, <2>4 DEF SlotInv, Unborn
  <2>6. Inserting'
    BY <1>4, <2>1, <2>2, <2>4 DEF SlotInv, Inserting, Typed, Addressed
  <2>7. Assigned'
    <3>1. \A u \in Threads : thread[u].pc \in Working => thread[u].on \in Tasks
      BY DEF SlotInv, Typed, Addressed, Working, OfProvider
    <3> QED BY <1>3, <1>4, <2>4, <3>1 DEF SlotInv, Assigned, Working, OfProvider
  <2>8. \A k \in Tasks : k # thread[t].on => Budget(k)'
    <3>1. \A k \in Tasks : Assigning(k)' \subseteq Assigning(k)
      BY <1>4, <2>4 DEF Assigning
    <3> QED BY <1>3, <2>2, <3>1, BudgetKept DEF Exists, SlotInv
  <2>9. \A k \in Tasks : k = thread[t].on => Budget(k)'
    <3> SUFFICES ASSUME NEW k \in Tasks, k = thread[t].on PROVE Budget(k)'
      OBVIOUS
    <3>1. Taken(k)' = {} /\ Assigning(k)' = {}
      BY <1>3, <1>4, <2>1, <2>4 DEF SlotInv, Unborn, Assigning
    <3>2. task'[k].slots = Slots[k] /\ Slots[k] \in Nat
      BY <2>3, MarketAssumption
    <3> QED BY <3>1, <3>2, FS_EmptySet DEF Budget
  <2> QED BY <2>5, <2>6, <2>7, <2>8, <2>9 DEF SlotInv
<1>8. CASE DeleteTask(t)
  <2>1. thread[t].pc = "delete"
    BY <1>8 DEF DeleteTask
  <2>2. task[thread[t].on].status # "absent"
    BY <1>2, <2>1 DEF SlotInv, Unborn
  <2>3. \A k \in Tasks : /\ task'[k].status = "absent" <=> task[k].status = "absent"
                         /\ Exists(k)' => Exists(k) /\ task'[k].slots = task[k].slots
    BY <1>1, <1>2, <1>8, <2>2 DEF DeleteTask, Exists, TaskRow
  <2>4. \A k \in Tasks : Budget(k)'
    BY <1>3, <1>4, <1>5, <1>6, <2>3, BudgetsKept
  <2>5. Unborn' /\ Inserting' /\ Assigned'
    <3>1. \A k \in Tasks : /\ Taken(k) \subseteq Taken(k)'
                           /\ task[k].status = "absent" => Taken(k)' = {}
      BY <1>3 DEF SlotInv, Unborn
    <3> QED BY <1>4, <1>5, <2>1, <2>3, <3>1, Onward DEF Working, OfProvider
  <2> QED BY <2>4, <2>5 DEF SlotInv
<1>9. CASE Hold(t) \/ Refund(t) \/ HandlerDies(t)
  <2>1. task' = task
    BY <1>9 DEF Hold, Refund, HandlerDies
  <2>2. thread[t].pc = "insert" => thread'[t] = Idle
    BY <1>1, <1>9 DEF Hold, Refund, HandlerDies, Reply
  <2>3. \A k \in Tasks : Budget(k)'
    BY <1>3, <1>4, <1>5, <1>6, <2>1, BudgetsKept DEF Exists
  <2>4. \A k \in Tasks : task[k].status = "absent" => Taken(k)' = {}
    BY <1>3 DEF SlotInv, Unborn
  <2>5. Unborn' /\ Inserting' /\ Assigned'
    <3>1. CASE thread[t].pc # "insert"
      BY <1>1, <1>3, <1>4, <1>5, <2>1, <2>4, <3>1, Onward DEF Working, OfProvider
    <3>2. CASE thread[t].pc = "insert"
      <4>1. thread'[t] = Idle
        BY <2>2, <3>2
      <4>2. \A u \in Threads : thread[u].pc # "idle" => thread[u].on \in Tasks
        BY DEF SlotInv, Typed, Addressed
      <4> QED BY <1>3, <1>4, <1>6, <2>1, <2>4, <4>1, <4>2 DEF SlotInv, Unborn, Inserting,
                Assigned, Working, OfProvider
    <3> QED BY <3>1, <3>2
  <2> QED BY <2>3, <2>5 DEF SlotInv
<1> QED BY <1>7, <1>8, <1>9

LEMMA SlotStep == SlotInv /\ [Next]_vars => SlotInv'
<1> SUFFICES ASSUME SlotInv, [Next]_vars PROVE SlotInv'
  OBVIOUS
<1>1. Typed'
  BY TypedStep DEF SlotInv
<1>2. CASE task' = task /\ assignment' = assignment /\ thread' = thread
  <2>1. \A k \in Tasks : /\ Taken(k)' = Taken(k) /\ Assigning(k)' = Assigning(k)
                         /\ Exists(k)' = Exists(k)
    BY <1>2 DEF Taken, Assigning, Exists
  <2>2. \A k \in Tasks : Budget(k)'
    BY <1>2, <2>1, BudgetKept DEF SlotInv
  <2>3. Unborn' /\ Inserting' /\ Assigned'
    BY <1>2 DEF SlotInv, Unborn, Inserting, Assigned, Taken
  <2> QED BY <1>1, <2>2, <2>3 DEF SlotInv
<1>3. CASE Deposits \/ UNCHANGED vars
  BY <1>2, <1>3 DEF Deposits, Deposit, vars
<1>4. CASE \E t \in Threads : Publishes(t) \/ Request(t) \/ Progress(t) \/ HandlerDies(t)
  BY <1>1, <1>4, SlotRequest, SlotAccept, SlotWork, SlotClient DEF Progress
<1> QED BY <1>3, <1>4 DEF Next

\* However many providers accept at the same time, and whichever handlers die half
\* way, no task has more assignments than slots.
THEOREM SlotsAreNeverOversold == Spec => []SlotsNeverOversold
<1>1. SlotInv => SlotsNeverOversold
  <2> SUFFICES ASSUME SlotInv, NEW k \in Tasks, Exists(k)
               PROVE  task[k].slots + Cardinality(Taken(k)) <= Slots[k]
    BY DEF SlotsNeverOversold
  <2>1. Slots[k] \in Nat /\ task[k].slots \in Nat
    BY MarketAssumption DEF SlotInv, Typed, RowTypes, TaskRow
  <2> QED BY <2>1, Finite DEF SlotInv, Budget
<1>2. SlotInv /\ [Next]_vars => SlotInv'
  BY SlotStep
<1> QED BY <1>1, <1>2, SlotInit, PTL DEF Spec

-----------------------------------------------------------------------------
(* Payments, when a provider waits for each answer.  Then no other handler   *)
(* of that provider can change the assignment it has read.                   *)

Lone ==
  \A t, u \in Threads :
    /\ thread[t].pc \in OfProvider /\ thread[u].pc \in OfProvider
    /\ thread[t].who = thread[u].who
    => t = u

\* What a handler knows of its assignment, by where it is.
Knows(pc, status, n) ==
  /\ pc = "start" => status = "aceptada"
  /\ pc \in {"complete", "fail"} => status = "procesando"
  /\ pc \in {"credit", "release", "profile", "stats", "delta"} => status = "completada"
  /\ pc = "credit" => n = 0
  /\ pc = "faildelta" => status = "fallida"

Standing ==
  \A t \in Threads :
    thread[t].pc \in OfProvider =>
      Knows(thread[t].pc, assignment[thread[t].on][thread[t].who],
                          paid[thread[t].on][thread[t].who])

PayInv == Typed /\ Lone /\ Standing /\ PaidOnce

LEMMA SerialIsOne == SerialNext => Next
  BY DEF SerialNext, Next, SerialRequest, Request

LEMMA PayInit == Init => PayInv
<1> SUFFICES ASSUME Init PROVE PayInv
  OBVIOUS
<1>1. Lone /\ Standing
  BY DEF Init, Lone, Standing, OfProvider, Idle
<1>2. PaidOnce
  BY DEF Init, PaidOnce
<1> QED BY <1>1, <1>2, TypedInit DEF PayInv

\* Requests: the provider has no other handler.
LEMMA PayRequest ==
  ASSUME PayInv, NEW t \in Threads, SerialRequest(t) \/ Publishes(t), Typed'
  PROVE  PayInv'
<1>1. /\ assignment' = assignment /\ paid' = paid /\ thread[t].pc = "idle"
      /\ \/ \E a, k, pc : /\ thread' = [thread EXCEPT ![t] =
                                          [pc |-> pc, who |-> a, on |-> k, read |-> 0]]
                          /\ pc \notin OfProvider
         \/ \E p \in Providers, k \in Tasks, pc \in {"slots", "start", "complete", "fail"} :
              /\ thread' = [thread EXCEPT ![t] =
                              [pc |-> pc, who |-> p, on |-> k, read |-> 0]]
              /\ ~Waiting(p)
              /\ Knows(pc, assignment[k][p], paid[k][p])
  <2>1. CASE Publishes(t) \/ \E k \in Owned : CancelTask(t, k)
    BY <2>1 DEF Publishes, PublishCheck, CancelTask, Begin, OfProvider, money
  <2>2. CASE \E p \in Providers, k \in Tasks :
               ~Waiting(p) /\ (AcceptCheck(t, p, k) \/ Work(t, p, k))
    <3>1. PICK p \in Providers, k \in Tasks :
            ~Waiting(p) /\ (AcceptCheck(t, p, k) \/ Work(t, p, k))
      BY <2>2
    <3>2. PICK pc \in {"slots", "start", "complete", "fail"} :
            Begin(t, pc, p, k) /\ Knows(pc, assignment[k][p], paid[k][p])
      BY <3>1 DEF AcceptCheck, Work, StartCheck, CompleteCheck, FailCheck, MayStart,
         MayComplete, MayFail, Knows
    <3>3. assignment' = assignment /\ paid' = paid
      BY <3>1 DEF AcceptCheck, Work, StartCheck, CompleteCheck, FailCheck, money
    <3> QED BY <3>1, <3>2, <3>3 DEF Begin
  <2> QED BY <2>1, <2>2 DEF SerialRequest
<1>2. thread \in [Threads -> Handler]
  BY DEF PayInv, Typed, RowTypes
<1>3. PaidOnce'
  BY <1>1 DEF PayInv, PaidOnce
<1>4. CASE \E a, k, pc : /\ thread' = [thread EXCEPT ![t] =
                                         [pc |-> pc, who |-> a, on |-> k, read |-> 0]]
                         /\ pc \notin OfProvider
  <2>1. /\ thread'[t].pc \notin OfProvider
        /\ \A u \in Threads : u # t => thread'[u] = thread[u]
    BY <1>2, <1>4
  <2>2. Lone' /\ Standing'
    BY <1>1, <2>1 DEF PayInv, Lone, Standing
  <2> QED BY <1>3, <2>2 DEF PayInv
<1>5. CASE \E p \in Providers, k \in Tasks, pc \in {"slots", "start", "complete", "fail"} :
             /\ thread' = [thread EXCEPT ![t] = [pc |-> pc, who |-> p, on |-> k, read |-> 0]]
             /\ ~Waiting(p)
             /\ Knows(pc, assignment[k][p], paid[k][p])
  <2>1. PICK p \in Providers, k \in Tasks, pc \in {"slots", "start", "complete", "fail"} :
          /\ thread' = [thread EXCEPT ![t] = [pc |-> pc, who |-> p, on |-> k, read |-> 0]]
          /\ ~Waiting(p)
          /\ Knows(pc, assignment[k][p], paid[k][p])
    BY <1>5
  <2>2. /\ thread'[t].pc = pc /\ thread'[t].who = p /\ thread'[t].on = k
        /\ \A u \in Threads : u # t => thread'[u] = thread[u]
    BY <1>2, <2>1
  <2>3. \A u \in Threads : u # t => thread'[u].who # p
    BY <2>1, <2>2 DEF Waiting
  <2>4. Lone'
    BY <2>2, <2>3 DEF PayInv, Lone
  <2>5. Standing'
    BY <1>1, <2>1, <2>2 DEF PayInv, Standing
  <2> QED BY <1>3, <2>4, <2>5 DEF PayInv
<1> QED BY <1>1, <1>4, <1>5

\* What a provider's handler does to its assignment, and what it then knows of it.
Effect(t, k, p, s, n) ==
  /\ \A j \in Tasks, q \in Providers :
       ~(j = k /\ q = p) => assignment'[j][q] = assignment[j][q] /\ paid'[j][q] = paid[j][q]
  /\ assignment'[k][p] = s /\ paid'[k][p] = n
  /\ n <= 1 /\ (n = 1 => s = "completada")
  /\ assignment[k][p] \in {"completada", "fallida"} => s = assignment[k][p]
  /\ \A u \in Threads : u # t => thread'[u] = thread[u]
  /\ \/ thread'[t] = Idle
     \/ /\ thread'[t].on = k /\ thread'[t].who = p /\ thread'[t].pc \in OfProvider
        /\ Knows(thread'[t].pc, s, n)

ProviderStep(t) ==
  \/ ReadSlots(t) \/ TakeSlot(t) \/ CreateAssignment(t)
  \/ Start(t) \/ Complete(t) \/ Credit(t) \/ Release(t)
  \/ ReadProfile(t) \/ WriteStats(t) \/ WriteDelta(t) \/ Fail(t) \/ FailDelta(t)

LEMMA ProviderEffect ==
  ASSUME PayInv, NEW t \in Threads, ProviderStep(t)
  PROVE  \E k \in Tasks, p \in Providers, s \in AssignmentStatus, n \in Nat :
           /\ thread[t].on = k /\ thread[t].who = p /\ thread[t].pc \in OfProvider
           /\ Effect(t, k, p, s, n)
<1>1. thread[t].pc \in OfProvider /\ thread[t].pc # "idle"
  BY DEF ProviderStep, ReadSlots, TakeSlot, CreateAssignment, Start, Complete, Credit, Release,
     ReadProfile, WriteStats, WriteDelta, Fail, FailDelta, OfProvider
<1>2. PICK k \in Tasks, p \in Providers : k = thread[t].on /\ p = thread[t].who
  BY <1>1 DEF PayInv, Typed, Addressed
<1>3. /\ thread \in [Threads -> Handler]
      /\ assignment \in [Tasks -> [Providers -> AssignmentStatus]]
      /\ paid \in [Tasks -> [Providers -> Nat]]
  BY DEF PayInv, Typed, RowTypes
<1>4. /\ Knows(thread[t].pc, assignment[k][p], paid[k][p])
      /\ paid[k][p] <= 1 /\ (paid[k][p] = 1 => assignment[k][p] = "completada")
      /\ paid[k][p] \in Nat /\ assignment[k][p] \in AssignmentStatus
  BY <1>1, <1>2, <1>3 DEF PayInv, Standing, PaidOnce
<1>5. \A pc : Goto(t, pc) => /\ \A u \in Threads : u # t => thread'[u] = thread[u]
                             /\ thread'[t].pc = pc /\ thread'[t].on = k /\ thread'[t].who = p
  BY <1>2, <1>3 DEF Goto, Handler
<1>6. Reply(t) => /\ \A u \in Threads : u # t => thread'[u] = thread[u]
                  /\ thread'[t] = Idle
  BY <1>3 DEF Reply
<1>7. CASE ReadSlots(t) \/ TakeSlot(t)
  <2>1. assignment' = assignment /\ paid' = paid
    BY <1>7 DEF ReadSlots, TakeSlot, money
  <2>2. /\ \A u \in Threads : u # t => thread'[u] = thread[u]
        /\ \/ thread'[t] = Idle
           \/ thread'[t].on = k /\ thread'[t].who = p /\ thread'[t].pc \in {"take", "assign"}
    BY <1>2, <1>3, <1>5, <1>6, <1>7 DEF ReadSlots, TakeSlot, Handler
  <2>3. Effect(t, k, p, assignment[k][p], paid[k][p])
    BY <1>4, <2>1, <2>2 DEF Effect, Knows, OfProvider
  <2> QED BY <1>1, <1>2, <1>4, <2>3
<1>8. CASE CreateAssignment(t)
  <2>1. paid' = paid /\ Reply(t)
    BY <1>8 DEF CreateAssignment, money
  <2>2. CASE assignment' = assignment
    <3>1. Effect(t, k, p, assignment[k][p], paid[k][p])
      BY <1>4, <1>6, <2>1, <2>2 DEF Effect
    <3> QED BY <1>1, <1>2, <1>4, <3>1
  <2>3. CASE /\ assignment[k][p] = "none"
             /\ assignment' = [assignment EXCEPT ![k][p] = "aceptada"]
    <3>1. Effect(t, k, p, "aceptada", paid[k][p])
      BY <1>3, <1>4, <1>6, <2>1, <2>3 DEF Effect
    <3> QED BY <1>1, <1>2, <1>4, <3>1 DEF AssignmentStatus
  <2> QED BY <1>2, <1>8, <2>2, <2>3 DEF CreateAssignment
<1>9. CASE Start(t) \/ WriteDelta(t) \/ FailDelta(t) \/ Complete(t) \/ Fail(t)
  <2>1. PICK s \in AssignmentStatus :
          /\ assignment' = [assignment EXCEPT ![k][p] = s]
          /\ paid' = paid
          /\ \/ s = "procesando" /\ thread[t].pc = "start" /\ Reply(t)
             \/ s = "completada" /\ thread[t].pc = "delta" /\ Reply(t)
             \/ s = "fallida" /\ thread[t].pc = "faildelta" /\ Reply(t)
             \/ s = "completada" /\ thread[t].pc = "complete" /\ Goto(t, "credit")
             \/ s = "fallida" /\ thread[t].pc = "fail" /\ Goto(t, "faildelta")
    BY <1>2, <1>9 DEF Start, WriteDelta, FailDelta, Complete, Fail, WriteStatus, money,
       AssignmentStatus
  <2>2. assignment'[k][p] = s
    BY <1>3, <2>1
  <2>3. \A j \in Tasks, q \in Providers :
          ~(j = k /\ q = p) => assignment'[j][q] = assignment[j][q]
    BY <1>3, <2>1
  <2>4. /\ paid[k][p] = 1 => s = "completada"
        /\ assignment[k][p] \in {"completada", "fallida"} => s = assignment[k][p]
    BY <1>4, <2>1 DEF Knows
  <2>5. \/ thread'[t] = Idle
        \/ /\ thread'[t].on = k /\ thread'[t].who = p /\ thread'[t].pc \in OfProvider
           /\ Knows(thread'[t].pc, s, paid[k][p])
    BY <1>4, <1>5, <1>6, <2>1 DEF Knows, OfProvider
  <2>6. \A u \in Threads : u # t => thread'[u] = thread[u]
    BY <1>5, <1>6, <2>1
  <2>7. Effect(t, k, p, s, paid[k][p])
    BY <1>4, <2>1, <2>2, <2>3, <2>4, <2>5, <2>6 DEF Effect
  <2> QED BY <1>1, <1>2, <1>4, <2>7
<1>10. CASE Credit(t)
  <2>1. /\ assignment' = assignment /\ paid' = [paid EXCEPT ![k][p] = @ + 1]
        /\ Goto(t, "profile") \/ Goto(t, "release")
        /\ thread[t].pc = "credit"
    BY <1>2, <1>10 DEF Credit
  <2>2. paid[k][p] = 0 /\ assignment[k][p] = "completada"
    BY <1>4, <2>1 DEF Knows
  <2>3. /\ paid'[k][p] = 1
        /\ \A j \in Tasks, q \in Providers : ~(j = k /\ q = p) => paid'[j][q] = paid[j][q]
    BY <1>3, <2>1, <2>2
  <2>4. Effect(t, k, p, "completada", 1)
    BY <1>5, <2>1, <2>2, <2>3 DEF Effect, Knows, OfProvider
  <2> QED BY <1>1, <1>2, <2>4 DEF AssignmentStatus
<1>11. CASE Release(t) \/ ReadProfile(t) \/ WriteStats(t)
  <2>1. assignment' = assignment /\ paid' = paid
    BY <1>11 DEF Release, ReadProfile, WriteStats, money
  <2>2. /\ \A u \in Threads : u # t => thread'[u] = thread[u]
        /\ thread'[t].on = k /\ thread'[t].who = p
        /\ thread'[t].pc \in {"profile", "stats", "delta"}
        /\ thread[t].pc \in {"release", "profile", "stats"}
    BY <1>2, <1>3, <1>5, <1>11 DEF Release, ReadProfile, WriteStats, Handler
  <2>3. Effect(t, k, p, assignment[k][p], paid[k][p])
    BY <1>4, <2>1, <2>2 DEF Effect, Knows, OfProvider
  <2> QED BY <1>1, <1>2, <1>4, <2>3
<1> QED BY <1>7, <1>8, <1>9, <1>10, <1>11 DEF ProviderStep

LEMMA PayProvider ==
  ASSUME PayInv, NEW t \in Threads, ProviderStep(t), Typed'
  PROVE  PayInv'
<1>1. PICK k \in Tasks, p \in Providers, s \in AssignmentStatus, n \in Nat :
        /\ thread[t].on = k /\ thread[t].who = p /\ thread[t].pc \in OfProvider
        /\ Effect(t, k, p, s, n)
  BY ProviderEffect
<1>2. Lone'
  BY <1>1 DEF PayInv, Lone, Effect, Idle, OfProvider
<1>3. PaidOnce'
  BY <1>1 DEF PayInv, PaidOnce, Effect
<1>4. Standing'
  <2> SUFFICES ASSUME NEW u \in Threads, thread'[u].pc \in OfProvider
               PROVE  Knows(thread'[u].pc, assignment'[thread'[u].on][thread'[u].who],
                                           paid'[thread'[u].on][thread'[u].who])
    BY DEF Standing
  <2>1. CASE u = t
    BY <1>1, <2>1 DEF Effect, Idle, OfProvider
  <2>2. CASE u # t
    <3>1. /\ thread'[u] = thread[u] /\ thread[u].who # p
          /\ thread[u].on \in Tasks /\ thread[u].who \in Providers
      BY <1>1, <2>2 DEF PayInv, Typed, Addressed, Lone, Effect, OfProvider
    <3> QED BY <1>1, <3>1 DEF PayInv, Standing, Effect
  <2> QED BY <2>1, <2>2
<1> QED BY <1>2, <1>3, <1>4 DEF PayInv

\* The other steps change no assignment.
LEMMA PayClient ==
  ASSUME PayInv, NEW t \in Threads,
         InsertTask(t) \/ Hold(t) \/ DeleteTask(t) \/ Refund(t) \/ HandlerDies(t), Typed'
  PROVE  PayInv'
<1>1. assignment' = assignment /\ paid' = paid
  BY DEF InsertTask, Hold, DeleteTask, Refund, HandlerDies, money
<1>2. /\ \A u \in Threads : u # t => thread'[u] = thread[u]
      /\ thread'[t].pc \notin OfProvider
  BY DEF InsertTask, Hold, DeleteTask, Refund, HandlerDies, Goto, Reply, Idle, Handler,
     OfProvider, PayInv, Typed, RowTypes
<1>3. Lone' /\ Standing' /\ PaidOnce'
  BY <1>1, <1>2 DEF PayInv, Lone, Standing, PaidOnce
<1> QED BY <1>3 DEF PayInv

LEMMA PayStep == PayInv /\ [SerialNext]_vars => PayInv'
<1> SUFFICES ASSUME PayInv, [SerialNext]_vars PROVE PayInv'
  OBVIOUS
<1>1. Typed'
  BY TypedStep, SerialIsOne DEF PayInv
<1>2. CASE Deposits \/ UNCHANGED vars
  <2>1. assignment' = assignment /\ paid' = paid /\ thread' = thread
    BY <1>2 DEF Deposits, Deposit, vars
  <2> QED BY <1>1, <2>1 DEF PayInv, Lone, Standing, PaidOnce
<1>3. CASE \E t \in Threads : Publishes(t) \/ SerialRequest(t) \/ Progress(t) \/ HandlerDies(t)
  BY <1>1, <1>3, PayRequest, PayProvider, PayClient DEF Progress, ProviderStep
<1> QED BY <1>2, <1>3 DEF SerialNext

\* A provider that waits for each answer is paid at most once for a task, and only for
\* one that it completed, although complete_task checks and writes in separate calls.
THEOREM ProvidersArePaidOnce == SerialSpec => []PaidOnce
<1>1. PayInv => PaidOnce
  BY DEF PayInv
<1>2. PayInv /\ [SerialNext]_vars => PayInv'
  BY PayStep
<1> QED BY <1>1, <1>2, PayInit, PTL DEF SerialSpec

\* ... and a completed or failed assignment of it never changes again.
THEOREM OutcomesAreFinal == SerialSpec => OutcomesStay
<1> DEFINE Final == \A k \in Tasks, p \in Providers :
                      assignment[k][p] \in {"completada", "fallida"} =>
                        assignment'[k][p] = assignment[k][p]
<1>1. PayInv /\ [SerialNext]_vars => [Final]_assignment
  <2> SUFFICES ASSUME PayInv, [SerialNext]_vars, assignment' # assignment PROVE Final
    OBVIOUS
  <2>1. PICK t \in Threads : ProviderStep(t)
    BY DEF SerialNext, vars, Deposits, Deposit, Publishes, PublishCheck, SerialRequest,
       AcceptCheck, Work, StartCheck, CompleteCheck, FailCheck, CancelTask, Progress,
       ProviderStep, InsertTask, Hold, DeleteTask, Refund, HandlerDies
  <2>2. PICK k \in Tasks, p \in Providers, s \in AssignmentStatus, n \in Nat :
          Effect(t, k, p, s, n)
    BY <2>1, ProviderEffect
  <2> QED BY <2>2 DEF Effect
<1>2. PayInv /\ [SerialNext]_vars => PayInv'
  BY PayStep
<1> QED BY <1>1, <1>2, PayInit, PTL DEF SerialSpec, OutcomesStay

-----------------------------------------------------------------------------
(* Rows of escrows.                                                           *)

EscrowTyped == escrow \in [Tasks -> EscrowRow]

LEMMA Grows ==
  ASSUME NEW S, NEW T, NEW x, IsFiniteSet(S), T \subseteq S \cup {x}
  PROVE  IsFiniteSet(T) /\ Cardinality(T) \in Nat /\ Cardinality(T) <= Cardinality(S) + 1
<1>1. /\ IsFiniteSet(S \cup {x}) /\ Cardinality(S \cup {x}) \in Nat
      /\ Cardinality(S \cup {x}) <= Cardinality(S) + 1
  BY FS_AddElement, FS_CardinalityType
<1>2. IsFiniteSet(T) /\ Cardinality(T) <= Cardinality(S \cup {x})
  BY <1>1, FS_Subset
<1> QED BY <1>1, <1>2, FS_CardinalityType

LEMMA Shrinks ==
  ASSUME NEW S, NEW T, NEW x, IsFiniteSet(S), x \in S, T \subseteq S \ {x}
  PROVE  IsFiniteSet(T) /\ Cardinality(T) \in Nat /\ Cardinality(T) <= Cardinality(S) - 1
<1>1. IsFiniteSet(S \ {x}) /\ Cardinality(S \ {x}) = Cardinality(S) - 1
  BY FS_RemoveElement
<1>2. IsFiniteSet(T) /\ Cardinality(T) <= Cardinality(S \ {x})
  BY <1>1, FS_Subset
<1> QED BY <1>1, <1>2, FS_CardinalityType

LEMMA ReleasedTyped ==
  ASSUME NEW row \in EscrowRow, NEW n \in Nat
  PROVE  /\ Released(row, n) \in EscrowRow
         /\ Released(row, n).held = row.held /\ Released(row, n).released = row.released + n
         /\ Released(row, n).status =
              IF row.released + n >= row.held THEN "completado" ELSE row.status
<1> DEFINE status == IF row.released + n >= row.held THEN "completado" ELSE row.status
           R == [row EXCEPT !.released = @ + n, !.status = status]
<1>1. status \in {"none", "activo", "cancelado", "completado"} /\ row.released + n \in Nat
  BY DEF EscrowRow
<1>2. Released(row, n) = R
  BY DEF Released
<1> HIDE DEF status
<1>3. /\ R \in EscrowRow /\ R.held = row.held /\ R.released = row.released + n
      /\ R.status = status
  BY <1>1 DEF EscrowRow
<1> HIDE DEF R
<1>4. Released(row, n).status = status
  BY <1>2, <1>3
<1> QED BY <1>2, <1>3, <1>4 DEF status

LEMMA EscrowStep == SlotInv /\ EscrowTyped /\ [Next]_vars => EscrowTyped'
<1> SUFFICES ASSUME SlotInv, EscrowTyped, [Next]_vars PROVE EscrowTyped'
  OBVIOUS
<1>1. escrow \in [Tasks -> EscrowRow]
  BY DEF EscrowTyped
<1>2. CASE escrow' = escrow
  BY <1>1, <1>2 DEF EscrowTyped
<1>3. ASSUME NEW t \in Threads, Release(t) PROVE EscrowTyped'
  <2>1. thread[t].on \in Tasks
    BY <1>3 DEF Release, SlotInv, Typed, Addressed
  <2>2. Released(escrow[thread[t].on], Reward[thread[t].on]) \in EscrowRow
    BY <1>1, <2>1, ReleasedTyped, MarketAssumption
  <2> QED BY <1>1, <1>3, <2>1, <2>2 DEF Release, EscrowTyped
<1>4. ASSUME NEW t \in Threads, Hold(t) PROVE EscrowTyped'
  <2>1. thread[t].on \in Tasks
    BY <1>4 DEF Hold, SlotInv, Typed, Addressed
  <2>2. TotalCost(thread[t].on) \in Nat
    BY <2>1, MarketAssumption DEF TotalCost
  <2>3. [status |-> "activo", held |-> TotalCost(thread[t].on), released |-> 0] \in EscrowRow
    BY <2>2 DEF EscrowRow
  <2> QED BY <1>1, <1>4, <2>1, <2>3 DEF Hold, EscrowTyped
<1>5. ASSUME NEW t \in Threads, Refund(t) PROVE EscrowTyped'
  BY <1>1, <1>5 DEF Refund, EscrowTyped, EscrowRow
<1>6. escrow' = escrow \/ \E t \in Threads : Release(t) \/ Hold(t) \/ Refund(t)
  BY DEF Next, vars, money, Deposits, Deposit, Publishes, PublishCheck, Request, AcceptCheck,
     Work, StartCheck, CompleteCheck, FailCheck, CancelTask, Progress,
     ReadSlots, TakeSlot, CreateAssignment, Start, Complete, Credit, ReadProfile, WriteStats,
     WriteDelta, Fail, FailDelta, InsertTask, DeleteTask, HandlerDies
<1> QED BY <1>2, <1>3, <1>4, <1>5, <1>6

-----------------------------------------------------------------------------
(* Balances, whatever requests interleave and fail.                           *)

\* A handler of a client is about a task of that client, and only one of them can still
\* open the escrow of the task.
Opening == {"insert", "hold"}
Billed ==
  \A t \in Threads :
    LET k == thread[t].on IN
    /\ thread[t].pc \in Opening \cup {"delete", "refund"} =>
         k \in Owned /\ thread[t].who = OwnerOf[k]
    /\ thread[t].pc = "release" => k \in Owned
    /\ thread[t].pc \in Opening =>
         /\ escrow[k].status = "none"
         /\ \A u \in Threads : thread[u].pc \in Opening /\ thread[u].on = k => u = t

\* An open escrow has released the rewards of some of its slots, and not of all.
Escrowed ==
  \A k \in Owned :
    /\ task[k].status = "absent" => escrow[k].status = "none"
    /\ escrow[k].status = "activo" =>
         /\ escrow[k].held = Reward[k] * Slots[k]
         /\ \E n \in Nat : n < Slots[k] /\ escrow[k].released = Reward[k] * n

\* What the client a still has in each escrow.
Due(a) == [k \in Owned |-> IF OwnerOf[k] = a /\ escrow[k].status = "activo"
                             THEN Unspent(k) ELSE 0]
Covered == \A a \in Accounts : wallet[a].pending = Sum(Due(a), Owned)

\* What is being released counts as released.
Earned ==
  \A k \in Owned :
    escrow[k].released + Reward[k] * Cardinality(Releasing(k))
      <= Reward[k] * Sum(paid[k], Providers)

WalletTyped == wallet \in [Accounts -> WalletRow] /\ deposited \in [Accounts -> Nat]

BalanceInv == SlotInv /\ EscrowTyped /\ WalletTyped /\ Billed /\ Escrowed /\ Covered /\ Earned

LEMMA OwnedFacts ==
  /\ IsFiniteSet(Owned) /\ IsFiniteSet(Seeded) /\ IsFiniteSet(Providers)
  /\ \A k \in Owned : /\ k \in Tasks /\ OwnerOf[k] \in Accounts
                      /\ Reward[k] \in Nat \ {0} /\ Slots[k] \in Nat \ {0}
  BY MarketAssumption, FS_Subset DEF Owned, Seeded

LEMMA BalanceInit == Init => BalanceInv
<1> SUFFICES ASSUME Init PROVE BalanceInv
  OBVIOUS
<1>1. EscrowTyped
  BY DEF Init, EscrowTyped, EscrowRow
<1>2. WalletTyped
  <2>1. [available |-> 0, pending |-> 0] \in WalletRow
    BY DEF WalletRow
  <2> QED BY <2>1 DEF Init, WalletTyped
<1>3. Billed
  BY DEF Init, Billed, Opening, Idle
<1>4. Escrowed
  BY OwnedFacts DEF Init, Escrowed
<1>5. ASSUME NEW a \in Accounts PROVE wallet[a].pending = Sum(Due(a), Owned)
  <2>1. \A k \in Owned : Due(a)[k] = 0
    BY OwnedFacts DEF Init, Due
  <2>2. Sum(Due(a), Owned) = 0
    BY <2>1, OwnedFacts, SumZero
  <2> QED BY <2>2 DEF Init
<1>6. Earned
  <2> SUFFICES ASSUME NEW k \in Owned
               PROVE  escrow[k].released + Reward[k] * Cardinality(Releasing(k))
                        <= Reward[k] * Sum(paid[k], Providers)
    BY DEF Earned
  <2>1. Releasing(k) = {} /\ escrow[k].released = 0 /\ \A p \in Providers : paid[k][p] = 0
    BY OwnedFacts DEF Init, Releasing, Idle
  <2>2. Sum(paid[k], Providers) = 0 /\ Cardinality(Releasing(k)) = 0
    BY <2>1, OwnedFacts, SumZero, FS_EmptySet
  <2> QED BY <2>1, <2>2, OwnedFacts
<1> QED BY <1>1, <1>2, <1>3, <1>4, <1>5, <1>6, SlotInit DEF BalanceInv, Covered

\* Where a handler goes next.
LEMMA Goes ==
  ASSUME BalanceInv, NEW t \in Threads, Progress(t) \/ HandlerDies(t)
  PROVE  /\ \A u \in Threads : u # t => thread'[u] = thread[u]
         /\ thread[t].pc # "idle" /\ thread[t].on \in Tasks
         /\ \/ thread'[t] = Idle
            \/ /\ thread'[t].on = thread[t].on /\ thread'[t].who = thread[t].who
               /\ \/ thread'[t].pc \notin Opening \cup {"delete", "refund", "release"}
                  \/ InsertTask(t) /\ thread[t].pc = "insert" /\ thread'[t].pc = "hold"
                  \/ thread[t].pc = "hold" /\ thread'[t].pc = "delete"
                  \/ /\ Credit(t) /\ thread[t].pc = "credit" /\ thread'[t].pc = "release"
                     /\ thread[t].on \in Owned
<1>1. thread \in [Threads -> Handler]
  BY DEF BalanceInv, SlotInv, Typed, RowTypes
<1>2. thread[t].pc # "idle"
  BY DEF Progress, ReadSlots, TakeSlot, CreateAssignment, Start, Complete, Credit, Release,
     ReadProfile, WriteStats, WriteDelta, Fail, FailDelta, InsertTask, Hold, DeleteTask, Refund,
     HandlerDies
<1>3. thread[t].on \in Tasks
  BY <1>2 DEF BalanceInv, SlotInv, Typed, Addressed
<1>4. Reply(t) => thread'[t] = Idle /\ \A u \in Threads : u # t => thread'[u] = thread[u]
  BY <1>1 DEF Reply
<1>5. \A pc : Goto(t, pc) => /\ \A u \in Threads : u # t => thread'[u] = thread[u]
                             /\ thread'[t].pc = pc /\ thread'[t].on = thread[t].on
                             /\ thread'[t].who = thread[t].who
  BY <1>1 DEF Goto, Handler
<1>6. CASE ReadSlots(t) \/ ReadProfile(t)
  <2>1. \A n : \A pc \in {"take", "stats"} :
          thread' = [thread EXCEPT ![t].pc = pc, ![t].read = n] =>
            /\ \A u \in Threads : u # t => thread'[u] = thread[u]
            /\ thread'[t].pc = pc /\ thread'[t].on = thread[t].on
            /\ thread'[t].who = thread[t].who
    BY <1>1 DEF Handler
  <2> QED BY <1>2, <1>3, <1>4, <1>6, <2>1 DEF ReadSlots, ReadProfile, Opening
<1>7. CASE Credit(t)
  <2>1. CASE thread[t].on \in Seeded
    BY <1>2, <1>3, <1>5, <1>7, <2>1 DEF Credit, Opening
  <2>2. CASE thread[t].on \notin Seeded
    BY <1>2, <1>3, <1>5, <1>7, <2>2 DEF Credit, Owned
  <2> QED BY <2>1, <2>2
<1>8. CASE InsertTask(t) \/ Hold(t)
  BY <1>2, <1>3, <1>4, <1>5, <1>8 DEF InsertTask, Hold
<1>9. CASE \/ TakeSlot(t) \/ CreateAssignment(t) \/ Start(t) \/ Complete(t) \/ Release(t)
           \/ WriteStats(t) \/ WriteDelta(t) \/ Fail(t) \/ FailDelta(t) \/ DeleteTask(t)
           \/ Refund(t) \/ HandlerDies(t)
  <2>1. \/ Reply(t)
        \/ Goto(t, "assign") \/ Goto(t, "credit") \/ Goto(t, "profile") \/ Goto(t, "delta")
        \/ Goto(t, "faildelta")
    BY <1>9 DEF TakeSlot, CreateAssignment, Start, Complete, Release, WriteStats, WriteDelta,
       Fail, FailDelta, DeleteTask, Refund, HandlerDies
  <2> QED BY <1>2, <1>3, <1>4, <1>5, <2>1 DEF Opening
<1> QED BY <1>6, <1>7, <1>8, <1>9 DEF Progress

\* Only Hold opens an escrow.
LEMMA Unopened ==
  ASSUME BalanceInv, [Next]_vars, NEW k \in Tasks, escrow[k].status = "none"
  PROVE  \/ escrow'[k] = escrow[k]
         \/ \E t \in Threads : /\ Hold(t) /\ thread[t].on = k
                               /\ thread[t].pc = "hold" /\ thread'[t].pc # "hold"
<1>1. escrow \in [Tasks -> EscrowRow]
  BY DEF BalanceInv, EscrowTyped
<1>2. CASE escrow' = escrow
  BY <1>2
<1>3. ASSUME NEW t \in Threads, Release(t) \/ Hold(t) \/ Refund(t), thread[t].on # k
      PROVE  escrow'[k] = escrow[k]
  BY <1>1, <1>3 DEF Release, Hold, Refund
<1>4. ASSUME NEW t \in Threads, Release(t) \/ Refund(t), thread[t].on = k
      PROVE  escrow' = escrow
  BY <1>4 DEF Release, Refund
<1>5. escrow' = escrow \/ \E t \in Threads : Release(t) \/ Hold(t) \/ Refund(t)
  BY DEF Next, vars, money, Deposits, Deposit, Publishes, PublishCheck, Request, AcceptCheck,
     Work, StartCheck, CompleteCheck, FailCheck, CancelTask, Progress,
     ReadSlots, TakeSlot, CreateAssignment, Start, Complete, Credit, ReadProfile, WriteStats,
     WriteDelta, Fail, FailDelta, InsertTask, DeleteTask, HandlerDies
<1>6. ASSUME NEW t \in Threads, Hold(t) PROVE thread[t].pc = "hold" /\ thread'[t].pc # "hold"
  <2>1. thread \in [Threads -> Handler]
    BY DEF BalanceInv, SlotInv, Typed, RowTypes
  <2> QED BY <1>6, <2>1 DEF Hold, Goto, Reply, Handler, Idle
<1> QED BY <1>2, <1>3, <1>4, <1>5, <1>6

LEMMA BilledGoes ==
  ASSUME BalanceInv, [Next]_vars, NEW t \in Threads, Progress(t) \/ HandlerDies(t)
  PROVE  Billed'
<1>1. /\ \A u \in Threads : u # t => thread'[u] = thread[u]
      /\ thread[t].pc # "idle" /\ thread[t].on \in Tasks
      /\ \/ thread'[t] = Idle
         \/ /\ thread'[t].on = thread[t].on /\ thread'[t].who = thread[t].who
            /\ \/ thread'[t].pc \notin Opening \cup {"delete", "refund", "release"}
               \/ InsertTask(t) /\ thread[t].pc = "insert" /\ thread'[t].pc = "hold"
               \/ thread[t].pc = "hold" /\ thread'[t].pc = "delete"
               \/ /\ Credit(t) /\ thread[t].pc = "credit" /\ thread'[t].pc = "release"
                  /\ thread[t].on \in Owned
  BY Goes
<1>2. Idle.pc = "idle"
  BY DEF Idle
<1> SUFFICES ASSUME NEW u \in Threads, NEW k, k = thread'[u].on
             PROVE  /\ thread'[u].pc \in Opening \cup {"delete", "refund"} =>
                         k \in Owned /\ thread'[u].who = OwnerOf[k]
                    /\ thread'[u].pc = "release" => k \in Owned
                    /\ thread'[u].pc \in Opening =>
                         /\ escrow'[k].status = "none"
                         /\ \A w \in Threads :
                              thread'[w].pc \in Opening /\ thread'[w].on = k => w = u
  BY DEF Billed
<1>3. /\ thread'[u].pc \in Opening => thread[u].pc \in Opening /\ k = thread[u].on
      /\ thread'[u].pc \in Opening \cup {"delete", "refund"} =>
           thread[u].pc \in Opening \cup {"delete", "refund"} /\ k = thread[u].on
             /\ thread'[u].who = thread[u].who
      /\ thread'[u].pc = "release" => k \in Owned
  <2>1. CASE u = t
    BY <1>1, <1>2, <2>1 DEF Opening
  <2>2. CASE u # t
    BY <1>1, <2>2 DEF BalanceInv, Billed
  <2> QED BY <2>1, <2>2
<1>4. \A w \in Threads : thread'[w].pc \in Opening =>
        thread[w].pc \in Opening /\ thread'[w].on = thread[w].on
  BY <1>1, <1>2 DEF Opening
<1>5. ASSUME thread'[u].pc \in Opening PROVE escrow'[k].status = "none"
  <2>1. k \in Owned /\ k \in Tasks /\ escrow[k].status = "none"
    BY <1>3, <1>5 DEF BalanceInv, Billed, Owned
  <2>2. CASE \E w \in Threads : /\ Hold(w) /\ thread[w].on = k
                                /\ thread[w].pc = "hold" /\ thread'[w].pc # "hold"
    <3>1. PICK w \in Threads : /\ Hold(w) /\ thread[w].on = k
                               /\ thread[w].pc = "hold" /\ thread'[w].pc # "hold"
      BY <2>2
    <3>2. w = u
      BY <1>3, <1>5, <3>1 DEF BalanceInv, Billed, Opening
    <3>3. u = t
      BY <1>1, <3>1, <3>2
    <3> QED BY <1>1, <1>2, <1>5, <3>1, <3>2, <3>3 DEF Opening
  <2> QED BY <2>1, <2>2, Unopened
<1> QED BY <1>3, <1>4, <1>5 DEF BalanceInv, Billed

LEMMA BilledBegins ==
  ASSUME BalanceInv, NEW t \in Threads, Request(t) \/ Publishes(t)
  PROVE  Billed'
<1>1. PICK a \in Accounts, k \in Tasks, pc \in {"slots", "start", "complete", "fail", "insert",
                                               "refund"} :
        /\ Begin(t, pc, a, k) /\ escrow' = escrow
        /\ pc \in {"insert", "refund"} => k \in Owned /\ a = OwnerOf[k]
        /\ pc = "insert" => /\ task[k].status = "absent"
                            /\ \A u \in Threads : thread[u].on # k
  <2>1. Providers \subseteq Accounts
    BY MarketAssumption
  <2>2. CASE \E p \in Providers, k \in Tasks : AcceptCheck(t, p, k)
    BY <2>1, <2>2 DEF AcceptCheck, money
  <2>3. CASE \E p \in Providers, k \in Tasks : Work(t, p, k)
    BY <2>1, <2>3 DEF Work, StartCheck, CompleteCheck, FailCheck, money
  <2>4. CASE \E k \in Owned : CancelTask(t, k)
    BY <2>4, OwnedFacts DEF CancelTask, money
  <2>5. CASE Publishes(t)
    BY <2>5, OwnedFacts DEF Publishes, PublishCheck, money
  <2> QED BY <2>2, <2>3, <2>4, <2>5 DEF Request
<1>2. /\ thread[t].pc = "idle" /\ thread'[t].pc = pc /\ thread'[t].on = k
      /\ thread'[t].who = a
      /\ \A u \in Threads : u # t => thread'[u] = thread[u]
  BY <1>1 DEF Begin, BalanceInv, SlotInv, Typed, RowTypes
<1>3. pc = "insert" => escrow[k].status = "none"
  BY <1>1 DEF BalanceInv, Escrowed
<1> SUFFICES ASSUME NEW u \in Threads, NEW j, j = thread'[u].on
             PROVE  /\ thread'[u].pc \in Opening \cup {"delete", "refund"} =>
                         j \in Owned /\ thread'[u].who = OwnerOf[j]
                    /\ thread'[u].pc = "release" => j \in Owned
                    /\ thread'[u].pc \in Opening =>
                         /\ escrow'[j].status = "none"
                         /\ \A w \in Threads :
                              thread'[w].pc \in Opening /\ thread'[w].on = j => w = u
  BY DEF Billed
<1>4. CASE u = t
  <2>1. j = k /\ (pc \in Opening => pc = "insert")
    BY <1>2, <1>4 DEF Opening
  <2> QED BY <1>1, <1>2, <1>3, <1>4, <2>1 DEF Opening
<1>5. CASE u # t
  <2>1. thread'[u] = thread[u]
    BY <1>2, <1>5
  <2>2. \A w \in Threads :
          thread'[u].pc \in Opening /\ thread'[w].pc \in Opening /\ thread'[w].on = j => w = u
    BY <1>1, <1>2, <2>1 DEF BalanceInv, Billed, Opening
  <2> QED BY <1>1, <2>1, <2>2 DEF BalanceInv, Billed
<1> QED BY <1>4, <1>5

LEMMA BilledStep == BalanceInv /\ [Next]_vars => Billed'
<1> SUFFICES ASSUME BalanceInv, [Next]_vars PROVE Billed'
  OBVIOUS
<1>1. CASE Deposits \/ UNCHANGED vars
  <2>1. thread' = thread /\ escrow' = escrow
    BY <1>1 DEF Deposits, Deposit, vars
  <2> QED BY <2>1 DEF BalanceInv, Billed
<1> QED BY <1>1, BilledGoes, BilledBegins DEF Next

-----------------------------------------------------------------------------
(* The transactions that move money.                                          *)

\* One more instalment of r, of which there are s.
LEMMA Instalment ==
  ASSUME NEW r \in Nat \ {0}, NEW s \in Nat, NEW n \in Nat, n < s
  PROVE  /\ r * n \in Nat /\ r * s \in Nat /\ r * n + r = r * (n + 1) /\ r * n + r <= r * s
         /\ r * n + r >= r * s => n + 1 = s
<1>1. r * n \in Nat /\ r * s \in Nat /\ r * (n + 1) \in Nat
  OBVIOUS
<1>2. r * n + r = r * (n + 1)
  OBVIOUS
<1>3. PICK d \in Nat : s = n + 1 + d
  <2>1. s - n - 1 \in Nat /\ s = n + 1 + (s - n - 1)
    OBVIOUS
  <2> QED BY <2>1
<1>4. r * s = r * (n + 1) + r * d
  BY <1>3
<1>5. r * d \in Nat /\ (d > 0 => r * d >= r)
  <2>1. r * d \in Nat
    OBVIOUS
  <2>2. ASSUME d > 0 PROVE r * d >= r
    <3>1. PICK e \in Nat : d = e + 1
      <4>1. d - 1 \in Nat /\ d = (d - 1) + 1
        BY <2>2
      <4> QED BY <4>1
    <3>2. r * d = r * e + r /\ r * e \in Nat
      BY <3>1
    <3> QED BY <3>2
  <2> QED BY <2>1, <2>2
<1>6. r * n + r <= r * s
  BY <1>1, <1>2, <1>4, <1>5
<1>7. r * n + r >= r * s => n + 1 = s
  BY <1>1, <1>2, <1>3, <1>4, <1>5
<1> QED BY <1>1, <1>2, <1>6, <1>7

\* What the three transactions do to the escrow and to the client's balance.
Releases(t, k) ==
  /\ thread[t].pc = "release" /\ escrow[k].status = "activo"
  /\ escrow' = [escrow EXCEPT ![k] = Released(@, Reward[k])]
  /\ wallet' = IF wallet[OwnerOf[k]].pending >= Reward[k]
                 THEN [wallet EXCEPT ![OwnerOf[k]].pending = @ - Reward[k]]
                 ELSE wallet
Holds(t, k) ==
  /\ thread[t].pc = "hold" /\ wallet[OwnerOf[k]].available >= TotalCost(k)
  /\ escrow' = [escrow EXCEPT ![k] = [status |-> "activo", held |-> TotalCost(k),
                                      released |-> 0]]
  /\ wallet' = [wallet EXCEPT ![OwnerOf[k]] = Held(@, TotalCost(k))]
Refunds(t, k) ==
  /\ thread[t].pc = "refund" /\ escrow[k].status = "activo"
  /\ escrow' = [escrow EXCEPT ![k].status = "cancelado"]
  /\ wallet' = [wallet EXCEPT ![OwnerOf[k]].available = @ + RefundOf(k),
                              ![OwnerOf[k]].pending = @ - RefundOf(k)]
Pays(t, p, k) ==
  /\ thread[t].pc = "credit" /\ escrow' = escrow
  /\ wallet' = [wallet EXCEPT ![p].available = @ + Reward[k]]
Tops(a, n) ==
  /\ escrow' = escrow
  /\ wallet' = [wallet EXCEPT ![a].available = @ + n]

LEMMA MoneyMoves ==
  ASSUME BalanceInv, [Next]_vars
  PROVE  \/ escrow' = escrow /\ wallet' = wallet
         \/ \E k \in Owned, n \in Nat : Tops(OwnerOf[k], n)
         \/ \E t \in Threads, k \in Tasks, p \in Providers :
              thread[t].on = k /\ thread[t].who = p /\ Pays(t, p, k)
         \/ \E t \in Threads, k \in Owned :
              thread[t].on = k /\ (Releases(t, k) \/ Holds(t, k) \/ Refunds(t, k))
<1>1. CASE UNCHANGED vars
  BY <1>1 DEF vars
<1>2. CASE Deposits
  <2>1. PICK k \in Owned, n \in 1..MaxDeposit : Deposit(OwnerOf[k], n)
    BY <1>2 DEF Deposits
  <2>2. n \in Nat /\ Tops(OwnerOf[k], n)
    BY <2>1, MarketAssumption DEF Deposit, Tops
  <2> QED BY <2>2
<1>3. ASSUME NEW t \in Threads, Credit(t)
      PROVE  \E k \in Tasks, p \in Providers :
               thread[t].on = k /\ thread[t].who = p /\ Pays(t, p, k)
  <2>1. thread[t].on \in Tasks /\ thread[t].who \in Providers
    BY <1>3 DEF Credit, BalanceInv, SlotInv, Typed, Addressed, OfProvider
  <2> QED BY <1>3, <2>1 DEF Credit, Pays
<1>4. ASSUME NEW t \in Threads, Release(t)
      PROVE  \/ escrow' = escrow /\ wallet' = wallet
             \/ \E k \in Owned : thread[t].on = k /\ Releases(t, k)
  <2>1. thread[t].on \in Owned
    BY <1>4 DEF Release, BalanceInv, Billed
  <2> QED BY <1>4, <2>1 DEF Release, Releases
<1>5. ASSUME NEW t \in Threads, Hold(t)
      PROVE  \/ escrow' = escrow /\ wallet' = wallet
             \/ \E k \in Owned : thread[t].on = k /\ Holds(t, k)
  <2>1. thread[t].on \in Owned /\ thread[t].who = OwnerOf[thread[t].on]
    BY <1>5 DEF Hold, BalanceInv, Billed, Opening
  <2> QED BY <1>5, <2>1 DEF Hold, Holds
<1>6. ASSUME NEW t \in Threads, Refund(t)
      PROVE  \/ escrow' = escrow /\ wallet' = wallet
             \/ \E k \in Owned : thread[t].on = k /\ Refunds(t, k)
  <2>1. thread[t].on \in Owned /\ thread[t].who = OwnerOf[thread[t].on]
    BY <1>6 DEF Refund, BalanceInv, Billed, Opening
  <2> QED BY <1>6, <2>1 DEF Refund, Refunds
<1>7. ASSUME NEW t \in Threads, Publishes(t) \/ Request(t) \/ Progress(t) \/ HandlerDies(t),
             ~Credit(t), ~Release(t), ~Hold(t), ~Refund(t)
      PROVE  escrow' = escrow /\ wallet' = wallet
  BY <1>7 DEF money, Publishes, PublishCheck, Request, AcceptCheck,
     Work, StartCheck, CompleteCheck, FailCheck, CancelTask, Progress,
     ReadSlots, TakeSlot, CreateAssignment, Start, Complete, ReadProfile, WriteStats,
     WriteDelta, Fail, FailDelta, InsertTask, DeleteTask, HandlerDies
<1> QED BY <1>1, <1>2, <1>3, <1>4, <1>5, <1>6, <1>7 DEF Next

LEMMA EscrowedStep ==
  ASSUME BalanceInv, [Next]_vars
  PROVE  Escrowed'
<1> SUFFICES ASSUME NEW k \in Owned
             PROVE  /\ task'[k].status = "absent" => escrow'[k].status = "none"
                    /\ escrow'[k].status = "activo" =>
                         /\ escrow'[k].held = Reward[k] * Slots[k]
                         /\ \E n \in Nat : n < Slots[k] /\ escrow'[k].released = Reward[k] * n
  BY DEF Escrowed
<1>1. /\ k \in Tasks /\ escrow \in [Tasks -> EscrowRow] /\ task \in [Tasks -> TaskRow]
      /\ Reward[k] \in Nat \ {0} /\ Slots[k] \in Nat \ {0}
  BY OwnedFacts DEF BalanceInv, EscrowTyped, SlotInv, Typed, RowTypes
<1>2. task'[k].status = "absent" => task[k].status = "absent"
  <2>1. CASE task' = task
    BY <2>1
  <2>2. ASSUME NEW t \in Threads, InsertTask(t) \/ DeleteTask(t) \/ TakeSlot(t)
        PROVE  task'[k].status = "absent" => task[k].status = "absent"
    BY <1>1, <2>2 DEF InsertTask, DeleteTask, TakeSlot, TaskRow
  <2>3. ASSUME NEW t \in Threads, NEW j \in Owned, CancelTask(t, j)
        PROVE  task'[k].status = "absent" => task[k].status = "absent"
    BY <1>1, <2>3 DEF CancelTask, TaskRow
  <2>4. \/ task' = task
        \/ \E t \in Threads : InsertTask(t) \/ DeleteTask(t) \/ TakeSlot(t)
        \/ \E t \in Threads, j \in Owned : CancelTask(t, j)
    BY DEF Next, vars, Deposits, Deposit, Publishes, PublishCheck, Request, AcceptCheck,
       Work, StartCheck, CompleteCheck, FailCheck, Progress, ReadSlots, CreateAssignment,
       Start, Complete, Credit, Release, ReadProfile, WriteStats, WriteDelta, Fail, FailDelta,
       Hold, Refund, HandlerDies
  <2> QED BY <2>1, <2>2, <2>3, <2>4
<1>3. ASSUME task[k].status = "absent" PROVE escrow'[k].status = "none"
  <2>1. escrow[k].status = "none"
    BY <1>3 DEF BalanceInv, Escrowed
  <2>2. \A t \in Threads : thread[t].on = k => thread[t].pc = "insert"
    BY <1>1, <1>3 DEF BalanceInv, SlotInv, Unborn
  <2>3. escrow'[k] = escrow[k]
    BY <1>1, <2>1, <2>2, Unopened
  <2> QED BY <2>1, <2>3
<1> DEFINE Open == escrow'[k].status = "activo" =>
                     /\ escrow'[k].held = Reward[k] * Slots[k]
                     /\ \E n \in Nat : n < Slots[k] /\ escrow'[k].released = Reward[k] * n
<1>4. CASE escrow'[k] = escrow[k]
  <2>1. Open
    BY <1>4 DEF BalanceInv, Escrowed
  <2> QED BY <1>2, <1>3, <2>1
<1>5. CASE escrow'[k] # escrow[k]
  <2>1. PICK t \in Threads, j \in Owned :
          thread[t].on = j /\ (Releases(t, j) \/ Holds(t, j) \/ Refunds(t, j))
    BY <1>5, MoneyMoves DEF Tops, Pays
  <2>2. j = k
    BY <1>1, <1>5, <2>1 DEF Releases, Holds, Refunds
  <2>3. CASE Releases(t, k)
    <3>1. /\ escrow[k].held = Reward[k] * Slots[k]
          /\ \E n \in Nat : n < Slots[k] /\ escrow[k].released = Reward[k] * n
      BY <2>3 DEF Releases, BalanceInv, Escrowed
    <3>2. PICK n \in Nat : n < Slots[k] /\ escrow[k].released = Reward[k] * n
      BY <3>1
    <3>3. escrow'[k] = Released(escrow[k], Reward[k]) /\ escrow[k].status = "activo"
      BY <1>1, <2>3 DEF Releases
    <3>4. /\ escrow'[k].held = escrow[k].held
          /\ escrow'[k].released = escrow[k].released + Reward[k]
          /\ escrow'[k].status = "activo" => ~(escrow[k].released + Reward[k] >= escrow[k].held)
      BY <1>1, <3>3, ReleasedTyped
    <3>5. /\ escrow'[k].released = Reward[k] * (n + 1)
          /\ n + 1 = Slots[k] => escrow[k].released + Reward[k] = escrow[k].held
          /\ Reward[k] * Slots[k] \in Nat
      BY <1>1, <3>1, <3>2, <3>4, Instalment
    <3>6. escrow'[k].status = "activo" => n + 1 < Slots[k]
      BY <1>1, <3>1, <3>2, <3>4, <3>5
    <3>7. Open
      BY <3>1, <3>4, <3>5, <3>6
    <3> QED BY <1>2, <1>3, <3>7
  <2>4. CASE Holds(t, k)
    <3>1. escrow'[k] = [status |-> "activo", held |-> TotalCost(k), released |-> 0]
      BY <1>1, <2>4 DEF Holds
    <3>2. escrow'[k].released = Reward[k] * 0
      BY <1>1, <3>1
    <3>3. Open
      BY <1>1, <3>1, <3>2 DEF TotalCost
    <3> QED BY <1>2, <1>3, <3>3
  <2>5. CASE Refunds(t, k)
    <3>1. escrow'[k].status = "cancelado"
      BY <1>1, <2>5 DEF Refunds, EscrowRow
    <3> QED BY <1>2, <1>3, <3>1
  <2> QED BY <2>1, <2>2, <2>3, <2>4, <2>5
<1> QED BY <1>4, <1>5

\* What is due to a client is never negative, and no balance is smaller.
LEMMA DueNat ==
  ASSUME BalanceInv, NEW a \in Accounts, NEW k \in Owned
  PROVE  /\ Due(a)[k] \in Nat /\ Due(a)[k] <= wallet[a].pending
         /\ OwnerOf[k] = a /\ escrow[k].status = "activo" =>
              Due(a)[k] = Unspent(k) /\ Unspent(k) >= Reward[k]
<1>1. ASSUME NEW j \in Owned, escrow[j].status = "activo"
      PROVE  Unspent(j) \in Nat /\ Unspent(j) >= Reward[j]
  <2>1. Reward[j] \in Nat \ {0} /\ Slots[j] \in Nat \ {0}
    BY OwnedFacts
  <2>2. PICK n \in Nat : n < Slots[j] /\ escrow[j].released = Reward[j] * n
    BY <1>1 DEF BalanceInv, Escrowed
  <2>3. escrow[j].held = Reward[j] * Slots[j]
    BY <1>1 DEF BalanceInv, Escrowed
  <2>4. /\ Reward[j] * n \in Nat /\ Reward[j] * Slots[j] \in Nat
        /\ Reward[j] * n + Reward[j] <= Reward[j] * Slots[j]
    BY <2>1, <2>2, Instalment
  <2> QED BY <2>1, <2>2, <2>3, <2>4 DEF Unspent
<1>2. \A j \in Owned : Due(a)[j] \in Nat
  BY <1>1 DEF Due
<1>3. Due(a)[k] <= Sum(Due(a), Owned)
  BY <1>2, OwnedFacts, SumNat
<1>4. OwnerOf[k] = a /\ escrow[k].status = "activo" => Due(a)[k] = Unspent(k)
  BY DEF Due
<1> QED BY <1>1, <1>2, <1>3, <1>4 DEF BalanceInv, Covered

\* One escrow changes.
LEMMA DueMoves ==
  ASSUME BalanceInv, EscrowTyped', NEW k \in Owned, NEW a \in Accounts,
         \A j \in Owned : j # k => escrow'[j] = escrow[j]
  PROVE  /\ Due(a)'[k] \in Int
         /\ Sum(Due(a)', Owned) = wallet[a].pending - Due(a)[k] + Due(a)'[k]
         /\ OwnerOf[k] # a => Due(a)'[k] = Due(a)[k]
<1>1. \A j \in Owned : Due(a)[j] \in Int
  BY DueNat
<1>2. \A j \in Owned : Due(a)'[j] \in Int
  <2> SUFFICES ASSUME NEW j \in Owned PROVE Due(a)'[j] \in Int
    OBVIOUS
  <2>1. escrow'[j] \in EscrowRow
    BY OwnedFacts DEF EscrowTyped
  <2> QED BY <2>1 DEF Due, Unspent, EscrowRow
<1>3. \A j \in Owned : j # k => Due(a)'[j] = Due(a)[j]
  BY DEF Due, Unspent
<1>4. Sum(Due(a)', Owned) = Sum(Due(a), Owned) - Due(a)[k] + Due(a)'[k]
  BY <1>1, <1>2, <1>3, OwnedFacts, SumUpdate
<1>5. OwnerOf[k] # a => Due(a)'[k] = Due(a)[k]
  BY DEF Due
<1> QED BY <1>2, <1>4, <1>5 DEF BalanceInv, Covered

\* The client's balance moves by what becomes due.
LEMMA BalanceMoves ==
  ASSUME BalanceInv, EscrowTyped', NEW k \in Owned, NEW c \in Accounts, c = OwnerOf[k],
         NEW available \in Nat,
         \A j \in Owned : j # k => escrow'[j] = escrow[j],
         wallet'[c] = [available |-> available,
                       pending |-> wallet[c].pending - Due(c)[k] + Due(c)'[k]],
         Due(c)'[k] >= 0,
         \A a \in Accounts : a # c => wallet'[a] = wallet[a],
         wallet' = [a \in Accounts |-> wallet'[a]]
  PROVE  Covered' /\ wallet' \in [Accounts -> WalletRow]
<1>1. wallet \in [Accounts -> WalletRow]
  BY DEF BalanceInv, WalletTyped
<1>2. ASSUME NEW a \in Accounts
      PROVE  wallet'[a].pending = Sum(Due(a)', Owned) /\ wallet'[a] \in WalletRow
  <2>1. /\ Due(a)'[k] \in Int
        /\ Sum(Due(a)', Owned) = wallet[a].pending - Due(a)[k] + Due(a)'[k]
        /\ OwnerOf[k] # a => Due(a)'[k] = Due(a)[k]
    BY DueMoves
  <2>2. Due(a)[k] \in Nat /\ Due(a)[k] <= wallet[a].pending
    BY DueNat
  <2>3. wallet[a].pending \in Nat
    BY <1>1 DEF WalletRow
  <2>4. CASE a = c
    <3>1. wallet[a].pending - Due(a)[k] + Due(a)'[k] \in Nat
      BY <2>1, <2>2, <2>3, <2>4
    <3> QED BY <2>1, <2>4, <3>1 DEF WalletRow
  <2>5. CASE a # c
    BY <1>1, <2>1, <2>2, <2>3, <2>5
  <2> QED BY <2>4, <2>5
<1> QED BY <1>2 DEF Covered

LEMMA HeldFields ==
  ASSUME NEW row \in WalletRow, NEW n \in Nat, row.available >= n
  PROVE  Held(row, n) = [available |-> row.available - n, pending |-> row.pending + n]
<1> DEFINE x == row.available - n
           y == row.pending + n
           R == [row EXCEPT !.available = x, !.pending = y]
<1>1. x \in Nat /\ y \in Nat /\ Held(row, n) = R
  BY DEF Held, WalletRow
<1> HIDE DEF x, y
<1>2. R \in WalletRow /\ R.available = x /\ R.pending = y
  BY <1>1 DEF WalletRow
<1> HIDE DEF R
<1>3. R = [available |-> x, pending |-> y]
  BY <1>2 DEF WalletRow
<1> QED BY <1>1, <1>3 DEF x, y

LEMMA CoveredStep ==
  ASSUME BalanceInv, [Next]_vars, EscrowTyped'
  PROVE  Covered' /\ WalletTyped'
<1>1. wallet \in [Accounts -> WalletRow] /\ escrow \in [Tasks -> EscrowRow]
  BY DEF BalanceInv, WalletTyped, EscrowTyped
<1>2. deposited' \in [Accounts -> Nat]
  <2>1. CASE deposited' = deposited
    BY <2>1 DEF BalanceInv, WalletTyped
  <2>2. ASSUME NEW k \in Owned, NEW n \in 1..MaxDeposit, Deposit(OwnerOf[k], n)
        PROVE  deposited' \in [Accounts -> Nat]
    BY <2>2, OwnedFacts, MarketAssumption DEF Deposit, BalanceInv, WalletTyped
  <2>3. deposited' = deposited \/ Deposits
    BY DEF Next, vars, money, Publishes, PublishCheck, Request, AcceptCheck,
       Work, StartCheck, CompleteCheck, FailCheck, CancelTask, Progress,
       ReadSlots, TakeSlot, CreateAssignment, Start, Complete, Credit, Release, ReadProfile,
       WriteStats, WriteDelta, Fail, FailDelta, InsertTask, Hold, DeleteTask, Refund,
       HandlerDies
  <2> QED BY <2>1, <2>2, <2>3 DEF Deposits
<1> SUFFICES Covered' /\ wallet' \in [Accounts -> WalletRow]
  BY <1>2 DEF WalletTyped
<1>3. CASE escrow' = escrow /\ wallet' = wallet
  <2>1. \A a \in Accounts : Due(a)' = Due(a)
    BY <1>3 DEF Due, Unspent
  <2> QED BY <1>1, <1>3, <2>1 DEF BalanceInv, Covered
<1>4. ASSUME escrow' = escrow, NEW a \in Accounts, NEW n \in Nat,
             wallet' = [wallet EXCEPT ![a].available = @ + n]
      PROVE  Covered' /\ wallet' \in [Accounts -> WalletRow]
  <2>1. \A b \in Accounts : Due(b)' = Due(b)
    BY <1>4 DEF Due, Unspent
  <2>2. \A b \in Accounts : wallet'[b].pending = wallet[b].pending
    BY <1>1, <1>4 DEF WalletRow
  <2>3. wallet' \in [Accounts -> WalletRow]
    BY <1>1, <1>4 DEF WalletRow
  <2> QED BY <2>1, <2>2, <2>3 DEF BalanceInv, Covered
<1>5. ASSUME NEW t \in Threads, NEW k \in Owned, thread[t].on = k,
             Releases(t, k) \/ Holds(t, k) \/ Refunds(t, k)
      PROVE  Covered' /\ wallet' \in [Accounts -> WalletRow]
  <2>1. PICK c \in Accounts : c = OwnerOf[k]
    BY OwnedFacts
  <2>2. /\ k \in Tasks /\ Reward[k] \in Nat \ {0} /\ Slots[k] \in Nat \ {0}
        /\ wallet[c] \in WalletRow /\ escrow[k] \in EscrowRow
    BY <1>1, OwnedFacts
  <2>3. /\ \A j \in Owned : j # k => escrow'[j] = escrow[j]
        /\ \A a \in Accounts : a # c => wallet'[a] = wallet[a]
        /\ wallet' = [a \in Accounts |-> wallet'[a]]
    BY <1>1, <1>5, <2>1, <2>2, OwnedFacts DEF Releases, Holds, Refunds
  <2>4. /\ Due(c)[k] \in Nat /\ Due(c)[k] <= wallet[c].pending
        /\ escrow[k].status = "activo" =>
             Due(c)[k] = Unspent(k) /\ Unspent(k) >= Reward[k]
    BY <2>1, DueNat
  <2>5. Due(c)'[k] = IF escrow'[k].status = "activo" THEN Unspent(k)' ELSE 0
    BY <2>1 DEF Due
  <2>6. wallet[c].available \in Nat /\ wallet[c].pending \in Nat
    BY <2>2 DEF WalletRow
  <2>7. CASE Releases(t, k)
    <3>1. Due(c)[k] = Unspent(k) /\ Unspent(k) >= Reward[k]
      BY <2>4, <2>7 DEF Releases
    <3>2. wallet[c].pending >= Reward[k]
      BY <2>2, <2>4, <2>6, <3>1
    <3>3. wallet' = [wallet EXCEPT ![c].pending = @ - Reward[k]]
      BY <2>1, <2>7, <3>2 DEF Releases
    <3>4. wallet'[c] = [available |-> wallet[c].available,
                        pending |-> wallet[c].pending - Reward[k]]
      BY <1>1, <2>2, <3>3 DEF WalletRow
    <3>5. escrow'[k] = Released(escrow[k], Reward[k]) /\ escrow[k].status = "activo"
      BY <1>1, <2>2, <2>7 DEF Releases
    <3>6. /\ escrow'[k].held = escrow[k].held
          /\ escrow'[k].released = escrow[k].released + Reward[k]
          /\ escrow'[k].status = IF escrow[k].released + Reward[k] >= escrow[k].held
                                   THEN "completado" ELSE "activo"
      BY <2>2, <3>5, ReleasedTyped
    <3>7. escrow[k].held \in Nat /\ escrow[k].released \in Nat
      BY <2>2 DEF EscrowRow
    <3>8. Due(c)'[k] = Due(c)[k] - Reward[k]
      <4>1. escrow'[k].held - escrow'[k].released = Due(c)[k] - Reward[k]
        BY <2>2, <3>1, <3>6, <3>7 DEF Unspent
      <4>2. CASE escrow'[k].status = "activo"
        BY <2>5, <4>1, <4>2 DEF Unspent
      <4>3. CASE escrow'[k].status # "activo"
        <5>1. escrow[k].released + Reward[k] >= escrow[k].held
          BY <3>6, <4>3
        <5>2. Due(c)[k] - Reward[k] = 0
          BY <2>2, <3>1, <3>7, <5>1 DEF Unspent
        <5> QED BY <2>5, <4>3, <5>2
      <4> QED BY <4>2, <4>3
    <3>9. /\ wallet[c].pending - Due(c)[k] + Due(c)'[k] = wallet[c].pending - Reward[k]
          /\ Due(c)'[k] >= 0
      BY <2>2, <2>4, <2>6, <3>1, <3>8
    <3> QED BY <2>1, <2>3, <2>6, <3>4, <3>9, BalanceMoves
  <2>8. CASE Holds(t, k)
    <3>1. Due(c)[k] = 0
      <4>1. escrow[k].status = "none"
        BY <1>5, <2>8 DEF Holds, BalanceInv, Billed, Opening
      <4> QED BY <4>1 DEF Due
    <3>2. TotalCost(k) \in Nat /\ wallet[c].available - TotalCost(k) \in Nat
      <4>1. TotalCost(k) \in Nat /\ wallet[c].available >= TotalCost(k)
        BY <2>1, <2>2, <2>8 DEF TotalCost, Holds
      <4> QED BY <2>6, <4>1
    <3>3. wallet'[c] = [available |-> wallet[c].available - TotalCost(k),
                        pending |-> wallet[c].pending + TotalCost(k)]
      <4>1. wallet'[c] = Held(wallet[c], TotalCost(k))
        BY <1>1, <2>1, <2>8 DEF Holds
      <4>2. wallet[c].available >= TotalCost(k)
        BY <2>6, <3>2
      <4> QED BY <2>2, <3>2, <4>1, <4>2, HeldFields
    <3>4. Due(c)'[k] = TotalCost(k)
      <4>1. escrow'[k] = [status |-> "activo", held |-> TotalCost(k), released |-> 0]
        BY <1>1, <2>2, <2>8 DEF Holds
      <4> QED BY <2>5, <3>2, <4>1 DEF Unspent
    <3>5. /\ wallet[c].pending - Due(c)[k] + Due(c)'[k] = wallet[c].pending + TotalCost(k)
          /\ Due(c)'[k] >= 0
      BY <2>6, <3>1, <3>2, <3>4
    <3> QED BY <2>1, <2>3, <3>2, <3>3, <3>5, BalanceMoves
  <2>9. CASE Refunds(t, k)
    <3>1. Due(c)[k] = Unspent(k)
      BY <2>4, <2>9 DEF Refunds
    <3>2. wallet' = [wallet EXCEPT ![c].available = @ + Due(c)[k],
                                   ![c].pending = @ - Due(c)[k]]
      BY <2>1, <2>9, <3>1 DEF Refunds, RefundOf
    <3>3. wallet'[c] = [available |-> wallet[c].available + Due(c)[k],
                        pending |-> wallet[c].pending - Due(c)[k]]
      BY <1>1, <2>2, <3>2 DEF WalletRow
    <3>4. Due(c)'[k] = 0
      <4>1. escrow'[k].status = "cancelado"
        BY <1>1, <2>2, <2>9 DEF Refunds, EscrowRow
      <4> QED BY <2>5, <4>1
    <3>5. /\ wallet[c].pending - Due(c)[k] + Due(c)'[k] = wallet[c].pending - Due(c)[k]
          /\ Due(c)'[k] >= 0 /\ wallet[c].available + Due(c)[k] \in Nat
      BY <2>4, <2>6, <3>4
    <3> QED BY <2>1, <2>3, <3>3, <3>5, BalanceMoves
  <2> QED BY <1>5, <2>7, <2>8, <2>9
<1>6. Providers \subseteq Accounts /\ \A k \in Tasks : Reward[k] \in Nat
  BY MarketAssumption
<1> QED BY <1>3, <1>4, <1>5, <1>6, MoneyMoves, OwnedFacts DEF Tops, Pays

-----------------------------------------------------------------------------
(* What is paid and what is released. *)

LEMMA ReleasingFinite ==
  \A k \in Owned : IsFiniteSet(Releasing(k)) /\ Cardinality(Releasing(k)) \in Nat
<1>1. IsFiniteSet(Threads)
  BY MarketAssumption
<1> QED BY <1>1, FS_Subset, FS_CardinalityType DEF Releasing

LEMMA PaidNat ==
  ASSUME BalanceInv, NEW k \in Owned
  PROVE  /\ \A p \in Providers : paid[k][p] \in Nat
         /\ Sum(paid[k], Providers) \in Nat
<1>1. \A p \in Providers : paid[k][p] \in Nat
  BY OwnedFacts DEF BalanceInv, SlotInv, Typed, RowTypes
<1> QED BY <1>1, OwnedFacts, SumNat

\* A payment adds to what may be released, a release uses it.
LEMMA EarnedCredit ==
  ASSUME BalanceInv, NEW t \in Threads, Credit(t), NEW k \in Owned, thread[t].on = k
  PROVE  escrow'[k].released + Reward[k] * Cardinality(Releasing(k)')
           <= Reward[k] * Sum(paid'[k], Providers)
<1>1. PICK p \in Providers : p = thread[t].who
  BY DEF Credit, BalanceInv, SlotInv, Typed, Addressed, OfProvider
<1>2. /\ paid' = [paid EXCEPT ![k][p] = @ + 1] /\ escrow' = escrow
      /\ paid \in [Tasks -> [Providers -> Nat]] /\ k \in Tasks
  BY <1>1, OwnedFacts DEF Credit, BalanceInv, SlotInv, Typed, RowTypes
<1>3. /\ paid'[k][p] = paid[k][p] + 1
      /\ \A q \in Providers : q # p => paid'[k][q] = paid[k][q]
      /\ \A q \in Providers : paid[k][q] \in Int /\ paid'[k][q] \in Int
  BY <1>2
<1>4. Sum(paid'[k], Providers) = Sum(paid[k], Providers) - paid[k][p] + paid'[k][p]
  BY <1>3, OwnedFacts, SumUpdate
<1>5. Sum(paid'[k], Providers) = Sum(paid[k], Providers) + 1
  <2>1. Sum(paid[k], Providers) \in Nat /\ paid[k][p] \in Int
    BY <1>3, PaidNat
  <2> QED BY <1>3, <1>4, <2>1
<1>6. \A u \in Threads : u # t => thread'[u] = thread[u]
  BY Goes DEF Progress
<1>7. Releasing(k)' \subseteq Releasing(k) \cup {t}
  BY <1>6 DEF Releasing
<1> DEFINE n == Cardinality(Releasing(k))
           m == Cardinality(Releasing(k)')
           s == Sum(paid[k], Providers)
           r == Reward[k]
<1>8. m \in Nat /\ m <= n + 1
  BY <1>7, ReleasingFinite, Grows
<1>9. n \in Nat /\ s \in Nat /\ r \in Nat
  BY ReleasingFinite, PaidNat, OwnedFacts
<1>10. escrow[k].released + r * n <= r * s /\ escrow[k].released \in Nat
  BY <1>2 DEF BalanceInv, Earned, EscrowTyped, EscrowRow
<1>11. Sum(paid'[k], Providers) = s + 1 /\ escrow'[k].released = escrow[k].released
  BY <1>2, <1>5
<1> HIDE DEF n, m, s, r
<1>12. r * m <= r * n + r /\ r * (s + 1) = r * s + r
  <2>1. r * m <= r * (n + 1)
    BY <1>8, <1>9
  <2> QED BY <1>8, <1>9, <2>1
<1>13. r * m \in Nat /\ r * n \in Nat /\ r * s \in Nat
  BY <1>8, <1>9
<1>14. escrow'[k].released + r * m <= r * (s + 1)
  BY <1>9, <1>10, <1>11, <1>12, <1>13
<1> QED BY <1>11, <1>14 DEF m, r

LEMMA EarnedRelease ==
  ASSUME BalanceInv, NEW t \in Threads, Release(t), NEW k \in Owned, thread[t].on = k
  PROVE  escrow'[k].released + Reward[k] * Cardinality(Releasing(k)')
           <= Reward[k] * Sum(paid'[k], Providers)
<1>1. /\ thread \in [Threads -> Handler] /\ escrow \in [Tasks -> EscrowRow] /\ k \in Tasks
      /\ thread[t].pc = "release" /\ paid' = paid
  BY OwnedFacts DEF Release, BalanceInv, SlotInv, Typed, RowTypes, EscrowTyped
<1>2. thread'[t].pc = "profile" /\ \A u \in Threads : u # t => thread'[u] = thread[u]
  BY <1>1 DEF Release, Goto, Handler
<1>3. t \in Releasing(k) /\ Releasing(k)' \subseteq Releasing(k) \ {t}
  BY <1>1, <1>2 DEF Releasing
<1>4. /\ escrow[k].released \in Nat /\ Reward[k] \in Nat
      /\ escrow'[k].released \in {escrow[k].released, escrow[k].released + Reward[k]}
  <2>1. escrow[k] \in EscrowRow /\ Reward[k] \in Nat
    BY <1>1, OwnedFacts
  <2>2. CASE escrow[k].status = "activo"
    <3>1. escrow'[k] = Released(escrow[k], Reward[k])
      BY <1>1, <2>2 DEF Release
    <3> QED BY <2>1, <3>1, ReleasedTyped DEF EscrowRow
  <2>3. CASE escrow[k].status # "activo"
    BY <2>1, <2>3 DEF Release, EscrowRow
  <2> QED BY <2>2, <2>3
<1> DEFINE n == Cardinality(Releasing(k))
           m == Cardinality(Releasing(k)')
           s == Sum(paid[k], Providers)
           r == Reward[k]
<1>5. m \in Nat /\ m <= n - 1
  BY <1>3, ReleasingFinite, Shrinks
<1>6. n \in Nat /\ s \in Nat /\ r \in Nat
  BY ReleasingFinite, PaidNat, OwnedFacts
<1>7. escrow[k].released + r * n <= r * s
  BY DEF BalanceInv, Earned
<1>8. escrow[k].released \in Nat /\ escrow'[k].released <= escrow[k].released + r
      /\ escrow'[k].released \in Nat
  BY <1>4
<1>9. Sum(paid'[k], Providers) = s
  BY <1>1
<1> HIDE DEF n, m, s, r
<1>10. r * m + r <= r * n
  <2>1. r * (m + 1) <= r * n /\ r * (m + 1) = r * m + r
    BY <1>5, <1>6
  <2> QED BY <2>1
<1>11. r * m \in Nat /\ r * n \in Nat /\ r * s \in Nat
  BY <1>5, <1>6
<1>12. escrow'[k].released + r * m <= r * s
  BY <1>6, <1>7, <1>8, <1>10, <1>11
<1> QED BY <1>9, <1>12 DEF m, r

LEMMA EarnedStep ==
  ASSUME BalanceInv, [Next]_vars
  PROVE  Earned'
<1> SUFFICES ASSUME NEW k \in Owned
             PROVE  escrow'[k].released + Reward[k] * Cardinality(Releasing(k)')
                      <= Reward[k] * Sum(paid'[k], Providers)
  BY DEF Earned
<1>1. /\ k \in Tasks /\ thread \in [Threads -> Handler] /\ escrow \in [Tasks -> EscrowRow]
      /\ paid \in [Tasks -> [Providers -> Nat]] /\ Reward[k] \in Nat
  BY OwnedFacts DEF BalanceInv, SlotInv, Typed, RowTypes, EscrowTyped
<1>2. CASE \E t \in Threads : Credit(t) /\ thread[t].on = k
  BY <1>2, EarnedCredit
<1>3. CASE \E t \in Threads : Release(t) /\ thread[t].on = k
  BY <1>3, EarnedRelease
<1>4. CASE ~\E t \in Threads : (Credit(t) \/ Release(t)) /\ thread[t].on = k
  <2>1. paid'[k] = paid[k]
    <3>1. ASSUME NEW t \in Threads, Credit(t) PROVE paid'[k] = paid[k]
      BY <1>1, <1>4, <3>1 DEF Credit
    <3>2. paid' = paid \/ \E t \in Threads : Credit(t)
      BY DEF Next, vars, money, Deposits, Deposit, Publishes, PublishCheck, Request,
         AcceptCheck, Work, StartCheck, CompleteCheck, FailCheck, CancelTask, Progress,
         ReadSlots, TakeSlot, CreateAssignment, Start, Complete, Release, ReadProfile,
         WriteStats, WriteDelta, Fail, FailDelta, InsertTask, Hold, DeleteTask, Refund,
         HandlerDies
    <3> QED BY <3>1, <3>2
  <2>2. escrow'[k].released <= escrow[k].released /\ escrow[k].released \in Nat
        /\ escrow'[k].released \in Nat
    <3>1. escrow[k].released \in Nat
      BY <1>1 DEF EscrowRow
    <3>2. ASSUME NEW t \in Threads, Release(t) PROVE escrow'[k] = escrow[k]
      BY <1>1, <1>4, <3>2 DEF Release
    <3>3. ASSUME NEW t \in Threads, Hold(t)
          PROVE  escrow'[k] = escrow[k] \/ escrow'[k].released = 0
      BY <1>1, <3>3 DEF Hold
    <3>4. ASSUME NEW t \in Threads, Refund(t)
          PROVE  escrow'[k].released = escrow[k].released
      <4>1. escrow' = escrow
            \/ escrow' = [escrow EXCEPT ![thread[t].on].status = "cancelado"]
        BY <3>4 DEF Refund
      <4>2. \A j \in Tasks : [escrow EXCEPT ![j].status = "cancelado"][k].released
                               = escrow[k].released
        BY <1>1 DEF EscrowRow
      <4>3. escrow' = escrow \/ thread[t].on \in Tasks
        <5>1. CASE thread[t].on \in Tasks
          BY <5>1
        <5>2. CASE thread[t].on \notin Tasks
          BY <1>1, <4>1, <5>2
        <5> QED BY <5>1, <5>2
      <4> QED BY <4>1, <4>2, <4>3
    <3>5. escrow' = escrow \/ \E t \in Threads : Release(t) \/ Hold(t) \/ Refund(t)
      BY DEF Next, vars, money, Deposits, Deposit, Publishes, PublishCheck, Request,
         AcceptCheck, Work, StartCheck, CompleteCheck, FailCheck, CancelTask, Progress,
         ReadSlots, TakeSlot, CreateAssignment, Start, Complete, Credit, ReadProfile,
         WriteStats, WriteDelta, Fail, FailDelta, InsertTask, DeleteTask, HandlerDies
    <3> QED BY <3>1, <3>2, <3>3, <3>4, <3>5
  <2>3. Releasing(k)' \subseteq Releasing(k)
    <3>1. CASE thread' = thread
      BY <3>1 DEF Releasing
    <3>2. ASSUME NEW t \in Threads, Progress(t) \/ HandlerDies(t)
          PROVE  Releasing(k)' \subseteq Releasing(k)
      <4>1. /\ \A u \in Threads : u # t => thread'[u] = thread[u]
            /\ thread'[t].pc = "release" => thread'[t].on # k
        <5>1. Idle.pc # "release"
          BY DEF Idle
        <5> QED BY <1>4, <3>2, <5>1, Goes
      <4> QED BY <4>1 DEF Releasing
    <3>3. ASSUME NEW t \in Threads, Publishes(t) \/ Request(t)
          PROVE  Releasing(k)' \subseteq Releasing(k)
      <4>1. \A a, j, pc : Begin(t, pc, a, j) =>
              /\ \A u \in Threads : u # t => thread'[u] = thread[u]
              /\ thread'[t].pc = pc
        BY <1>1 DEF Begin
      <4>2. /\ \A u \in Threads : u # t => thread'[u] = thread[u]
            /\ thread'[t].pc # "release"
        BY <3>3, <4>1 DEF Publishes, PublishCheck, Request, AcceptCheck, Work, StartCheck,
           CompleteCheck, FailCheck, CancelTask
      <4> QED BY <4>2 DEF Releasing
    <3> QED BY <3>1, <3>2, <3>3 DEF Next, Deposits, Deposit, vars
  <2> DEFINE n == Cardinality(Releasing(k))
             m == Cardinality(Releasing(k)')
             s == Sum(paid[k], Providers)
             r == Reward[k]
  <2>4. m \in Nat /\ m <= n /\ n \in Nat
    BY <2>3, ReleasingFinite, FS_Subset, FS_CardinalityType
  <2>5. s \in Nat /\ r \in Nat /\ Sum(paid'[k], Providers) = s
    BY <1>1, <2>1, PaidNat
  <2>6. escrow[k].released + r * n <= r * s
    BY DEF BalanceInv, Earned
  <2> HIDE DEF n, m, s, r
  <2>7. r * m <= r * n /\ r * m \in Nat /\ r * n \in Nat /\ r * s \in Nat
    BY <2>4, <2>5
  <2>8. escrow'[k].released + r * m <= r * s
    BY <2>2, <2>6, <2>7
  <2> QED BY <2>5, <2>8 DEF m, r
<1> QED BY <1>2, <1>3, <1>4

LEMMA BalanceStep == BalanceInv /\ [Next]_vars => BalanceInv'
<1> SUFFICES ASSUME BalanceInv, [Next]_vars PROVE BalanceInv'
  OBVIOUS
<1>1. SlotInv' /\ EscrowTyped'
  BY SlotStep, EscrowStep DEF BalanceInv
<1> QED BY <1>1, BilledStep, EscrowedStep, CoveredStep, EarnedStep DEF BalanceInv

\* MapThenSumSet of the unspent escrows is the sum of their amounts.
LEMMA UnspentAddsUp ==
  ASSUME NEW T, IsFiniteSet(T)
  PROVE  MapThenSumSet(Unspent, T) = Sum([k \in T |-> Unspent(k)], T)
<1> DEFINE g == [k \in T |-> Unspent(k)]
<1>1. PICK h : Adds(h, g, SUBSET T)
  BY AddsExists
<1>2. \A s \in SUBSET T : s # {} => g[Pick(s)] = Unspent(Pick(s))
  BY Picked
<1> HIDE DEF g
<1>3. \A j : Adds(j, g, SUBSET T) <=>
        j = [s \in SUBSET T |-> IF s = {} THEN 0 ELSE Unspent(Pick(s)) + j[s \ {Pick(s)}]]
  BY <1>2 DEF Adds
<1>4. \E j : j = [s \in SUBSET T |-> IF s = {} THEN 0
                                    ELSE Unspent(Pick(s)) + j[s \ {Pick(s)}]]
  BY <1>1, <1>3
<1>5. \A j : j = [s \in SUBSET T |-> IF s = {} THEN 0
                                    ELSE Unspent(Pick(s)) + j[s \ {Pick(s)}]]
             => Sum(g, T) = j[T]
  BY <1>3, SumPart
<1>6. Sum(g, T) = MapThenSumSet(Unspent, T)
  BY <1>4, <1>5 DEF MapThenSumSet, MapThenFoldSet, Pick
<1> QED BY <1>6 DEF g

LEMMA PendingAddsUp == BalanceInv => PendingMatchesEscrows
<1> SUFFICES ASSUME BalanceInv, NEW a \in Accounts
             PROVE  wallet[a].pending =
                      MapThenSumSet(Unspent,
                        {k \in Owned : OwnerOf[k] = a /\ escrow[k].status = "activo"})
  BY DEF PendingMatchesEscrows
<1> DEFINE T == {k \in Owned : OwnerOf[k] = a /\ escrow[k].status = "activo"}
           g == [k \in T |-> Unspent(k)]
<1>1. IsFiniteSet(T) /\ IsFiniteSet(Owned) /\ T \subseteq Owned
  BY OwnedFacts, FS_Subset
<1>2. MapThenSumSet(Unspent, T) = Sum(g, T)
  BY <1>1, UnspentAddsUp
<1>3. \A k \in Owned : Due(a)[k] \in Nat
  BY DueNat
<1>4. \A k \in T : Due(a)[k] = g[k]
  BY <1>1 DEF Due
<1>5. \A k \in T : g[k] \in Int
  BY <1>1, <1>3, <1>4
<1>6. \A k \in Owned \ T : Due(a)[k] = 0
  BY DEF Due
<1> HIDE DEF T, g
<1>7. Sum(Due(a), Owned) = Sum(g, T)
  BY <1>1, <1>4, <1>5, <1>6, SumSupport
<1>8. wallet[a].pending = Sum(Due(a), Owned)
  BY DEF BalanceInv, Covered
<1> QED BY <1>2, <1>7, <1>8 DEF T

\* Every row and handler keeps its type; in particular no balance becomes negative, since
\* an open escrow has at least the reward of a slot left and the client's pending balance
\* covers its open escrows.
THEOREM BalancesStayTyped == Spec => []TypeOK
<1>1. BalanceInv => TypeOK
  BY DEF BalanceInv, SlotInv, Typed, RowTypes, EscrowTyped, WalletTyped, TypeOK
<1> QED BY <1>1, BalanceInit, BalanceStep, PTL DEF Spec

\* The pending balance of a client is what its active escrows have not released, at every
\* step of any handlers, whatever dies: hold_escrow, release_escrow_slot and refund_escrow
\* each move both in one transaction.
THEOREM PendingCoversEscrows == Spec => []PendingMatchesEscrows
BY PendingAddsUp, BalanceInit, BalanceStep, PTL DEF Spec

\* An escrow never releases more than the rewards credited for its task, since complete_task
\* credits the provider before it releases the slot.
THEOREM ReleasesAreEarned == Spec => []ReleasesFollowPayments
<1>1. BalanceInv => ReleasesFollowPayments
  <2> SUFFICES ASSUME BalanceInv, NEW k \in Owned
               PROVE  escrow[k].released <= Reward[k] * Payments(k)
    BY DEF ReleasesFollowPayments
  <2>1. Payments(k) = Sum(paid[k], Providers)
    BY DEF Payments, Sum
  <2> DEFINE n == Cardinality(Releasing(k))
             r == Reward[k]
             s == Sum(paid[k], Providers)
  <2>2. escrow[k].released + r * n <= r * s
    BY DEF BalanceInv, Earned
  <2>3. n \in Nat /\ r \in Nat /\ s \in Nat
    BY ReleasingFinite, OwnedFacts, PaidNat
  <2>4. escrow[k].released \in Nat
    BY OwnedFacts DEF BalanceInv, EscrowTyped, EscrowRow
  <2> HIDE DEF n, r, s
  <2>5. r * n \in Nat /\ r * s \in Nat
    BY <2>3
  <2>6. escrow[k].released <= r * s
    BY <2>2, <2>4, <2>5
  <2> QED BY <2>1, <2>6 DEF r, s
<1> QED BY <1>1, BalanceInit, BalanceStep, PTL DEF Spec

-----------------------------------------------------------------------------
(* Funding, in orderly behaviours.  The escrow of a task is read against all *)
(* the work that may still draw on it: slots left, slots taken by a handler  *)
(* that has yet to make its assignment, active assignments, and rewards      *)
(* being credited or released.                                               *)

ActiveOf(k) == {p \in Providers : assignment[k][p] \in Active}
Crediting(k) == {t \in Threads : thread[t].pc \in {"credit", "release"} /\ thread[t].on = k}
Owed(k) == task[k].slots + Cardinality(Assigning(k)) + Cardinality(ActiveOf(k))
             + Cardinality(Crediting(k))

\* What each status of the escrow means for the work on its task.
Funded(k) ==
  /\ escrow[k].status = "activo" => Unspent(k) >= Reward[k] * Owed(k)
  /\ escrow[k].status = "completado" => Owed(k) = 0
  /\ escrow[k].status \in {"none", "cancelado"} =>
       /\ ActiveOf(k) = {}
       /\ \A t \in Threads : thread[t].on = k => thread[t].pc \notin OfProvider
  /\ escrow[k].status = "cancelado" => task[k].status = "cancelada"
  /\ task[k].status = "absent" => escrow[k].status = "none"

\* A handler of the client has the task for itself.
Exclusive == {"insert", "hold", "delete", "refund"}
Sole ==
  \A t \in Threads, k \in Tasks :
    thread[t].pc \in Exclusive /\ thread[t].on = k =>
      /\ k \in Owned
      /\ \A u \in Threads : thread[u].on = k => u = t
      /\ thread[t].pc # "refund" => escrow[k].status = "none"
      /\ thread[t].pc = "hold" => task[k].slots = Slots[k]
      /\ thread[t].pc = "refund" => task[k].status = "cancelada" /\ ActiveOf(k) = {}

FundInv == SlotInv /\ PayInv /\ EscrowTyped /\ Sole /\ \A k \in Owned : Funded(k)

LEMMA OrderlyIsSerial == OrderlyNext => SerialNext
  BY DEF OrderlyNext, SerialNext, OrderlyRequest, SerialRequest

LEMMA OwedFinite ==
  \A k \in Tasks : /\ IsFiniteSet(ActiveOf(k)) /\ Cardinality(ActiveOf(k)) \in Nat
                   /\ IsFiniteSet(Crediting(k)) /\ Cardinality(Crediting(k)) \in Nat
<1>1. IsFiniteSet(Providers) /\ IsFiniteSet(Threads)
  BY MarketAssumption, FS_Subset
<1> QED BY <1>1, FS_Subset, FS_CardinalityType DEF ActiveOf, Crediting

LEMMA FundInit == Init => FundInv
<1> SUFFICES ASSUME Init PROVE FundInv
  OBVIOUS
<1>1. EscrowTyped
  BY DEF Init, EscrowTyped, EscrowRow
<1>2. Sole
  BY DEF Init, Sole, Idle, Exclusive
<1>3. \A k \in Owned : Funded(k)
  <2> SUFFICES ASSUME NEW k \in Owned PROVE Funded(k)
    OBVIOUS
  <2>1. k \in Tasks /\ NoTask \notin Tasks
    BY MarketAssumption DEF Owned
  <2>2. escrow[k].status = "none" /\ ActiveOf(k) = {}
    BY <2>1 DEF Init, ActiveOf, Active
  <2>3. \A t \in Threads : thread[t].on # k
    BY <2>1 DEF Init, Idle
  <2> QED BY <2>2, <2>3 DEF Funded
<1> QED BY <1>1, <1>2, <1>3, SlotInit, PayInit DEF FundInv

\* A task that the step is not about.
LEMMA Elsewhere ==
  ASSUME FundInv, NEW t \in Threads, NEW j \in Owned,
         \A u \in Threads : u # t => thread'[u] = thread[u],
         thread[t].pc = "idle" \/ thread[t].on # j, thread'[t].on # j,
         task'[j] = task[j], escrow'[j] = escrow[j], assignment'[j] = assignment[j]
  PROVE  Funded(j)'
<1>1. /\ Assigning(j)' = Assigning(j) /\ Crediting(j)' = Crediting(j)
      /\ ActiveOf(j)' = ActiveOf(j)
  BY DEF Assigning, Crediting, ActiveOf
<1>2. Owed(j)' = Owed(j) /\ Unspent(j)' = Unspent(j)
  BY <1>1 DEF Owed, Unspent
<1>3. Funded(j)
  BY DEF FundInv
<1> QED BY <1>1, <1>2, <1>3 DEF Funded

-----------------------------------------------------------------------------
(* Requests, and then the handlers, in orderly behaviours.                    *)

\* A provider's request finds a funded task that no client's handler is about.
LEMMA FundWork ==
  ASSUME FundInv, NEW t \in Threads, NEW p \in Providers, NEW k \in Tasks,
         NEW pc \in {"slots", "start", "complete", "fail"}, Begin(t, pc, p, k),
         \/ /\ k \in Seeded \/ escrow[k].status = "activo"
            /\ task[k].status = "disponible"
         \/ p \in ActiveOf(k),
         task' = task, escrow' = escrow, assignment' = assignment
  PROVE  Sole' /\ \A j \in Owned : Funded(j)'
<1>1. /\ thread[t].pc = "idle" /\ thread'[t].pc = pc /\ thread'[t].on = k
      /\ \A u \in Threads : u # t => thread'[u] = thread[u]
  BY DEF Begin, FundInv, SlotInv, Typed, RowTypes
<1>2. \A j : /\ ActiveOf(j)' = ActiveOf(j) /\ Assigning(j)' = Assigning(j)
             /\ Crediting(j)' = Crediting(j)
  BY <1>1 DEF ActiveOf, Assigning, Crediting
<1>3. \A j : Owed(j)' = Owed(j) /\ Unspent(j)' = Unspent(j)
  BY <1>2 DEF Owed, Unspent
<1>4. k \in Owned => escrow[k].status \notin {"none", "cancelado"}
  BY DEF FundInv, Funded, Owned
<1>5. \A u \in Threads : thread[u].pc \in Exclusive => thread[u].on # k
  BY <1>4 DEF FundInv, Sole, Owned, Exclusive
<1>6. Sole'
  <2> SUFFICES ASSUME NEW u \in Threads, NEW j \in Tasks, thread'[u].pc \in Exclusive,
                      thread'[u].on = j
               PROVE  /\ thread[u].pc \in Exclusive /\ thread'[u] = thread[u]
                      /\ \A w \in Threads : thread'[w].on = j => w = u
    BY <1>2 DEF FundInv, Sole
  <2>1. u # t
    BY <1>1 DEF Exclusive
  <2> QED BY <1>1, <1>5, <2>1 DEF FundInv, Sole
<1>7. \A j \in Owned : Funded(j)'
  <2> SUFFICES ASSUME NEW j \in Owned PROVE Funded(j)'
    OBVIOUS
  <2>1. escrow[j].status \in {"none", "cancelado"} =>
          \A u \in Threads : thread'[u].on = j => thread'[u].pc \notin OfProvider
    BY <1>1, <1>4 DEF FundInv, Funded
  <2>2. Funded(j)
    BY DEF FundInv
  <2> QED BY <1>2, <1>3, <2>1, <2>2 DEF Funded
<1> QED BY <1>6, <1>7

LEMMA FundCancel ==
  ASSUME FundInv, NEW t \in Threads, NEW k \in Owned, ~InUse(k), CancelTask(t, k)
  PROVE  Sole' /\ \A j \in Owned : Funded(j)'
<1>1. k \in Tasks /\ thread \in [Threads -> Handler] /\ task \in [Tasks -> TaskRow]
  BY DEF Owned, FundInv, SlotInv, Typed, RowTypes
<1>2. /\ thread[t].pc = "idle" /\ thread'[t].pc = "refund" /\ thread'[t].on = k
      /\ \A u \in Threads : u # t => thread'[u] = thread[u]
  BY <1>1 DEF CancelTask, Begin
<1>3. /\ task[k].status = "disponible" /\ task'[k].status = "cancelada"
      /\ \A j \in Tasks : j # k => task'[j] = task[j]
      /\ \A j \in Tasks : task'[j].slots = task[j].slots
      /\ escrow' = escrow /\ assignment' = assignment
  BY <1>1 DEF CancelTask, money, TaskRow
<1>4. ActiveOf(k) = {} /\ \A u \in Threads : thread[u].on # k
  BY DEF InUse, ActiveOf
<1>5. \A j : /\ ActiveOf(j)' = ActiveOf(j) /\ Assigning(j)' = Assigning(j)
             /\ Crediting(j)' = Crediting(j)
  BY <1>2, <1>3 DEF ActiveOf, Assigning, Crediting
<1>6. \A j \in Tasks : Owed(j)' = Owed(j) /\ Unspent(j)' = Unspent(j)
  BY <1>3, <1>5 DEF Owed, Unspent
<1>7. Sole'
  <2> SUFFICES ASSUME NEW u \in Threads, NEW j \in Tasks, thread'[u].pc \in Exclusive,
                      thread'[u].on = j
               PROVE  /\ j \in Owned
                      /\ \A w \in Threads : thread'[w].on = j => w = u
                      /\ thread'[u].pc # "refund" => escrow'[j].status = "none"
                      /\ thread'[u].pc = "hold" => task'[j].slots = Slots[j]
                      /\ thread'[u].pc = "refund" =>
                           task'[j].status = "cancelada" /\ ActiveOf(j)' = {}
    BY DEF Sole
  <2>1. CASE u = t
    BY <1>2, <1>3, <1>4, <1>5, <2>1
  <2>2. CASE u # t
    <3>1. thread'[u] = thread[u] /\ j # k
      BY <1>2, <1>4, <2>2
    <3>2. \A w \in Threads : thread'[w].on = j => w = u
      BY <1>2, <3>1 DEF FundInv, Sole
    <3> QED BY <1>3, <1>5, <3>1, <3>2 DEF FundInv, Sole
  <2> QED BY <2>1, <2>2
<1>8. \A j \in Owned : Funded(j)'
  <2> SUFFICES ASSUME NEW j \in Owned PROVE Funded(j)'
    OBVIOUS
  <2>1. Funded(j) /\ j \in Tasks
    BY DEF FundInv, Owned
  <2>2. CASE j # k
    BY <1>2, <1>3, <1>4, <2>1, <2>2, Elsewhere
  <2>3. CASE j = k
    <3>1. \A u \in Threads : thread'[u].on = k => thread'[u].pc \notin OfProvider
      BY <1>2, <1>4 DEF OfProvider
    <3> QED BY <1>3, <1>5, <1>6, <2>1, <2>3, <3>1 DEF Funded
  <2> QED BY <2>2, <2>3
<1> QED BY <1>7, <1>8

LEMMA FundPublish ==
  ASSUME FundInv, NEW t \in Threads, NEW k \in Owned, PublishCheck(t, k)
  PROVE  Sole' /\ \A j \in Owned : Funded(j)'
<1>1. k \in Tasks /\ thread \in [Threads -> Handler]
  BY DEF Owned, FundInv, SlotInv, Typed, RowTypes
<1>2. /\ thread[t].pc = "idle" /\ thread'[t].pc = "insert" /\ thread'[t].on = k
      /\ \A u \in Threads : u # t => thread'[u] = thread[u]
      /\ \A u \in Threads : thread[u].on # k
      /\ task' = task /\ escrow' = escrow /\ assignment' = assignment
  BY <1>1 DEF PublishCheck, Begin, money
<1>3. escrow[k].status = "none" /\ ActiveOf(k) = {}
  BY DEF PublishCheck, FundInv, Funded
<1>4. \A j : ActiveOf(j)' = ActiveOf(j)
  BY <1>2 DEF ActiveOf
<1>5. Sole'
  <2> SUFFICES ASSUME NEW u \in Threads, NEW j \in Tasks, thread'[u].pc \in Exclusive,
                      thread'[u].on = j, u # t
               PROVE  /\ thread[u].pc \in Exclusive /\ thread'[u] = thread[u]
                      /\ \A w \in Threads : thread'[w].on = j => w = u
    BY <1>2, <1>3, <1>4 DEF FundInv, Sole
  <2> QED BY <1>2 DEF FundInv, Sole
<1>6. \A j \in Owned : Funded(j)'
  <2> SUFFICES ASSUME NEW j \in Owned PROVE Funded(j)'
    OBVIOUS
  <2>1. CASE j # k
    BY <1>2, <2>1, Elsewhere
  <2>2. CASE j = k
    <3>1. \A u \in Threads : thread'[u].on = k => thread'[u].pc \notin OfProvider
      BY <1>2 DEF OfProvider
    <3> QED BY <1>2, <1>3, <1>4, <2>2, <3>1 DEF Funded
  <2> QED BY <2>1, <2>2
<1> QED BY <1>5, <1>6

\* A provider's handler leaves its task owing no more than before, and one that
\* releases a reward leaves it owing a slot less.
LEMMA OwedFalls ==
  ASSUME FundInv, NEW t \in Threads, ProviderStep(t), NEW c \in Tasks, thread[t].on = c, Typed'
  PROVE  /\ Owed(c) \in Nat /\ Owed(c)' \in Nat /\ Owed(c)' <= Owed(c)
         /\ Release(t) => Owed(c)' <= Owed(c) - 1
<1>1. PICK p \in Providers, s \in AssignmentStatus, n \in Nat :
        thread[t].who = p /\ thread[t].pc \in OfProvider /\ Effect(t, c, p, s, n)
  BY ProviderEffect DEF FundInv
<1>2. /\ thread \in [Threads -> Handler] /\ task \in [Tasks -> TaskRow]
      /\ task[c].slots \in Nat /\ task'[c].slots \in Nat
      /\ assignment \in [Tasks -> [Providers -> AssignmentStatus]]
  BY DEF FundInv, SlotInv, Typed, RowTypes, TaskRow
<1>3. \A u \in Threads : u # t => thread'[u] = thread[u]
  BY <1>1 DEF Effect
<1>4. /\ \A q \in Providers : q # p => assignment'[c][q] = assignment[c][q]
      /\ assignment'[c][p] = s
  BY <1>1 DEF Effect
<1>5. Knows(thread[t].pc, assignment[c][p], paid[c][p])
  BY <1>1 DEF FundInv, PayInv, Standing
<1>6. /\ Goto(t, "assign") => thread'[t].pc = "assign"
      /\ Goto(t, "credit") => thread'[t].pc = "credit"
      /\ Goto(t, "release") => thread'[t].pc = "release"
      /\ Goto(t, "profile") => thread'[t].pc = "profile"
      /\ Goto(t, "delta") => thread'[t].pc = "delta"
      /\ Goto(t, "faildelta") => thread'[t].pc = "faildelta"
      /\ Reply(t) => thread'[t].pc = "idle"
  BY <1>2 DEF Goto, Reply, Idle, Handler
<1> DEFINE A == Cardinality(Assigning(c))
           B == Cardinality(ActiveOf(c))
           C == Cardinality(Crediting(c))
           AA == Cardinality(Assigning(c)')
           BB == Cardinality(ActiveOf(c)')
           CC == Cardinality(Crediting(c)')
<1>7. /\ A \in Nat /\ B \in Nat /\ C \in Nat
      /\ IsFiniteSet(Assigning(c)) /\ IsFiniteSet(ActiveOf(c)) /\ IsFiniteSet(Crediting(c))
  BY Finite, OwedFinite
<1>8. /\ Assigning(c)' \subseteq Assigning(c) => AA \in Nat /\ AA <= A
      /\ ActiveOf(c)' \subseteq ActiveOf(c) => BB \in Nat /\ BB <= B
      /\ Crediting(c)' \subseteq Crediting(c) => CC \in Nat /\ CC <= C
  BY <1>7, FS_Subset, FS_CardinalityType
<1>9. Owed(c) = task[c].slots + A + B + C /\ Owed(c)' = task'[c].slots + AA + BB + CC
  BY DEF Owed
<1>10. CASE TakeSlot(t) /\ SlotsUnchanged(t)
  <2>1. /\ task' = [task EXCEPT ![c].slots = task[c].slots - 1]
        /\ assignment' = assignment /\ thread'[t].pc = "assign"
    BY <1>6, <1>10 DEF TakeSlot, SlotsUnchanged
  <2>2. task'[c].slots = task[c].slots - 1
    BY <1>2, <2>1 DEF TaskRow
  <2>3. /\ Assigning(c)' \subseteq Assigning(c) \cup {t} /\ ActiveOf(c)' \subseteq ActiveOf(c)
        /\ Crediting(c)' \subseteq Crediting(c)
    BY <1>3, <2>1 DEF Assigning, ActiveOf, Crediting
  <2>4. AA \in Nat /\ AA <= A + 1
    BY <1>7, <2>3, Grows
  <2>5. ~Release(t)
    BY <1>10 DEF TakeSlot, Release
  <2> QED BY <1>2, <1>7, <1>8, <1>9, <2>2, <2>3, <2>4, <2>5
<1>11. CASE CreateAssignment(t)
  <2>1. task' = task /\ thread[t].pc = "assign" /\ thread'[t].pc = "idle"
    BY <1>6, <1>11 DEF CreateAssignment
  <2>2. /\ t \in Assigning(c) /\ Assigning(c)' \subseteq Assigning(c) \ {t}
        /\ ActiveOf(c)' \subseteq ActiveOf(c) \cup {p} /\ Crediting(c)' \subseteq Crediting(c)
    BY <1>3, <1>4, <2>1 DEF Assigning, ActiveOf, Crediting
  <2>3. AA \in Nat /\ AA <= A - 1 /\ BB \in Nat /\ BB <= B + 1
    BY <1>7, <2>2, Grows, Shrinks
  <2>4. ~Release(t)
    BY <1>11 DEF CreateAssignment, Release
  <2> QED BY <1>2, <1>7, <1>8, <1>9, <2>1, <2>2, <2>3, <2>4
<1>12. CASE Complete(t)
  <2>1. /\ task' = task /\ thread[t].pc = "complete" /\ thread'[t].pc = "credit"
        /\ assignment' = [assignment EXCEPT ![c][p] = "completada"]
    BY <1>1, <1>6, <1>12 DEF Complete, WriteStatus
  <2>2. assignment[c][p] = "procesando" /\ assignment'[c][p] = "completada"
    BY <1>2, <1>5, <2>1 DEF Knows
  <2>3. /\ Assigning(c)' \subseteq Assigning(c) /\ Crediting(c)' \subseteq Crediting(c) \cup {t}
        /\ p \in ActiveOf(c) /\ ActiveOf(c)' \subseteq ActiveOf(c) \ {p}
    BY <1>3, <1>4, <2>1, <2>2 DEF Assigning, ActiveOf, Crediting, Active
  <2>4. CC \in Nat /\ CC <= C + 1 /\ BB \in Nat /\ BB <= B - 1
    BY <1>7, <2>3, Grows, Shrinks
  <2>5. ~Release(t)
    BY <1>12 DEF Complete, Release
  <2> QED BY <1>2, <1>7, <1>8, <1>9, <2>1, <2>3, <2>4, <2>5
<1>13. CASE Release(t)
  <2>1. /\ task' = task /\ thread[t].pc = "release" /\ thread'[t].pc = "profile"
        /\ assignment' = assignment
    BY <1>6, <1>13 DEF Release
  <2>2. /\ Assigning(c)' \subseteq Assigning(c) /\ ActiveOf(c)' \subseteq ActiveOf(c)
        /\ t \in Crediting(c) /\ Crediting(c)' \subseteq Crediting(c) \ {t}
    BY <1>3, <2>1 DEF Assigning, ActiveOf, Crediting
  <2>3. CC \in Nat /\ CC <= C - 1
    BY <1>7, <2>2, Shrinks
  <2> QED BY <1>2, <1>7, <1>8, <1>9, <2>1, <2>2, <2>3
<1>14. CASE ~(TakeSlot(t) /\ SlotsUnchanged(t)) /\ ~CreateAssignment(t) /\ ~Complete(t)
            /\ ~Release(t)
  <2>1. task' = task
    BY <1>14 DEF ProviderStep, ReadSlots, TakeSlot, Start, Credit, ReadProfile, WriteStats,
       WriteDelta, Fail, FailDelta
  <2>2. /\ thread'[t].pc # "assign"
        /\ thread'[t].pc \in {"credit", "release"} => thread[t].pc = "credit"
        /\ thread'[t].pc = "idle" \/ thread'[t].on = c
    <3>1. CASE ReadSlots(t)
      BY <1>2, <1>6, <3>1 DEF ReadSlots, Handler
    <3>2. CASE ReadProfile(t)
      BY <1>2, <3>2 DEF ReadProfile, Handler
    <3> QED BY <1>1, <1>6, <1>14, <3>1, <3>2 DEF ProviderStep, TakeSlot, Start, Credit,
              WriteStats, WriteDelta, Fail, FailDelta, Effect, Idle
  <2>3. assignment'[c][p] \in Active => assignment[c][p] \in Active
    <3>1. \/ assignment'[c][p] = assignment[c][p]
          \/ thread[t].pc = "start" \/ assignment'[c][p] \in {"completada", "fallida"}
      BY <1>1, <1>2, <1>14 DEF ProviderStep, ReadSlots, TakeSlot, Start, Credit, ReadProfile,
         WriteStats, WriteDelta, Fail, FailDelta, WriteStatus, money
    <3> QED BY <1>5, <3>1 DEF Knows, Active
  <2>4. /\ Assigning(c)' \subseteq Assigning(c) /\ ActiveOf(c)' \subseteq ActiveOf(c)
        /\ Crediting(c)' \subseteq Crediting(c)
    BY <1>3, <1>4, <2>2, <2>3 DEF Assigning, ActiveOf, Crediting
  <2> QED BY <1>2, <1>7, <1>8, <1>9, <1>14, <2>1, <2>4
<1> QED BY <1>10, <1>11, <1>12, <1>13, <1>14

LEMMA FundProvider ==
  ASSUME FundInv, NEW t \in Threads, ProviderStep(t), Typed', EscrowTyped'
  PROVE  Sole' /\ \A j \in Owned : Funded(j)'
<1>1. PICK c \in Tasks, p \in Providers, s \in AssignmentStatus, n \in Nat :
        /\ thread[t].on = c /\ thread[t].who = p /\ thread[t].pc \in OfProvider
        /\ Effect(t, c, p, s, n)
  BY ProviderEffect DEF FundInv
<1>2. /\ thread \in [Threads -> Handler] /\ task \in [Tasks -> TaskRow]
      /\ assignment \in [Tasks -> [Providers -> AssignmentStatus]]
      /\ escrow \in [Tasks -> EscrowRow]
      /\ assignment' \in [Tasks -> [Providers -> AssignmentStatus]]
  BY DEF FundInv, SlotInv, Typed, RowTypes, EscrowTyped
<1>3. /\ \A u \in Threads : u # t => thread'[u] = thread[u]
      /\ thread'[t].on \in {c, NoTask} /\ thread'[t].pc \notin Exclusive
  <2>1. /\ \A u \in Threads : u # t => thread'[u] = thread[u]
        /\ \/ thread'[t] = Idle
           \/ thread'[t].on = c /\ thread'[t].pc \in OfProvider
    BY <1>1 DEF Effect
  <2>2. thread'[t].on \in {c, NoTask}
    BY <2>1 DEF Idle
  <2>3. thread'[t].pc \notin Exclusive
    BY <2>1 DEF Idle, OfProvider, Exclusive
  <2> QED BY <2>1, <2>2, <2>3
<1>4. \A j \in Tasks : /\ j # c => task'[j] = task[j] /\ escrow'[j] = escrow[j]
                       /\ task'[j].status = task[j].status
  <2>1. CASE task' = task
    BY <1>1, <1>2, <2>1 DEF ProviderStep, ReadSlots, TakeSlot, CreateAssignment, Start,
       Complete, Credit, Release, ReadProfile, WriteStats, WriteDelta, Fail, FailDelta, money
  <2>2. CASE TakeSlot(t)
    BY <1>1, <1>2, <2>2 DEF TakeSlot, TaskRow, money
  <2> QED BY <2>1, <2>2 DEF ProviderStep, ReadSlots, CreateAssignment, Start,
            Complete, Credit, Release, ReadProfile, WriteStats, WriteDelta, Fail, FailDelta
<1>5. \A j \in Tasks : j # c => assignment'[j] = assignment[j]
  <2> SUFFICES ASSUME NEW j \in Tasks, j # c PROVE assignment'[j] = assignment[j]
    OBVIOUS
  <2>1. \A q \in Providers : assignment'[j][q] = assignment[j][q]
    BY <1>1 DEF Effect
  <2> QED BY <1>2, <2>1
<1>6. \A j \in Owned : j # c => Funded(j)'
  <2> SUFFICES ASSUME NEW j \in Owned, j # c PROVE Funded(j)'
    OBVIOUS
  <2>1. j \in Tasks /\ j # NoTask
    BY MarketAssumption DEF Owned
  <2> QED BY <1>1, <1>3, <1>4, <1>5, <2>1, Elsewhere
<1>7. Sole'
  <2> SUFFICES ASSUME NEW u \in Threads, NEW j \in Tasks, thread'[u].pc \in Exclusive,
                      thread'[u].on = j
               PROVE  /\ j \in Owned
                      /\ \A w \in Threads : thread'[w].on = j => w = u
                      /\ thread'[u].pc # "refund" => escrow'[j].status = "none"
                      /\ thread'[u].pc = "hold" => task'[j].slots = Slots[j]
                      /\ thread'[u].pc = "refund" =>
                           task'[j].status = "cancelada" /\ ActiveOf(j)' = {}
    BY DEF Sole
  <2>1. u # t /\ thread'[u] = thread[u]
    BY <1>3
  <2>2. j # c /\ j # NoTask
    BY <1>1, <2>1, MarketAssumption DEF FundInv, Sole
  <2>3. ActiveOf(j)' = ActiveOf(j)
    BY <1>5, <2>2 DEF ActiveOf
  <2> QED BY <1>3, <1>4, <2>1, <2>2, <2>3 DEF FundInv, Sole
<1>8. ASSUME c \in Owned PROVE Funded(c)'
  <2>1. Funded(c) /\ escrow[c].status \in {"activo", "completado"}
    BY <1>1, <1>2, <1>8 DEF FundInv, Funded, EscrowRow
  <2>2. /\ Owed(c) \in Nat /\ Owed(c)' \in Nat /\ Owed(c)' <= Owed(c)
        /\ Release(t) => Owed(c)' <= Owed(c) - 1
    BY <1>1, OwedFalls
  <2>3. Reward[c] \in Nat /\ Reward[c] > 0
    BY MarketAssumption
  <2>4. task'[c].status = task[c].status
    BY <1>4
  <2>5. CASE escrow'[c] = escrow[c]
    <3>1. Unspent(c)' = Unspent(c)
      BY <2>5 DEF Unspent
    <3>2. Reward[c] * Owed(c)' <= Reward[c] * Owed(c)
      BY <2>2, <2>3
    <3>3. Unspent(c) \in Int
      BY <1>2 DEF Unspent, EscrowRow
    <3> QED BY <2>1, <2>2, <2>3, <2>4, <2>5, <3>1, <3>2, <3>3 DEF Funded
  <2>6. CASE escrow'[c] # escrow[c]
    <3>1. /\ Release(t) /\ escrow[c].status = "activo"
          /\ escrow' = [escrow EXCEPT ![c] = Released(@, Reward[c])]
      BY <1>1, <2>6 DEF ProviderStep, ReadSlots, TakeSlot, CreateAssignment, Start, Complete,
         Credit, Release, ReadProfile, WriteStats, WriteDelta, Fail, FailDelta, money
    <3>2. /\ escrow'[c].held = escrow[c].held
          /\ escrow'[c].released = escrow[c].released + Reward[c]
          /\ escrow'[c].status = IF escrow[c].released + Reward[c] >= escrow[c].held
                                   THEN "completado" ELSE "activo"
      BY <1>2, <2>3, <3>1, ReleasedTyped
    <3>3. escrow[c].held \in Nat /\ escrow[c].released \in Nat
      BY <1>2 DEF EscrowRow
    <3>4. escrow[c].held - escrow[c].released >= Reward[c] * Owed(c)
      BY <2>1, <3>1 DEF Funded, Unspent
    <3>5. Reward[c] * Owed(c)' <= Reward[c] * (Owed(c) - 1)
      BY <2>2, <2>3, <3>1
    <3>6. Reward[c] * (Owed(c) - 1) = Reward[c] * Owed(c) - Reward[c]
      BY <2>2, <2>3
    <3>7. escrow'[c].held - escrow'[c].released >= Reward[c] * Owed(c)'
      <4> DEFINE now == Reward[c] * Owed(c)
                 next == Reward[c] * Owed(c)'
      <4>1. now \in Int /\ next \in Int
        BY <2>2, <2>3
      <4>2. next <= now - Reward[c]
        BY <3>5, <3>6
      <4> HIDE DEF now, next
      <4>3. escrow[c].held - escrow[c].released >= now
        BY <3>4 DEF now
      <4>4. escrow'[c].held - escrow'[c].released >= next
        BY <2>3, <3>2, <3>3, <4>1, <4>2, <4>3
      <4> QED BY <4>4 DEF next
    <3>8. escrow'[c].status = "completado" => Owed(c)' = 0
      <4>1. SUFFICES ASSUME escrow'[c].status = "completado" PROVE Owed(c)' = 0
        OBVIOUS
      <4>2. escrow'[c].released >= escrow'[c].held
        BY <3>2, <4>1
      <4>3. Reward[c] * Owed(c)' <= 0
        BY <2>2, <2>3, <3>2, <3>3, <3>7, <4>2
      <4> QED BY <2>2, <2>3, <4>3
    <3> QED BY <2>1, <2>4, <3>2, <3>7, <3>8 DEF Funded, Unspent
  <2> QED BY <2>5, <2>6
<1> QED BY <1>6, <1>7, <1>8

\* The client's handlers, which have their task for themselves.
LEMMA FundClient ==
  ASSUME FundInv, NEW t \in Threads,
         InsertTask(t) \/ Hold(t) \/ DeleteTask(t) \/ Refund(t), Typed', EscrowTyped'
  PROVE  Sole' /\ \A j \in Owned : Funded(j)'
<1>1. PICK c \in Tasks : thread[t].on = c
  BY DEF InsertTask, Hold, DeleteTask, Refund, FundInv, SlotInv, Typed, Addressed
<1>2. /\ thread \in [Threads -> Handler] /\ task \in [Tasks -> TaskRow]
      /\ escrow \in [Tasks -> EscrowRow] /\ NoTask \notin Tasks
  BY MarketAssumption DEF FundInv, SlotInv, Typed, RowTypes, EscrowTyped
<1>3. /\ c \in Owned /\ thread[t].pc \in Exclusive
      /\ \A u \in Threads : thread[u].on = c => u = t
      /\ thread[t].pc # "refund" => escrow[c].status = "none"
      /\ thread[t].pc = "hold" => task[c].slots = Slots[c]
      /\ thread[t].pc = "refund" => task[c].status = "cancelada" /\ ActiveOf(c) = {}
  BY <1>1 DEF InsertTask, Hold, DeleteTask, Refund, FundInv, Sole, Exclusive
<1>4. /\ \A u \in Threads : u # t => thread'[u] = thread[u]
      /\ assignment' = assignment
      /\ \A j \in Tasks : j # c => task'[j] = task[j] /\ escrow'[j] = escrow[j]
  BY <1>1, <1>2 DEF InsertTask, Hold, DeleteTask, Refund, Goto, Reply, money
<1>5. /\ thread'[t].on \in {c, NoTask} /\ thread'[t].pc \in {"hold", "delete", "idle"}
      /\ thread'[t].pc = "hold" => InsertTask(t)
      /\ thread'[t].pc = "delete" => Hold(t) /\ escrow' = escrow
      /\ thread'[t].pc # "idle" => thread'[t].on = c
  <2>1. /\ Goto(t, "hold") => thread'[t].pc = "hold" /\ thread'[t].on = c
        /\ Goto(t, "delete") => thread'[t].pc = "delete" /\ thread'[t].on = c
        /\ Reply(t) => thread'[t].pc = "idle" /\ thread'[t].on = NoTask
    BY <1>1, <1>2 DEF Goto, Reply, Idle, Handler
  <2> QED BY <2>1 DEF InsertTask, Hold, DeleteTask, Refund
<1>6. \A j \in Owned : j # c => Funded(j)'
  <2> SUFFICES ASSUME NEW j \in Owned, j # c PROVE Funded(j)'
    OBVIOUS
  <2>1. j \in Tasks /\ j # NoTask
    BY <1>2 DEF Owned
  <2> QED BY <1>1, <1>4, <1>5, <2>1, Elsewhere
<1>7. \A j : ActiveOf(j)' = ActiveOf(j)
  BY <1>4 DEF ActiveOf
<1>8. /\ Assigning(c)' = {} /\ Crediting(c)' = {}
      /\ \A u \in Threads : thread'[u].on = c => thread'[u].pc \notin OfProvider
  BY <1>3, <1>4, <1>5 DEF Assigning, Crediting, OfProvider
<1>9. thread[t].pc \in {"insert", "hold", "delete"} => ActiveOf(c) = {}
  BY <1>3 DEF FundInv, Funded
<1>10. Sole'
  <2> SUFFICES ASSUME NEW u \in Threads, NEW j \in Tasks, thread'[u].pc \in Exclusive,
                      thread'[u].on = j
               PROVE  /\ j \in Owned
                      /\ \A w \in Threads : thread'[w].on = j => w = u
                      /\ thread'[u].pc # "refund" => escrow'[j].status = "none"
                      /\ thread'[u].pc = "hold" => task'[j].slots = Slots[j]
                      /\ thread'[u].pc = "refund" =>
                           task'[j].status = "cancelada" /\ ActiveOf(j)' = {}
    BY DEF Sole
  <2>1. CASE u = t
    <3>1. j = c /\ \A w \in Threads : thread'[w].on = j => w = u
      BY <1>3, <1>4, <1>5, <2>1 DEF Exclusive
    <3>2. CASE InsertTask(t)
      <4>1. /\ escrow' = escrow /\ thread[t].pc = "insert"
            /\ task' = [task EXCEPT ![c] = [status |-> "disponible", slots |-> Slots[c]]]
        BY <1>1, <3>2 DEF InsertTask, money
      <4> QED BY <1>2, <1>3, <1>5, <2>1, <3>1, <4>1
    <3>3. CASE Hold(t) /\ escrow' = escrow /\ thread'[t].pc = "delete"
      BY <1>3, <2>1, <3>1, <3>3 DEF Hold
    <3> QED BY <1>5, <2>1, <3>2, <3>3 DEF Exclusive
  <2>2. CASE u # t
    <3>1. thread'[u] = thread[u] /\ j # c
      BY <1>3, <1>4, <2>2
    <3>2. \A w \in Threads : thread'[w].on = j => w = u
      BY <1>2, <1>5, <3>1, <1>4 DEF FundInv, Sole
    <3> QED BY <1>4, <1>7, <3>1, <3>2 DEF FundInv, Sole
  <2> QED BY <2>1, <2>2
<1>11. Funded(c)'
  <2>1. Funded(c)
    BY <1>3 DEF FundInv
  <2>2. CASE escrow' = escrow /\ thread[t].pc # "refund"
    BY <1>3, <1>7, <1>8, <1>9, <2>2 DEF Funded, Exclusive
  <2>3. CASE Refund(t)
    <3>1. /\ task' = task /\ task[c].status = "cancelada" /\ ActiveOf(c) = {}
          /\ thread[t].pc = "refund"
      BY <1>3, <2>3 DEF Refund
    <3>2. CASE escrow[c].status = "activo"
      <4>1. escrow'[c].status = "cancelado"
        BY <1>1, <1>2, <2>3, <3>2 DEF Refund, EscrowRow
      <4> QED BY <1>7, <1>8, <3>1, <4>1 DEF Funded
    <3>3. CASE escrow[c].status # "activo"
      <4>1. escrow' = escrow
        BY <1>1, <2>3, <3>3 DEF Refund
      <4>2. escrow[c].status = "completado" => Owed(c)' = 0
        <5>1. SUFFICES ASSUME escrow[c].status = "completado" PROVE Owed(c)' = 0
          OBVIOUS
        <5>2. Owed(c) = 0 /\ task[c].slots \in Nat
          BY <1>2, <2>1, <5>1 DEF Funded, TaskRow
        <5>3. task[c].slots = 0
          BY <5>2, Finite, OwedFinite DEF Owed
        <5>4. /\ Cardinality(ActiveOf(c)') = 0 /\ Cardinality(Assigning(c)') = 0
              /\ Cardinality(Crediting(c)') = 0
          BY <1>7, <1>8, <3>1, FS_EmptySet
        <5> QED BY <3>1, <5>3, <5>4 DEF Owed
      <4> QED BY <1>7, <1>8, <2>1, <3>1, <3>3, <4>1, <4>2 DEF Funded
    <3> QED BY <3>2, <3>3
  <2>4. CASE Hold(t) /\ escrow' # escrow
    <3>1. /\ escrow' = [escrow EXCEPT ![c] = [status |-> "activo", held |-> TotalCost(c),
                                              released |-> 0]]
          /\ task' = task /\ thread[t].pc = "hold"
      BY <1>1, <2>4 DEF Hold
    <3>2. escrow'[c] = [status |-> "activo", held |-> TotalCost(c), released |-> 0]
      BY <1>2, <3>1
    <3>3. /\ Cardinality(ActiveOf(c)') = 0 /\ Cardinality(Assigning(c)') = 0
          /\ Cardinality(Crediting(c)') = 0
      BY <1>7, <1>8, <1>9, <3>1, FS_EmptySet
    <3>4. Slots[c] \in Nat /\ Reward[c] \in Nat
      BY MarketAssumption
    <3>5. Owed(c)' = Slots[c]
      BY <1>3, <3>1, <3>3, <3>4 DEF Owed
    <3>6. Unspent(c)' = Reward[c] * Owed(c)'
      BY <3>2, <3>4, <3>5 DEF Unspent, TotalCost
    <3>7. Unspent(c)' \in Int
      BY <3>4, <3>5, <3>6
    <3>8. task[c].status # "absent"
      BY <1>1, <3>1 DEF FundInv, SlotInv, Unborn
    <3> QED BY <3>1, <3>2, <3>6, <3>7, <3>8 DEF Funded
  <2> QED BY <2>2, <2>3, <2>4 DEF InsertTask, Hold, DeleteTask, Refund, money
<1> QED BY <1>6, <1>10, <1>11

LEMMA FundStep == FundInv /\ [OrderlyNext]_vars => FundInv'
<1> SUFFICES ASSUME FundInv, [OrderlyNext]_vars PROVE FundInv'
  OBVIOUS
<1>1. SlotInv' /\ PayInv'
  BY OrderlyIsSerial, SerialIsOne, SlotStep, PayStep DEF FundInv
<1>2. Typed' /\ EscrowTyped'
  BY <1>1, OrderlyIsSerial, SerialIsOne, EscrowStep DEF FundInv, SlotInv
<1> SUFFICES Sole' /\ \A k \in Owned : Funded(k)'
  BY <1>1, <1>2 DEF FundInv
<1>3. CASE Deposits \/ UNCHANGED vars
  <2>1. /\ task' = task /\ escrow' = escrow /\ assignment' = assignment /\ thread' = thread
    BY <1>3 DEF Deposits, Deposit, vars
  <2>2. \A k : /\ ActiveOf(k)' = ActiveOf(k) /\ Assigning(k)' = Assigning(k)
               /\ Crediting(k)' = Crediting(k)
    BY <2>1 DEF ActiveOf, Assigning, Crediting
  <2>3. \A k : Owed(k)' = Owed(k) /\ Unspent(k)' = Unspent(k)
    BY <2>1, <2>2 DEF Owed, Unspent
  <2>4. Sole'
    BY <2>1, <2>2 DEF FundInv, Sole
  <2>5. \A k \in Owned : Funded(k)'
    BY <2>1, <2>2, <2>3 DEF FundInv, Funded
  <2> QED BY <2>4, <2>5
<1>4. ASSUME NEW t \in Threads, Publishes(t) PROVE Sole' /\ \A k \in Owned : Funded(k)'
  BY <1>4, FundPublish DEF Publishes
<1>5. ASSUME NEW t \in Threads, OrderlyRequest(t)
      PROVE  Sole' /\ \A k \in Owned : Funded(k)'
  <2>1. CASE \E k \in Owned : ~InUse(k) /\ CancelTask(t, k)
    BY <2>1, FundCancel
  <2>2. CASE \E p \in Providers, k \in Tasks :
               /\ task[k].status = "disponible"
               /\ k \in Seeded \/ escrow[k].status = "activo"
               /\ AcceptCheck(t, p, k)
    BY <2>2, FundWork DEF AcceptCheck, money
  <2>3. CASE \E p \in Providers, k \in Tasks : Work(t, p, k)
    <3>1. PICK p \in Providers, k \in Tasks : Work(t, p, k)
      BY <2>3
    <3>2. p \in ActiveOf(k)
      BY <3>1 DEF Work, StartCheck, CompleteCheck, FailCheck, MayStart, MayComplete, MayFail,
         ActiveOf, Active
    <3> QED BY <3>1, <3>2, FundWork DEF Work, StartCheck, CompleteCheck, FailCheck, money
  <2> QED BY <1>5, <2>1, <2>2, <2>3 DEF OrderlyRequest
<1>6. ASSUME NEW t \in Threads, Progress(t) PROVE Sole' /\ \A k \in Owned : Funded(k)'
  BY <1>2, <1>6, FundProvider, FundClient DEF Progress, ProviderStep
<1> QED BY <1>3, <1>4, <1>5, <1>6 DEF OrderlyNext

\* When tasks are accepted once they are funded, and cancelled only when nobody works on
\* them, the escrow covers all the work accepted at every step of every handler.
THEOREM AcceptedWorkStaysFunded == OrderlySpec => []AcceptedWorkIsFunded
<1>1. FundInv => AcceptedWorkIsFunded
  <2> SUFFICES ASSUME FundInv, NEW k \in Owned
               PROVE  /\ escrow[k].status = "activo" =>
                           Unspent(k) >= Reward[k] * (task[k].slots
                             + Cardinality(ActiveOf(k)) + Cardinality(Releasing(k)))
                      /\ escrow[k].status # "activo" => ActiveOf(k) = {} /\ Releasing(k) = {}
    BY DEF AcceptedWorkIsFunded, ActiveOf
  <2>1. /\ k \in Tasks /\ Funded(k) /\ task[k].slots \in Nat /\ Reward[k] \in Nat
        /\ escrow[k] \in EscrowRow
    BY MarketAssumption DEF FundInv, Owned, SlotInv, Typed, RowTypes, TaskRow, EscrowTyped
  <2>2. /\ Cardinality(ActiveOf(k)) \in Nat /\ Cardinality(Releasing(k)) \in Nat
        /\ Cardinality(Releasing(k)) <= Cardinality(Crediting(k))
        /\ IsFiniteSet(ActiveOf(k)) /\ IsFiniteSet(Releasing(k))
    <3>1. Releasing(k) \subseteq Crediting(k)
      BY DEF Releasing, Crediting
    <3> QED BY <2>1, <3>1, OwedFinite, FS_Subset, FS_CardinalityType
  <2> DEFINE drawn == task[k].slots + Cardinality(ActiveOf(k)) + Cardinality(Releasing(k))
  <2>3. drawn \in Nat /\ Owed(k) \in Nat /\ drawn <= Owed(k)
    BY <2>1, <2>2, Finite, OwedFinite DEF Owed
  <2>4. CASE escrow[k].status = "activo"
    <3>1. Unspent(k) >= Reward[k] * Owed(k) /\ Unspent(k) \in Int
      BY <2>1, <2>4 DEF Funded, Unspent, EscrowRow
    <3>2. Reward[k] * drawn <= Reward[k] * Owed(k)
      <4> HIDE DEF drawn
      <4> QED BY <2>1, <2>3
    <3> QED BY <2>1, <2>2, <2>3, <2>4, <3>1, <3>2
  <2>5. CASE escrow[k].status = "completado"
    <3>1. Cardinality(ActiveOf(k)) = 0 /\ Cardinality(Releasing(k)) = 0
      BY <2>1, <2>2, <2>3, <2>5 DEF Funded
    <3> QED BY <2>2, <2>5, <3>1, FS_EmptySet
  <2>6. CASE escrow[k].status \in {"none", "cancelado"}
    BY <2>1, <2>6 DEF Funded, Releasing, OfProvider
  <2> QED BY <2>1, <2>4, <2>5, <2>6 DEF EscrowRow
<1>2. FundInv /\ [OrderlyNext]_vars => FundInv'
  BY FundStep
<1> QED BY <1>1, <1>2, FundInit, PTL DEF OrderlySpec

-----------------------------------------------------------------------------
(* Conservation, in orderly behaviours.                                       *)

Balances == [a \in Accounts |-> Balance(a)]
Granted == [k \in Seeded |-> Reward[k] * Sum(paid[k], Providers)]
Unsettled == [k \in Owned |-> Reward[k] * Cardinality(Releasing(k))]
Conserved ==
  Sum(Balances, Accounts) = Sum(deposited, Accounts) + Sum(Granted, Seeded)
                              + Sum(Unsettled, Owned)
MoneyInv == FundInv /\ BalanceInv /\ Conserved

\* One of the amounts of a sum changes by n.
LEMMA SumMoves ==
  ASSUME NEW g, NEW f, NEW S, IsFiniteSet(S), NEW x \in S, NEW n \in Int,
         \A y \in S : g[y] \in Int /\ f[y] \in Int,
         \A y \in S : y # x => f[y] = g[y], f[x] = g[x] + n
  PROVE  Sum(f, S) = Sum(g, S) + n
<1>1. Sum(f, S) = Sum(g, S) - g[x] + f[x]
  BY SumUpdate
<1>2. Sum(g, S) \in Int
  BY SumType
<1> QED BY <1>1, <1>2

Amounts ==
  /\ \A a \in Accounts : Balances[a] \in Int /\ deposited[a] \in Int
  /\ \A k \in Seeded : Granted[k] \in Int
  /\ \A k \in Owned : Unsettled[k] \in Int
  /\ Sum(Balances, Accounts) \in Int /\ Sum(deposited, Accounts) \in Int
  /\ Sum(Granted, Seeded) \in Int /\ Sum(Unsettled, Owned) \in Int

LEMMA AmountsTyped == BalanceInv => Amounts
<1> SUFFICES ASSUME BalanceInv PROVE Amounts
  OBVIOUS
<1>1. \A a \in Accounts : Balances[a] \in Int /\ deposited[a] \in Int
  <2> SUFFICES ASSUME NEW a \in Accounts PROVE Balances[a] \in Int /\ deposited[a] \in Int
    OBVIOUS
  <2>1. wallet[a] \in WalletRow /\ deposited[a] \in Nat
    BY DEF BalanceInv, WalletTyped
  <2> QED BY <2>1 DEF WalletRow, Balances, Balance
<1>2. ASSUME NEW k \in Seeded PROVE Granted[k] \in Int
  <2>1. k \in Tasks /\ Reward[k] \in Nat
    BY MarketAssumption DEF Seeded
  <2>2. \A p \in Providers : paid[k][p] \in Nat
    BY <2>1 DEF BalanceInv, SlotInv, Typed, RowTypes
  <2>3. Sum(paid[k], Providers) \in Nat
    BY <2>2, OwnedFacts, SumNat
  <2> DEFINE s == Sum(paid[k], Providers)
             r == Reward[k]
  <2>4. s \in Nat /\ r \in Nat /\ Granted[k] = r * s
    BY <2>1, <2>3 DEF Granted
  <2> HIDE DEF s, r
  <2> QED BY <2>4
<1>3. ASSUME NEW k \in Owned PROVE Unsettled[k] \in Int
  <2> DEFINE s == Cardinality(Releasing(k))
             r == Reward[k]
  <2>1. s \in Nat /\ r \in Nat /\ Unsettled[k] = r * s
    BY ReleasingFinite, OwnedFacts DEF Unsettled
  <2> HIDE DEF s, r
  <2> QED BY <2>1
<1>4. IsFiniteSet(Accounts)
  BY MarketAssumption
<1>5. Sum(Balances, Accounts) \in Int
  BY <1>1, <1>4, SumType
<1>6. Sum(deposited, Accounts) \in Int
  BY <1>1, <1>4, SumType
<1>7. Sum(Granted, Seeded) \in Int
  BY <1>2, OwnedFacts, SumType
<1>8. Sum(Unsettled, Owned) \in Int
  BY <1>3, OwnedFacts, SumType
<1> QED BY <1>1, <1>2, <1>3, <1>5, <1>6, <1>7, <1>8 DEF Amounts

LEMMA ConservedInit == Init => Conserved
<1> SUFFICES ASSUME Init PROVE Conserved
  OBVIOUS
<1>1. BalanceInv
  BY BalanceInit
<1>2. IsFiniteSet(Accounts)
  BY MarketAssumption
<1>3. \A a \in Accounts : Balances[a] = 0 /\ deposited[a] = 0
  BY DEF Init, Balances, Balance
<1>4. ASSUME NEW k \in Seeded PROVE Granted[k] = 0
  <2>1. k \in Tasks /\ Reward[k] \in Nat
    BY MarketAssumption DEF Seeded
  <2>2. \A p \in Providers : paid[k][p] = 0
    BY <2>1 DEF Init
  <2>3. Sum(paid[k], Providers) = 0
    BY <2>2, OwnedFacts, SumZero
  <2> QED BY <2>1, <2>3 DEF Granted
<1>5. ASSUME NEW k \in Owned PROVE Unsettled[k] = 0
  <2>1. Releasing(k) = {}
    BY DEF Init, Releasing, Idle
  <2>2. Cardinality(Releasing(k)) = 0
    BY <2>1, FS_EmptySet
  <2> QED BY <2>2, OwnedFacts DEF Unsettled
<1>6. Sum(Balances, Accounts) = 0
  BY <1>2, <1>3, SumZero
<1>7. Sum(deposited, Accounts) = 0
  BY <1>2, <1>3, SumZero
<1>8. Sum(Granted, Seeded) = 0
  BY <1>4, OwnedFacts, SumZero
<1>9. Sum(Unsettled, Owned) = 0
  BY <1>5, OwnedFacts, SumZero
<1> QED BY <1>6, <1>7, <1>8, <1>9 DEF Conserved

\* The balance of one account changes by n.
LEMMA BalanceMovesBy ==
  ASSUME BalanceInv, BalanceInv', NEW a \in Accounts, NEW n \in Int,
         \A b \in Accounts : b # a => wallet'[b] = wallet[b],
         Balance(a)' = Balance(a) + n
  PROVE  Sum(Balances', Accounts) = Sum(Balances, Accounts) + n
<1>1. \A b \in Accounts : Balances[b] \in Int
  BY AmountsTyped DEF Amounts
<1>2. \A b \in Accounts : Balances'[b] \in Int
  <2>1. Amounts'
    BY AmountsTyped, PTL
  <2> QED BY <2>1 DEF Amounts
<1>3. \A b \in Accounts : b # a => Balances'[b] = Balances[b]
  BY DEF Balances, Balance
<1>4. Balances'[a] = Balances[a] + n
  BY DEF Balances
<1>5. IsFiniteSet(Accounts)
  BY MarketAssumption
<1> QED BY <1>1, <1>2, <1>3, <1>4, <1>5, SumMoves

\* The rewards being released for one task change by n.
LEMMA UnsettledMovesBy ==
  ASSUME BalanceInv, BalanceInv', NEW k \in Owned, NEW n \in Int,
         \A j \in Owned : j # k => Releasing(j)' = Releasing(j),
         Cardinality(Releasing(k)') = Cardinality(Releasing(k)) + n
  PROVE  Sum(Unsettled', Owned) = Sum(Unsettled, Owned) + Reward[k] * n
<1>1. \A j \in Owned : Unsettled[j] \in Int
  BY AmountsTyped DEF Amounts
<1>2. \A j \in Owned : Unsettled'[j] \in Int
  <2>1. Amounts'
    BY AmountsTyped, PTL
  <2> QED BY <2>1 DEF Amounts
<1>3. \A j \in Owned : j # k => Unsettled'[j] = Unsettled[j]
  BY DEF Unsettled
<1> DEFINE c == Cardinality(Releasing(k))
           r == Reward[k]
<1>4. c \in Nat /\ r \in Nat
  BY ReleasingFinite, OwnedFacts
<1>5. Unsettled[k] = r * c /\ Unsettled'[k] = r * (c + n)
  BY DEF Unsettled
<1> HIDE DEF c, r
<1>6. r * (c + n) = r * c + r * n /\ r * n \in Int
  BY <1>4
<1>7. Unsettled'[k] = Unsettled[k] + r * n
  BY <1>5, <1>6
<1>8. Sum(Unsettled', Owned) = Sum(Unsettled, Owned) + r * n
  BY <1>1, <1>2, <1>3, <1>6, <1>7, OwnedFacts, SumMoves
<1> QED BY <1>8 DEF r

\* A handler enters or leaves the release of one escrow.
LEMMA ReleasingMoves ==
  ASSUME BalanceInv, NEW t \in Threads, NEW k \in Owned, thread[t].on = k,
         \A u \in Threads : u # t => thread'[u] = thread[u],
         thread'[t].on = k \/ thread'[t].pc # "release"
  PROVE  /\ \A j \in Owned : j # k => Releasing(j)' = Releasing(j)
         /\ (thread[t].pc = "release") = (thread'[t].pc = "release") =>
              Releasing(k)' = Releasing(k)
         /\ thread[t].pc # "release" /\ thread'[t].pc = "release" =>
              Cardinality(Releasing(k)') = Cardinality(Releasing(k)) + 1
         /\ thread[t].pc = "release" /\ thread'[t].pc # "release" =>
              Cardinality(Releasing(k)') = Cardinality(Releasing(k)) + (-1)
<1>1. \A j \in Owned : j # k => Releasing(j)' = Releasing(j)
  BY DEF Releasing
<1>2. ASSUME (thread[t].pc = "release") = (thread'[t].pc = "release")
      PROVE  Releasing(k)' = Releasing(k)
  BY <1>2 DEF Releasing
<1>3. ASSUME thread[t].pc # "release", thread'[t].pc = "release"
      PROVE  Cardinality(Releasing(k)') = Cardinality(Releasing(k)) + 1
  <2>1. Releasing(k)' = Releasing(k) \cup {t} /\ t \notin Releasing(k)
    BY <1>3 DEF Releasing
  <2> QED BY <2>1, ReleasingFinite, FS_AddElement
<1>4. ASSUME thread[t].pc = "release", thread'[t].pc # "release"
      PROVE  Cardinality(Releasing(k)') = Cardinality(Releasing(k)) + (-1)
  <2>1. Releasing(k)' = Releasing(k) \ {t} /\ t \in Releasing(k)
    BY <1>4 DEF Releasing
  <2>2. Cardinality(Releasing(k)') = Cardinality(Releasing(k)) - 1
    BY <2>1, ReleasingFinite, FS_RemoveElement
  <2> QED BY <2>2, ReleasingFinite
<1> QED BY <1>1, <1>2, <1>3, <1>4

\* A credit: the provider's balance grows by the reward, which a task of the seed grants,
\* and which the escrow of any other task is about to release.
LEMMA ConservedCredit ==
  ASSUME BalanceInv, BalanceInv', Conserved, NEW t \in Threads, Credit(t)
  PROVE  Conserved'
<1>1. PICK p \in Providers, k \in Tasks : p = thread[t].who /\ k = thread[t].on
  BY DEF Credit, BalanceInv, SlotInv, Typed, Addressed, OfProvider
<1>2. /\ thread[t].pc = "credit" /\ deposited' = deposited
      /\ wallet' = [wallet EXCEPT ![p].available = @ + Reward[k]]
      /\ paid' = [paid EXCEPT ![k][p] = @ + 1]
      /\ wallet \in [Accounts -> WalletRow] /\ thread \in [Threads -> Handler]
      /\ paid \in [Tasks -> [Providers -> Nat]]
  BY <1>1 DEF Credit, BalanceInv, WalletTyped, SlotInv, Typed, RowTypes
<1>3. p \in Accounts /\ Reward[k] \in Nat
  BY MarketAssumption
<1>4. Sum(Balances', Accounts) = Sum(Balances, Accounts) + Reward[k]
  <2>1. Balance(p)' = Balance(p) + Reward[k]
    <3>1. /\ wallet'[p].available = wallet[p].available + Reward[k]
          /\ wallet'[p].pending = wallet[p].pending
          /\ wallet[p].available \in Nat /\ wallet[p].pending \in Nat
      BY <1>2, <1>3 DEF WalletRow
    <3> QED BY <1>3, <3>1 DEF Balance
  <2>2. \A b \in Accounts : b # p => wallet'[b] = wallet[b]
    BY <1>2
  <2> QED BY <1>3, <2>1, <2>2, BalanceMovesBy
<1>5. \A u \in Threads : u # t => thread'[u] = thread[u]
  BY Goes DEF Progress
<1>6. CASE k \in Seeded
  <2>1. thread'[t].pc = "profile"
    BY <1>1, <1>2, <1>6 DEF Credit, Goto, Handler
  <2>2. \A j \in Owned : Releasing(j)' = Releasing(j)
    BY <1>2, <1>5, <2>1 DEF Releasing
  <2>3. Unsettled' = Unsettled
    BY <2>2 DEF Unsettled
  <2>4. \A j \in Seeded : Granted[j] \in Int
    BY AmountsTyped DEF Amounts
  <2>5. \A j \in Seeded : Granted'[j] \in Int
    <3>1. Amounts'
      BY AmountsTyped, PTL
    <3> QED BY <3>1 DEF Amounts
  <2>6. \A j \in Seeded : j # k => Granted'[j] = Granted[j]
    <3>1. \A j \in Seeded : j # k => paid'[j] = paid[j]
      BY <1>2 DEF Seeded
    <3> QED BY <3>1 DEF Granted
  <2>7. Granted'[k] = Granted[k] + Reward[k]
    <3> DEFINE s == Sum(paid[k], Providers)
               r == Reward[k]
    <3>1. /\ \A q \in Providers : paid[k][q] \in Nat /\ paid'[k][q] \in Nat
          /\ \A q \in Providers : q # p => paid'[k][q] = paid[k][q]
          /\ paid'[k][p] = paid[k][p] + 1
      BY <1>2
    <3>2. Sum(paid'[k], Providers) = s + 1
      BY <3>1, OwnedFacts, SumMoves
    <3>3. s \in Nat /\ r \in Nat
      BY <1>3, <3>1, OwnedFacts, SumNat
    <3>4. Granted'[k] = r * Sum(paid'[k], Providers) /\ Granted[k] = r * s
      BY <1>6 DEF Granted
    <3> HIDE DEF s, r
    <3>5. r * (s + 1) = r * s + r
      BY <3>3
    <3>6. Granted'[k] = Granted[k] + r
      BY <3>2, <3>4, <3>5
    <3> QED BY <3>6 DEF r
  <2>8. Sum(Granted', Seeded) = Sum(Granted, Seeded) + Reward[k]
    BY <1>3, <1>6, <2>4, <2>5, <2>6, <2>7, OwnedFacts, SumMoves
  <2>9. Sum(deposited, Accounts) \in Int /\ Sum(Granted, Seeded) \in Int
        /\ Sum(Unsettled, Owned) \in Int
    BY AmountsTyped DEF Amounts
  <2> QED BY <1>2, <1>3, <1>4, <2>3, <2>8, <2>9 DEF Conserved
<1>7. CASE k \in Owned
  <2>1. thread'[t].pc = "release" /\ thread'[t].on = k
    BY <1>1, <1>2, <1>7 DEF Credit, Goto, Handler, Owned
  <2>2. /\ \A j \in Owned : j # k => Releasing(j)' = Releasing(j)
        /\ Cardinality(Releasing(k)') = Cardinality(Releasing(k)) + 1
    BY <1>1, <1>2, <1>5, <1>7, <2>1, ReleasingMoves
  <2>3. Sum(Unsettled', Owned) = Sum(Unsettled, Owned) + Reward[k]
    <3>1. Sum(Unsettled', Owned) = Sum(Unsettled, Owned) + Reward[k] * 1
      BY <1>7, <2>2, UnsettledMovesBy
    <3> QED BY <1>3, <3>1
  <2>4. Granted' = Granted
    <3>1. \A j \in Seeded : paid'[j] = paid[j]
      BY <1>2, <1>7 DEF Seeded, Owned
    <3> QED BY <3>1 DEF Granted
  <2>5. Sum(deposited, Accounts) \in Int /\ Sum(Granted, Seeded) \in Int
        /\ Sum(Unsettled, Owned) \in Int
    BY AmountsTyped DEF Amounts
  <2> QED BY <1>2, <1>3, <1>4, <2>3, <2>4, <2>5 DEF Conserved
<1> QED BY <1>6, <1>7 DEF Owned

\* A release: the escrow is open, since work that is being paid is funded, so that the
\* client's balance falls by the reward.
LEMMA ConservedRelease ==
  ASSUME MoneyInv, BalanceInv', NEW t \in Threads, Release(t)
  PROVE  Conserved'
<1>1. PICK k \in Owned : k = thread[t].on
  BY DEF Release, MoneyInv, BalanceInv, Billed
<1>2. PICK c \in Accounts : c = OwnerOf[k]
  BY OwnedFacts
<1>3. /\ k \in Tasks /\ Reward[k] \in Nat \ {0} /\ escrow[k] \in EscrowRow
      /\ wallet \in [Accounts -> WalletRow] /\ thread \in [Threads -> Handler]
      /\ thread[t].pc = "release" /\ deposited' = deposited /\ paid' = paid
  BY OwnedFacts DEF MoneyInv, BalanceInv, WalletTyped, EscrowTyped, SlotInv, Typed, RowTypes,
     Release
<1>4. escrow[k].status = "activo"
  <2>1. Funded(k) /\ t \in Crediting(k)
    BY <1>1, <1>3 DEF MoneyInv, FundInv, Crediting
  <2>2. escrow[k].status \notin {"none", "cancelado"}
    BY <1>1, <1>3, <2>1 DEF Funded, OfProvider
  <2>3. escrow[k].status # "completado"
    <3> SUFFICES ASSUME escrow[k].status = "completado" PROVE FALSE
      OBVIOUS
    <3>1. Owed(k) = 0
      BY <2>1 DEF Funded
    <3>2. task[k].slots \in Nat
      BY <1>3 DEF MoneyInv, BalanceInv, SlotInv, Typed, RowTypes, TaskRow
    <3>3. Cardinality(Crediting(k)) = 0
      BY <1>3, <3>1, <3>2, Finite, OwedFinite DEF Owed
    <3> QED BY <1>3, <2>1, <3>3, OwedFinite, FS_EmptySet
  <2> QED BY <1>3, <2>2, <2>3 DEF EscrowRow
<1>5. wallet[c].pending >= Reward[k]
  <2>1. /\ Due(c)[k] \in Nat /\ Due(c)[k] <= wallet[c].pending
        /\ Due(c)[k] = Unspent(k) /\ Unspent(k) >= Reward[k]
    BY <1>2, <1>4, DueNat DEF MoneyInv
  <2>2. wallet[c].pending \in Nat
    BY <1>3 DEF WalletRow
  <2> QED BY <1>3, <2>1, <2>2
<1>6. wallet' = [wallet EXCEPT ![c].pending = @ - Reward[k]]
  BY <1>1, <1>2, <1>4, <1>5 DEF Release
<1>7. Sum(Balances', Accounts) = Sum(Balances, Accounts) + (0 - Reward[k])
  <2>1. Balance(c)' = Balance(c) + (0 - Reward[k])
    <3>1. /\ wallet'[c].available = wallet[c].available
          /\ wallet'[c].pending = wallet[c].pending - Reward[k]
          /\ wallet[c].available \in Nat /\ wallet[c].pending \in Nat
      BY <1>3, <1>6 DEF WalletRow
    <3> QED BY <1>3, <3>1 DEF Balance
  <2>2. \A b \in Accounts : b # c => wallet'[b] = wallet[b]
    BY <1>3, <1>6
  <2> QED BY <1>3, <2>1, <2>2, BalanceMovesBy DEF MoneyInv
<1>8. Sum(Unsettled', Owned) = Sum(Unsettled, Owned) + (0 - Reward[k])
  <2>1. thread'[t].pc = "profile" /\ \A u \in Threads : u # t => thread'[u] = thread[u]
    BY <1>3 DEF Release, Goto, Handler
  <2>2. /\ \A j \in Owned : j # k => Releasing(j)' = Releasing(j)
        /\ Cardinality(Releasing(k)') = Cardinality(Releasing(k)) + (-1)
    BY <1>1, <1>3, <2>1, ReleasingMoves DEF MoneyInv
  <2>3. Sum(Unsettled', Owned) = Sum(Unsettled, Owned) + Reward[k] * (-1)
    BY <2>2, UnsettledMovesBy DEF MoneyInv
  <2> QED BY <1>3, <2>3
<1>9. Granted' = Granted
  BY <1>3 DEF Granted
<1>10. Sum(Balances, Accounts) \in Int /\ Sum(deposited, Accounts) \in Int
       /\ Sum(Granted, Seeded) \in Int /\ Sum(Unsettled, Owned) \in Int
  BY AmountsTyped DEF MoneyInv, Amounts
<1> QED BY <1>3, <1>7, <1>8, <1>9, <1>10 DEF MoneyInv, Conserved

\* A deposit adds to the balance what it adds to the deposits.
LEMMA ConservedDeposit ==
  ASSUME BalanceInv, BalanceInv', Conserved, NEW a \in Accounts, NEW n \in Nat, Deposit(a, n)
  PROVE  Conserved'
<1>1. /\ wallet' = [wallet EXCEPT ![a].available = @ + n]
      /\ deposited' = [deposited EXCEPT ![a] = @ + n]
      /\ wallet \in [Accounts -> WalletRow] /\ deposited \in [Accounts -> Nat]
      /\ paid' = paid /\ thread' = thread /\ IsFiniteSet(Accounts)
  BY MarketAssumption DEF Deposit, BalanceInv, WalletTyped
<1>2. Sum(Balances', Accounts) = Sum(Balances, Accounts) + n
  <2>1. Balance(a)' = Balance(a) + n
    <3>1. /\ wallet'[a].available = wallet[a].available + n
          /\ wallet'[a].pending = wallet[a].pending
          /\ wallet[a].available \in Nat /\ wallet[a].pending \in Nat
      BY <1>1 DEF WalletRow
    <3> QED BY <3>1 DEF Balance
  <2>2. \A b \in Accounts : b # a => wallet'[b] = wallet[b]
    BY <1>1
  <2> QED BY <2>1, <2>2, BalanceMovesBy
<1>3. Sum(deposited', Accounts) = Sum(deposited, Accounts) + n
  <2>1. /\ \A b \in Accounts : deposited[b] \in Int /\ deposited'[b] \in Int
        /\ \A b \in Accounts : b # a => deposited'[b] = deposited[b]
        /\ deposited'[a] = deposited[a] + n
    BY <1>1
  <2>2. n \in Int /\ IsFiniteSet(Accounts)
    BY <1>1
  <2> QED BY <2>1, <2>2, SumMoves
<1>4. Granted' = Granted /\ Unsettled' = Unsettled
  BY <1>1 DEF Granted, Unsettled, Releasing
<1>5. Sum(Balances, Accounts) \in Int /\ Sum(deposited, Accounts) \in Int
      /\ Sum(Granted, Seeded) \in Int /\ Sum(Unsettled, Owned) \in Int
  BY AmountsTyped DEF Amounts
<1> QED BY <1>2, <1>3, <1>4, <1>5 DEF Conserved

\* A hold or a refund moves an amount from one balance of the client to the other.
LEMMA ConservedTransfer ==
  ASSUME BalanceInv, BalanceInv', Conserved, NEW t \in Threads, Hold(t) \/ Refund(t)
  PROVE  Conserved'
<1>1. PICK k \in Owned : k = thread[t].on /\ OwnerOf[k] = thread[t].who
  BY DEF Hold, Refund, BalanceInv, Billed, Opening
<1>2. PICK c \in Accounts : c = OwnerOf[k]
  BY OwnedFacts
<1>3. /\ wallet \in [Accounts -> WalletRow] /\ thread \in [Threads -> Handler]
      /\ deposited' = deposited /\ paid' = paid
      /\ Reward[k] \in Nat \ {0} /\ Slots[k] \in Nat \ {0} /\ wallet[c] \in WalletRow
  BY OwnedFacts DEF BalanceInv, WalletTyped, SlotInv, Typed, RowTypes, Hold, Refund
<1>4. wallet[c].available \in Nat /\ wallet[c].pending \in Nat
  BY <1>3 DEF WalletRow
<1>5. \A b \in Accounts : b # c => wallet'[b] = wallet[b]
  BY <1>1, <1>2, <1>3 DEF Hold, Refund
<1>6. Balance(c)' = Balance(c)
  <2>1. CASE wallet' = wallet
    BY <2>1 DEF Balance
  <2>2. CASE Hold(t) /\ wallet' # wallet
    <3>1. /\ wallet[c].available >= TotalCost(k) /\ TotalCost(k) \in Nat
          /\ wallet' = [wallet EXCEPT ![c] = Held(@, TotalCost(k))]
      BY <1>1, <1>2, <1>3, <2>2 DEF Hold, TotalCost
    <3>2. wallet'[c] = [available |-> wallet[c].available - TotalCost(k),
                        pending |-> wallet[c].pending + TotalCost(k)]
      BY <1>3, <3>1, HeldFields
    <3> QED BY <1>4, <3>1, <3>2 DEF Balance
  <2>3. CASE Refund(t) /\ wallet' # wallet
    <3>1. /\ escrow[k].status = "activo"
          /\ wallet' = [wallet EXCEPT ![c].available = @ + Unspent(k),
                                      ![c].pending = @ - Unspent(k)]
      BY <1>1, <1>2, <2>3 DEF Refund, RefundOf
    <3>2. Unspent(k) \in Nat
      BY <1>2, <3>1, DueNat
    <3>3. wallet'[c] = [available |-> wallet[c].available + Unspent(k),
                        pending |-> wallet[c].pending - Unspent(k)]
      BY <1>3, <3>1 DEF WalletRow
    <3> QED BY <1>4, <3>2, <3>3 DEF Balance
  <2> QED BY <2>1, <2>2, <2>3
<1>7. Sum(Balances', Accounts) = Sum(Balances, Accounts)
  <2>1. wallet[c].available + wallet[c].pending \in Nat
    BY <1>4
  <2>2. Balance(c)' = Balance(c) + 0
    BY <1>6, <2>1 DEF Balance
  <2>3. Sum(Balances', Accounts) = Sum(Balances, Accounts) + 0
    BY <1>5, <2>2, BalanceMovesBy
  <2> QED BY <2>3, AmountsTyped DEF Amounts
<1>8. \A j \in Owned : Releasing(j)' = Releasing(j)
  <2>1. /\ thread[t].pc # "release"
        /\ \A u \in Threads : u # t => thread'[u] = thread[u]
        /\ thread'[t].pc # "release"
    BY <1>3 DEF Hold, Refund, Reply, Goto, Idle, Handler
  <2> QED BY <2>1 DEF Releasing
<1>9. Granted' = Granted /\ Unsettled' = Unsettled
  BY <1>3, <1>8 DEF Granted, Unsettled
<1> QED BY <1>3, <1>7, <1>9 DEF Conserved

\* No other step moves money or begins or ends a release.
LEMMA ConservedElse ==
  ASSUME BalanceInv, Conserved, wallet' = wallet, paid' = paid, deposited' = deposited,
         \A j \in Owned : Releasing(j)' = Releasing(j)
  PROVE  Conserved'
<1>1. Balances' = Balances /\ Granted' = Granted /\ Unsettled' = Unsettled
  BY DEF Balances, Balance, Granted, Unsettled
<1> QED BY <1>1 DEF Conserved

LEMMA MoneyStep == MoneyInv /\ [OrderlyNext]_vars => MoneyInv'
<1> SUFFICES ASSUME MoneyInv, [OrderlyNext]_vars PROVE MoneyInv'
  OBVIOUS
<1>1. FundInv' /\ BalanceInv'
  BY FundStep, BalanceStep, OrderlyIsSerial, SerialIsOne DEF MoneyInv
<1> SUFFICES Conserved'
  BY <1>1 DEF MoneyInv
<1>2. BalanceInv /\ Conserved /\ thread \in [Threads -> Handler]
  BY DEF MoneyInv, BalanceInv, SlotInv, Typed, RowTypes
<1>3. CASE UNCHANGED vars
  <2>1. \A j \in Owned : Releasing(j)' = Releasing(j)
    BY <1>3 DEF vars, Releasing
  <2> QED BY <1>2, <1>3, <2>1, ConservedElse DEF vars
<1>4. CASE Deposits
  <2>1. PICK k \in Owned, n \in 1..MaxDeposit : Deposit(OwnerOf[k], n)
    BY <1>4 DEF Deposits
  <2>2. OwnerOf[k] \in Accounts /\ n \in Nat
    BY OwnedFacts, MarketAssumption
  <2> QED BY <1>1, <1>2, <2>1, <2>2, ConservedDeposit
<1>5. ASSUME NEW t \in Threads, Publishes(t) \/ OrderlyRequest(t) PROVE Conserved'
  <2>1. \A a, k, pc : Begin(t, pc, a, k) =>
          /\ thread[t].pc = "idle"
          /\ \A u \in Threads : u # t => thread'[u] = thread[u]
          /\ thread'[t].pc = pc
    BY <1>2 DEF Begin
  <2>2. /\ thread[t].pc # "release" /\ thread'[t].pc # "release"
        /\ \A u \in Threads : u # t => thread'[u] = thread[u]
        /\ wallet' = wallet /\ paid' = paid /\ deposited' = deposited
    BY <1>5, <2>1 DEF Publishes, PublishCheck, OrderlyRequest, AcceptCheck, Work, StartCheck,
       CompleteCheck, FailCheck, CancelTask, money
  <2>3. \A j \in Owned : Releasing(j)' = Releasing(j)
    BY <2>2 DEF Releasing
  <2> QED BY <1>2, <2>2, <2>3, ConservedElse
<1>6. ASSUME NEW t \in Threads, Progress(t) PROVE Conserved'
  <2>1. CASE Credit(t)
    BY <1>1, <1>2, <2>1, ConservedCredit
  <2>2. CASE Release(t)
    BY <1>1, <2>2, ConservedRelease
  <2>3. CASE Hold(t) \/ Refund(t)
    BY <1>1, <1>2, <2>3, ConservedTransfer
  <2>4. CASE ~Credit(t) /\ ~Release(t) /\ ~Hold(t) /\ ~Refund(t)
    <3>1. wallet' = wallet /\ paid' = paid /\ deposited' = deposited
          /\ thread[t].pc # "release"
      BY <1>6, <2>4 DEF Progress, ReadSlots, TakeSlot, CreateAssignment, Start, Complete,
         ReadProfile, WriteStats, WriteDelta, Fail, FailDelta, InsertTask, DeleteTask, money
    <3>2. /\ \A u \in Threads : u # t => thread'[u] = thread[u]
          /\ thread'[t].pc # "release"
      <4>1. Idle.pc # "release"
        BY DEF Idle
      <4> QED BY <1>2, <1>6, <2>4, <4>1, Goes
    <3>3. \A j \in Owned : Releasing(j)' = Releasing(j)
      BY <3>1, <3>2 DEF Releasing
    <3> QED BY <1>2, <3>1, <3>3, ConservedElse
  <2> QED BY <2>1, <2>2, <2>3, <2>4
<1> QED BY <1>3, <1>4, <1>5, <1>6 DEF OrderlyNext

\* The sums of the property are the sums of the invariant.
LEMMA BalancesAddUp ==
  MapThenSumSet(Balance, Accounts) = Sum(Balances, Accounts)
<1>1. PICK h : Adds(h, Balances, SUBSET Accounts)
  BY MarketAssumption, AddsExists
<1>2. \A s \in SUBSET Accounts : s # {} => Balances[Pick(s)] = Balance(Pick(s))
  BY Picked DEF Balances
<1>3. \A j : Adds(j, Balances, SUBSET Accounts) <=>
        j = [s \in SUBSET Accounts |-> IF s = {} THEN 0
                                     ELSE Balance(Pick(s)) + j[s \ {Pick(s)}]]
  BY <1>2 DEF Adds
<1>4. \E j : j = [s \in SUBSET Accounts |-> IF s = {} THEN 0
                                    ELSE Balance(Pick(s)) + j[s \ {Pick(s)}]]
  BY <1>1, <1>3
<1>5. \A j : j = [s \in SUBSET Accounts |-> IF s = {} THEN 0
                                    ELSE Balance(Pick(s)) + j[s \ {Pick(s)}]]
             => Sum(Balances, Accounts) = j[Accounts]
  <2>1. \A j : Adds(j, Balances, SUBSET Accounts) => Sum(Balances, Accounts) = j[Accounts]
    BY MarketAssumption, SumPart
  <2> QED BY <1>3, <2>1
<1> QED BY <1>4, <1>5 DEF MapThenSumSet, MapThenFoldSet, Pick

LEMMA GrantsAddUp ==
  MapThenSumSet(LAMBDA k : Reward[k] * Payments(k), Seeded) = Sum(Granted, Seeded)
<1>1. PICK h : Adds(h, Granted, SUBSET Seeded)
  BY OwnedFacts, AddsExists
<1>2. \A s \in SUBSET Seeded : s # {} =>
        Granted[Pick(s)] = Reward[Pick(s)] * Payments(Pick(s))
  <2>1. \A k \in Seeded : Granted[k] = Reward[k] * Payments(k)
    BY DEF Granted, Payments, Sum
  <2> QED BY <2>1, Picked
<1>3. \A j : Adds(j, Granted, SUBSET Seeded) <=>
        j = [s \in SUBSET Seeded |-> IF s = {} THEN 0
                                     ELSE Reward[Pick(s)] * Payments(Pick(s))
                                            + j[s \ {Pick(s)}]]
  BY <1>2 DEF Adds
<1>4. \E j : j = [s \in SUBSET Seeded |-> IF s = {} THEN 0
                                    ELSE Reward[Pick(s)] * Payments(Pick(s))
                                           + j[s \ {Pick(s)}]]
  BY <1>1, <1>3
<1>5. \A j : j = [s \in SUBSET Seeded |-> IF s = {} THEN 0
                                    ELSE Reward[Pick(s)] * Payments(Pick(s))
                                           + j[s \ {Pick(s)}]]
             => Sum(Granted, Seeded) = j[Seeded]
  <2>1. \A j : Adds(j, Granted, SUBSET Seeded) => Sum(Granted, Seeded) = j[Seeded]
    BY OwnedFacts, SumPart
  <2> QED BY <1>3, <2>1
<1> QED BY <1>4, <1>5 DEF MapThenSumSet, MapThenFoldSet, Pick

LEMMA UnsettledAddUp ==
  MapThenSumSet(LAMBDA k : Reward[k] * Cardinality(Releasing(k)), Owned) = Sum(Unsettled, Owned)
<1>1. PICK h : Adds(h, Unsettled, SUBSET Owned)
  BY OwnedFacts, AddsExists
<1>2. \A s \in SUBSET Owned : s # {} =>
        Unsettled[Pick(s)] = Reward[Pick(s)] * Cardinality(Releasing(Pick(s)))
  <2>1. \A k \in Owned : Unsettled[k] = Reward[k] * Cardinality(Releasing(k))
    BY DEF Unsettled
  <2> QED BY <2>1, Picked
<1>3. \A j : Adds(j, Unsettled, SUBSET Owned) <=>
        j = [s \in SUBSET Owned |-> IF s = {} THEN 0
                                     ELSE Reward[Pick(s)] * Cardinality(Releasing(Pick(s)))
                                            + j[s \ {Pick(s)}]]
  BY <1>2 DEF Adds
<1>4. \E j : j = [s \in SUBSET Owned |-> IF s = {} THEN 0
                                    ELSE Reward[Pick(s)] * Cardinality(Releasing(Pick(s)))
                                           + j[s \ {Pick(s)}]]
  BY <1>1, <1>3
<1>5. \A j : j = [s \in SUBSET Owned |-> IF s = {} THEN 0
                                    ELSE Reward[Pick(s)] * Cardinality(Releasing(Pick(s)))
                                           + j[s \ {Pick(s)}]]
             => Sum(Unsettled, Owned) = j[Owned]
  <2>1. \A j : Adds(j, Unsettled, SUBSET Owned) => Sum(Unsettled, Owned) = j[Owned]
    BY OwnedFacts, SumPart
  <2> QED BY <1>3, <2>1
<1> QED BY <1>4, <1>5 DEF MapThenSumSet, MapThenFoldSet, Pick

\* In orderly behaviours no money appears or vanishes, in any number of accounts and tasks:
\* the balances together are the deposits, the rewards of seeded tasks, and the rewards
\* credited to a provider whose release is the next call of its handler.
THEOREM MoneyIsConserved == OrderlySpec => []MoneyConserved
<1>1. MoneyInv => MoneyConserved
  <2>1. MapThenSumSet(LAMBDA a : deposited[a], Accounts) = Sum(deposited, Accounts)
    BY DEF Sum
  <2> QED BY <2>1, BalancesAddUp, GrantsAddUp, UnsettledAddUp
          DEF MoneyInv, Conserved, MoneyConserved
<1>2. Init => MoneyInv
  BY FundInit, BalanceInit, ConservedInit DEF MoneyInv
<1> QED BY <1>1, <1>2, MoneyStep, PTL DEF OrderlySpec

=============================================================================
