---------------------------- MODULE MCTaskMarket ----------------------------
(* Instances of TaskMarket for TLC, and claims of the documentation that the  *)
(* program does not keep.                                                     *)
EXTENDS TaskMarket, TLC

CONSTANTS a1, p1, p2, k1, k2, t1, t2

\* The client owns all tasks, or the second is one of the seed.
Client == [k \in Tasks |-> a1]
ClientAndSeed == [k \in Tasks |-> IF k = k1 THEN a1 ELSE NoAccount]

OneSlot == [k \in Tasks |-> 1]
TwoSlots == [k \in Tasks |-> 2]
UnitReward == [k \in Tasks |-> 1]
\* The second task pays more than the first.
RisingReward == [k \in Tasks |-> IF k = k1 THEN 1 ELSE 2]

Symmetry == Permutations(Providers) \cup Permutations(Threads)

\* briefs/03-lado-cliente.md:48: the reward of a provider comes out of the escrow of
\* the client, not out of the air.
PaidFromEscrow ==
  \A k \in Owned :
    Reward[k] * Payments(k) <= escrow[k].released + Reward[k] * Cardinality(Releasing(k))

\* docs/02-requisitos.md:495: each provider that accepts a task consumes a slot, one.
SlotForEachProvider ==
  \A k \in Tasks :
    Exists(k) => Slots[k] - task[k].slots
                   <= Cardinality(Taken(k) \cup {thread[t].who : t \in
                                                   {u \in Threads : thread[u].on = k}})

\* task_lifecycle.py:22: accept_task verifies that the task is disponible.
AcceptsWhatIsAvailable ==
  [][\A t \in Threads :
       thread[t].pc = "idle" /\ thread'[t].pc = "slots" =>
         task[thread'[t].on].status = "disponible"]_vars

Quiet == \A t \in Threads : thread[t].pc = "idle"

\* docs/02-requisitos.md:198: completing a task increments tasks_completed, as it
\* credits the reward.
CompletionsCounted ==
  Quiet => \A p \in Providers : completed[p] = MapThenSumSet(LAMBDA k : paid[k][p], Tasks)

\* briefs/03-lado-cliente.md:42: cancelling refunds what the escrow has not spent.
CancelledIsRefunded ==
  Quiet => \A k \in Tasks : task[k].status = "cancelada" => escrow[k].status # "activo"

\* client_service.py:99: when the hold fails, the row of the task is rolled back.
UnfundedIsRolledBack ==
  Quiet => \A k \in Owned : Exists(k) => escrow[k].status # "none"
=============================================================================
