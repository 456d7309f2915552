-------------------------- MODULE MCProviderPages --------------------------
(* Instances of ProviderPages for TLC, and what TaskMarket assumes of the   *)
(* pages in its serial runs.                                                *)
EXTENDS ProviderPages, TLC

CONSTANTS k1, k2, f1, s1, s2, s3

Symmetry == Permutations(Slots) \cup Permutations(Tasks)

\* Two tasks that the provider has accepted, and that others have filled.
AcceptedInit ==
  /\ assignment = [k \in Tasks |-> "aceptada"]
  /\ ready = {} /\ full = Tasks
  /\ had = [k \in Tasks |-> {}] /\ contested = {}
  /\ page = [name |-> "dashboard", on |-> NoTask]
  /\ list = EmptyList
  /\ detail = EmptyDetail
  /\ processing = EmptyProcessing
  /\ announced = Nothing
  /\ request = [s \in Slots |-> NoRequest]

AcceptedSpec == AcceptedInit /\ [][Next]_vars

\* The assumption of TaskMarket's SerialSpec, which docs/02-requisitos.md:242 and 243
\* suggest: the page sends one decision about a task, to complete it or to give it up.
OneDecisionAtATime ==
  \A k \in Tasks :
    Cardinality({s \in Slots : ~Free(s) /\ request[s].kind \in {"complete", "fail"}
                               /\ request[s].on = k}) <= 1

\* What AnnouncedOutcomeIsTrue leaves out: the outcome announced stays the outcome, also
\* when two handlers had the assignment in hand at once.
AnnouncedOutcomeStays ==
  announced # Nothing => assignment[announced.on] = announced.outcome

\* docs/02-requisitos.md:128: with a filter applied, only tasks that match it appear.
ShownTasksMatchTheFilters ==
  OnTasks /\ ~list.error
    /\ (\A s \in Slots : ~Free(s) => request[s].kind # "tasks" \/ ~request[s].live)
    => list.shown = list.filters
=============================================================================
