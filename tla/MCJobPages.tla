----------------------------- MODULE MCJobPages -----------------------------
(* Instances of JobPages for TLC, and claims of the documentation that the  *)
(* program does not keep.                                                   *)
EXTENDS JobPages, TLC

CONSTANTS j1, j2, f1, f2, s1, s2

\* docs/02-backlog.md:993: while a job is being sent, the form does not allow it to be
\* sent twice.
OneCreationAtATime ==
  Cardinality({s \in Slots : ~Free(s) /\ request[s].kind = "createJob"}) <= 1

\* docs/02-backlog.md:985: the operation is applied to the columns that the client
\* selects.
ChosenColumnsAreSent ==
  \A s \in Slots :
    ~Free(s) /\ request[s].kind = "createJob" => request[s].columns = request[s].chosen

\* docs/02-backlog.md:1045: while its job is not terminal, the detail page goes on
\* asking for it, until it shows the outcome.
DetailReachesTheOutcome ==
  \A j \in Jobs :
    (page.name = "detail" /\ page.on = j /\ job[j] \in Terminal)
      ~> (page.name # "detail" \/ page.on # j \/ store.error
          \/ (store.currentJob # NoJob
              /\ store.currentJob.id = j /\ store.currentJob.status = job[j]))
=============================================================================
