---------------------------- MODULE VerifiedWork ----------------------------
(***************************************************************************)
(* What the compute pipeline promises to clients and providers, without    *)
(* saying how: every chunk is decided once, every result is settled at     *)
(* most once and in line with the decision, and a job is closed once all   *)
(* its chunks are decided, by the share of them that was rejected.         *)
(***************************************************************************)
EXTENDS Naturals, FiniteSets

CONSTANTS Jobs, Chunks, JobOf, Providers

VARIABLES
  decision,   \* of each chunk: "open", "accepted" or "refused"
  account,    \* of each provider for each chunk: "none", "credited" or "penalised"
  state       \* of each job: "open", "completed" or "failed"

vars == <<decision, account, state>>

Init ==
  /\ decision = [c \in Chunks |-> "open"]
  /\ account = [c \in Chunks |-> [p \in Providers |-> "none"]]
  /\ state = [j \in Jobs |-> "open"]

\* A decision is taken once; a claim may refuse several chunks at a time.
Decide ==
  \E accepted, refused \in SUBSET {c \in Chunks : decision[c] = "open"} :
    /\ accepted \cap refused = {}
    /\ decision' = [c \in Chunks |-> CASE c \in accepted -> "accepted"
                                       [] c \in refused -> "refused"
                                       [] OTHER -> decision[c]]
    /\ UNCHANGED <<account, state>>

\* A reward is for an accepted chunk, a penalty for a decided one.
Settle(c, p) ==
  /\ account[c][p] = "none"
  /\ \/ /\ decision[c] = "accepted"
        /\ account' = [account EXCEPT ![c][p] = "credited"]
     \/ /\ decision[c] # "open"
        /\ account' = [account EXCEPT ![c][p] = "penalised"]
  /\ UNCHANGED <<decision, state>>

CloseJob(j) ==
  LET own == {c \in Chunks : JobOf[c] = j}
      refused == {c \in own : decision[c] = "refused"}
  IN /\ state[j] = "open"
     /\ \A c \in own : decision[c] # "open"
     /\ state' = [state EXCEPT ![j] =
          IF 2 * Cardinality(refused) > Cardinality(own) THEN "failed" ELSE "completed"]
     /\ UNCHANGED <<decision, account>>

Next ==
  \/ Decide
  \/ \E c \in Chunks, p \in Providers : Settle(c, p)
  \/ \E j \in Jobs : CloseJob(j)

Spec == Init /\ [][Next]_vars
=============================================================================
