---------------------------- MODULE MCMoneyPages ----------------------------
(* Instances of MoneyPages for TLC, and what the documents say of it.       *)
EXTENDS MoneyPages, TLC

CONSTANTS k1, s1, s2, s3

Symmetry == Permutations(Slots)

\* docs/02-requisitos.md:258: the total withdrawn is the historical sum of all the
\* withdrawals that were requested.  It is lost even if every one of them is recorded.
TotalWithdrawnIsTheSum ==
  slips.unrecorded = 0 /\ (\A s \in Slots : ~Free(s) => request[s].kind # "withdraw")
    => wallet.withdrawn = ledger.withdrawn

\* WalletPage.tsx:138 and 156: a withdrawal is confirmed once.  One that was given up on
\* is still carried out when it is confirmed again.
OneWithdrawal == Cardinality({s \in Slots : ~Free(s) /\ request[s].kind = "withdraw"}) <= 1
=============================================================================
