-------------------------- MODULE MCChunkPipeline --------------------------
(* Instances of ChunkPipeline for TLC, and claims of the documentation that *)
(* the program does not keep.                                               *)
EXTENDS ChunkPipeline, TLC

CONSTANTS j1, j2, c1, c2, p1, p2, p3, p4, v1, v2, v3, t1, t2

\* All chunks belong to one job, or each to a job of its own.
OneJob == [c \in Chunks |-> j1]
OwnJob == [c \in Chunks |-> IF c = c1 THEN j1 ELSE j2]

Symmetry == Permutations(Providers) \cup Permutations(Threads) \cup Permutations(Values)

\* docs/04-arquitectura.md:1480: _try_close_job never closes a job twice.
ClosedOnce == \A j \in Jobs : job[j].closes <= 1

\* migrations/004_compute.sql:83: reward_total, 0.10 for each chunk, is what is
\* distributed among the providers of valid results.
RewardTotalCoversPayments ==
  \A j \in Jobs :
    Cardinality({r \in ChunksOf(j) \X Providers : ledger[r[1]][r[2]].credits > 0})
      <= Cardinality(ChunksOf(j))

\* docs/02-backlog.md:1196 and 1202: results are marked valid when their chunk becomes
\* done, and those are what the result of the job is reduced from.
ResultTakesDoneChunksOnly ==
  \A j \in Jobs : \A r \in job[j].result : chunk[r[1]].status = "done"
=============================================================================
