---------------------------- MODULE PromptProofs ----------------------------
(***************************************************************************)
(* What holds of the pipeline when no reclaim overlaps a submit            *)
(* (PromptSpec): a chunk is decided by one handler, which then settles     *)
(* each result once; handlers that close a job together agree; and so the  *)
(* pipeline implements VerifiedWork.                                       *)
(***************************************************************************)
EXTENDS ChunkPipelineProofs

-----------------------------------------------------------------------------
(* A submit passes through three stages.  Until it has stored its result its  *)
(* provider is the assignee of the chunk; from then on to its decision it is  *)
(* the only handler beyond that point; and what it decided is what the chunk  *)
(* says while it pays.                                                        *)

Arriving == {"check", "insert"}
Deciding == {"reload", "requeue", "validate", "verdict"}
Paying == {"increment", "pay"}

Holds(t) ==
  /\ chunk[thread[t].on].status = "assigned"
  /\ chunk[thread[t].on].assignedTo = thread[t].who

HandlerHolds(t) ==
  /\ thread[t].pc \in Arriving /\ answer[thread[t].on][thread[t].who] = NoValue => Holds(t)
  /\ thread[t].pc \in Deciding => Holds(t) /\ answer[thread[t].on][thread[t].who] # NoValue
  /\ thread[t].pc \in Paying => chunk[thread[t].on].status = Decided(t)

Apart(t, u) ==
  thread[t].pc \in Deciding \cup Paying /\ thread[u].pc \in Deciding \cup Paying
    => thread[t].on # thread[u].on

HandlersHold == \A t \in Threads : HandlerHolds(t)
HandlersApart == \A t, u \in Threads : t # u => Apart(t, u)

HoldInv == ConsensusInv /\ HandlersHold /\ HandlersApart

LEMMA Stages ==
  /\ SubmitPC = Arriving \cup Deciding \cup Paying
  /\ Arriving \cap Deciding = {} /\ Arriving \cap Paying = {} /\ Deciding \cap Paying = {}
  BY DEF SubmitPC, Arriving, Deciding, Paying

LEMMA PromptIsNext == [PromptNext]_vars => [Next]_vars
  BY DEF Next

-----------------------------------------------------------------------------
(* What a step does to the stages: mostly nothing.                           *)

SameHolder(c) ==
  chunk'[c].status = chunk[c].status /\ chunk'[c].assignedTo = chunk[c].assignedTo

SameStage(t) ==
  /\ thread'[t].on = thread[t].on
  /\ thread'[t].who = thread[t].who
  /\ \/ thread[t].pc \in Arriving /\ thread'[t].pc \in Arriving
     \/ thread[t].pc \in Deciding /\ thread'[t].pc \in Deciding
     \/ /\ thread[t].pc \in Paying /\ thread'[t].pc \in Paying
        /\ thread'[t].winners = thread[t].winners

Quiet ==
  /\ answer' = answer
  /\ \A c \in Chunks : SameHolder(c)
  /\ \A t \in Threads : thread'[t].pc \in SubmitPC => SameStage(t)

QuietProgress(t) ==
  \/ Check(t) \/ ReloadUndecided(t) \/ ReloadAgreed(t) \/ ReloadAllDiffer(t)
  \/ \E q \in Providers : Validate(t, q)
  \/ Increment(t)
  \/ \E q \in Providers : Pay(t, q)
  \/ Close(t)

LEMMA LeavingSubmit ==
  /\ Idle.pc \notin SubmitPC
  /\ \A rest : CloseNext(rest).pc \notin SubmitPC
  BY DEF Idle, CloseNext, SubmitPC

LEMMA ClosersAreNoSubmits ==
  ASSUME TypeInv, NEW t \in Threads, Close(t) \/ CloseFails(t)
  PROVE  thread'[t].pc \notin SubmitPC
  <1>1. thread \in [Threads -> Handler] /\ thread[t] \in Handler
    BY ThreadsType
  <1>2. CASE CountTerminal(t)
    BY <1>1, <1>2, LeavingSubmit DEF CountTerminal, Idle, SubmitPC
  <1>3. CASE ReadJob(t)
    BY <1>1, <1>3, LeavingSubmit DEF ReadJob, Handler, SubmitPC
  <1>4. CASE FailJob(t) \/ CompleteJob(t)
    BY <1>1, <1>4, LeavingSubmit DEF FailJob, CompleteJob
  <1>5. CASE GatherResults(t)
    BY <1>1, <1>5 DEF GatherResults, Handler, SubmitPC
  <1>6. CASE CloseFails(t)
    BY <1>1, <1>6, LeavingSubmit DEF CloseFails
  <1> QED BY <1>2, <1>3, <1>4, <1>5, <1>6 DEF Close

LEMMA QuietSteps ==
  ASSUME TypeInv, NEW t \in Threads, thread'[t].pc \in SubmitPC,
         QuietProgress(t) \/ Fault(t)
  PROVE  SameStage(t)
  <1>1. thread \in [Threads -> Handler] /\ thread[t] \in Handler
    BY ThreadsType
  <1>2. Reply(t) => FALSE
    BY <1>1, LeavingSubmit DEF Reply
  <1>3. \A rest : thread' = [thread EXCEPT ![t] = CloseNext(rest)] => FALSE
    BY <1>1, LeavingSubmit
  <1>4. CASE Check(t) \/ ReloadUndecided(t)
    BY <1>1, <1>2, <1>4
       DEF Check, ReloadUndecided, Goto, SameStage, Handler, Arriving, Deciding
  <1>5. CASE ReloadAgreed(t)
    BY <1>1, <1>5 DEF ReloadAgreed, SameStage, Handler, Deciding
  <1>6. CASE ReloadAllDiffer(t)
    BY <1>1, <1>6 DEF ReloadAllDiffer, SameStage, Handler, Deciding
  <1>7. CASE \E q \in Providers : Validate(t, q)
    BY <1>1, <1>7 DEF Validate, SameStage, Handler, Deciding
  <1>8. CASE Increment(t)
    BY <1>1, <1>2, <1>8 DEF Increment, Goto, SameStage, Handler, Paying
  <1>9. CASE \E q \in Providers : Pay(t, q) \/ PayFails(t, q)
    BY <1>1, <1>3, <1>9 DEF Pay, PayFails, PaidOne, SameStage, Handler, Paying
  <1>10. CASE HandlerDies(t)
    BY <1>2, <1>10 DEF HandlerDies
  <1>11. CASE Close(t) \/ CloseFails(t)
    BY <1>11, ClosersAreNoSubmits
  <1> QED BY <1>4, <1>5, <1>6, <1>7, <1>8, <1>9, <1>10, <1>11 DEF QuietProgress, Fault

LEMMA PromptEffect ==
  ASSUME TypeInv, [PromptNext]_vars
  PROVE  \/ Quiet
         \/ \E t \in Threads, p \in Providers, c \in Chunks : Receive(t, p, c)
         \/ \E t \in Threads, v \in Values : Insert(t, v)
         \/ \E t \in Threads : Requeue(t)
         \/ \E t \in Threads : WriteVerdict(t)
         \/ \E t \in Threads, p \in Providers, n \in 1..MaxClaim, locked \in SUBSET Chunks :
              PromptClaim(t, p, n, locked)
  <1>1. \A t \in Threads : thread'[t] = thread[t] /\ thread'[t].pc \in SubmitPC => SameStage(t)
    BY Stages DEF SameStage
  <1>2. CASE UNCHANGED vars
    BY <1>1, <1>2 DEF vars, Quiet, SameHolder
  <1>3. CASE \E c \in Chunks : Expire(c)
    <2>1. PICK c \in Chunks : Expire(c)
      BY <1>3
    <2>2. thread' = thread /\ answer' = answer
      BY <2>1 DEF Expire
    <2>3. chunk \in [Chunks -> ChunkRow]
      BY DEF TypeInv, TypeOK
    <2>4. \A d \in Chunks : SameHolder(d)
      BY <2>1, <2>3 DEF Expire, SameHolder, ChunkRow
    <2> QED BY <1>1, <2>2, <2>4 DEF Quiet
  <1>4. ASSUME NEW t \in Threads, QuietProgress(t) \/ Fault(t) PROVE Quiet
    <2>1. answer' = answer /\ chunk' = chunk
      BY <1>4 DEF QuietProgress, Fault, Check, ReloadUndecided, ReloadAgreed, ReloadAllDiffer,
           Validate, Increment, Pay, Close, CountTerminal, ReadJob, FailJob, GatherResults,
           CompleteJob, HandlerDies, PayFails, CloseFails, tables
    <2>2. Progress(t) \/ Fault(t)
      BY <1>4 DEF QuietProgress, Progress
    <2>3. \A u \in Threads : u # t => thread'[u] = thread[u]
      BY <2>2, OtherThreads
    <2>4. \A u \in Threads : thread'[u].pc \in SubmitPC => SameStage(u)
      BY <1>1, <1>4, <2>3, QuietSteps
    <2> QED BY <2>1, <2>4 DEF Quiet, SameHolder
  <1>5. CASE \E t \in Threads : Receives(t)
    BY <1>5 DEF Receives
  <1>6. CASE \E t \in Threads : PromptClaims(t)
    BY <1>6 DEF PromptClaims
  <1>7. CASE \E t \in Threads : Progress(t)
    BY <1>4, <1>7 DEF Progress, QuietProgress
  <1> QED BY <1>2, <1>3, <1>4, <1>5, <1>6, <1>7 DEF PromptNext, SmoothNext

-----------------------------------------------------------------------------
(* The stages keep the handlers of a chunk apart.                            *)

\* What a handler holds depends on its stage and on the row of its chunk.
LEMMA HoldKept ==
  ASSUME HoldInv, NEW t \in Threads, thread'[t].pc \in SubmitPC => SameStage(t),
         LET c == thread[t].on IN
           \/ ~(thread[t].pc \in SubmitPC)
           \/ SameHolder(c) /\ answer'[c] = answer[c]
  PROVE  HandlerHolds(t)'
  <1> SUFFICES ASSUME thread'[t].pc \in SubmitPC PROVE HandlerHolds(t)'
    BY Stages DEF HandlerHolds
  <1>1. SameStage(t) /\ thread[t].pc \in SubmitPC
    BY Stages DEF SameStage
  <1>2. HandlerHolds(t)
    BY DEF HoldInv, HandlersHold
  <1>3. SameHolder(thread[t].on) /\ answer'[thread[t].on] = answer[thread[t].on]
    BY <1>1
  <1> QED BY <1>1, <1>2, <1>3, Stages
       DEF SameStage, SameHolder, HandlerHolds, Holds, Decided

LEMMA QuietHolds == ASSUME HoldInv, Quiet PROVE HandlersHold' /\ HandlersApart'
  <1>1. ASSUME NEW t \in Threads PROVE HandlerHolds(t)'
    <2>1. thread[t].pc \in SubmitPC => thread[t].on \in Chunks
      BY SubmitType DEF HoldInv, ConsensusInv
    <2> QED BY <2>1, HoldKept DEF Quiet
  <1>2. ASSUME NEW t \in Threads, NEW u \in Threads, t # u PROVE Apart(t, u)'
    <2>1. Apart(t, u)
      BY <1>2 DEF HoldInv, HandlersApart
    <2>2. /\ thread'[t].pc \in SubmitPC => SameStage(t)
          /\ thread'[u].pc \in SubmitPC => SameStage(u)
      BY DEF Quiet
    <2> QED BY <2>1, <2>2, Stages DEF Apart, SameStage
  <1> QED BY <1>1, <1>2 DEF HandlersHold, HandlersApart

\* Two handlers that hold one chunk: the provider of one has answered, that of
\* the other has not, and both are its only assignee.
LEMMA OneHolder ==
  ASSUME HoldInv, NEW t \in Threads, NEW u \in Threads, t # u,
         thread[t].pc \in Deciding, thread[u].pc \in SubmitPC, thread[u].on = thread[t].on
  PROVE  thread[u].pc \in Arriving /\ answer[thread[u].on][thread[u].who] # NoValue
  <1>1. HandlerHolds(t) /\ HandlerHolds(u) /\ Apart(t, u)
    BY DEF HoldInv, HandlersHold, HandlersApart
  <1>2. thread[u].pc \in Arriving
    BY <1>1, Stages DEF Apart
  <1> QED BY <1>1, <1>2 DEF HandlerHolds, Holds

LEMMA Newcomer ==
  ASSUME HoldInv, NEW t \in Threads, NEW u \in Threads, t # u,
         thread[t].pc \in Arriving, answer[thread[t].on][thread[t].who] = NoValue,
         thread[u].pc \in Deciding \cup Paying
  PROVE  thread[u].on # thread[t].on
  <1>1. HandlerHolds(t) /\ HandlerHolds(u)
    BY DEF HoldInv, HandlersHold
  <1>2. Holds(t)
    BY <1>1 DEF HandlerHolds
  <1>3. Decided(u) # "assigned"
    BY DEF Decided
  <1> QED BY <1>1, <1>2, <1>3 DEF HandlerHolds, Holds

LEMMA ReceiveHolds ==
  ASSUME HoldInv, NEW t \in Threads, NEW p \in Providers, NEW c \in Chunks, Receive(t, p, c)
  PROVE  HandlersHold' /\ HandlersApart'
  <1>0. thread \in [Threads -> Handler]
    BY ThreadsType DEF HoldInv, ConsensusInv
  <1>1. \A u \in Threads : u # t => thread'[u] = thread[u]
    BY <1>0 DEF Receive
  <1>2. thread'[t].pc = "check" /\ thread'[t].who = p /\ thread'[t].on = c
    BY <1>0 DEF Receive, Idle
  <1>3. chunk' = chunk /\ answer' = answer
    BY DEF Receive, tables
  <1>4. ASSUME NEW u \in Threads PROVE HandlerHolds(u)'
    <2>1. CASE u = t
      BY <1>2, <1>3, <2>1 DEF Receive, HandlerHolds, Holds, Arriving, Deciding, Paying
    <2>2. CASE u # t
      BY <1>1, <1>3, <2>2
         DEF HoldInv, HandlersHold, HandlerHolds, Holds, Decided
    <2> QED BY <2>1, <2>2
  <1>5. thread'[t].pc \notin Deciding \cup Paying
    BY <1>2 DEF Deciding, Paying
  <1>6. HandlersApart'
    BY <1>1, <1>5 DEF HoldInv, HandlersApart, Apart
  <1> QED BY <1>4, <1>6 DEF HandlersHold

LEMMA InsertHolds ==
  ASSUME HoldInv, NEW t \in Threads, NEW v \in Values, Insert(t, v)
  PROVE  HandlersHold' /\ HandlersApart'
  <1> DEFINE c == thread[t].on
             p == thread[t].who
  <1>0. /\ thread \in [Threads -> Handler] /\ thread[t] \in Handler
        /\ c \in Chunks /\ p \in Providers
        /\ answer \in [Chunks -> [Providers -> Values \cup {NoValue}]]
    BY ThreadsType, SubmitType DEF HoldInv, ConsensusInv, Insert, SubmitPC, TypeInv, TypeOK
  <1>1. \A u \in Threads : u # t => thread'[u] = thread[u]
    BY <1>0 DEF Insert, Goto, Reply
  <1>2. chunk' = chunk
    BY DEF Insert
  <1>3. CASE answer[c][p] # NoValue
    <2>1. answer' = answer /\ Reply(t)
      BY <1>3 DEF Insert
    <2>2. thread'[t].pc \notin SubmitPC
      BY <1>0, <2>1, LeavingSubmit DEF Reply
    <2>3. Quiet
      BY <1>1, <1>2, <2>1, <2>2, Stages DEF Quiet, SameHolder, SameStage
    <2> QED BY <2>3, QuietHolds
  <1>4. CASE answer[c][p] = NoValue
    <2>1. answer' = [answer EXCEPT ![c][p] = v] /\ Goto(t, "reload")
      BY <1>4 DEF Insert
    <2>2. thread'[t].pc = "reload" /\ thread'[t].on = c /\ thread'[t].who = p
      BY <1>0, <2>1 DEF Goto, Handler
    <2>3. /\ answer'[c][p] = v /\ v # NoValue
          /\ \A d \in Chunks, q \in Providers : answer[d][q] # NoValue => answer'[d][q] # NoValue
          /\ \A d \in Chunks, q \in Providers : answer'[d][q] = NoValue => answer[d][q] = NoValue
      <3> HIDE DEF c, p
      <3> QED BY <1>0, <2>1, ConstantsAssumption
    <2>4. thread[t].pc = "insert" /\ HandlerHolds(t)
      BY DEF Insert, HoldInv, HandlersHold
    <2>5. Holds(t)
      BY <1>4, <2>4 DEF HandlerHolds, Arriving
    <2>6. ASSUME NEW u \in Threads PROVE HandlerHolds(u)'
      <3>1. CASE u = t
        BY <1>2, <2>2, <2>3, <2>5, <3>1
           DEF HandlerHolds, Holds, Arriving, Deciding, Paying
      <3>2. CASE u # t
        <4>1. HandlerHolds(u) /\ thread'[u] = thread[u]
          BY <1>1, <3>2 DEF HoldInv, HandlersHold
        <4>2. thread[u].pc \in SubmitPC => thread[u].on \in Chunks /\ thread[u].who \in Providers
          BY SubmitType DEF HoldInv, ConsensusInv
        <4> QED BY <1>2, <2>3, <4>1, <4>2, Stages DEF HandlerHolds, Holds, Decided
      <3> QED BY <3>1, <3>2
    <2>7. \A u \in Threads : u # t /\ thread[u].pc \in Deciding \cup Paying => thread[u].on # c
      BY <1>4, <2>4, Newcomer DEF Arriving
    <2>8. HandlersApart'
      BY <1>1, <2>2, <2>7 DEF HoldInv, HandlersApart, Apart
    <2> QED BY <2>6, <2>8 DEF HandlersHold
  <1> QED BY <1>3, <1>4

\* A handler that has decided lets go of the chunk, or pays as it decided.
LEMMA LettingGo ==
  ASSUME HoldInv, NEW t \in Threads, thread[t].pc \in Deciding, answer' = answer,
         \A c \in Chunks : c # thread[t].on => chunk'[c] = chunk[c],
         \A u \in Threads : u # t => thread'[u] = thread[u],
         \/ thread'[t].pc \notin SubmitPC
         \/ /\ thread'[t].pc \in Paying
            /\ thread'[t].on = thread[t].on
            /\ chunk'[thread[t].on].status = Decided(t)'
  PROVE  HandlersHold' /\ HandlersApart'
  <1>1. ASSUME NEW u \in Threads PROVE HandlerHolds(u)'
    <2>1. CASE u = t
      BY <2>1, Stages DEF HandlerHolds
    <2>2. CASE u # t
      <3>1. HandlerHolds(u) /\ thread'[u] = thread[u]
        BY <2>2 DEF HoldInv, HandlersHold
      <3>2. CASE thread[u].pc \notin SubmitPC
        BY <3>1, <3>2, Stages DEF HandlerHolds
      <3>3. CASE thread[u].pc \in SubmitPC /\ thread[u].on = thread[t].on
        <4>1. thread[u].pc \in Arriving /\ answer[thread[u].on][thread[u].who] # NoValue
          BY <2>2, <3>3, OneHolder
        <4> QED BY <3>1, <4>1, Stages DEF HandlerHolds
      <3>4. CASE thread[u].pc \in SubmitPC /\ thread[u].on # thread[t].on
        <4>1. thread[u].on \in Chunks
          BY <3>4, SubmitType DEF HoldInv, ConsensusInv
        <4>2. chunk'[thread[u].on] = chunk[thread[u].on]
          BY <3>4, <4>1
        <4> QED BY <3>1, <4>2 DEF HandlerHolds, Holds, Decided
      <3> QED BY <3>2, <3>3, <3>4
    <2> QED BY <2>1, <2>2
  <1>2. ASSUME NEW u \in Threads, NEW w \in Threads, u # w PROVE Apart(u, w)'
    <2>1. Apart(u, w)
      BY <1>2 DEF HoldInv, HandlersApart
    <2>2. \A x \in Threads : thread'[x].pc \in Deciding \cup Paying =>
            thread[x].pc \in Deciding \cup Paying /\ thread'[x].on = thread[x].on
      BY Stages
    <2> QED BY <2>1, <2>2 DEF Apart
  <1> QED BY <1>1, <1>2 DEF HandlersHold, HandlersApart

LEMMA RequeueHolds ==
  ASSUME HoldInv, NEW t \in Threads, Requeue(t)
  PROVE  HandlersHold' /\ HandlersApart'
  <1>0. thread \in [Threads -> Handler] /\ chunk \in [Chunks -> ChunkRow]
    BY ThreadsType DEF HoldInv, ConsensusInv, TypeInv, TypeOK
  <1>1. \A u \in Threads : u # t => thread'[u] = thread[u]
    BY <1>0 DEF Requeue, Reply
  <1>2. thread'[t].pc \notin SubmitPC
    BY <1>0, LeavingSubmit DEF Requeue, Reply
  <1>3. \A c \in Chunks : c # thread[t].on => chunk'[c] = chunk[c]
    BY <1>0 DEF Requeue
  <1>4. thread[t].pc \in Deciding /\ answer' = answer
    BY DEF Requeue, Deciding
  <1> QED BY <1>1, <1>2, <1>3, <1>4, LettingGo

\* What WriteVerdict does to its handler and its chunk.
LEMMA WriteVerdictFields ==
  ASSUME TypeInv, NEW t \in Threads, WriteVerdict(t)
  PROVE  /\ thread[t].on \in Chunks
         /\ \A u \in Threads : u # t => thread'[u] = thread[u]
         /\ thread'[t].pc = AfterVerdict(t)
         /\ thread'[t].on = thread[t].on
         /\ thread'[t].who = thread[t].who
         /\ thread'[t].seen = thread[t].seen
         /\ thread'[t].winners = thread[t].winners
         /\ thread'[t].left = thread[t].seen
         /\ chunk'[thread[t].on].status = Decided(t)
         /\ \A c \in Chunks : c # thread[t].on => chunk'[c] = chunk[c]
  <1>1. /\ thread \in [Threads -> Handler] /\ thread[t] \in Handler
        /\ chunk \in [Chunks -> ChunkRow]
        /\ thread[t].on \in Chunks
    BY ThreadsType, SubmitType DEF TypeInv, TypeOK, WriteVerdict, SubmitPC
  <1>2. chunk' = [chunk EXCEPT ![thread[t].on] = Settled(@, Decided(t))]
    BY DEF WriteVerdict
  <1>3. Settled(chunk[thread[t].on], Decided(t)).status = Decided(t)
    BY <1>1, SettledFields
  <1>4. thread' = [thread EXCEPT ![t].left = thread[t].seen, ![t].pc = AfterVerdict(t)]
    BY DEF WriteVerdict
  <1> QED BY <1>1, <1>2, <1>3, <1>4 DEF Handler

LEMMA WriteVerdictHolds ==
  ASSUME HoldInv, NEW t \in Threads, WriteVerdict(t)
  PROVE  HandlersHold' /\ HandlersApart'
  <1>1. TypeInv
    BY DEF HoldInv, ConsensusInv
  <1>2. thread'[t].pc \in Paying /\ Decided(t)' = Decided(t)
    BY <1>1, WriteVerdictFields DEF AfterVerdict, Paying, Decided
  <1>3. thread[t].pc \in Deciding /\ answer' = answer
    BY DEF WriteVerdict, Deciding
  <1> QED BY <1>1, <1>2, <1>3, WriteVerdictFields, LettingGo

\* A claim leaves the chunks alone that are not in the queue and that it does not reclaim.
LEMMA ClaimKeeps ==
  ASSUME TypeInv, NEW t \in Threads, NEW p \in Providers, NEW n, NEW locked \in SUBSET Chunks,
         Claim(t, p, n, locked), NEW c \in Chunks, chunk[c].status # "pending",
         c \notin Overtime(locked)
  PROVE  chunk'[c] = chunk[c]
  <1> DEFINE rows == AfterTTL(locked)
             overdue == Overdue(rows, locked)
  <1>1. PICK taken \in Limited(Candidates(rows, p, locked), n) :
          chunk' = AfterClaim(rows, overdue, taken, p)
    BY DEF Claim
  <1>2. rows[c] = chunk[c]
    BY DEF AfterTTL
  <1>3. c \notin overdue /\ c \notin taken
    BY <1>2 DEF Overdue, Limited, Candidates
  <1> QED BY <1>1, <1>2, <1>3 DEF AfterClaim

LEMMA ClaimThreads ==
  ASSUME TypeInv, NEW t \in Threads, NEW p, NEW n, NEW locked, PromptClaim(t, p, n, locked)
  PROVE  /\ UNCHANGED <<job, answer, verdict, ledger>>
         /\ \A u \in Threads : u # t => thread'[u] = thread[u]
         /\ thread'[t].pc \in {"idle", "count"}
  <1>1. thread \in [Threads -> Handler]
    BY ThreadsType
  <1>2. \A rest : CloseNext(rest).pc \in {"idle", "count"}
    BY DEF CloseNext, Idle
  <1> QED BY <1>1, <1>2 DEF PromptClaim, Claim

LEMMA ClaimHolds ==
  ASSUME HoldInv, NEW t \in Threads, NEW p \in Providers, NEW n, NEW locked \in SUBSET Chunks,
         PromptClaim(t, p, n, locked)
  PROVE  HandlersHold' /\ HandlersApart'
  <1>0. TypeInv
    BY DEF HoldInv, ConsensusInv
  <1>1. /\ answer' = answer
        /\ \A u \in Threads : u # t => thread'[u] = thread[u]
        /\ thread'[t].pc \notin SubmitPC
    BY <1>0, ClaimThreads DEF SubmitPC
  <1>2. ASSUME NEW u \in Threads PROVE HandlerHolds(u)'
    <2>1. CASE thread'[u].pc \notin SubmitPC
      BY <2>1, Stages DEF HandlerHolds
    <2>2. CASE thread'[u].pc \in SubmitPC
      <3> DEFINE c == thread[u].on
      <3>1. thread'[u] = thread[u] /\ HandlerHolds(u) /\ c \in Chunks
        BY <1>0, <1>1, <2>2, SubmitType DEF HoldInv, HandlersHold
      <3>2. CASE Holds(u) \/ thread[u].pc \in Paying
        <4>1. chunk[c].status = "assigned" => Handled(c)
          BY <2>2, <3>1, <3>2 DEF Holds, HandlerHolds, Decided, Handled
        <4>2. chunk[c].status # "pending"
          BY <3>1, <3>2 DEF Holds, HandlerHolds, Decided
        <4>3. Claim(t, p, n, locked) /\ c \notin Overtime(locked)
          BY <4>1 DEF PromptClaim, Overtime
        <4>4. chunk'[c] = chunk[c]
          BY <1>0, <3>1, <4>2, <4>3, ClaimKeeps
        <4> QED BY <1>1, <3>1, <4>4 DEF HandlerHolds, Holds, Decided
      <3>3. CASE ~Holds(u) /\ thread[u].pc \notin Paying
        BY <1>1, <3>1, <3>3, Stages DEF HandlerHolds
      <3> QED BY <3>2, <3>3
    <2> QED BY <2>1, <2>2
  <1>3. HandlersApart'
    BY <1>1, Stages DEF HoldInv, HandlersApart, Apart
  <1> QED BY <1>2, <1>3 DEF HandlersHold

LEMMA HoldStep == HoldInv /\ [PromptNext]_vars => HoldInv'
  <1> SUFFICES ASSUME HoldInv, [PromptNext]_vars PROVE HoldInv'
    OBVIOUS
  <1>1. ConsensusInv'
    BY PromptIsNext, ConsensusStep DEF HoldInv
  <1>2. HandlersHold' /\ HandlersApart'
    <2>1. TypeInv
      BY DEF HoldInv, ConsensusInv
    <2> QED BY <2>1, PromptEffect, QuietHolds, ReceiveHolds, InsertHolds, RequeueHolds,
               WriteVerdictHolds, ClaimHolds
  <1> QED BY <1>1, <1>2 DEF HoldInv

LEMMA HoldInit == Init => HoldInv
  <1> SUFFICES ASSUME Init PROVE HoldInv
    OBVIOUS
  <1>1. \A t \in Threads : thread[t].pc \notin SubmitPC
    BY LeavingSubmit DEF Init
  <1> QED BY <1>1, ConsensusInit, Stages
       DEF HoldInv, HandlersHold, HandlersApart, HandlerHolds, Apart

-----------------------------------------------------------------------------
(* Decisions are final.                                                      *)

\* Only a handler that holds the chunk requeues it or decides it.
LEMMA DeciderHolds ==
  ASSUME HoldInv, NEW t \in Threads, thread[t].pc \in Deciding
  PROVE  /\ thread[t].on \in Chunks
         /\ thread[t].who \in Providers
         /\ Holds(t)
         /\ answer[thread[t].on][thread[t].who] # NoValue
  BY SubmitType, Stages DEF HoldInv, ConsensusInv, HandlersHold, HandlerHolds

LEMMA TerminalStep ==
  ASSUME HoldInv, [PromptNext]_vars, NEW c \in Chunks, chunk[c].status \in TerminalStatus
  PROVE  chunk'[c] = chunk[c]
  <1>0. TypeInv /\ chunk \in [Chunks -> ChunkRow]
    BY DEF HoldInv, ConsensusInv, TypeInv, TypeOK
  <1>1. chunk[c].status \notin {"assigned", "pending"}
    BY DEF TerminalStatus
  <1>2. CASE \E d \in Chunks : Expire(d)
    BY <1>0, <1>1, <1>2 DEF Expire
  <1>3. ASSUME NEW t \in Threads, NEW p \in Providers, NEW n \in 1..MaxClaim,
               NEW locked \in SUBSET Chunks, Claim(t, p, n, locked)
        PROVE  chunk'[c] = chunk[c]
    <2>1. c \notin Overtime(locked)
      BY <1>1 DEF Overtime
    <2> QED BY <1>0, <1>1, <1>3, <2>1, ClaimKeeps
  <1>4. ASSUME NEW t \in Threads, Requeue(t) \/ WriteVerdict(t)
        PROVE  chunk'[c] = chunk[c]
    <2>1. thread[t].pc \in Deciding
      BY <1>4 DEF Requeue, WriteVerdict, Deciding
    <2>2. thread[t].on # c
      BY <1>1, <2>1, DeciderHolds DEF Holds
    <2> QED BY <1>0, <1>4, <2>2 DEF Requeue, WriteVerdict
  <1> QED BY <1>2, <1>3, <1>4, PromptIsNext, ChunkSteps

\* For any number of replicas, threads and faults: a chunk that is done or rejected
\* is never requeued, reassigned or decided again, unless a reclaim overlaps a submit.
THEOREM DecisionsAreFinal == PromptSpec => TerminalChunksStay
  <1>1. HoldInv /\ [PromptNext]_vars
          => [\A c \in Chunks :
                chunk[c].status \in TerminalStatus => chunk'[c] = chunk[c]]_chunk
    BY TerminalStep
  <1> QED BY <1>1, HoldInit, HoldStep, PTL DEF PromptSpec, TerminalChunksStay

-----------------------------------------------------------------------------
(* Each attempt is another provider's.                                       *)

EngagedIn(c, row) ==
  Answered(c) \cup row.abandonedBy \cup (IF row.status = "assigned" THEN {row.assignedTo} ELSE {})

Counts(c, row) == row.attempts = Cardinality(EngagedIn(c, row))

LEMMA EngagedFinite ==
  ASSUME NEW c \in Chunks, NEW row \in ChunkRow,
         row.status = "assigned" => row.assignedTo \in Providers
  PROVE  IsFiniteSet(EngagedIn(c, row))
  <1>1. EngagedIn(c, row) \in SUBSET Providers
    BY DEF EngagedIn, Answered, ChunkRow
  <1> QED BY <1>1, FS_Subset, ConstantsAssumption

\* A claim moves the assignee among the abandoners, and counts the new one.
LEMMA ClaimCounts ==
  ASSUME TypeInv, NEW t \in Threads, NEW p \in Providers, NEW n, NEW locked \in SUBSET Chunks,
         Claim(t, p, n, locked), NEW c \in Chunks, Counts(c, chunk[c])
  PROVE  Counts(c, chunk'[c])
  <1>0. chunk[c] \in ChunkRow
    BY DEF TypeInv, TypeOK
  <1>1. PICK row \in ChunkRow :
           /\ \/ row = chunk[c]
              \/ chunk[c].status = "assigned" /\ row = Reclaimed(chunk[c], chunk[c].assignedTo)
           /\ \/ chunk'[c] = row
              \/ row.status = "pending" /\ chunk'[c] = Refused(row)
              \/ /\ row.status = "pending"
                 /\ p \notin row.abandonedBy
                 /\ answer[c][p] = NoValue
                 /\ chunk'[c] = Assigned(row, p, row.attempts + 1)
    BY ClaimRow
  <1>2. Counts(c, row)
    <2>1. CASE chunk[c].status = "assigned" /\ row = Reclaimed(chunk[c], chunk[c].assignedTo)
      <3>1. /\ row.status = "pending"
            /\ row.attempts = chunk[c].attempts
            /\ row.abandonedBy = chunk[c].abandonedBy \cup {chunk[c].assignedTo}
        BY <1>0, <2>1, ReclaimedFields
      <3>2. EngagedIn(c, row) = EngagedIn(c, chunk[c])
        BY <2>1, <3>1 DEF EngagedIn
      <3> QED BY <3>1, <3>2 DEF Counts
    <2> QED BY <1>1, <2>1
  <1>3. CASE row.status = "pending" /\ chunk'[c] = Refused(row)
    BY <1>2, <1>3, RefusedFields DEF Counts, EngagedIn
  <1>4. CASE /\ row.status = "pending"
             /\ p \notin row.abandonedBy
             /\ answer[c][p] = NoValue
             /\ chunk'[c] = Assigned(row, p, row.attempts + 1)
    <2>1. /\ chunk'[c].status = "assigned"
          /\ chunk'[c].assignedTo = p
          /\ chunk'[c].attempts = row.attempts + 1
          /\ chunk'[c].abandonedBy = row.abandonedBy
      BY <1>4, AssignedFields
    <2>2. EngagedIn(c, chunk'[c]) = EngagedIn(c, row) \cup {p}
      BY <1>4, <2>1 DEF EngagedIn
    <2>3. p \notin EngagedIn(c, row)
      BY <1>4 DEF EngagedIn, Answered
    <2>4. IsFiniteSet(EngagedIn(c, row))
      BY <1>4, EngagedFinite
    <2>5. Cardinality(EngagedIn(c, row) \cup {p}) = Cardinality(EngagedIn(c, row)) + 1
      BY <2>3, <2>4, FS_AddElement
    <2> QED BY <1>2, <2>1, <2>2, <2>5 DEF Counts
  <1> QED BY <1>1, <1>2, <1>3, <1>4

LEMMA EngagedStep ==
  ASSUME HoldInv, [PromptNext]_vars, NEW c \in Chunks, Counts(c, chunk[c])
  PROVE  Counts(c, chunk[c])'
  <1>0. /\ TypeInv
        /\ chunk \in [Chunks -> ChunkRow]
        /\ answer \in [Chunks -> [Providers -> Values \cup {NoValue}]]
    BY DEF HoldInv, ConsensusInv, TypeInv, TypeOK
  <1>1. ASSUME NEW t \in Threads, NEW v \in Values, Insert(t, v)
        PROVE  Counts(c, chunk[c])'
    <2> DEFINE d == thread[t].on
               p == thread[t].who
    <2>1. thread[t].pc \in Arriving /\ d \in Chunks /\ p \in Providers /\ HandlerHolds(t)
      BY <1>0, <1>1, SubmitType, Stages DEF Insert, Arriving, HoldInv, HandlersHold
    <2>2. chunk' = chunk
      BY <1>1 DEF Insert
    <2>3. EngagedIn(c, chunk[c])' = EngagedIn(c, chunk[c])
      <3>1. CASE answer' = answer
        BY <2>2, <3>1 DEF EngagedIn, Answered
      <3>2. CASE answer[d][p] = NoValue /\ answer' = [answer EXCEPT ![d][p] = v]
        <4>1. Holds(t)
          BY <2>1, <3>2 DEF HandlerHolds
        <4>2. \/ Answered(c)' = Answered(c)
              \/ d = c /\ Answered(c)' = Answered(c) \cup {p}
          <5> HIDE DEF d, p
          <5> QED BY <1>0, <2>1, <3>2, ConstantsAssumption DEF Answered
        <4> QED BY <2>2, <4>1, <4>2 DEF EngagedIn, Holds
      <3> QED BY <1>1, <3>1, <3>2 DEF Insert
    <2> QED BY <2>2, <2>3 DEF Counts
  <1>2. ASSUME answer' = answer PROVE Counts(c, chunk[c])'
    <2>1. ASSUME Counts(c, chunk'[c]) PROVE Counts(c, chunk[c])'
      BY <1>2, <2>1 DEF Counts, EngagedIn, Answered
    <2>2. CASE chunk' = chunk
      BY <2>1, <2>2
    <2>3. CASE \E e \in Chunks : Expire(e)
      <3>1. /\ chunk'[c].status = chunk[c].status
            /\ chunk'[c].assignedTo = chunk[c].assignedTo
            /\ chunk'[c].attempts = chunk[c].attempts
            /\ chunk'[c].abandonedBy = chunk[c].abandonedBy
        BY <1>0, <2>3 DEF Expire, ChunkRow
      <3> QED BY <2>1, <3>1 DEF Counts, EngagedIn
    <2>4. CASE \E t \in Threads, p \in Providers, n \in 1..MaxClaim, locked \in SUBSET Chunks :
                 Claim(t, p, n, locked)
      BY <1>0, <2>1, <2>4, ClaimCounts
    <2>5. ASSUME NEW t \in Threads, Requeue(t) \/ WriteVerdict(t)
          PROVE  Counts(c, chunk[c])'
      <3>1. thread[t].pc \in Deciding
        BY <2>5 DEF Requeue, WriteVerdict, Deciding
      <3>2. CASE thread[t].on # c
        <4>1. chunk'[c] = chunk[c]
          BY <1>0, <2>5, <3>2 DEF Requeue, WriteVerdict
        <4> QED BY <2>1, <4>1
      <3>3. CASE thread[t].on = c
        <4>1. chunk[c].assignedTo \in Answered(c)
          BY <3>1, <3>3, DeciderHolds DEF Holds, Answered
        <4>2. \/ chunk'[c] = Requeued(chunk[c])
              \/ chunk'[c] = Settled(chunk[c], Decided(t))
          BY <1>0, <2>5, <3>3 DEF Requeue, WriteVerdict
        <4>3. /\ chunk'[c].status # "assigned"
              /\ chunk'[c].attempts = chunk[c].attempts
              /\ chunk'[c].abandonedBy = chunk[c].abandonedBy
          BY <1>0, <4>2, RequeuedFields, SettledFields DEF Decided
        <4>4. EngagedIn(c, chunk'[c]) = EngagedIn(c, chunk[c])
          BY <4>1, <4>3 DEF EngagedIn
        <4> QED BY <2>1, <4>3, <4>4 DEF Counts
      <3> QED BY <3>2, <3>3
    <2> QED BY <2>2, <2>3, <2>4, <2>5, PromptIsNext, ChunkSteps
  <1> QED BY <1>1, <1>2, PromptIsNext, Footprints

\* For any limit, any number of providers, threads and faults: the attempts of a chunk
\* are those of as many providers, each of which delivered, let it lapse or holds it.
THEOREM AttemptsAreOfDistinctProviders == PromptSpec => []EachAttemptAnotherProvider
  <1>1. EachAttemptAnotherProvider <=> \A c \in Chunks : Counts(c, chunk[c])
    BY DEF EachAttemptAnotherProvider, Counts, Engaged, EngagedIn
  <1>2. Init => EachAttemptAnotherProvider
    <2> SUFFICES ASSUME Init, NEW c \in Chunks PROVE Counts(c, chunk[c])
      BY <1>1
    <2>1. /\ chunk[c].status = "pending" /\ chunk[c].attempts = 0
          /\ chunk[c].abandonedBy = {} /\ Answered(c) = {}
      BY DEF Init, FreshChunk, Answered
    <2>2. EngagedIn(c, chunk[c]) = {}
      BY <2>1 DEF EngagedIn
    <2>3. Cardinality({}) = 0
      BY FS_EmptySet
    <2> QED BY <2>1, <2>2, <2>3 DEF Counts
  <1>3. HoldInv /\ EachAttemptAnotherProvider /\ [PromptNext]_vars => EachAttemptAnotherProvider'
    <2> SUFFICES ASSUME HoldInv, \A c \in Chunks : Counts(c, chunk[c]), [PromptNext]_vars
                 PROVE  EachAttemptAnotherProvider'
      BY <1>1
    <2>1. \A c \in Chunks : Counts(c, chunk[c])'
      BY EngagedStep
    <2> QED BY <2>1 DEF EachAttemptAnotherProvider, Counts, Engaged, EngagedIn
  <1> QED BY <1>2, <1>3, HoldInit, HoldStep, PTL DEF PromptSpec

-----------------------------------------------------------------------------
(* Each result is settled once.  A handler that settles acts on what it read  *)
(* before: that it read all results there are, has marked those it passed     *)
(* over, and that nobody has been paid for those still before it.             *)

Untouched(c, p) == ledger[c][p].credits = 0 /\ ledger[c][p].penalties = 0

\* At least two rows of one chunk, all with the same answer.
Consent(c, W) == Cardinality(W) >= 2 /\ \A p, q \in W : answer[c][p] = answer[c][q]

Ready(t) ==
  LET c == thread[t].on IN
  /\ thread[t].winners \subseteq thread[t].seen
  /\ thread[t].winners # {} => Consent(c, thread[t].winners)
  /\ thread[t].pc \in Deciding => thread[t].seen = Answered(c)
  /\ thread[t].pc = "increment" => thread[t].winners # {}
  /\ \A q \in thread[t].seen :
       /\ verdict[c][q] = Mark(t, q) \/ (thread[t].pc = "validate" /\ q \in thread[t].left)
       /\ Untouched(c, q) \/ (thread[t].pc = "pay" /\ q \notin thread[t].left)

RowSettled(c, p) ==
  /\ chunk[c].status \notin TerminalStatus => Untouched(c, p)
  /\ ledger[c][p].credits + ledger[c][p].penalties <= 1
  /\ ledger[c][p].credits > 0 => chunk[c].status = "done" /\ verdict[c][p] = "valid"
  /\ ledger[c][p].penalties > 0 =>
       chunk[c].status \in TerminalStatus /\ verdict[c][p] = "invalid"

ValidOf(c) == {p \in Providers : verdict[c][p] = "valid"}

HandlersReady == \A t \in Threads : thread[t].pc \in Settling => Ready(t)
RowsSettled == \A c \in Chunks, p \in Providers : RowSettled(c, p)
DoneConsents == \A c \in Chunks : chunk[c].status = "done" => Consent(c, ValidOf(c))

SettleInv == HoldInv /\ HandlersReady /\ RowsSettled /\ DoneConsents

\* Which handlers are settling after a step: those that were and did nothing, and one
\* that has just taken a step of its own.
LEMMA MovedSteps ==
  ASSUME TypeInv, [PromptNext]_vars, NEW t \in Threads, thread'[t].pc \in Settling,
         thread'[t] # thread[t]
  PROVE  \/ ReloadAgreed(t) \/ ReloadAllDiffer(t) \/ WriteVerdict(t)
         \/ \E q \in Providers : Validate(t, q)
         \/ Increment(t) /\ Goto(t, "pay")
         \/ \E q \in Providers :
              (Pay(t, q) \/ PayFails(t, q)) /\ thread[t].left \ {q} # {}
  <1>0. thread \in [Threads -> Handler] /\ thread[t] \in Handler
    BY ThreadsType
  <1>1. Settling \subseteq SubmitPC
    BY DEF Settling, SubmitPC
  <1>2. Reply(t) => FALSE
    BY <1>0, <1>1, LeavingSubmit DEF Reply
  <1>3. \A rest : thread' = [thread EXCEPT ![t] = CloseNext(rest)] => FALSE
    BY <1>0, <1>1, LeavingSubmit
  <1>4. \A pc : Goto(t, pc) => pc \in Settling
    BY <1>0, FieldsOfHandler DEF Goto
  <1>5. \E u \in Threads : PromptClaims(u) \/ Receives(u) \/ Progress(u) \/ Fault(u)
    BY DEF PromptNext, SmoothNext, Expire, vars
  <1>6. PromptClaims(t) \/ Receives(t) \/ Progress(t) \/ Fault(t)
    BY <1>5, OtherThreads
  <1>7. ~PromptClaims(t)
    BY <1>3 DEF PromptClaims, PromptClaim, Claim
  <1>8. ~Receives(t)
    BY <1>0 DEF Receives, Receive, Idle, Settling
  <1>9. ~(Close(t) \/ CloseFails(t))
    BY <1>1, ClosersAreNoSubmits
  <1>10. ~(Check(t) \/ ReloadUndecided(t) \/ Requeue(t) \/ HandlerDies(t))
    BY <1>2, <1>4 DEF Check, ReloadUndecided, Requeue, HandlerDies, Settling
  <1>11. ~(\E v \in Values : Insert(t, v))
    <2>1. \A v : Insert(t, v) => Reply(t) \/ Goto(t, "reload")
      BY DEF Insert
    <2> QED BY <1>2, <1>4, <2>1 DEF Settling
  <1>12. Increment(t) => Goto(t, "pay")
    BY <1>2 DEF Increment
  <1>13. \A q : PaidOne(t, q) => thread[t].left \ {q} # {}
    BY <1>3 DEF PaidOne
  <1>14. \A q : Pay(t, q) \/ PayFails(t, q) => PaidOne(t, q)
    BY DEF Pay, PayFails
  <1> QED BY <1>6, <1>7, <1>8, <1>9, <1>10, <1>11, <1>12, <1>13, <1>14 DEF Progress, Fault

LEMMA ValidateFields ==
  ASSUME TypeInv, NEW t \in Threads, NEW q \in Providers, Validate(t, q)
  PROVE  /\ thread'[t].pc \in {"validate", "verdict"}
         /\ thread[t].left \ {q} # {} => thread'[t].pc = "validate"
         /\ thread'[t].on = thread[t].on
         /\ thread'[t].seen = thread[t].seen
         /\ thread'[t].winners = thread[t].winners
         /\ thread'[t].left = thread[t].left \ {q}
  <1> DEFINE rest == thread[t].left \ {q}
             pc == IF rest = {} THEN "verdict" ELSE "validate"
  <1>1. thread \in [Threads -> Handler] /\ thread[t] \in Handler
    BY ThreadsType
  <1>2. thread' = [thread EXCEPT ![t].left = rest, ![t].pc = pc]
    BY DEF Validate
  <1>3. pc \in {"validate", "verdict"} /\ (rest # {} => pc = "validate")
    OBVIOUS
  <1> HIDE DEF rest, pc
  <1>4. /\ thread'[t].pc = pc
        /\ thread'[t].on = thread[t].on
        /\ thread'[t].seen = thread[t].seen
        /\ thread'[t].winners = thread[t].winners
        /\ thread'[t].left = rest
    BY <1>1, <1>2 DEF Handler
  <1> QED BY <1>3, <1>4 DEF rest

\* While a handler is settling and does nothing, nobody touches the rows it has read.
LEMMA NoIntruder ==
  ASSUME HoldInv, [PromptNext]_vars, NEW u \in Threads, thread[u].pc \in Settling,
         thread'[u] = thread[u]
  PROVE  LET c == thread[u].on IN
           /\ verdict'[c] = verdict[c]
           /\ ledger'[c] = ledger[c]
           /\ Answered(c)' = Answered(c)
  <1> DEFINE c == thread[u].on
  <1>0. /\ TypeInv
        /\ thread \in [Threads -> Handler]
        /\ c \in Chunks
        /\ answer \in [Chunks -> [Providers -> Values \cup {NoValue}]]
        /\ verdict \in [Chunks -> [Providers -> {"null", "valid", "invalid"}]]
        /\ ledger \in [Chunks -> [Providers -> Account]]
    BY ThreadsType, SubmitType DEF HoldInv, ConsensusInv, TypeInv, TypeOK, Settling, SubmitPC
  <1>1. thread[u].pc \in Deciding \cup Paying
    BY DEF Settling, Deciding, Paying
  <1>2. ASSUME NEW t \in Threads, t # u, thread[t].pc \in Deciding \cup Paying
        PROVE  thread[t].on # c
    BY <1>1, <1>2 DEF HoldInv, HandlersApart, Apart
  <1>3. verdict'[c] = verdict[c]
    <2>1. ASSUME NEW t \in Threads, NEW q \in Providers, Validate(t, q)
          PROVE  verdict'[c] = verdict[c]
      <3>1. t # u
        <4>1. thread'[t].left = thread[t].left \ {q} /\ q \in thread[t].left
          BY <1>0, <2>1, ValidateFields DEF Validate
        <4> QED BY <4>1
      <3>2. thread[t].on # c
        BY <1>2, <2>1, <3>1 DEF Validate, Deciding
      <3> QED BY <1>0, <2>1, <3>2 DEF Validate
    <2> QED BY <2>1, PromptIsNext, Footprints
  <1>4. ledger'[c] = ledger[c]
    <2>1. ASSUME NEW t \in Threads, NEW q \in Providers, Pay(t, q)
          PROVE  ledger'[c] = ledger[c]
      <3>1. t # u
        <4>1. \A rest : CloseNext(rest).pc # "pay"
          BY DEF CloseNext, Idle
        <4> QED BY <1>0, <2>1, <4>1 DEF Pay, PaidOne, Handler
      <3>2. thread[t].on # c
        BY <1>2, <2>1, <3>1 DEF Pay, Paying
      <3> QED BY <1>0, <2>1, <3>2 DEF Pay
    <2> QED BY <2>1, PromptIsNext, Footprints
  <1>5. Answered(c)' = Answered(c)
    <2>1. ASSUME NEW t \in Threads, NEW v \in Values, Insert(t, v)
          PROVE  answer'[c] = answer[c]
      <3>1. CASE answer[thread[t].on][thread[t].who] # NoValue
        BY <2>1, <3>1 DEF Insert
      <3>2. CASE answer[thread[t].on][thread[t].who] = NoValue
        <4>1. thread[t].pc \in Arriving /\ t # u
          BY <1>1, <2>1, Stages DEF Insert, Arriving
        <4>2. thread[t].on # c
          BY <1>1, <3>2, <4>1, Newcomer
        <4> QED BY <1>0, <2>1, <4>2 DEF Insert
      <3> QED BY <3>1, <3>2
    <2> QED BY <2>1, PromptIsNext, Footprints DEF Answered
  <1> QED BY <1>3, <1>4, <1>5

LEMMA ConsentStays ==
  ASSUME TypeInv, [Next]_vars, NEW c \in Chunks, NEW W \in SUBSET Answered(c), Consent(c, W)
  PROVE  Consent(c, W)'
  <1>1. \A p \in W : p \in Providers /\ answer'[c][p] = answer[c][p]
    BY AnswersStay DEF Answered
  <1> QED BY <1>1 DEF Consent

LEMMA UnmovedReady ==
  ASSUME SettleInv, [PromptNext]_vars, NEW t \in Threads, thread[t].pc \in Settling,
         thread'[t] = thread[t]
  PROVE  Ready(t)'
  <1> DEFINE c == thread[t].on
  <1>1. /\ HoldInv /\ TypeInv /\ Ready(t) /\ Grounded(t)
        /\ c \in Chunks
    BY SubmitType
       DEF SettleInv, HoldInv, ConsensusInv, HandlersReady, HandlersGrounded, Settling, SubmitPC
  <1>2. /\ verdict'[c] = verdict[c]
        /\ ledger'[c] = ledger[c]
        /\ Answered(c)' = Answered(c)
    BY <1>1, NoIntruder
  <1>3. thread[t].winners # {} => Consent(c, thread[t].winners)'
    <2>1. thread[t].winners \in SUBSET Answered(c)
      BY <1>1 DEF Ready, Grounded
    <2> QED BY <1>1, <2>1, PromptIsNext, ConsentStays DEF Ready
  <1> QED BY <1>1, <1>2, <1>3 DEF Ready, Mark, Untouched

\* What a handler reads when it starts to validate: all results, none settled yet.
LEMMA NothingSettledYet ==
  ASSUME SettleInv, NEW t \in Threads, thread[t].pc \in Deciding
  PROVE  \A q \in Providers : Untouched(thread[t].on, q)
  <1>1. thread[t].on \in Chunks /\ chunk[thread[t].on].status = "assigned"
    BY DeciderHolds DEF SettleInv, Holds
  <1> QED BY <1>1 DEF SettleInv, RowsSettled, RowSettled, TerminalStatus

LEMMA ReloadReady ==
  ASSUME SettleInv, NEW t \in Threads, ReloadAgreed(t) \/ ReloadAllDiffer(t)
  PROVE  Ready(t)'
  <1> DEFINE c == thread[t].on
             S == Answered(c)
  <1>0. /\ thread \in [Threads -> Handler] /\ thread[t] \in Handler
        /\ S \subseteq Providers
    BY ThreadsType DEF SettleInv, HoldInv, ConsensusInv, Answered
  <1>1. UNCHANGED tables
    BY DEF ReloadAgreed, ReloadAllDiffer
  <1>2. \A q \in Providers : Untouched(c, q)
    BY NothingSettledYet DEF ReloadAgreed, ReloadAllDiffer, Deciding
  <1>3. PICK W \in SUBSET S :
          /\ W # {} => Consent(c, W)
          /\ thread' = [thread EXCEPT ![t].pc = "validate", ![t].seen = S,
                                      ![t].winners = W, ![t].left = S]
    <2>1. CASE ReloadAgreed(t)
      <3>1. PICK v \in Values :
              /\ Agreed(c, S, v)
              /\ thread' = [thread EXCEPT ![t].pc = "validate", ![t].seen = S,
                                          ![t].winners = Backers(c, S, v), ![t].left = S]
        BY <2>1 DEF ReloadAgreed
      <3>2. Backers(c, S, v) \in SUBSET S /\ Consent(c, Backers(c, S, v))
        BY <3>1 DEF Backers, Agreed, Consent
      <3> QED BY <3>1, <3>2
    <2>2. CASE ReloadAllDiffer(t)
      BY <2>2 DEF ReloadAllDiffer
    <2> QED BY <2>1, <2>2
  <1>4. /\ thread'[t].pc = "validate"
        /\ thread'[t].on = c
        /\ thread'[t].seen = S
        /\ thread'[t].winners = W
        /\ thread'[t].left = S
    <2> HIDE DEF S
    <2> QED BY <1>0, <1>3 DEF Handler
  <1>5. /\ S = Answered(c)'
        /\ \A q \in S : Untouched(c, q)'
        /\ W # {} => Consent(c, W)'
    <2>1. answer' = answer /\ ledger' = ledger /\ thread'[t].on = thread[t].on
      BY <1>1, <1>4 DEF tables
    <2>2. S = Answered(c)'
      BY <2>1 DEF Answered
    <2>3. \A q \in S : Untouched(c, q)'
      BY <1>0, <1>2, <2>1 DEF Untouched
    <2>4. W # {} => Consent(c, W)'
      BY <1>3, <2>1 DEF Consent
    <2> QED BY <2>2, <2>3, <2>4
  <1> HIDE DEF S
  <1> QED BY <1>4, <1>5 DEF Ready

LEMMA ValidateReady ==
  ASSUME SettleInv, NEW t \in Threads, NEW q \in Providers, Validate(t, q)
  PROVE  Ready(t)'
  <1> DEFINE c == thread[t].on
  <1>0. /\ TypeInv /\ Ready(t) /\ thread[t].pc = "validate" /\ c \in Chunks
        /\ verdict \in [Chunks -> [Providers -> {"null", "valid", "invalid"}]]
    BY SubmitType
       DEF SettleInv, HoldInv, ConsensusInv, HandlersReady, Validate, Settling, TypeInv, TypeOK,
           SubmitPC
  <1>1. /\ thread'[t].pc \in {"validate", "verdict"}
        /\ thread[t].left \ {q} # {} => thread'[t].pc = "validate"
        /\ thread'[t].on = c
        /\ thread'[t].seen = thread[t].seen
        /\ thread'[t].winners = thread[t].winners
        /\ thread'[t].left = thread[t].left \ {q}
    BY <1>0, ValidateFields
  <1>2. answer' = answer /\ ledger' = ledger /\ verdict' = [verdict EXCEPT ![c][q] = Mark(t, q)]
    BY DEF Validate
  <1>3. \A r : Mark(t, r)' = Mark(t, r)
    BY <1>1 DEF Mark
  <1>4. \A r : verdict'[c][r] = IF r = q THEN Mark(t, q) ELSE verdict[c][r]
    BY <1>0, <1>2
  <1>5. \A r \in thread[t].seen :
          verdict'[c][r] = Mark(t, r) \/ (thread'[t].pc = "validate" /\ r \in thread'[t].left)
    <2> SUFFICES ASSUME NEW r \in thread[t].seen, verdict'[c][r] # Mark(t, r)
                 PROVE  thread'[t].pc = "validate" /\ r \in thread'[t].left
      OBVIOUS
    <2>1. r # q /\ verdict[c][r] # Mark(t, r)
      BY <1>4
    <2>2. r \in thread[t].left
      BY <1>0, <2>1 DEF Ready
    <2> QED BY <1>1, <2>1, <2>2
  <1>6. \A r \in thread[t].seen : Untouched(c, r)
    BY <1>0 DEF Ready
  <1>7. /\ thread[t].winners \subseteq thread[t].seen
        /\ thread[t].winners # {} => Consent(c, thread[t].winners)
        /\ thread[t].seen = Answered(c)
    BY <1>0 DEF Ready, Deciding
  <1> QED BY <1>1, <1>2, <1>3, <1>5, <1>6, <1>7
       DEF Ready, Consent, Answered, Untouched

LEMMA WriteVerdictReady ==
  ASSUME SettleInv, NEW t \in Threads, WriteVerdict(t)
  PROVE  Ready(t)'
  <1> DEFINE c == thread[t].on
  <1>0. TypeInv /\ Ready(t) /\ thread[t].pc = "verdict"
    BY DEF SettleInv, HoldInv, ConsensusInv, HandlersReady, WriteVerdict, Settling
  <1>1. /\ thread'[t].pc = AfterVerdict(t)
        /\ thread'[t].on = c
        /\ thread'[t].seen = thread[t].seen
        /\ thread'[t].winners = thread[t].winners
        /\ thread'[t].left = thread[t].seen
    BY <1>0, WriteVerdictFields
  <1>2. answer' = answer /\ ledger' = ledger /\ verdict' = verdict
    BY DEF WriteVerdict
  <1>3. AfterVerdict(t) \notin Deciding /\ (AfterVerdict(t) = "increment" => thread[t].winners # {})
    BY DEF AfterVerdict, Deciding
  <1> QED BY <1>0, <1>1, <1>2, <1>3 DEF Ready, Consent, Mark, Untouched

LEMMA IncrementReady ==
  ASSUME SettleInv, NEW t \in Threads, Increment(t), Goto(t, "pay")
  PROVE  Ready(t)'
  <1> DEFINE c == thread[t].on
  <1>0. /\ Ready(t) /\ thread[t].pc = "increment"
        /\ thread \in [Threads -> Handler] /\ thread[t] \in Handler
    BY ThreadsType DEF SettleInv, HoldInv, ConsensusInv, HandlersReady, Increment, Settling
  <1>1. /\ thread'[t].pc = "pay"
        /\ thread'[t].on = c
        /\ thread'[t].seen = thread[t].seen
        /\ thread'[t].winners = thread[t].winners
        /\ thread'[t].left = thread[t].left
    BY <1>0 DEF Goto, Handler
  <1>2. answer' = answer /\ ledger' = ledger /\ verdict' = verdict
    BY DEF Increment
  <1> QED BY <1>0, <1>1, <1>2 DEF Ready, Consent, Mark, Untouched, Deciding

\* What a payment that is not the last does to its handler.
LEMMA PaidOneFields ==
  ASSUME TypeInv, NEW t \in Threads, NEW q, PaidOne(t, q), thread[t].left \ {q} # {}
  PROVE  /\ thread'[t].pc = thread[t].pc
         /\ thread'[t].on = thread[t].on
         /\ thread'[t].seen = thread[t].seen
         /\ thread'[t].winners = thread[t].winners
         /\ thread'[t].left = thread[t].left \ {q}
  <1>1. thread \in [Threads -> Handler] /\ thread[t] \in Handler
    BY ThreadsType
  <1> QED BY <1>1 DEF PaidOne, Handler

LEMMA PayReady ==
  ASSUME SettleInv, NEW t \in Threads, NEW q \in Providers, Pay(t, q) \/ PayFails(t, q),
         thread[t].left \ {q} # {}
  PROVE  Ready(t)'
  <1> DEFINE c == thread[t].on
  <1>0. /\ TypeInv /\ Ready(t) /\ thread[t].pc = "pay"
        /\ c \in Chunks /\ ledger \in [Chunks -> [Providers -> Account]]
        /\ thread[t].seen \subseteq Providers
    <2>1. thread[t] \in Handler
      BY ThreadsType DEF SettleInv, HoldInv, ConsensusInv
    <2> QED BY <2>1, SubmitType
            DEF SettleInv, HoldInv, ConsensusInv, HandlersReady, Pay, PayFails, Settling, SubmitPC,
                TypeInv, TypeOK, Handler
  <1>1. /\ thread'[t].pc = "pay"
        /\ thread'[t].on = c
        /\ thread'[t].seen = thread[t].seen
        /\ thread'[t].winners = thread[t].winners
        /\ thread'[t].left = thread[t].left \ {q}
    BY <1>0, PaidOneFields DEF Pay, PayFails
  <1>2. answer' = answer /\ verdict' = verdict
    BY DEF Pay, PayFails, tables
  <1>3. \A r \in Providers : r # q => ledger'[c][r] = ledger[c][r]
    BY <1>0 DEF Pay, PayFails, tables
  <1>4. \A r \in thread[t].seen : r \notin thread'[t].left \/ Untouched(c, r)'
    BY <1>0, <1>1, <1>3 DEF Ready, Untouched
  <1>5. \A r \in thread[t].seen : verdict'[c][r] = Mark(t, r)'
    BY <1>0, <1>1, <1>2 DEF Ready, Mark
  <1>6. /\ thread[t].winners \subseteq thread[t].seen
        /\ thread[t].winners # {} => Consent(c, thread[t].winners)
    BY <1>0 DEF Ready
  <1> QED BY <1>0, <1>1, <1>2, <1>4, <1>5, <1>6 DEF Ready, Consent, Untouched, Deciding

LEMMA ReadyStep == ASSUME SettleInv, [PromptNext]_vars PROVE HandlersReady'
  <1> SUFFICES ASSUME NEW t \in Threads, thread'[t].pc \in Settling PROVE Ready(t)'
    BY DEF HandlersReady
  <1>1. CASE thread'[t] = thread[t]
    BY <1>1, UnmovedReady
  <1>2. CASE thread'[t] # thread[t]
    <2>1. TypeInv
      BY DEF SettleInv, HoldInv, ConsensusInv
    <2> QED BY <1>2, <2>1, MovedSteps, ReloadReady, ValidateReady, WriteVerdictReady,
               IncrementReady, PayReady
  <1> QED BY <1>1, <1>2

\* A mark is given to a result of a chunk that is not decided, and an account is
\* changed by a handler for which it is the first time.
LEMMA MarkedBeforeDecided ==
  ASSUME HoldInv, [PromptNext]_vars, NEW c \in Chunks, chunk[c].status \in TerminalStatus
  PROVE  verdict'[c] = verdict[c]
  <1>0. verdict \in [Chunks -> [Providers -> {"null", "valid", "invalid"}]]
    BY DEF HoldInv, ConsensusInv, TypeInv, TypeOK
  <1>1. ASSUME NEW t \in Threads, NEW q \in Providers, Validate(t, q)
        PROVE  verdict'[c] = verdict[c]
    <2>1. thread[t].pc \in Deciding
      BY <1>1 DEF Validate, Deciding
    <2>2. thread[t].on # c
      BY <2>1, DeciderHolds DEF Holds, TerminalStatus
    <2> QED BY <1>0, <1>1, <2>2 DEF Validate
  <1> QED BY <1>1, PromptIsNext, Footprints

LEMMA PaymentSettles ==
  ASSUME SettleInv, NEW t \in Threads, NEW q \in Providers, Pay(t, q),
         NEW c \in Chunks, NEW p \in Providers
  PROVE  \/ ledger'[c][p] = ledger[c][p]
         \/ /\ Untouched(c, p)
            /\ \/ /\ ledger'[c][p].credits = 1 /\ ledger'[c][p].penalties = 0
                  /\ chunk[c].status = "done" /\ verdict[c][p] = "valid"
               \/ /\ ledger'[c][p].credits = 0 /\ ledger'[c][p].penalties = 1
                  /\ chunk[c].status \in TerminalStatus /\ verdict[c][p] = "invalid"
  <1>0. ledger \in [Chunks -> [Providers -> Account]]
    BY DEF SettleInv, HoldInv, ConsensusInv, TypeInv, TypeOK
  <1>1. /\ Ready(t) /\ Grounded(t) /\ HandlerHolds(t)
        /\ thread[t].pc = "pay" /\ q \in thread[t].left
    BY DEF SettleInv, HoldInv, ConsensusInv, HandlersReady, HandlersGrounded, HandlersHold, Pay,
           Settling
  <1>2. CASE ~(thread[t].on = c /\ q = p)
    BY <1>0, <1>2 DEF Pay
  <1>3. CASE thread[t].on = c /\ q = p
    <2>1. Untouched(c, p) /\ verdict[c][p] = Mark(t, p)
      BY <1>1, <1>3 DEF Ready, Grounded
    <2>2. chunk[c].status = Decided(t)
      BY <1>1, <1>3 DEF HandlerHolds, Paying
    <2>3. ledger[c][p] \in Account
      BY <1>0
    <2>4. CASE p \in thread[t].winners
      <3>1. ledger'[c][p] = [ledger[c][p] EXCEPT !.credits = @ + 1]
        BY <1>0, <1>3, <2>4 DEF Pay
      <3>2. ledger'[c][p].credits = 1 /\ ledger'[c][p].penalties = 0
        BY <2>1, <2>3, <3>1 DEF Account, Untouched
      <3> QED BY <2>1, <2>2, <2>4, <3>2 DEF Decided, Mark
    <2>5. CASE p \notin thread[t].winners
      <3>1. ledger'[c][p] = [ledger[c][p] EXCEPT !.penalties = @ + 1]
        BY <1>0, <1>3, <2>5 DEF Pay
      <3>2. ledger'[c][p].credits = 0 /\ ledger'[c][p].penalties = 1
        BY <2>1, <2>3, <3>1 DEF Account, Untouched
      <3> QED BY <2>1, <2>2, <2>5, <3>2 DEF Decided, Mark, TerminalStatus
    <2> QED BY <2>4, <2>5
  <1> QED BY <1>2, <1>3

LEMMA RowSettledStep ==
  ASSUME SettleInv, [PromptNext]_vars, NEW c \in Chunks, NEW p \in Providers
  PROVE  RowSettled(c, p)'
  <1>0. /\ HoldInv /\ RowSettled(c, p)
        /\ ledger[c][p] \in Account
    BY DEF SettleInv, RowsSettled, HoldInv, ConsensusInv, TypeInv, TypeOK
  <1>1. chunk[c].status \in TerminalStatus => chunk'[c] = chunk[c] /\ verdict'[c] = verdict[c]
    BY <1>0, TerminalStep, MarkedBeforeDecided
  <1>2. CASE ledger'[c][p] = ledger[c][p]
    <2>1. CASE chunk[c].status \in TerminalStatus
      BY <1>0, <1>1, <1>2, <2>1 DEF RowSettled
    <2>2. CASE chunk[c].status \notin TerminalStatus
      BY <1>0, <1>2, <2>2 DEF RowSettled, Untouched
    <2> QED BY <2>1, <2>2
  <1>3. ASSUME NEW t \in Threads, NEW q \in Providers, Pay(t, q), ledger'[c][p] # ledger[c][p]
        PROVE  RowSettled(c, p)'
    <2>1. chunk' = chunk /\ verdict' = verdict
      BY <1>3 DEF Pay
    <2>2. \/ /\ ledger'[c][p].credits = 1 /\ ledger'[c][p].penalties = 0
             /\ chunk[c].status = "done" /\ verdict[c][p] = "valid"
          \/ /\ ledger'[c][p].credits = 0 /\ ledger'[c][p].penalties = 1
             /\ chunk[c].status \in TerminalStatus /\ verdict[c][p] = "invalid"
      BY <1>3, PaymentSettles
    <2> QED BY <2>1, <2>2 DEF RowSettled, TerminalStatus
  <1> QED BY <1>2, <1>3, PromptIsNext, Footprints

\* Who decides a chunk: a handler that holds it, or a claim that rejects it.
LEMMA DecidedBy ==
  ASSUME HoldInv, [PromptNext]_vars, NEW c \in Chunks,
         chunk[c].status \notin TerminalStatus, chunk'[c].status \in TerminalStatus
  PROVE  \/ /\ chunk'[c].status = "rejected"
            /\ \E t \in Threads, p \in Providers, n \in 1..MaxClaim, locked \in SUBSET Chunks :
                 Claim(t, p, n, locked)
         \/ \E t \in Threads :
              WriteVerdict(t) /\ thread[t].on = c /\ chunk'[c].status = Decided(t)
  <1>0. TypeInv /\ chunk \in [Chunks -> ChunkRow] /\ chunk[c] \in ChunkRow
    BY DEF HoldInv, ConsensusInv, TypeInv, TypeOK
  <1>1. CASE chunk' = chunk
    BY <1>1
  <1>2. CASE \E d \in Chunks : Expire(d)
    BY <1>0, <1>2 DEF Expire, ChunkRow
  <1>3. ASSUME NEW t \in Threads, NEW p \in Providers, NEW n \in 1..MaxClaim,
               NEW locked \in SUBSET Chunks, Claim(t, p, n, locked)
        PROVE  chunk'[c].status = "rejected"
    <2>1. PICK row \in ChunkRow :
           /\ row = chunk[c] \/ row = Reclaimed(chunk[c], chunk[c].assignedTo)
           /\ \/ chunk'[c] = row
              \/ chunk'[c] = Refused(row)
              \/ chunk'[c] = Assigned(row, p, row.attempts + 1)
      BY <1>0, <1>3, ClaimRow
    <2>2. row.status \notin TerminalStatus
      BY <1>0, <2>1, ReclaimedFields DEF TerminalStatus
    <2>3. Assigned(row, p, row.attempts + 1).status \notin TerminalStatus
      BY AssignedFields DEF TerminalStatus
    <2> QED BY <2>1, <2>2, <2>3, RefusedFields
  <1>4. ASSUME NEW t \in Threads, Requeue(t) PROVE FALSE
    <2>1. chunk' = [chunk EXCEPT ![thread[t].on] = Requeued(@)]
      BY <1>4 DEF Requeue
    <2>2. Requeued(chunk[c]).status = "pending"
      BY <1>0, RequeuedFields
    <2> QED BY <1>0, <2>1, <2>2 DEF TerminalStatus
  <1>5. ASSUME NEW t \in Threads, WriteVerdict(t)
        PROVE  thread[t].on = c /\ chunk'[c].status = Decided(t)
    BY <1>0, <1>5, WriteVerdictFields
  <1> QED BY <1>1, <1>2, <1>3, <1>4, <1>5, PromptIsNext, ChunkSteps

\* The rows of a chunk that becomes done are marked as the deciding handler saw them.
LEMMA ValidAreWinners ==
  ASSUME SettleInv, NEW t \in Threads, WriteVerdict(t)
  PROVE  ValidOf(thread[t].on) = thread[t].winners
  <1> DEFINE c == thread[t].on
  <1>0. /\ Ready(t) /\ thread[t].pc = "verdict" /\ c \in Chunks
        /\ thread[t].seen \subseteq Providers
        /\ ConsensusBacksEverySettlement
    <2>1. thread[t] \in Handler
      BY ThreadsType DEF SettleInv, HoldInv, ConsensusInv
    <2> QED BY <2>1, SubmitType
            DEF SettleInv, HoldInv, ConsensusInv, HandlersReady, WriteVerdict, Settling, SubmitPC,
                Handler
  <1>1. /\ thread[t].winners \subseteq thread[t].seen
        /\ thread[t].seen = Answered(c)
        /\ \A q \in thread[t].seen : verdict[c][q] = Mark(t, q)
    BY <1>0 DEF Ready, Deciding
  <1>2. \A q \in Providers : verdict[c][q] = "valid" => q \in Answered(c)
    BY <1>0 DEF ConsensusBacksEverySettlement, Answered
  <1> QED BY <1>0, <1>1, <1>2 DEF ValidOf, Mark

LEMMA DoneConsentsStep == ASSUME SettleInv, [PromptNext]_vars PROVE DoneConsents'
  <1> SUFFICES ASSUME NEW c \in Chunks, chunk'[c].status = "done"
               PROVE  Consent(c, ValidOf(c))'
    BY DEF DoneConsents
  <1>0. HoldInv /\ TypeInv /\ ConsensusBacksEverySettlement
    BY DEF SettleInv, HoldInv, ConsensusInv
  <1>1. ASSUME verdict'[c] = verdict[c], Consent(c, ValidOf(c))
        PROVE  Consent(c, ValidOf(c))'
    <2>1. ValidOf(c)' = ValidOf(c)
      BY <1>1 DEF ValidOf
    <2>2. ValidOf(c) \in SUBSET Answered(c)
      BY <1>0 DEF ConsensusBacksEverySettlement, ValidOf, Answered
    <2> DEFINE W == ValidOf(c)
    <2>3. \A V \in SUBSET Answered(c) : Consent(c, V) => Consent(c, V)'
      BY <1>0, PromptIsNext, ConsentStays
    <2> QED BY <1>1, <2>1, <2>2, <2>3 DEF Consent
  <1>2. CASE chunk[c].status \in TerminalStatus
    <2>1. chunk'[c] = chunk[c] /\ verdict'[c] = verdict[c]
      BY <1>0, <1>2, TerminalStep, MarkedBeforeDecided
    <2>2. Consent(c, ValidOf(c))
      BY <2>1 DEF SettleInv, DoneConsents
    <2> QED BY <1>1, <2>1, <2>2
  <1>3. CASE chunk[c].status \notin TerminalStatus
    <2>1. PICK t \in Threads :
            WriteVerdict(t) /\ thread[t].on = c /\ chunk'[c].status = Decided(t)
      BY <1>0, <1>3, DecidedBy DEF TerminalStatus
    <2>2. thread[t].winners # {} /\ Ready(t) /\ ValidOf(c) = thread[t].winners
      <3>1. thread[t].winners # {}
        BY <2>1 DEF Decided
      <3>2. Ready(t)
        BY <2>1 DEF SettleInv, HandlersReady, WriteVerdict, Settling
      <3>3. ValidOf(c) = thread[t].winners
        BY <2>1, ValidAreWinners DEF ValidOf
      <3> QED BY <3>1, <3>2, <3>3
    <2>3. Consent(c, ValidOf(c))
      BY <2>1, <2>2 DEF Ready
    <2>4. verdict' = verdict
      BY <2>1 DEF WriteVerdict
    <2> QED BY <1>1, <2>3, <2>4
  <1> QED BY <1>2, <1>3

LEMMA SettleStep == SettleInv /\ [PromptNext]_vars => SettleInv'
  <1> SUFFICES ASSUME SettleInv, [PromptNext]_vars PROVE SettleInv'
    OBVIOUS
  <1>1. HoldInv'
    BY HoldStep DEF SettleInv
  <1>2. \A c \in Chunks, p \in Providers : RowSettled(c, p)'
    BY RowSettledStep
  <1> QED BY <1>1, <1>2, ReadyStep, DoneConsentsStep DEF SettleInv, RowsSettled

LEMMA SettleInit == Init => SettleInv
  <1> SUFFICES ASSUME Init PROVE SettleInv
    OBVIOUS
  <1>1. HandlersReady
    BY DEF Init, HandlersReady, Idle, Settling
  <1>2. \A c \in Chunks : chunk[c].status = "pending"
    BY DEF Init, FreshChunk
  <1>3. \A c \in Chunks, p \in Providers : Untouched(c, p)
    BY DEF Init, Untouched
  <1>4. RowsSettled
    BY <1>2, <1>3 DEF RowsSettled, RowSettled, Untouched, TerminalStatus
  <1>5. DoneConsents
    BY <1>2 DEF DoneConsents
  <1> QED BY <1>1, <1>4, <1>5, HoldInit DEF SettleInv

\* For any number of replicas, threads and faults: a result brings its provider one
\* reward or one penalty or nothing, unless a reclaim overlaps a submit.
THEOREM ResultsAreSettledOnce == PromptSpec => []SettledOnce
  <1>1. SettleInv => SettledOnce
    BY DEF SettleInv, RowsSettled, RowSettled, SettledOnce
  <1> QED BY <1>1, SettleInit, SettleStep, PTL DEF PromptSpec

\* A reward or a penalty is never ahead of the status of the chunk and the mark of the
\* result that it follows from.
THEOREM SettlementsFollowVerdicts == PromptSpec => []SettlementFollowsVerdict
  <1>1. SettleInv => SettlementFollowsVerdict
    BY DEF SettleInv, RowsSettled, RowSettled, SettlementFollowsVerdict
  <1> QED BY <1>1, SettleInit, SettleStep, PTL DEF PromptSpec

-----------------------------------------------------------------------------
(* A handler that closes a job acts on a count it took several calls before.  *)
(* By then all chunks of the job are decided, and what is decided stays, so   *)
(* every handler that ever closes the job comes to the same outcome.          *)

Closing == {"readjob", "failjob", "gather", "complete"}

AllDecided(j) == \A c \in ChunksOf(j) : chunk[c].status \in TerminalStatus
Outcome(j) == IF TooManyRejected(j) THEN "failed" ELSE "completed"

\* The done chunks whose handler has passed the update of completed_chunks.
Counted(j) ==
  {c \in InStatus(j, {"done"}) :
     \A t \in Threads : ~(thread[t].pc = "increment" /\ thread[t].on = c)}

Judged(t) ==
  /\ thread[t].job \in Jobs
  /\ AllDecided(thread[t].job)
  /\ thread[t].outcome = Outcome(thread[t].job)
  /\ thread[t].pc = "failjob" => thread[t].outcome = "failed"
  /\ thread[t].pc \in {"gather", "complete"} => thread[t].outcome = "completed"
  /\ thread[t].pc = "complete" => thread[t].gathered = ValidRows(thread[t].job)

JobJudged(j) ==
  job[j].status \in ClosedStatus =>
    /\ AllDecided(j)
    /\ job[j].status = Outcome(j)
    /\ job[j].status = "completed" => job[j].result = ValidRows(j)

Present == \A c \in Chunks : chunk[c].status # "absent"
JobsCounted == \A j \in Jobs : job[j].completed <= Cardinality(Counted(j))
ClosersJudge == \A t \in Threads : thread[t].pc \in Closing => Judged(t)
JobsJudged == \A j \in Jobs : JobJudged(j)

ClosingInv == SettleInv /\ Present /\ JobsCounted /\ ClosersJudge /\ JobsJudged

LEMMA PresentStep == ASSUME TypeInv, Present, [PromptNext]_vars PROVE Present'
  <1> SUFFICES ASSUME NEW c \in Chunks PROVE chunk'[c].status # "absent"
    BY DEF Present
  <1>0. chunk[c] \in ChunkRow /\ chunk[c].status # "absent"
    BY DEF Present, TypeInv, TypeOK
  <1>1. ASSUME NEW t \in Threads, NEW p \in Providers, NEW n \in 1..MaxClaim,
               NEW locked \in SUBSET Chunks, Claim(t, p, n, locked)
        PROVE  chunk'[c].status # "absent"
    <2>1. PICK row \in ChunkRow :
           /\ row = chunk[c] \/ row = Reclaimed(chunk[c], chunk[c].assignedTo)
           /\ \/ chunk'[c] = row
              \/ chunk'[c] = Refused(row)
              \/ chunk'[c] = Assigned(row, p, row.attempts + 1)
      BY <1>1, ClaimRow
    <2> QED BY <1>0, <2>1, ReclaimedFields, RefusedFields, AssignedFields
  <1>2. chunk'[c] = Requeued(chunk[c]) => chunk'[c].status # "absent"
    BY <1>0, RequeuedFields
  <1>3. \A status \in TerminalStatus : chunk'[c] = Settled(chunk[c], status)
          => chunk'[c].status # "absent"
    BY <1>0, SettledFields DEF TerminalStatus
  <1> QED BY <1>0, <1>1, <1>2, <1>3, RowStep, PromptIsNext

-----------------------------------------------------------------------------
(* The rows of table jobs: who changes them, and what each change does.      *)

LEMMA JobSteps ==
  ASSUME [Next]_vars
  PROVE  job' = job \/ \E t \in Threads : Increment(t) \/ FailJob(t) \/ CompleteJob(t)
  <1>1. CASE UNCHANGED vars
    BY <1>1 DEF vars
  <1>2. CASE \E t \in Threads : Progress(t)
    BY <1>2 DEF Progress, Check, Insert, ReloadUndecided, ReloadAgreed, ReloadAllDiffer,
         Requeue, Validate, WriteVerdict, Pay, Close, CountTerminal, ReadJob, GatherResults,
         tables
  <1>3. CASE \E t \in Threads : Receives(t) \/ Fault(t)
    BY <1>3 DEF Receives, Receive, Fault, HandlerDies, PayFails, CloseFails, tables
  <1>4. CASE \E t \in Threads : PromptClaims(t) \/ LateClaims(t)
    BY <1>4 DEF PromptClaims, LateClaims, PromptClaim, LateClaim, Claim
  <1>5. CASE \E c \in Chunks : Expire(c)
    BY <1>5 DEF Expire
  <1> QED BY <1>1, <1>2, <1>3, <1>4, <1>5 DEF Next, PromptNext, SmoothNext

LEMMA ClosedFieldsOf ==
  \A R : \A row \in [status : JobStatus, completed : Nat, result : R, closes : Nat] :
    \A status, result :
      /\ Closed(row, status, result).status = status
      /\ Closed(row, status, result).result = result
      /\ Closed(row, status, result).completed = row.completed
  <1> TAKE R
  <1> TAKE row \in [status : JobStatus, completed : Nat, result : R, closes : Nat]
  <1> TAKE status, result
  <1> DEFINE n == row.closes + 1
  <1>1. Closed(row, status, result)
          = [row EXCEPT !.status = status, !.result = result, !.closes = n]
    BY DEF Closed
  <1> HIDE DEF n
  <1>2. /\ [row EXCEPT !.status = status, !.result = result, !.closes = n].status = status
        /\ [row EXCEPT !.status = status, !.result = result, !.closes = n].result = result
        /\ [row EXCEPT !.status = status, !.result = result, !.closes = n].completed
             = row.completed
    OBVIOUS
  <1> QED BY <1>1, <1>2

LEMMA ClosedFields ==
  \A row \in JobRow : \A status, result :
    /\ Closed(row, status, result).status = status
    /\ Closed(row, status, result).result = result
    /\ Closed(row, status, result).completed = row.completed
  BY ClosedFieldsOf, Zenon DEF JobRow

\* Closing writes the outcome into the row of one job.
LEMMA ClosingRow ==
  ASSUME TypeInv, NEW t \in Threads, FailJob(t) \/ CompleteJob(t), NEW j \in Jobs
  PROVE  \/ job'[j] = job[j]
         \/ /\ j = thread[t].job
            /\ job'[j].completed = job[j].completed
            /\ \/ /\ thread[t].pc = "failjob"
                  /\ job'[j].status = "failed"
                  /\ job'[j].result = job[j].result
               \/ /\ thread[t].pc = "complete"
                  /\ job'[j].status = "completed"
                  /\ job'[j].result = thread[t].gathered
  <1>1. job \in [Jobs -> JobRow] /\ job[j] \in JobRow
    BY DEF TypeInv, TypeOK
  <1>2. CASE thread[t].job # j
    BY <1>1, <1>2 DEF FailJob, CompleteJob
  <1>3. CASE thread[t].job = j
    <2>1. \/ thread[t].pc = "failjob" /\ job'[j] = Closed(job[j], "failed", job[j].result)
          \/ thread[t].pc = "complete" /\ job'[j] = Closed(job[j], "completed", thread[t].gathered)
      BY <1>1, <1>3 DEF FailJob, CompleteJob
    <2> QED BY <1>1, <1>3, <2>1, ClosedFields
  <1> QED BY <1>2, <1>3

LEMMA IncrementRow ==
  ASSUME TypeInv, NEW t \in Threads, Increment(t), NEW j \in Jobs
  PROVE  \/ job'[j] = job[j]
         \/ /\ j = JobOf[thread[t].on]
            /\ Goto(t, "pay")
            /\ job'[j].status = job[j].status
            /\ job'[j].result = job[j].result
            /\ job'[j].completed = job[j].completed + 1
  <1>1. job \in [Jobs -> JobRow] /\ job[j] \in JobRow
    BY DEF TypeInv, TypeOK
  <1> DEFINE n == job[j].completed + 1
  <1>2. \/ job'[j] = job[j]
        \/ j = JobOf[thread[t].on] /\ Goto(t, "pay") /\ job'[j] = [job[j] EXCEPT !.completed = n]
    BY <1>1 DEF Increment
  <1>3. LET row == [job[j] EXCEPT !.completed = n] IN
        row.status = job[j].status /\ row.result = job[j].result /\ row.completed = n
    <2> HIDE DEF n
    <2> QED BY <1>1, Zenon DEF JobRow
  <1> QED BY <1>2, <1>3

-----------------------------------------------------------------------------
(* Counting.  A handler is between its verdict and its count for a chunk that *)
(* it alone decided, so each done chunk is counted once or not at all.        *)

LEMMA ChunksOfFinite ==
  ASSUME NEW j, NEW S \in SUBSET ChunksOf(j)
  PROVE  IsFiniteSet(S) /\ Cardinality(S) \in Nat
  BY ConstantsAssumption, FS_Subset, FS_CardinalityType DEF ChunksOf

LEMMA Incrementing ==
  ASSUME TypeInv, [PromptNext]_vars, NEW t \in Threads, thread'[t].pc = "increment"
  PROVE  thread'[t] = thread[t] \/ WriteVerdict(t)
  <1> SUFFICES ASSUME thread'[t] # thread[t] PROVE WriteVerdict(t)
    OBVIOUS
  <1>0. thread \in [Threads -> Handler] /\ thread[t] \in Handler
    BY ThreadsType
  <1>1. ~(ReloadAgreed(t) \/ ReloadAllDiffer(t))
    <2>1. ReloadAgreed(t) => thread'[t].pc = "validate"
      BY <1>0 DEF ReloadAgreed, Handler
    <2>2. ReloadAllDiffer(t) => thread'[t].pc = "validate"
      BY <1>0 DEF ReloadAllDiffer, Handler
    <2> QED BY <2>1, <2>2
  <1>2. \A q \in Providers : ~Validate(t, q)
    BY ValidateFields
  <1>3. ~(Increment(t) /\ Goto(t, "pay"))
    <2>1. Goto(t, "pay") => thread'[t].pc = "pay"
      BY <1>0, FieldsOfHandler DEF Goto
    <2> QED BY <2>1
  <1>4. \A q \in Providers : (Pay(t, q) \/ PayFails(t, q)) /\ thread[t].left \ {q} # {} => FALSE
    BY PaidOneFields DEF Pay, PayFails
  <1>5. thread'[t].pc \in Settling
    BY DEF Settling
  <1> QED BY <1>1, <1>2, <1>3, <1>4, <1>5, MovedSteps

LEMMA CountedStays ==
  ASSUME HoldInv, [PromptNext]_vars, NEW j \in Jobs
  PROVE  Counted(j) \subseteq Counted(j)'
  <1> SUFFICES ASSUME NEW c \in Counted(j) PROVE c \in Counted(j)'
    OBVIOUS
  <1>0. TypeInv /\ c \in ChunksOf(j) /\ c \in Chunks /\ chunk[c].status = "done"
    BY DEF HoldInv, ConsensusInv, Counted, InStatus, ChunksOf
  <1>1. chunk'[c].status = "done"
    BY <1>0, TerminalStep DEF TerminalStatus
  <1>2. ASSUME NEW t \in Threads, thread'[t].pc = "increment", thread'[t].on = c PROVE FALSE
    <2>1. CASE thread'[t] = thread[t]
      BY <1>2, <2>1 DEF Counted
    <2>2. CASE WriteVerdict(t)
      <3>1. thread[t].on = c /\ thread[t].pc \in Deciding
        BY <1>0, <1>2, <2>2, WriteVerdictFields DEF WriteVerdict, Deciding
      <3> QED BY <1>0, <3>1, DeciderHolds DEF Holds
    <2> QED BY <1>0, <1>2, <2>1, <2>2, Incrementing
  <1> QED BY <1>0, <1>1, <1>2 DEF Counted, InStatus, ChunksOf

LEMMA CountingAdds ==
  ASSUME SettleInv, [PromptNext]_vars, NEW t \in Threads, Increment(t), Goto(t, "pay"),
         NEW c, c = thread[t].on, NEW j, j = JobOf[c]
  PROVE  c \in Counted(j)' /\ c \notin Counted(j)
  <1>0. HoldInv /\ TypeInv /\ thread \in [Threads -> Handler] /\ thread[t] \in Handler
    BY ThreadsType DEF SettleInv, HoldInv, ConsensusInv
  <1>1. thread[t].pc = "increment" /\ c \in Chunks
    BY <1>0, SubmitType DEF Increment, SubmitPC
  <1>2. chunk[c].status = "done"
    <2>1. chunk[c].status = Decided(t)
      BY <1>0, <1>1 DEF HoldInv, HandlersHold, HandlerHolds, Paying
    <2>2. thread[t].winners # {}
      BY <1>1 DEF SettleInv, HandlersReady, Settling, Ready
    <2> QED BY <2>1, <2>2 DEF Decided
  <1>3. chunk' = chunk
    BY DEF Increment
  <1>4. thread'[t].pc = "pay"
    BY <1>0, FieldsOfHandler DEF Goto
  <1>5. ASSUME NEW u \in Threads, thread'[u].pc = "increment", thread'[u].on = c PROVE FALSE
    <2>1. u # t
      BY <1>4, <1>5
    <2>2. thread'[u] = thread[u]
      BY <1>0, <2>1, OtherThreads DEF Progress
    <2>3. Apart(u, t)
      BY <1>0, <2>1 DEF HoldInv, HandlersApart
    <2> QED BY <1>1, <1>5, <2>2, <2>3 DEF Apart, Paying
  <1>6. c \notin Counted(j)
    BY <1>1 DEF Counted
  <1>7. c \in Counted(j)'
    BY <1>1, <1>2, <1>3, <1>5 DEF Counted, InStatus, ChunksOf
  <1> QED BY <1>6, <1>7

LEMMA JobsCountedStep ==
  ASSUME SettleInv, JobsCounted, [PromptNext]_vars PROVE JobsCounted'
  <1> SUFFICES ASSUME NEW j \in Jobs PROVE job'[j].completed <= Cardinality(Counted(j)')
    BY DEF JobsCounted
  <1>0. HoldInv /\ TypeInv /\ job[j] \in JobRow
    BY DEF SettleInv, HoldInv, ConsensusInv, TypeInv, TypeOK
  <1>1. job[j].completed \in Nat /\ job[j].completed <= Cardinality(Counted(j))
    BY <1>0, Zenon DEF JobRow, JobsCounted
  <1> DEFINE S == Counted(j)
             T == Counted(j)'
  <1>2. S \in SUBSET ChunksOf(j) /\ T \in SUBSET ChunksOf(j)
    BY DEF Counted, InStatus, ChunksOf
  <1>3. /\ IsFiniteSet(S) /\ Cardinality(S) \in Nat
        /\ IsFiniteSet(T) /\ Cardinality(T) \in Nat
    <2> HIDE DEF S, T
    <2> QED BY <1>2, ChunksOfFinite
  <1>4. S \subseteq T
    BY <1>0, CountedStays
  <1>5. Cardinality(S) <= Cardinality(T)
    <2> HIDE DEF S, T
    <2> QED BY <1>3, <1>4, FS_Subset
  <1>6. ASSUME NEW t \in Threads, Increment(t), job'[j] # job[j]
        PROVE  job'[j].completed <= Cardinality(T)
    <2>1. /\ j = JobOf[thread[t].on]
          /\ Goto(t, "pay")
          /\ job'[j].completed = job[j].completed + 1
      BY <1>0, <1>6, IncrementRow
    <2>2. thread[t].on \in T /\ thread[t].on \notin S
      BY <1>6, <2>1, CountingAdds
    <2>3. Cardinality(S) # Cardinality(T)
      <3> HIDE DEF S, T
      <3> QED BY <1>3, <1>4, <2>2, FS_Subset
    <2> HIDE DEF S, T
    <2> QED BY <1>1, <1>3, <1>5, <2>1, <2>3 DEF S
  <1>7. ASSUME NEW t \in Threads, FailJob(t) \/ CompleteJob(t)
        PROVE  job'[j].completed = job[j].completed
    BY <1>0, <1>7, ClosingRow
  <1>8. job'[j].completed = job[j].completed => job'[j].completed <= Cardinality(T)
    <2> HIDE DEF T
    <2> QED BY <1>1, <1>3, <1>5 DEF S
  <1> HIDE DEF T
  <1>9. job'[j].completed <= Cardinality(T)
    BY <1>6, <1>7, <1>8, JobSteps, PromptIsNext
  <1> QED BY <1>9 DEF T

-----------------------------------------------------------------------------
(* A job whose chunks are all decided keeps its outcome and its valid rows.  *)

LEMMA OutcomeStays ==
  ASSUME HoldInv, [PromptNext]_vars, NEW j, AllDecided(j)
  PROVE  /\ AllDecided(j)'
         /\ Outcome(j)' = Outcome(j)
         /\ ValidRows(j)' = ValidRows(j)
  <1>1. \A c \in ChunksOf(j) : chunk'[c] = chunk[c] /\ verdict'[c] = verdict[c]
    BY TerminalStep, MarkedBeforeDecided DEF AllDecided, ChunksOf
  <1>2. AllDecided(j)'
    BY <1>1 DEF AllDecided, ChunksOf
  <1>3. \A S : InStatus(j, S)' = InStatus(j, S)
    BY <1>1 DEF InStatus, ChunksOf
  <1>4. Outcome(j)' = Outcome(j)
    BY <1>3 DEF Outcome, TooManyRejected, Total, Rejected
  <1>5. ValidRows(j)' = ValidRows(j)
    BY <1>1 DEF ValidRows, ChunksOf
  <1> QED BY <1>2, <1>4, <1>5

LEMMA NothingMoved ==
  ASSUME UNCHANGED <<chunk, verdict>>, NEW j
  PROVE  /\ AllDecided(j)' <=> AllDecided(j)
         /\ Outcome(j)' = Outcome(j)
         /\ ValidRows(j)' = ValidRows(j)
  BY DEF AllDecided, ChunksOf, Outcome, TooManyRejected, Total, Rejected, InStatus, ValidRows

LEMMA CountsAreChunks ==
  ASSUME TypeInv, Present, NEW j
  PROVE  /\ InStatus(j, ChunkStatus \ {"absent"}) = ChunksOf(j)
         /\ Total(j) = Cardinality(ChunksOf(j))
  <1>1. \A c \in ChunksOf(j) : chunk[c].status \in ChunkStatus \ {"absent"}
    <2>1. \A c \in Chunks : chunk[c] \in ChunkRow
      BY DEF TypeInv, TypeOK
    <2> QED BY <2>1 DEF Present, ChunksOf, ChunkRow
  <1> QED BY <1>1 DEF InStatus, Total

\* count_done_and_rejected_chunks: as many as there are means all of them.
LEMMA TerminalMeansDecided ==
  ASSUME TypeInv, Present, NEW j, AllTerminal(j)
  PROVE  AllDecided(j)
  <1> DEFINE D == InStatus(j, {"done"})
             R == InStatus(j, {"rejected"})
             A == ChunksOf(j)
  <1>1. D \in SUBSET A /\ R \in SUBSET A /\ D \cup R \in SUBSET A /\ D \cap R = {}
    BY DEF InStatus
  <1>2. Cardinality(D) + Cardinality(R) >= Cardinality(A)
    BY CountsAreChunks DEF AllTerminal, Done, Rejected
  <1>3. D \cup R = A => AllDecided(j)
    BY DEF AllDecided, InStatus, TerminalStatus
  <1>4. /\ IsFiniteSet(D) /\ Cardinality(D) \in Nat
        /\ IsFiniteSet(R) /\ Cardinality(R) \in Nat
        /\ IsFiniteSet(A) /\ Cardinality(A) \in Nat
        /\ Cardinality(D \cup R) \in Nat
    <2> HIDE DEF D, R
    <2> QED BY <1>1, ChunksOfFinite
  <1> HIDE DEF D, R, A
  <1>5. Cardinality({}) = 0
    BY FS_EmptySet
  <1>6. Cardinality(D \cup R) = Cardinality(D) + Cardinality(R)
    <2>1. Cardinality(D \cup R) = Cardinality(D) + Cardinality(R) - Cardinality(D \cap R)
      BY <1>4, FS_Union
    <2>2. Cardinality(D \cap R) = 0
      BY <1>1, <1>5
    <2> QED BY <1>4, <2>1, <2>2
  <1>7. Cardinality(D \cup R) <= Cardinality(A)
    BY <1>1, <1>4, FS_Subset
  <1>8. Cardinality(A) = Cardinality(D \cup R)
    BY <1>2, <1>4, <1>6, <1>7
  <1> QED BY <1>1, <1>3, <1>4, <1>8, FS_Subset

\* Which handlers are closing after a step.
LEMMA MovedClosers ==
  ASSUME TypeInv, [PromptNext]_vars, NEW t \in Threads, thread'[t].pc \in Closing,
         thread'[t] # thread[t]
  PROVE  CountTerminal(t) \/ ReadJob(t) \/ GatherResults(t)
  <1>0. thread \in [Threads -> Handler] /\ thread[t] \in Handler
    BY ThreadsType
  <1>1. \A rest : CloseNext(rest).pc \notin Closing
    BY DEF CloseNext, Idle, Closing
  <1>2. ~Reply(t)
    BY <1>0 DEF Reply, Idle, Closing
  <1>3. \A rest : thread' = [thread EXCEPT ![t] = CloseNext(rest)] => FALSE
    BY <1>0, <1>1
  <1>4. \A pc : Goto(t, pc) => pc \in Closing
    BY <1>0, FieldsOfHandler DEF Goto
  <1>5. \E u \in Threads : PromptClaims(u) \/ Receives(u) \/ Progress(u) \/ Fault(u)
    BY DEF PromptNext, SmoothNext, Expire, vars
  <1>6. PromptClaims(t) \/ Receives(t) \/ Progress(t) \/ Fault(t)
    BY <1>5, OtherThreads
  <1>7. ~PromptClaims(t)
    BY <1>3 DEF PromptClaims, PromptClaim, Claim
  <1>8. ~Receives(t)
    BY <1>0 DEF Receives, Receive, Idle, Closing
  <1>9. ~(Check(t) \/ ReloadUndecided(t) \/ Requeue(t) \/ Increment(t) \/ HandlerDies(t))
    BY <1>2, <1>4 DEF Check, ReloadUndecided, Requeue, Increment, HandlerDies, Closing
  <1>10. ~(\E v \in Values : Insert(t, v))
    <2>1. \A v : Insert(t, v) => Reply(t) \/ Goto(t, "reload")
      BY DEF Insert
    <2> QED BY <1>2, <1>4, <2>1 DEF Closing
  <1>11. ~ReloadAgreed(t) /\ ~ReloadAllDiffer(t)
    <2>1. ReloadAgreed(t) => thread'[t].pc = "validate"
      BY <1>0 DEF ReloadAgreed, Handler
    <2>2. ReloadAllDiffer(t) => thread'[t].pc = "validate"
      BY <1>0 DEF ReloadAllDiffer, Handler
    <2> QED BY <2>1, <2>2 DEF Closing
  <1>12. \A q \in Providers : ~Validate(t, q)
    BY ValidateFields DEF Closing
  <1>13. ~WriteVerdict(t)
    BY WriteVerdictFields DEF AfterVerdict, Closing
  <1>14. \A q \in Providers : ~(Pay(t, q) \/ PayFails(t, q))
    <2> SUFFICES ASSUME NEW q \in Providers, Pay(t, q) \/ PayFails(t, q) PROVE FALSE
      OBVIOUS
    <2>1. PaidOne(t, q) /\ thread[t].pc = "pay"
      BY DEF Pay, PayFails
    <2>2. thread[t].left \ {q} # {}
      BY <1>3, <2>1 DEF PaidOne
    <2> QED BY <2>1, <2>2, PaidOneFields DEF Closing
  <1>15. ~(FailJob(t) \/ CompleteJob(t) \/ CloseFails(t))
    BY <1>3 DEF FailJob, CompleteJob, CloseFails
  <1> QED BY <1>6, <1>7, <1>8, <1>9, <1>10, <1>11, <1>12, <1>13, <1>14, <1>15
          DEF Progress, Fault, Close

\* The handler has counted all chunks of the job as decided, and by their numbers.
LEMMA CountTerminalJudges ==
  ASSUME TypeInv, Present, NEW t \in Threads, CountTerminal(t), thread'[t].pc \in Closing
  PROVE  Judged(t)'
  <1>0. thread \in [Threads -> Handler] /\ thread[t] \in Handler
    BY ThreadsType
  <1>1. PICK j \in thread[t].closing :
          LET rest == thread[t].closing \ {j} IN
          thread' = [thread EXCEPT ![t] =
            IF AllTerminal(j)
              THEN [Idle EXCEPT !.pc = "readjob", !.closing = rest, !.job = j,
                      !.outcome = IF TooManyRejected(j) THEN "failed" ELSE "completed"]
              ELSE CloseNext(rest)]
    BY DEF CountTerminal
  <1> DEFINE rest == thread[t].closing \ {j}
             outcome == Outcome(j)
             h == [Idle EXCEPT !.pc = "readjob", !.closing = rest, !.job = j,
                               !.outcome = outcome]
  <1>2. CloseNext(rest).pc \notin Closing
    BY DEF CloseNext, Idle, Closing
  <1>3. thread'[t] = IF AllTerminal(j) THEN h ELSE CloseNext(rest)
    BY <1>0, <1>1 DEF Outcome
  <1>4. AllTerminal(j) /\ thread'[t] = h
    BY <1>2, <1>3
  <1>5. h.pc = "readjob" /\ h.job = j /\ h.outcome = outcome
    <2> HIDE DEF outcome, rest
    <2> QED BY DEF Idle
  <1>6. j \in Jobs
    BY CloserType
  <1>7. AllDecided(j)' /\ Outcome(j)' = Outcome(j)
    <2>1. UNCHANGED <<chunk, verdict>>
      BY DEF CountTerminal, tables
    <2> QED BY <1>4, <2>1, NothingMoved, TerminalMeansDecided
  <1> HIDE DEF h
  <1>8. /\ thread'[t].job = j
        /\ thread'[t].outcome = Outcome(j)'
        /\ thread'[t].pc = "readjob"
    BY <1>4, <1>5, <1>7
  <1> QED BY <1>6, <1>7, <1>8 DEF Judged

\* The outcome settles which of the two ways to close the job is taken.
LEMMA ReadJobJudges ==
  ASSUME TypeInv, ClosersJudge, NEW t \in Threads, ReadJob(t), thread'[t].pc \in Closing
  PROVE  Judged(t)'
  <1> DEFINE pc == IF thread[t].outcome = "failed" THEN "failjob" ELSE "gather"
             h == [thread[t] EXCEPT !.pc = pc]
  <1>0. thread \in [Threads -> Handler] /\ thread[t] \in Handler
    BY ThreadsType
  <1>1. Judged(t)
    BY DEF ClosersJudge, ReadJob, Closing
  <1>2. CloseNext(thread[t].closing).pc \notin Closing
    BY DEF CloseNext, Idle, Closing
  <1>3. thread'[t] = h
    BY <1>0, <1>2 DEF ReadJob
  <1>4. h.pc = pc /\ h.job = thread[t].job /\ h.outcome = thread[t].outcome
    <2> HIDE DEF pc
    <2> QED BY <1>0 DEF Handler
  <1>5. UNCHANGED <<chunk, verdict>>
    BY DEF ReadJob, tables
  <1>6. thread[t].outcome \in {"completed", "failed"}
    BY <1>1 DEF Judged, Outcome
  <1>7. /\ AllDecided(thread[t].job)'
        /\ Outcome(thread[t].job)' = thread[t].outcome
    <2>1. \A j : AllDecided(j)' <=> AllDecided(j)
      BY <1>5, NothingMoved
    <2>2. \A j : Outcome(j)' = Outcome(j)
      BY <1>5, NothingMoved
    <2>3. thread'[t].job = thread[t].job
      BY <1>3, <1>4
    <2> QED BY <1>1, <2>1, <2>2, <2>3 DEF Judged
  <1> QED BY <1>1, <1>3, <1>4, <1>6, <1>7 DEF Judged

LEMMA GatherResultsJudges ==
  ASSUME TypeInv, ClosersJudge, NEW t \in Threads, GatherResults(t)
  PROVE  Judged(t)'
  <1> DEFINE rows == ValidRows(thread[t].job)
  <1>0. thread \in [Threads -> Handler] /\ thread[t] \in Handler
    BY ThreadsType
  <1>1. Judged(t) /\ thread[t].outcome = "completed"
    BY DEF ClosersJudge, GatherResults, Closing, Judged
  <1>2. UNCHANGED <<chunk, verdict>>
    BY DEF GatherResults, tables
  <1>3. thread' = [thread EXCEPT ![t].pc = "complete", ![t].gathered = rows]
    BY DEF GatherResults
  <1>4. /\ thread'[t].pc = "complete" /\ thread'[t].gathered = rows
        /\ thread'[t].job = thread[t].job /\ thread'[t].outcome = thread[t].outcome
    <2> HIDE DEF rows
    <2> QED BY <1>0, <1>3 DEF Handler
  <1>5. /\ \A j : AllDecided(j)' <=> AllDecided(j)
        /\ \A j : Outcome(j)' = Outcome(j)
        /\ \A j : ValidRows(j)' = ValidRows(j)
    BY <1>2, NothingMoved
  <1> QED BY <1>1, <1>4, <1>5 DEF Judged

LEMMA ClosersStep ==
  ASSUME HoldInv, Present, ClosersJudge, [PromptNext]_vars
  PROVE  ClosersJudge'
  <1> SUFFICES ASSUME NEW t \in Threads, thread'[t].pc \in Closing PROVE Judged(t)'
    BY DEF ClosersJudge
  <1>0. TypeInv
    BY DEF HoldInv, ConsensusInv
  <1>1. CASE thread'[t] = thread[t]
    <2>1. Judged(t)
      BY <1>1 DEF ClosersJudge
    <2> DEFINE j == thread[t].job
    <2>2. \A i : AllDecided(i) => /\ AllDecided(i)'
                                  /\ Outcome(i)' = Outcome(i)
                                  /\ ValidRows(i)' = ValidRows(i)
      BY OutcomeStays
    <2> QED BY <1>1, <2>1, <2>2 DEF Judged
  <1>2. CASE thread'[t] # thread[t]
    BY <1>0, <1>2, MovedClosers, CountTerminalJudges, ReadJobJudges, GatherResultsJudges
  <1> QED BY <1>1, <1>2

\* Whoever closes a job writes the outcome and the result that anybody would write.
LEMMA RowJudgedStep ==
  ASSUME HoldInv, ClosersJudge, JobsJudged, [PromptNext]_vars, NEW j \in Jobs,
         job'[j].status \in ClosedStatus
  PROVE  JobJudged(j)'
  <1>0. TypeInv /\ JobJudged(j)
    BY DEF HoldInv, ConsensusInv, JobsJudged
  <1>1. AllDecided(j) => /\ AllDecided(j)'
                         /\ Outcome(j)' = Outcome(j)
                         /\ ValidRows(j)' = ValidRows(j)
    BY OutcomeStays
  <1>2. ASSUME job'[j].status = job[j].status, job'[j].result = job[j].result
        PROVE  JobJudged(j)'
    BY <1>0, <1>1, <1>2 DEF JobJudged
  <1>3. ASSUME NEW t \in Threads, FailJob(t) \/ CompleteJob(t), job'[j] # job[j]
        PROVE  JobJudged(j)'
    <2>1. /\ j = thread[t].job
          /\ \/ thread[t].pc = "failjob" /\ job'[j].status = "failed"
             \/ /\ thread[t].pc = "complete"
                /\ job'[j].status = "completed"
                /\ job'[j].result = thread[t].gathered
      BY <1>0, <1>3, ClosingRow
    <2>2. Judged(t)
      BY <2>1 DEF ClosersJudge, Closing
    <2> QED BY <1>1, <2>1, <2>2 DEF Judged, JobJudged
  <1>4. ASSUME NEW t \in Threads, Increment(t)
        PROVE  job'[j].status = job[j].status /\ job'[j].result = job[j].result
    BY <1>0, <1>4, IncrementRow
  <1> QED BY <1>2, <1>3, <1>4, JobSteps, PromptIsNext

LEMMA ClosingStep == ClosingInv /\ [PromptNext]_vars => ClosingInv'
  <1> SUFFICES ASSUME ClosingInv, [PromptNext]_vars PROVE ClosingInv'
    OBVIOUS
  <1>1. SettleInv /\ HoldInv /\ TypeInv /\ Present /\ JobsCounted /\ ClosersJudge /\ JobsJudged
    BY DEF ClosingInv, SettleInv, HoldInv, ConsensusInv
  <1>2. SettleInv' /\ Present' /\ JobsCounted' /\ ClosersJudge'
    BY <1>1, SettleStep, PresentStep, JobsCountedStep, ClosersStep
  <1>3. JobsJudged'
    <2>1. \A j \in Jobs : job'[j].status \in ClosedStatus => JobJudged(j)'
      BY <1>1, RowJudgedStep
    <2> QED BY <2>1 DEF JobsJudged, JobJudged
  <1> QED BY <1>2, <1>3 DEF ClosingInv

LEMMA ClosingInit == Init => ClosingInv
  <1> SUFFICES ASSUME Init PROVE ClosingInv
    OBVIOUS
  <1>1. Present
    BY DEF Init, FreshChunk, Present
  <1>2. \A j \in Jobs : job[j].completed = 0 /\ job[j].status = "processing"
    BY DEF Init, FreshJob
  <1>3. JobsCounted
    <2>1. \A j \in Jobs : Counted(j) \in SUBSET ChunksOf(j)
      BY DEF Counted, InStatus
    <2>2. \A j \in Jobs : Cardinality(Counted(j)) \in Nat
      BY <2>1, ChunksOfFinite
    <2> QED BY <1>2, <2>2 DEF JobsCounted
  <1>4. ClosersJudge
    BY DEF Init, Idle, ClosersJudge, Closing
  <1>5. JobsJudged
    BY <1>2 DEF JobsJudged, JobJudged, ClosedStatus
  <1> QED BY <1>1, <1>3, <1>4, <1>5, SettleInit DEF ClosingInv

-----------------------------------------------------------------------------
(* What follows for the jobs.                                                *)

\* The handlers that have yet to count stand each at a done chunk of its own, none of
\* which has been counted.
LEMMA CountersApart ==
  ASSUME ClosingInv, NEW j \in Jobs
  PROVE  Cardinality(StillToCount(j)) \in Nat
         /\ Cardinality(StillToCount(j)) <= Cardinality(InStatus(j, {"done"}) \ Counted(j))
  <1> DEFINE S == StillToCount(j)
             T == InStatus(j, {"done"}) \ Counted(j)
             f == [t \in S |-> thread[t].on]
  <1>0. HoldInv /\ TypeInv /\ thread \in [Threads -> Handler]
    BY ThreadsType DEF ClosingInv, SettleInv, HoldInv, ConsensusInv
  <1>1. ASSUME NEW t \in S PROVE thread[t].on \in T
    <2>1. t \in Threads /\ thread[t].pc = "increment" /\ JobOf[thread[t].on] = j
      BY DEF StillToCount
    <2>2. thread[t].on \in Chunks
      BY <1>0, <2>1, SubmitType DEF SubmitPC
    <2>3. chunk[thread[t].on].status = Decided(t)
      BY <1>0, <2>1 DEF HoldInv, HandlersHold, HandlerHolds, Paying
    <2>4. thread[t].winners # {}
      BY <2>1 DEF ClosingInv, SettleInv, HandlersReady, Settling, Ready
    <2>5. chunk[thread[t].on].status = "done"
      BY <2>3, <2>4 DEF Decided
    <2> QED BY <2>1, <2>2, <2>5 DEF Counted, InStatus, ChunksOf
  <1>2. ASSUME NEW t \in S, NEW u \in S, t # u PROVE thread[t].on # thread[u].on
    <2>1. Apart(t, u)
      BY <1>0, <1>2 DEF StillToCount, HoldInv, HandlersApart
    <2> QED BY <2>1 DEF StillToCount, Apart, Paying
  <1>3. T \in SUBSET ChunksOf(j)
    BY DEF InStatus
  <1>4. IsFiniteSet(T) /\ Cardinality(T) \in Nat
    <2> HIDE DEF T
    <2> QED BY <1>3, ChunksOfFinite
  <1> HIDE DEF S, T
  <1>5. f \in Injection(S, T)
    BY <1>1, <1>2 DEF Injection, IsInjective
  <1> HIDE DEF f
  <1>6. IsFiniteSet(S) /\ Cardinality(S) <= Cardinality(T)
    BY <1>4, <1>5, FS_Injection
  <1>7. Cardinality(S) \in Nat
    BY <1>6, FS_CardinalityType
  <1> QED BY <1>6, <1>7 DEF S, T

\* CompletedCountsDone, for any number of chunks, replicas, threads and faults: a done
\* chunk is counted once at most, by one handler, unless a reclaim overlaps a submit
\* (consensus_service.py:193-195).
THEOREM CompletedCountsOnce == PromptSpec => []CompletedCountsDone
  <1>1. ClosingInv => CompletedCountsDone
    <2> SUFFICES ASSUME ClosingInv, NEW j \in Jobs
                 PROVE  job[j].completed + Cardinality(StillToCount(j))
                          <= Cardinality(InStatus(j, {"done"}))
      BY DEF CompletedCountsDone
    <2> DEFINE S == Counted(j)
               T == InStatus(j, {"done"})
    <2>1. S \in SUBSET T /\ T \in SUBSET ChunksOf(j) /\ S \in SUBSET ChunksOf(j)
      BY DEF Counted, InStatus
    <2>2. job[j].completed \in Nat /\ job[j].completed <= Cardinality(S)
      <3>1. job[j] \in JobRow
        BY DEF ClosingInv, SettleInv, HoldInv, ConsensusInv, TypeInv, TypeOK
      <3> QED BY <3>1, Zenon DEF JobRow, ClosingInv, JobsCounted
    <2>3. /\ Cardinality(StillToCount(j)) \in Nat
          /\ Cardinality(StillToCount(j)) <= Cardinality(T \ S)
      BY CountersApart
    <2> HIDE DEF S, T
    <2>4. IsFiniteSet(T) /\ Cardinality(T) \in Nat /\ Cardinality(S) \in Nat
      BY <2>1, ChunksOfFinite
    <2>5. Cardinality(T \ S) = Cardinality(T) - Cardinality(S)
      <3>1. T \cap S = S
        BY <2>1
      <3> QED BY <2>4, <3>1, FS_Difference
    <2>6. job[j].completed + Cardinality(StillToCount(j)) <= Cardinality(T)
      <3> DEFINE n == Cardinality(StillToCount(j))
      <3> HIDE DEF n
      <3>1. n \in Nat /\ n <= Cardinality(T) - Cardinality(S)
        BY <2>3, <2>5 DEF n
      <3> QED BY <2>2, <2>4, <3>1 DEF n
    <2> QED BY <2>6 DEF T
  <1> QED BY <1>1, ClosingInit, ClosingStep, PTL DEF PromptSpec

LEMMA ClosedJobStep ==
  ASSUME ClosingInv, [PromptNext]_vars, NEW j \in Jobs, job[j].status \in ClosedStatus
  PROVE  job'[j].status = job[j].status /\ job'[j].result = job[j].result
  <1>1. TypeInv /\ ClosersJudge /\ JobJudged(j)
    BY DEF ClosingInv, SettleInv, HoldInv, ConsensusInv, JobsJudged
  <1>2. ASSUME NEW t \in Threads, FailJob(t) \/ CompleteJob(t), job'[j] # job[j]
        PROVE  job'[j].status = job[j].status /\ job'[j].result = job[j].result
    <2>1. /\ j = thread[t].job
          /\ \/ /\ thread[t].pc = "failjob"
                /\ job'[j].status = "failed"
                /\ job'[j].result = job[j].result
             \/ /\ thread[t].pc = "complete"
                /\ job'[j].status = "completed"
                /\ job'[j].result = thread[t].gathered
      BY <1>1, <1>2, ClosingRow
    <2>2. Judged(t)
      BY <1>1, <2>1 DEF ClosersJudge, Closing
    <2> QED BY <1>1, <2>1, <2>2 DEF Judged, JobJudged
  <1>3. ASSUME NEW t \in Threads, Increment(t)
        PROVE  job'[j].status = job[j].status /\ job'[j].result = job[j].result
    BY <1>1, <1>3, IncrementRow
  <1> QED BY <1>2, <1>3, JobSteps, PromptIsNext

\* For any number of handlers that close one job at a time: the later ones change
\* neither its status nor its result, unless a reclaim overlaps a submit.
THEOREM ClosingsAgree == PromptSpec => ClosedJobsStay
  <1>1. ClosingInv /\ [PromptNext]_vars
          => [\A j \in Jobs : job[j].status \in ClosedStatus =>
                job'[j].status = job[j].status /\ job'[j].result = job[j].result]_job
    BY ClosedJobStep
  <1> QED BY <1>1, ClosingInit, ClosingStep, PTL DEF PromptSpec, ClosedJobsStay

\* For any number of chunks, replicas, threads and faults: what a completed job takes
\* from a done chunk are its valid rows, two at least and in agreement, unless a
\* reclaim overlaps a submit.
THEOREM DoneChunksAreReduced == PromptSpec => []ResultReducesDoneChunks
  <1>1. ClosingInv => ResultReducesDoneChunks
    <2> SUFFICES ASSUME ClosingInv, NEW j \in Jobs, job[j].status = "completed",
                        NEW c \in ChunksOf(j), chunk[c].status = "done",
                        NEW rows, rows = {p \in Providers : <<c, p>> \in job[j].result}
                 PROVE  /\ Cardinality(rows) >= 2
                        /\ \A p, q \in rows : answer[c][p] = answer[c][q]
      BY DEF ResultReducesDoneChunks
    <2>1. job[j].result = ValidRows(j)
      BY DEF ClosingInv, JobsJudged, JobJudged, ClosedStatus
    <2>2. \A p \in Providers : <<c, p>> \in ValidRows(j) <=> verdict[c][p] = "valid"
      BY DEF ValidRows, ChunksOf
    <2>3. rows = ValidOf(c)
      BY <2>1, <2>2 DEF ValidOf
    <2>4. Consent(c, ValidOf(c))
      BY DEF ClosingInv, SettleInv, DoneConsents, ChunksOf
    <2> QED BY <2>3, <2>4 DEF Consent
  <1> QED BY <1>1, ClosingInit, ClosingStep, PTL DEF PromptSpec

-----------------------------------------------------------------------------
(* Refinement.  Every step is a payment, the closing of a job, or a step that *)
(* at most decides chunks.                                                   *)

\* The variables of VerifiedWork as functions of the tables.
Decisions == [c \in Chunks |-> DecisionOf(c)]
Accounts == [c \in Chunks |-> [p \in Providers |-> AccountOf(c, p)]]
States == [j \in Jobs |-> StateOf(j)]

LEMMA UnseenTables ==
  /\ chunk' = chunk => Decisions' = Decisions
  /\ ledger' = ledger => Accounts' = Accounts
  /\ job' = job => States' = States
  <1>1. chunk' = chunk => Decisions' = Decisions
    BY DEF Decisions, DecisionOf
  <1>2. ledger' = ledger => Accounts' = Accounts
    <2> SUFFICES ASSUME ledger' = ledger PROVE Accounts' = Accounts
      OBVIOUS
    <2>1. \A c, p : AccountOf(c, p)' = AccountOf(c, p)
      BY DEF AccountOf
    <2> QED BY <2>1 DEF Accounts
  <1>3. job' = job => States' = States
    BY DEF States, StateOf
  <1> QED BY <1>1, <1>2, <1>3

LEMMA StepDecides ==
  ASSUME HoldInv, [PromptNext]_vars, Accounts' = Accounts, States' = States
  PROVE  Promise!Decide
  <1> DEFINE open == {c \in Chunks : Decisions[c] = "open"}
             accepted == {c \in open : Decisions'[c] = "accepted"}
             refused == {c \in open : Decisions'[c] = "refused"}
  <1>1. \A c \in Chunks : Decisions'[c] = DecisionOf(c)'
    BY DEF Decisions
  <1>2. \A c \in Chunks : Decisions[c] # "open" => Decisions'[c] = Decisions[c]
    <2>1. \A c \in Chunks : chunk[c].status \in TerminalStatus => chunk'[c] = chunk[c]
      BY TerminalStep
    <2> QED BY <2>1 DEF Decisions, DecisionOf, TerminalStatus
  <1>3. \A c \in Chunks : Decisions'[c] \in {"accepted", "refused", "open"}
    BY <1>1 DEF DecisionOf
  <1>4. \A c \in Chunks : Decisions'[c] = CASE c \in accepted -> "accepted"
                                            [] c \in refused -> "refused"
                                            [] OTHER -> Decisions[c]
    BY <1>2, <1>3
  <1>5. Decisions' = [c \in Chunks |-> CASE c \in accepted -> "accepted"
                                         [] c \in refused -> "refused"
                                         [] OTHER -> Decisions[c]]
    <2>1. Decisions' = [c \in Chunks |-> Decisions'[c]]
      BY DEF Decisions
    <2> HIDE DEF accepted, refused
    <2> QED BY <1>4, <2>1
  <1>6. accepted \in SUBSET open /\ refused \in SUBSET open /\ accepted \cap refused = {}
    OBVIOUS
  <1> HIDE DEF accepted, refused
  <1> QED BY <1>5, <1>6 DEF Promise!Decide, Decisions, Accounts, States

LEMMA AccountIs ==
  ASSUME NEW a \in Account, NEW n, NEW m, a.credits = n, a.penalties = m
  PROVE  a = [credits |-> n, penalties |-> m]
  BY DEF Account

\* A payment settles one result that was not settled, as the decision has it.
LEMMA PaySettles ==
  ASSUME SettleInv, NEW t \in Threads, NEW q \in Providers, Pay(t, q), Accounts' # Accounts
  PROVE  \E c \in Chunks, p \in Providers : Promise!Settle(c, p)
  <1> DEFINE now(c, p) == ledger'[c][p]
  <1>0. /\ ledger \in [Chunks -> [Providers -> Account]]
        /\ thread[t].pc = "pay"
    BY DEF SettleInv, HoldInv, ConsensusInv, TypeInv, TypeOK, Pay
  <1>1. PICK c \in Chunks : c = thread[t].on
    BY <1>0, SubmitType DEF SettleInv, HoldInv, ConsensusInv, SubmitPC
  <1>2. \A d \in Chunks, p \in Providers : ~(d = c /\ p = q) => ledger'[d][p] = ledger[d][p]
    BY <1>0, <1>1 DEF Pay
  <1>3. \A d \in Chunks, p \in Providers :
          ledger'[d][p] = ledger[d][p] => AccountOf(d, p)' = AccountOf(d, p)
    BY DEF AccountOf
  <1>4. ledger'[c][q] # ledger[c][q]
    <2> SUFFICES ASSUME ledger'[c][q] = ledger[c][q] PROVE FALSE
      OBVIOUS
    <2>1. \A d \in Chunks, p \in Providers : AccountOf(d, p)' = AccountOf(d, p)
      BY <1>2, <1>3
    <2> QED BY <2>1 DEF Accounts
  <1>5. /\ Untouched(c, q)
        /\ \/ /\ ledger'[c][q].credits = 1 /\ ledger'[c][q].penalties = 0
              /\ chunk[c].status = "done"
           \/ /\ ledger'[c][q].credits = 0 /\ ledger'[c][q].penalties = 1
              /\ chunk[c].status \in TerminalStatus
    BY <1>4, PaymentSettles
  <1>6. ledger[c][q] \in Account /\ ledger'[c][q] \in Account
    <2>1. TypeInv'
      BY SettleStep DEF SettleInv, HoldInv, ConsensusInv, PromptNext, SmoothNext, Progress
    <2> QED BY <1>0, <2>1 DEF TypeInv, TypeOK
  <1>7. AccountOf(c, q) = "none"
    <2>1. ledger[c][q] = [credits |-> 0, penalties |-> 0]
      BY <1>5, <1>6, AccountIs DEF Untouched
    <2> QED BY <2>1 DEF AccountOf
  <1>8. \/ AccountOf(c, q)' = "credited" /\ DecisionOf(c) = "accepted"
        \/ AccountOf(c, q)' = "penalised" /\ DecisionOf(c) # "open"
    <2>1. [credits |-> 0, penalties |-> 0] # [credits |-> 1, penalties |-> 0]
      OBVIOUS
    <2>2. [credits |-> 0, penalties |-> 0] # [credits |-> 0, penalties |-> 1]
      OBVIOUS
    <2>3. [credits |-> 1, penalties |-> 0] # [credits |-> 0, penalties |-> 1]
      OBVIOUS
    <2>4. \/ ledger'[c][q] = [credits |-> 1, penalties |-> 0] /\ chunk[c].status = "done"
          \/ /\ ledger'[c][q] = [credits |-> 0, penalties |-> 1]
             /\ chunk[c].status \in TerminalStatus
      BY <1>5, <1>6, AccountIs
    <2>5. ledger'[c][q] = [credits |-> 1, penalties |-> 0] => AccountOf(c, q)' = "credited"
      BY <2>1 DEF AccountOf
    <2>6. ledger'[c][q] = [credits |-> 0, penalties |-> 1] => AccountOf(c, q)' = "penalised"
      BY <2>2, <2>3 DEF AccountOf
    <2>7. /\ chunk[c].status = "done" => DecisionOf(c) = "accepted"
          /\ chunk[c].status \in TerminalStatus => DecisionOf(c) # "open"
      BY DEF DecisionOf, TerminalStatus
    <2> QED BY <2>4, <2>5, <2>6, <2>7
  <1>9. \A d \in Chunks, p \in Providers :
          ~(d = c /\ p = q) => AccountOf(d, p)' = AccountOf(d, p)
    BY <1>2, <1>3
  <1>10. Accounts' = [Accounts EXCEPT ![c][q] = AccountOf(c, q)']
    BY <1>9, Zenon DEF Accounts
  <1>11. Decisions' = Decisions /\ States' = States
    BY UnseenTables DEF Pay
  <1>12. Accounts[c][q] = "none" /\ Decisions[c] = DecisionOf(c)
    BY <1>7 DEF Accounts, Decisions
  <1>13. Promise!Settle(c, q)
    BY <1>8, <1>10, <1>11, <1>12 DEF Promise!Settle, Accounts, Decisions, States
  <1> QED BY <1>13

\* VerifiedWork counts as the pipeline does: INSTANCE renames what a module extends.
LEMMA SameCardinality == \A S : Promise!Cardinality(S) = Cardinality(S)
  BY DEF Promise!Cardinality, Cardinality

LEMMA ClosingCloses ==
  ASSUME ClosingInv, NEW t \in Threads, FailJob(t) \/ CompleteJob(t), States' # States
  PROVE  \E j \in Jobs : Promise!CloseJob(j)
  <1>0. /\ TypeInv /\ Present /\ ClosersJudge
        /\ [PromptNext]_vars
    BY DEF ClosingInv, SettleInv, HoldInv, ConsensusInv, PromptNext, SmoothNext, Progress, Close
  <1>1. Judged(t)
    BY <1>0 DEF ClosersJudge, FailJob, CompleteJob, Closing
  <1>2. PICK j \in Jobs : j = thread[t].job
    BY <1>1 DEF Judged
  <1>3. \A i \in Jobs : i # j => StateOf(i)' = StateOf(i)
    BY <1>0, <1>2, ClosingRow DEF StateOf
  <1>4. StateOf(j)' # StateOf(j)
    <2> SUFFICES ASSUME StateOf(j)' = StateOf(j) PROVE FALSE
      OBVIOUS
    <2>1. \A i \in Jobs : StateOf(i)' = StateOf(i)
      BY <1>3
    <2> QED BY <2>1 DEF States
  <1>5. StateOf(j) = "open"
    BY <1>0, <1>4, ClosedJobStep DEF StateOf, ClosedStatus
  <1>6. StateOf(j)' = Outcome(j)
    <2>1. \/ thread[t].pc = "failjob" /\ job'[j].status = "failed"
          \/ thread[t].pc = "complete" /\ job'[j].status = "completed"
      BY <1>0, <1>4, ClosingRow DEF StateOf
    <2>2. job'[j].status = Outcome(j)
      BY <1>1, <1>2, <2>1 DEF Judged
    <2> QED BY <2>1, <2>2 DEF StateOf, ClosedStatus
  <1> DEFINE own == {c \in Chunks : JobOf[c] = j}
             refused == {c \in own : Decisions[c] = "refused"}
  <1>7. \A c \in own : Decisions[c] # "open"
    BY <1>1, <1>2 DEF Judged, AllDecided, ChunksOf, Decisions, DecisionOf, TerminalStatus
  <1>8. Outcome(j)
          = IF 2 * Cardinality(refused) > Cardinality(own) THEN "failed" ELSE "completed"
    <2>1. own = ChunksOf(j)
      BY DEF ChunksOf
    <2>2. refused = InStatus(j, {"rejected"})
      BY <2>1 DEF InStatus, Decisions, DecisionOf
    <2>3. Total(j) = Cardinality(own)
      BY <1>0, <2>1, CountsAreChunks
    <2> HIDE DEF own, refused
    <2> QED BY <2>2, <2>3 DEF Outcome, TooManyRejected, Rejected
  <1>9. States' = [States EXCEPT ![j] = Outcome(j)] /\ States[j] = "open"
    BY <1>3, <1>5, <1>6 DEF States
  <1>10. Decisions' = Decisions /\ Accounts' = Accounts
    BY UnseenTables DEF FailJob, CompleteJob
  <1>11. States' = [States EXCEPT ![j] =
           IF 2 * Cardinality(refused) > Cardinality(own) THEN "failed" ELSE "completed"]
    <2> HIDE DEF own, refused
    <2> QED BY <1>8, <1>9
  <1>12. Promise!CloseJob(j)
    <2>1. States[j] = "open"
      BY <1>9
    <2>2. States' = [States EXCEPT ![j] =
            IF 2 * Promise!Cardinality(refused) > Promise!Cardinality(own)
              THEN "failed" ELSE "completed"]
      <3> HIDE DEF own, refused
      <3> QED BY <1>11, SameCardinality
    <2> QED BY <2>1, <2>2, <1>7, <1>10 DEF Promise!CloseJob, Accounts, Decisions, States
  <1> QED BY <1>12

LEMMA PromiseStep == ClosingInv /\ [PromptNext]_vars => [Promise!Next]_(Promise!vars)
  <1> SUFFICES ASSUME ClosingInv, [PromptNext]_vars PROVE Promise!Next
    OBVIOUS
  <1>0. SettleInv /\ HoldInv /\ TypeInv /\ [Next]_vars
    BY PromptIsNext DEF ClosingInv, SettleInv, HoldInv, ConsensusInv
  <1>1. CASE Accounts' # Accounts
    <2>1. ledger' # ledger
      BY <1>1, UnseenTables
    <2>2. \E t \in Threads, q \in Providers : Pay(t, q)
      BY <1>0, <2>1, Footprints
    <2> QED BY <1>0, <1>1, <2>2, PaySettles DEF Promise!Next
  <1>2. CASE States' # States
    <2>1. \A t \in Threads : Increment(t) => States' = States
      <3>1. \A t \in Threads : Increment(t) => \A j \in Jobs : StateOf(j)' = StateOf(j)
        BY <1>0, IncrementRow DEF StateOf
      <3> QED BY <3>1 DEF States
    <2>2. job' = job => States' = States
      BY UnseenTables
    <2>3. \E t \in Threads : FailJob(t) \/ CompleteJob(t)
      BY <1>0, <1>2, <2>1, <2>2, JobSteps
    <2> QED BY <1>2, <2>3, ClosingCloses DEF Promise!Next
  <1>3. CASE Accounts' = Accounts /\ States' = States
    BY <1>0, <1>3, StepDecides DEF Promise!Next
  <1> QED BY <1>1, <1>2, <1>3

LEMMA PromiseInit == Init => Promise!Init
  <1> SUFFICES ASSUME Init PROVE Promise!Init
    OBVIOUS
  <1>1. \A c \in Chunks : DecisionOf(c) = "open"
    BY DEF Init, FreshChunk, DecisionOf
  <1>2. \A c \in Chunks, p \in Providers : AccountOf(c, p) = "none"
    BY DEF Init, AccountOf
  <1>3. \A j \in Jobs : StateOf(j) = "open"
    BY DEF Init, FreshJob, StateOf, ClosedStatus
  <1> QED BY <1>1, <1>2, <1>3 DEF Promise!Init

\* Refinement, for every value of the constants: when no reclaim overlaps a submit,
\* the handlers, whose calls interleave and break off anywhere, do together what
\* VerifiedWork does in single steps.
THEOREM PipelineKeepsItsPromise == PromptSpec => ImplementsVerifiedWork
  <1> QED BY PromiseInit, PromiseStep, ClosingInit, ClosingStep, PTL
          DEF PromptSpec, ImplementsVerifiedWork, Promise!Spec

=============================================================================
