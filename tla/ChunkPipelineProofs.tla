------------------------ MODULE ChunkPipelineProofs ------------------------
(* Theorems about ChunkPipeline, for every value of its constants. *)
EXTENDS ChunkPipeline, FiniteSetTheorems, TLAPS

-----------------------------------------------------------------------------
(* Type correctness.  TypeOK alone is not inductive: that abandoned_by holds *)
(* providers needs that an assigned chunk has an assignee, and that the jobs *)
(* to close are jobs needs that a submit works on a chunk.                   *)

AssignedHasProvider ==
  \A c \in Chunks : chunk[c].status = "assigned" => chunk[c].assignedTo \in Providers

SubmitHasSubject ==
  \A t \in Threads : thread[t].pc \in SubmitPC =>
    thread[t].on \in Chunks /\ thread[t].who \in Providers

TypeInv == TypeOK /\ AssignedHasProvider /\ SubmitHasSubject

LEMMA IdleType == Idle \in Handler /\ Idle.pc \notin SubmitPC
  BY DEF Idle, Handler, SubmitPC

LEMMA CloseNextType ==
  ASSUME NEW rest \in SUBSET Jobs
  PROVE  CloseNext(rest) \in Handler /\ CloseNext(rest).pc \notin SubmitPC
  BY IdleType DEF CloseNext, Idle, Handler, ClosePC, SubmitPC

\* Replacing one handler by another of the right form keeps the handlers in form.
LEMMA ThreadStep ==
  ASSUME TypeInv, NEW t \in Threads, NEW h \in Handler,
         h.pc \in SubmitPC => h.on \in Chunks /\ h.who \in Providers,
         thread' = [thread EXCEPT ![t] = h]
  PROVE  thread' \in [Threads -> Handler] /\ SubmitHasSubject'
  BY DEF TypeInv, TypeOK, SubmitHasSubject

LEMMA ReclaimedType ==
  ASSUME NEW row \in ChunkRow, NEW p \in Providers
  PROVE  Reclaimed(row, p) \in ChunkRow /\ Reclaimed(row, p).status = "pending"
  BY DEF Reclaimed, ChunkRow, ChunkStatus

LEMMA RefusedType ==
  ASSUME NEW row \in ChunkRow
  PROVE  Refused(row) \in ChunkRow /\ Refused(row).status = "rejected"
  BY DEF Refused, ChunkRow, ChunkStatus

LEMMA RequeuedType ==
  ASSUME NEW row \in ChunkRow
  PROVE  Requeued(row) \in ChunkRow /\ Requeued(row).status = "pending"
  BY DEF Requeued, ChunkRow, ChunkStatus

LEMMA SettledType ==
  ASSUME NEW row \in ChunkRow, NEW status \in TerminalStatus
  PROVE  Settled(row, status) \in ChunkRow /\ Settled(row, status).status = status
  BY DEF Settled, ChunkRow, ChunkStatus, TerminalStatus

LEMMA AssignedType ==
  ASSUME NEW row \in ChunkRow, NEW p \in Providers, NEW n \in Nat
  PROVE  Assigned(row, p, n) \in ChunkRow /\ Assigned(row, p, n).assignedTo = p
  BY DEF Assigned, ChunkRow, ChunkStatus

\* The rows that a claim leaves, statement by statement.
LEMMA AfterTTLType ==
  ASSUME TypeInv, NEW locked \in SUBSET Chunks
  PROVE  /\ AfterTTL(locked) \in [Chunks -> ChunkRow]
         /\ \A c \in Chunks : AfterTTL(locked)[c].status = "assigned" =>
              AfterTTL(locked)[c].assignedTo \in Providers
  <1> SUFFICES ASSUME NEW c \in Chunks
               PROVE  /\ AfterTTL(locked)[c] \in ChunkRow
                      /\ AfterTTL(locked)[c].status = "assigned" =>
                           AfterTTL(locked)[c].assignedTo \in Providers
    BY DEF AfterTTL
  <1>1. chunk[c] \in ChunkRow
    BY DEF TypeInv, TypeOK
  <1>2. CASE c \in Overtime(locked)
    <2>1. chunk[c].assignedTo \in Providers
      BY <1>2 DEF Overtime, TypeInv, AssignedHasProvider
    <2>2. AfterTTL(locked)[c] = Reclaimed(chunk[c], chunk[c].assignedTo)
      BY <1>2 DEF AfterTTL
    <2> QED BY <1>1, <2>1, <2>2, ReclaimedType
  <1>3. CASE c \notin Overtime(locked)
    BY <1>1, <1>3 DEF AfterTTL, TypeInv, AssignedHasProvider
  <1> QED BY <1>2, <1>3

LEMMA AfterClaimType ==
  ASSUME NEW rows \in [Chunks -> ChunkRow],
         \A c \in Chunks : rows[c].status = "assigned" => rows[c].assignedTo \in Providers,
         NEW overdue, NEW taken, overdue \cap taken = {}, NEW p \in Providers
  PROVE  /\ AfterClaim(rows, overdue, taken, p) \in [Chunks -> ChunkRow]
         /\ \A c \in Chunks : AfterClaim(rows, overdue, taken, p)[c].status = "assigned" =>
              AfterClaim(rows, overdue, taken, p)[c].assignedTo \in Providers
  <1> DEFINE after == AfterClaim(rows, overdue, taken, p)
  <1> SUFFICES ASSUME NEW c \in Chunks
               PROVE  /\ after[c] \in ChunkRow
                      /\ after[c].status = "assigned" => after[c].assignedTo \in Providers
    BY DEF AfterClaim
  <1>1. rows[c] \in ChunkRow
    OBVIOUS
  <1>2. CASE c \in overdue
    <2>1. after[c] = Refused(rows[c])
      BY <1>2 DEF AfterClaim
    <2> QED BY <1>1, <2>1, RefusedType
  <1>3. CASE c \notin overdue /\ c \in taken
    <2>1. after[c] = Assigned(rows[c], p, rows[c].attempts + 1)
      BY <1>3 DEF AfterClaim
    <2>2. rows[c].attempts + 1 \in Nat
      BY <1>1 DEF ChunkRow
    <2> QED BY <1>1, <2>1, <2>2, AssignedType
  <1>4. CASE c \notin overdue /\ c \notin taken
    <2>1. after[c] = rows[c]
      BY <1>4 DEF AfterClaim
    <2> QED BY <1>1, <2>1
  <1> QED BY <1>2, <1>3, <1>4

\* A chunk that the claim rejects is not one that it hands out.
LEMMA OverdueNotTaken ==
  ASSUME NEW locked \in SUBSET Chunks, NEW p \in Providers, NEW n,
         NEW taken \in Limited(Candidates(AfterTTL(locked), p, locked), n), TypeInv
  PROVE  Overdue(AfterTTL(locked), locked) \cap taken = {}
  <1> SUFFICES ASSUME NEW c \in Overdue(AfterTTL(locked), locked), c \in taken
               PROVE  FALSE
    OBVIOUS
  <1>1. c \in Chunks /\ AfterTTL(locked)[c].attempts >= MaxAttempts
    BY DEF Overdue
  <1>2. AfterTTL(locked)[c].attempts < MaxAttempts
    BY DEF Limited, Candidates
  <1>3. AfterTTL(locked)[c].attempts \in Nat
    BY <1>1, AfterTTLType DEF ChunkRow
  <1> QED BY <1>1, <1>2, <1>3, ConstantsAssumption

LEMMA ClaimType ==
  ASSUME TypeInv, NEW t \in Threads, NEW p \in Providers, NEW n, NEW locked \in SUBSET Chunks,
         Claim(t, p, n, locked)
  PROVE  TypeInv'
  <1> DEFINE rows == AfterTTL(locked)
             overdue == Overdue(rows, locked)
  <1>1. PICK taken \in Limited(Candidates(rows, p, locked), n) :
          /\ chunk' = AfterClaim(rows, overdue, taken, p)
          /\ thread' = [thread EXCEPT ![t] = CloseNext({JobOf[c] : c \in overdue})]
    BY DEF Claim
  <1>5. overdue \cap taken = {}
    BY OverdueNotTaken
  <1>2. /\ chunk' \in [Chunks -> ChunkRow]
        /\ AssignedHasProvider'
    BY <1>1, <1>5, AfterTTLType, AfterClaimType DEF AssignedHasProvider
  <1>3. {JobOf[c] : c \in overdue} \in SUBSET Jobs
    BY ConstantsAssumption DEF Overdue
  <1>4. thread' \in [Threads -> Handler] /\ SubmitHasSubject'
    BY <1>1, <1>3, CloseNextType, ThreadStep
  <1> QED BY <1>2, <1>4 DEF TypeInv, TypeOK, Claim

-----------------------------------------------------------------------------

LEMMA SubmitType ==
  ASSUME TypeInv, NEW t \in Threads, thread[t].pc \in SubmitPC
  PROVE  thread[t] \in Handler /\ thread[t].on \in Chunks /\ thread[t].who \in Providers
  BY DEF TypeInv, TypeOK, SubmitHasSubject

\* The handler moves on in the same request.
LEMMA GotoType ==
  ASSUME TypeInv, NEW t \in Threads, thread[t].pc \in SubmitPC,
         NEW pc \in SubmitPC, Goto(t, pc)
  PROVE  thread' \in [Threads -> Handler] /\ SubmitHasSubject'
  <1> DEFINE h == [thread[t] EXCEPT !.pc = pc]
  <1>1. h \in Handler /\ h.on \in Chunks /\ h.who \in Providers
    BY SubmitType DEF Handler
  <1>2. thread' = [thread EXCEPT ![t] = h]
    BY DEF Goto
  <1> QED BY <1>1, <1>2, ThreadStep

LEMMA ReplyType ==
  ASSUME TypeInv, NEW t \in Threads, Reply(t)
  PROVE  thread' \in [Threads -> Handler] /\ SubmitHasSubject'
  BY IdleType, ThreadStep DEF Reply

LEMMA PaidOneType ==
  ASSUME TypeInv, NEW t \in Threads, thread[t].pc = "pay", NEW q, PaidOne(t, q)
  PROVE  thread' \in [Threads -> Handler] /\ SubmitHasSubject'
  <1> DEFINE rest == thread[t].left \ {q}
  <1>1. /\ thread[t] \in Handler
        /\ thread[t].on \in Chunks
        /\ thread[t].who \in Providers
    BY SubmitType DEF SubmitPC
  <1>2. CASE rest = {}
    <2>1. thread' = [thread EXCEPT ![t] = CloseNext({JobOf[thread[t].on]})]
      BY <1>2 DEF PaidOne
    <2>2. {JobOf[thread[t].on]} \in SUBSET Jobs
      BY <1>1, ConstantsAssumption
    <2> QED BY <2>1, <2>2, CloseNextType, ThreadStep
  <1>3. CASE rest # {}
    <2> DEFINE h == [thread[t] EXCEPT !.left = rest]
    <2>1. thread' = [thread EXCEPT ![t] = h]
      BY <1>3 DEF PaidOne
    <2>2. h \in Handler /\ h.on \in Chunks /\ h.who \in Providers
      BY <1>1 DEF Handler
    <2> QED BY <2>1, <2>2, ThreadStep
  <1> QED BY <1>2, <1>3

LEMMA ReceiveType ==
  ASSUME TypeInv, NEW t \in Threads, NEW p \in Providers, NEW c \in Chunks, Receive(t, p, c)
  PROVE  TypeInv'
  <1> DEFINE h == [Idle EXCEPT !.pc = "check", !.who = p, !.on = c]
  <1>1. h \in Handler /\ h.on = c /\ h.who = p
    BY DEF Idle, Handler, SubmitPC
  <1>2. thread' = [thread EXCEPT ![t] = h]
    BY DEF Receive
  <1>3. thread' \in [Threads -> Handler] /\ SubmitHasSubject'
    BY <1>1, <1>2, ThreadStep
  <1> QED BY <1>3 DEF TypeInv, TypeOK, AssignedHasProvider, Receive, tables

LEMMA CheckType ==
  ASSUME TypeInv, NEW t \in Threads, Check(t)
  PROVE  TypeInv'
  <1>1. thread' \in [Threads -> Handler] /\ SubmitHasSubject'
    BY GotoType, ReplyType DEF Check, SubmitPC
  <1> QED BY <1>1 DEF TypeInv, TypeOK, AssignedHasProvider, Check, tables

LEMMA InsertType ==
  ASSUME TypeInv, NEW t \in Threads, NEW v \in Values, Insert(t, v)
  PROVE  TypeInv'
  <1>1. thread' \in [Threads -> Handler] /\ SubmitHasSubject'
    BY GotoType, ReplyType DEF Insert, SubmitPC
  <1> DEFINE c == thread[t].on
             p == thread[t].who
  <1>2. answer' \in [Chunks -> [Providers -> Values \cup {NoValue}]]
    <2>1. c \in Chunks /\ p \in Providers
      BY SubmitType DEF Insert, SubmitPC
    <2>2. answer \in [Chunks -> [Providers -> Values \cup {NoValue}]]
      BY DEF TypeInv, TypeOK
    <2>3. answer' = answer \/ answer' = [answer EXCEPT ![c][p] = v]
      BY DEF Insert
    <2> HIDE DEF c, p
    <2> QED BY <2>1, <2>2, <2>3
  <1> QED BY <1>1, <1>2 DEF TypeInv, TypeOK, AssignedHasProvider, Insert

LEMMA ReloadUndecidedType ==
  ASSUME TypeInv, NEW t \in Threads, ReloadUndecided(t)
  PROVE  TypeInv'
  <1>1. thread' \in [Threads -> Handler] /\ SubmitHasSubject'
    BY GotoType DEF ReloadUndecided, SubmitPC
  <1> QED BY <1>1 DEF TypeInv, TypeOK, AssignedHasProvider, ReloadUndecided, tables

\* The handler starts the validation of the results S with winners W.
LEMMA ValidationStarts ==
  ASSUME TypeInv, NEW t \in Threads, thread[t].pc = "reload",
         NEW S \in SUBSET Providers, NEW W \in SUBSET Providers,
         thread' = [thread EXCEPT ![t].pc = "validate", ![t].seen = S,
                                  ![t].winners = W, ![t].left = S]
  PROVE  thread' \in [Threads -> Handler] /\ SubmitHasSubject'
  <1> DEFINE h == [thread[t] EXCEPT !.pc = "validate", !.seen = S, !.winners = W, !.left = S]
  <1>1. /\ thread[t] \in Handler
        /\ thread[t].on \in Chunks
        /\ thread[t].who \in Providers
    BY SubmitType DEF SubmitPC
  <1>2. h \in Handler /\ h.on \in Chunks /\ h.who \in Providers
    BY <1>1 DEF Handler, SubmitPC
  <1>3. thread' = [thread EXCEPT ![t] = h]
    OBVIOUS
  <1> QED BY <1>2, <1>3, ThreadStep

LEMMA ReloadDecidedType ==
  ASSUME TypeInv, NEW t \in Threads, ReloadAgreed(t) \/ ReloadAllDiffer(t)
  PROVE  TypeInv'
  <1> DEFINE S == Answered(thread[t].on)
  <1>1. S \in SUBSET Providers
    BY DEF Answered
  <1>2. thread' \in [Threads -> Handler] /\ SubmitHasSubject'
    <2>1. CASE ReloadAgreed(t)
      <3>1. PICK v \in Values :
              thread' = [thread EXCEPT ![t].pc = "validate", ![t].seen = S,
                           ![t].winners = Backers(thread[t].on, S, v), ![t].left = S]
        BY <2>1 DEF ReloadAgreed
      <3>2. Backers(thread[t].on, S, v) \in SUBSET Providers
        BY <1>1 DEF Backers
      <3> QED BY <1>1, <2>1, <3>1, <3>2, ValidationStarts DEF ReloadAgreed
    <2>2. CASE ReloadAllDiffer(t)
      <3> DEFINE W == {}
      <3>1. thread' = [thread EXCEPT ![t].pc = "validate", ![t].seen = S,
                                     ![t].winners = W, ![t].left = S]
        BY <2>2 DEF ReloadAllDiffer
      <3>2. W \in SUBSET Providers
        OBVIOUS
      <3>3. thread[t].pc = "reload"
        BY <2>2 DEF ReloadAllDiffer
      <3> HIDE DEF W, S
      <3> QED BY <1>1, <3>1, <3>2, <3>3, ValidationStarts
    <2> QED BY <2>1, <2>2
  <1> QED BY <1>2
       DEF TypeInv, TypeOK, AssignedHasProvider, ReloadAgreed, ReloadAllDiffer, tables

LEMMA RequeueType ==
  ASSUME TypeInv, NEW t \in Threads, Requeue(t)
  PROVE  TypeInv'
  <1> DEFINE c == thread[t].on
  <1>1. thread' \in [Threads -> Handler] /\ SubmitHasSubject'
    BY ReplyType DEF Requeue
  <1>2. c \in Chunks
    BY SubmitType DEF Requeue, SubmitPC
  <1>3. chunk' = [chunk EXCEPT ![c] = Requeued(chunk[c])]
    BY DEF Requeue
  <1>4. chunk \in [Chunks -> ChunkRow] /\ chunk[c] \in ChunkRow
    BY <1>2 DEF TypeInv, TypeOK
  <1>5. chunk' \in [Chunks -> ChunkRow] /\ AssignedHasProvider'
    <2> HIDE DEF c
    <2> QED BY <1>2, <1>3, <1>4, RequeuedType DEF AssignedHasProvider, TypeInv
  <1> QED BY <1>1, <1>5 DEF TypeInv, TypeOK, Requeue

LEMMA ValidateType ==
  ASSUME TypeInv, NEW t \in Threads, NEW q \in Providers, Validate(t, q)
  PROVE  TypeInv'
  <1> DEFINE c == thread[t].on
             rest == thread[t].left \ {q}
             pc == IF rest = {} THEN "verdict" ELSE "validate"
             h == [thread[t] EXCEPT !.left = rest, !.pc = pc]
  <1>1. thread[t] \in Handler /\ c \in Chunks /\ thread[t].who \in Providers
    BY SubmitType DEF Validate, SubmitPC
  <1>2. pc \in SubmitPC
    BY DEF SubmitPC
  <1>3. h \in Handler /\ h.on \in Chunks /\ h.who \in Providers
    <2> HIDE DEF pc
    <2> QED BY <1>1, <1>2 DEF Handler
  <1>4. thread' = [thread EXCEPT ![t] = h]
    BY DEF Validate
  <1>5. thread' \in [Threads -> Handler] /\ SubmitHasSubject'
    <2> HIDE DEF h
    <2> QED BY <1>3, <1>4, ThreadStep
  <1>6. verdict' \in [Chunks -> [Providers -> {"null", "valid", "invalid"}]]
    <2>1. verdict' = [verdict EXCEPT ![c][q] = Mark(t, q)]
      BY DEF Validate
    <2>2. Mark(t, q) \in {"null", "valid", "invalid"}
      BY DEF Mark
    <2>3. verdict \in [Chunks -> [Providers -> {"null", "valid", "invalid"}]]
      BY DEF TypeInv, TypeOK
    <2> HIDE DEF c
    <2> QED BY <1>1, <2>1, <2>2, <2>3
  <1> QED BY <1>5, <1>6 DEF TypeInv, TypeOK, AssignedHasProvider, Validate

LEMMA WriteVerdictType ==
  ASSUME TypeInv, NEW t \in Threads, WriteVerdict(t)
  PROVE  TypeInv'
  <1> DEFINE c == thread[t].on
             h == [thread[t] EXCEPT !.left = thread[t].seen, !.pc = AfterVerdict(t)]
  <1>1. thread[t] \in Handler /\ c \in Chunks /\ thread[t].who \in Providers
    BY SubmitType DEF WriteVerdict, SubmitPC
  <1>2. AfterVerdict(t) \in SubmitPC
    BY DEF AfterVerdict, SubmitPC
  <1>3. h \in Handler /\ h.on \in Chunks /\ h.who \in Providers
    BY <1>1, <1>2 DEF Handler
  <1>4. thread' = [thread EXCEPT ![t] = h]
    BY DEF WriteVerdict
  <1>5. thread' \in [Threads -> Handler] /\ SubmitHasSubject'
    <2> HIDE DEF h
    <2> QED BY <1>3, <1>4, ThreadStep
  <1>6. chunk' = [chunk EXCEPT ![c] = Settled(chunk[c], Decided(t))]
    BY DEF WriteVerdict
  <1>7. Decided(t) \in TerminalStatus
    BY DEF Decided, TerminalStatus
  <1>8. chunk' \in [Chunks -> ChunkRow] /\ AssignedHasProvider'
    <2>1. chunk \in [Chunks -> ChunkRow] /\ chunk[c] \in ChunkRow
      BY <1>1 DEF TypeInv, TypeOK
    <2> HIDE DEF c
    <2> QED BY <1>1, <1>6, <1>7, <2>1, SettledType
         DEF AssignedHasProvider, TypeInv, TerminalStatus
  <1> QED BY <1>5, <1>8 DEF TypeInv, TypeOK, WriteVerdict

LEMMA IncrementType ==
  ASSUME TypeInv, NEW t \in Threads, Increment(t)
  PROVE  TypeInv'
  <1> DEFINE j == JobOf[thread[t].on]
  <1>1. thread' \in [Threads -> Handler] /\ SubmitHasSubject'
    BY GotoType, ReplyType DEF Increment, SubmitPC
  <1>2. j \in Jobs
    BY SubmitType, ConstantsAssumption DEF Increment, SubmitPC
  <1>3. job' \in [Jobs -> JobRow]
    <2>1. job \in [Jobs -> JobRow] /\ job[j] \in JobRow
      BY <1>2 DEF TypeInv, TypeOK
    <2>2. job' = job \/ job' = [job EXCEPT ![j].completed = @ + 1]
      BY DEF Increment
    <2> HIDE DEF j
    <2>3. [job[j] EXCEPT !.completed = @ + 1] \in JobRow
      BY <2>1 DEF JobRow
    <2> QED BY <1>2, <2>1, <2>2, <2>3
  <1> QED BY <1>1, <1>3 DEF TypeInv, TypeOK, AssignedHasProvider, Increment

LEMMA PayType ==
  ASSUME TypeInv, NEW t \in Threads, NEW q \in Providers, Pay(t, q)
  PROVE  TypeInv'
  <1> DEFINE c == thread[t].on
  <1>1. thread' \in [Threads -> Handler] /\ SubmitHasSubject'
    BY PaidOneType DEF Pay
  <1>2. c \in Chunks
    BY SubmitType DEF Pay, SubmitPC
  <1>3. ledger' \in [Chunks -> [Providers -> Account]]
    <2>1. ledger \in [Chunks -> [Providers -> Account]] /\ ledger[c][q] \in Account
      BY <1>2 DEF TypeInv, TypeOK
    <2>2. \/ ledger' = [ledger EXCEPT ![c][q].credits = @ + 1]
          \/ ledger' = [ledger EXCEPT ![c][q].penalties = @ + 1]
      BY DEF Pay
    <2> HIDE DEF c
    <2>3. /\ [ledger[c][q] EXCEPT !.credits = @ + 1] \in Account
          /\ [ledger[c][q] EXCEPT !.penalties = @ + 1] \in Account
      BY <2>1 DEF Account
    <2> QED BY <1>2, <2>1, <2>2, <2>3
  <1> QED BY <1>1, <1>3 DEF TypeInv, TypeOK, AssignedHasProvider, Pay

LEMMA CloserType ==
  ASSUME TypeInv, NEW t \in Threads
  PROVE  /\ thread[t] \in Handler
         /\ thread[t].closing \in SUBSET Jobs
         /\ CloseNext(thread[t].closing) \in Handler
         /\ CloseNext(thread[t].closing).pc \notin SubmitPC
  <1>1. thread[t] \in Handler
    BY DEF TypeInv, TypeOK
  <1>2. thread[t].closing \in SUBSET Jobs
    BY <1>1 DEF Handler
  <1> QED BY <1>1, <1>2, CloseNextType

LEMMA CountTerminalType ==
  ASSUME TypeInv, NEW t \in Threads, CountTerminal(t)
  PROVE  TypeInv'
  <1>1. PICK j \in thread[t].closing :
          LET rest == thread[t].closing \ {j} IN
          thread' = [thread EXCEPT ![t] =
            IF AllTerminal(j)
              THEN [Idle EXCEPT !.pc = "readjob", !.closing = rest, !.job = j,
                      !.outcome = IF TooManyRejected(j) THEN "failed" ELSE "completed"]
              ELSE CloseNext(rest)]
    BY DEF CountTerminal
  <1> DEFINE rest == thread[t].closing \ {j}
             outcome == IF TooManyRejected(j) THEN "failed" ELSE "completed"
             h == [Idle EXCEPT !.pc = "readjob", !.closing = rest, !.job = j,
                               !.outcome = outcome]
  <1>2. j \in Jobs /\ rest \in SUBSET Jobs
    BY CloserType
  <1>3. h \in Handler /\ h.pc \notin SubmitPC
    <2>1. outcome \in {"none", "completed", "failed"}
      OBVIOUS
    <2> HIDE DEF outcome, rest
    <2> QED BY <1>2, <2>1 DEF Idle, Handler, SubmitPC, ClosePC
  <1>4. CloseNext(rest) \in Handler /\ CloseNext(rest).pc \notin SubmitPC
    BY <1>2, CloseNextType
  <1>5. \/ thread' = [thread EXCEPT ![t] = h]
        \/ thread' = [thread EXCEPT ![t] = CloseNext(rest)]
    BY <1>1
  <1>6. thread' \in [Threads -> Handler] /\ SubmitHasSubject'
    <2> HIDE DEF h, rest
    <2> QED BY <1>3, <1>4, <1>5, ThreadStep
  <1> QED BY <1>6 DEF TypeInv, TypeOK, AssignedHasProvider, CountTerminal, tables

LEMMA ReadJobType ==
  ASSUME TypeInv, NEW t \in Threads, ReadJob(t)
  PROVE  TypeInv'
  <1> DEFINE pc == IF thread[t].outcome = "failed" THEN "failjob" ELSE "gather"
             h == [thread[t] EXCEPT !.pc = pc]
  <1>1. h \in Handler /\ h.pc \notin SubmitPC
    <2>1. pc \in ClosePC /\ pc \notin SubmitPC
      BY DEF ClosePC, SubmitPC
    <2> HIDE DEF pc
    <2> QED BY <2>1, CloserType DEF Handler
  <1>2. \/ thread' = [thread EXCEPT ![t] = h]
        \/ thread' = [thread EXCEPT ![t] = CloseNext(thread[t].closing)]
    BY DEF ReadJob
  <1>3. thread' \in [Threads -> Handler] /\ SubmitHasSubject'
    <2> HIDE DEF h
    <2> QED BY <1>1, <1>2, CloserType, ThreadStep
  <1> QED BY <1>3 DEF TypeInv, TypeOK, AssignedHasProvider, ReadJob, tables

LEMMA GatherResultsType ==
  ASSUME TypeInv, NEW t \in Threads, GatherResults(t)
  PROVE  TypeInv'
  <1> DEFINE rows == ValidRows(thread[t].job)
             h == [thread[t] EXCEPT !.pc = "complete", !.gathered = rows]
  <1>1. h \in Handler /\ h.pc \notin SubmitPC
    <2>1. rows \in SUBSET (Chunks \X Providers)
      BY DEF ValidRows
    <2> HIDE DEF rows
    <2> QED BY <2>1, CloserType DEF Handler, ClosePC, SubmitPC
  <1>2. thread' = [thread EXCEPT ![t] = h]
    BY DEF GatherResults
  <1>3. thread' \in [Threads -> Handler] /\ SubmitHasSubject'
    <2> HIDE DEF h
    <2> QED BY <1>1, <1>2, CloserType, ThreadStep
  <1> QED BY <1>3 DEF TypeInv, TypeOK, AssignedHasProvider, GatherResults, tables

\* Stated for any set of results: a record field typed by a product is hard on SMT.
LEMMA ClosedRowOf ==
  ASSUME NEW R, NEW row \in [status : JobStatus, completed : Nat, result : R, closes : Nat],
         NEW status \in JobStatus, NEW result \in R
  PROVE  Closed(row, status, result)
           \in [status : JobStatus, completed : Nat, result : R, closes : Nat]
  <1> DEFINE n == row.closes + 1
  <1>1. n \in Nat
    OBVIOUS
  <1>2. Closed(row, status, result)
          = [row EXCEPT !.status = status, !.result = result, !.closes = n]
    BY DEF Closed
  <1> HIDE DEF n
  <1>3. [row EXCEPT !.status = status, !.result = result, !.closes = n]
          \in [status : JobStatus, completed : Nat, result : R, closes : Nat]
    BY <1>1
  <1> QED BY <1>2, <1>3

LEMMA ClosedRowType ==
  ASSUME NEW row \in JobRow, NEW status \in JobStatus,
         NEW result \in SUBSET (Chunks \X Providers)
  PROVE  Closed(row, status, result) \in JobRow
  BY ClosedRowOf, Zenon DEF JobRow

\* A job is closed with a status of the type, and a result made of rows.
LEMMA CloseJobType ==
  ASSUME TypeInv, NEW t \in Threads, FailJob(t) \/ CompleteJob(t)
  PROVE  TypeInv'
  <1> DEFINE j == thread[t].job
  <1>1. thread' \in [Threads -> Handler] /\ SubmitHasSubject'
    BY CloserType, ThreadStep DEF FailJob, CompleteJob
  <1>2. job' \in [Jobs -> JobRow]
    <2>1. job \in [Jobs -> JobRow]
      BY DEF TypeInv, TypeOK
    <2>2. thread[t].gathered \in SUBSET (Chunks \X Providers)
      BY CloserType DEF Handler
    <2>3. \/ job' = [job EXCEPT ![j] = Closed(job[j], "failed", job[j].result)]
          \/ job' = [job EXCEPT ![j] = Closed(job[j], "completed", thread[t].gathered)]
      BY DEF FailJob, CompleteJob
    <2>4. j \in Jobs => job[j] \in JobRow /\ job[j].result \in SUBSET (Chunks \X Providers)
      BY <2>1 DEF JobRow
    <2>5. "failed" \in JobStatus /\ "completed" \in JobStatus
      BY DEF JobStatus
    <2> HIDE DEF j
    <2> QED BY <2>1, <2>2, <2>3, <2>4, <2>5, ClosedRowType
  <1> QED BY <1>1, <1>2 DEF TypeInv, TypeOK, AssignedHasProvider, FailJob, CompleteJob

-----------------------------------------------------------------------------

LEMMA FaultType ==
  ASSUME TypeInv, NEW t \in Threads, Fault(t)
  PROVE  TypeInv'
  <1>1. thread' \in [Threads -> Handler] /\ SubmitHasSubject'
    <2>1. CASE HandlerDies(t)
      BY <2>1, ReplyType DEF HandlerDies
    <2>2. CASE \E q \in Providers : PayFails(t, q)
      BY <2>2, PaidOneType DEF PayFails
    <2>3. CASE CloseFails(t)
      <3>1. PICK rest \in SUBSET Jobs : thread' = [thread EXCEPT ![t] = CloseNext(rest)]
        BY <2>3, CloserType DEF CloseFails
      <3> QED BY <3>1, CloseNextType, ThreadStep
    <2> QED BY <2>1, <2>2, <2>3 DEF Fault
  <1>2. UNCHANGED tables
    BY DEF Fault, HandlerDies, PayFails, CloseFails
  <1> QED BY <1>1, <1>2 DEF TypeInv, TypeOK, AssignedHasProvider, tables

LEMMA ExpireType ==
  ASSUME TypeInv, NEW c \in Chunks, Expire(c)
  PROVE  TypeInv'
  <1>1. chunk \in [Chunks -> ChunkRow] /\ chunk[c] \in ChunkRow
    BY DEF TypeInv, TypeOK
  <1>2. chunk' = [chunk EXCEPT ![c] = [chunk[c] EXCEPT !.expired = TRUE]]
    BY DEF Expire
  <1>3. /\ [chunk[c] EXCEPT !.expired = TRUE] \in ChunkRow
        /\ [chunk[c] EXCEPT !.expired = TRUE].status = chunk[c].status
        /\ [chunk[c] EXCEPT !.expired = TRUE].assignedTo = chunk[c].assignedTo
    BY <1>1 DEF ChunkRow
  <1>4. chunk' \in [Chunks -> ChunkRow] /\ AssignedHasProvider'
    BY <1>1, <1>2, <1>3 DEF AssignedHasProvider, TypeInv
  <1> QED BY <1>4 DEF TypeInv, TypeOK, SubmitHasSubject, Expire

LEMMA InitType == Init => TypeInv
  <1> SUFFICES ASSUME Init PROVE TypeInv
    OBVIOUS
  <1>1. FreshJob \in JobRow
    BY DEF FreshJob, JobRow, JobStatus
  <1>2. FreshChunk \in ChunkRow /\ FreshChunk.status # "assigned"
    BY DEF FreshChunk, ChunkRow, ChunkStatus
  <1>3. [credits |-> 0, penalties |-> 0] \in Account
    BY DEF Account
  <1>4. job \in [Jobs -> JobRow] /\ chunk \in [Chunks -> ChunkRow]
    BY <1>1, <1>2 DEF Init
  <1>5. /\ answer \in [Chunks -> [Providers -> Values \cup {NoValue}]]
        /\ verdict \in [Chunks -> [Providers -> {"null", "valid", "invalid"}]]
    BY DEF Init
  <1>6. ledger \in [Chunks -> [Providers -> Account]]
    <2> DEFINE z == [credits |-> 0, penalties |-> 0]
    <2>1. ledger = [c \in Chunks |-> [p \in Providers |-> z]]
      BY DEF Init
    <2>2. z \in Account
      BY <1>3
    <2> HIDE DEF z
    <2> QED BY <2>1, <2>2
  <1>7. thread \in [Threads -> Handler] /\ SubmitHasSubject
    BY IdleType DEF Init, SubmitHasSubject
  <1>8. AssignedHasProvider
    BY <1>2 DEF Init, AssignedHasProvider
  <1> QED BY <1>4, <1>5, <1>6, <1>7, <1>8 DEF TypeInv, TypeOK

\* One step per action of Next.
LEMMA NextType == TypeInv /\ [Next]_vars => TypeInv'
  <1> SUFFICES ASSUME TypeInv, [Next]_vars PROVE TypeInv'
    OBVIOUS
  <1>1. CASE UNCHANGED vars
    BY <1>1 DEF TypeInv, TypeOK, AssignedHasProvider, SubmitHasSubject, vars
  <1>2. ASSUME NEW c \in Chunks, Expire(c) PROVE TypeInv'
    BY <1>2, ExpireType
  <1>3. ASSUME NEW t \in Threads, PromptClaims(t) \/ LateClaims(t) PROVE TypeInv'
    BY <1>3, ClaimType DEF PromptClaims, LateClaims, PromptClaim, LateClaim
  <1>4. ASSUME NEW t \in Threads, Receives(t) PROVE TypeInv'
    BY <1>4, ReceiveType DEF Receives
  <1>5. ASSUME NEW t \in Threads, Progress(t) PROVE TypeInv'
    <2>1. CASE Check(t)
      BY <2>1, CheckType
    <2>2. CASE \E v \in Values : Insert(t, v)
      BY <2>2, InsertType
    <2>3. CASE ReloadUndecided(t)
      BY <2>3, ReloadUndecidedType
    <2>4. CASE ReloadAgreed(t) \/ ReloadAllDiffer(t)
      BY <2>4, ReloadDecidedType
    <2>5. CASE Requeue(t)
      BY <2>5, RequeueType
    <2>6. CASE \E q \in Providers : Validate(t, q)
      BY <2>6, ValidateType
    <2>7. CASE WriteVerdict(t)
      BY <2>7, WriteVerdictType
    <2>8. CASE Increment(t)
      BY <2>8, IncrementType
    <2>9. CASE \E q \in Providers : Pay(t, q)
      BY <2>9, PayType
    <2>10. CASE Close(t)
      BY <2>10, CountTerminalType, ReadJobType, GatherResultsType, CloseJobType DEF Close
    <2> QED BY <1>5, <2>1, <2>2, <2>3, <2>4, <2>5, <2>6, <2>7, <2>8, <2>9, <2>10 DEF Progress
  <1>6. ASSUME NEW t \in Threads, Fault(t) PROVE TypeInv'
    BY <1>6, FaultType
  <1> QED BY <1>1, <1>2, <1>3, <1>4, <1>5, <1>6 DEF Next, PromptNext, SmoothNext

\* Every row and every handler keeps its type, through every interleaving and fault.
THEOREM TypeCorrect == Spec => []TypeOK
  <1>1. Spec => []TypeInv
    BY InitType, NextType, PTL DEF Spec
  <1>2. TypeInv => TypeOK
    BY DEF TypeInv
  <1> QED BY <1>1, <1>2, PTL

-----------------------------------------------------------------------------
(* The rows of table chunks: who changes them, and what each change does.    *)

LEMMA ChunkSteps ==
  ASSUME [Next]_vars
  PROVE  \/ chunk' = chunk
         \/ \E c \in Chunks : Expire(c)
         \/ \E t \in Threads, p \in Providers, n \in 1..MaxClaim, locked \in SUBSET Chunks :
              Claim(t, p, n, locked)
         \/ \E t \in Threads : Requeue(t)
         \/ \E t \in Threads : WriteVerdict(t)
  <1>1. CASE UNCHANGED vars
    BY <1>1 DEF vars
  <1>2. CASE \E t \in Threads : Receives(t)
    BY <1>2 DEF Receives, Receive, tables
  <1>3. CASE \E t \in Threads : Progress(t)
    BY <1>3 DEF Progress, Check, Insert, ReloadUndecided, ReloadAgreed, ReloadAllDiffer,
         Validate, Increment, Pay, Close, CountTerminal, ReadJob, FailJob, GatherResults,
         CompleteJob, tables
  <1>4. CASE \E t \in Threads : Fault(t)
    BY <1>4 DEF Fault, HandlerDies, PayFails, CloseFails, tables
  <1>5. CASE \E t \in Threads : PromptClaims(t) \/ LateClaims(t)
    BY <1>5 DEF PromptClaims, LateClaims, PromptClaim, LateClaim
  <1> QED BY <1>1, <1>2, <1>3, <1>4, <1>5 DEF Next, PromptNext, SmoothNext

LEMMA ReclaimedFields ==
  ASSUME NEW row \in ChunkRow, NEW p
  PROVE  /\ Reclaimed(row, p).status = "pending"
         /\ Reclaimed(row, p).assignedTo = NoProvider
         /\ Reclaimed(row, p).attempts = row.attempts
         /\ Reclaimed(row, p).abandonedBy = row.abandonedBy \cup {p}
  BY DEF Reclaimed, ChunkRow

LEMMA RefusedFields ==
  ASSUME NEW row \in ChunkRow
  PROVE  /\ Refused(row).status = "rejected"
         /\ Refused(row).assignedTo = row.assignedTo
         /\ Refused(row).attempts = row.attempts
         /\ Refused(row).abandonedBy = row.abandonedBy
  BY DEF Refused, ChunkRow

LEMMA AssignedFields ==
  ASSUME NEW row \in ChunkRow, NEW p, NEW n
  PROVE  /\ Assigned(row, p, n).status = "assigned"
         /\ Assigned(row, p, n).assignedTo = p
         /\ Assigned(row, p, n).attempts = n
         /\ Assigned(row, p, n).abandonedBy = row.abandonedBy
  BY DEF Assigned, ChunkRow

LEMMA RequeuedFields ==
  ASSUME NEW row \in ChunkRow
  PROVE  /\ Requeued(row).status = "pending"
         /\ Requeued(row).assignedTo = NoProvider
         /\ Requeued(row).attempts = row.attempts
         /\ Requeued(row).abandonedBy = row.abandonedBy
  BY DEF Requeued, ChunkRow

LEMMA SettledFields ==
  ASSUME NEW row \in ChunkRow, NEW status
  PROVE  /\ Settled(row, status).status = status
         /\ Settled(row, status).assignedTo = row.assignedTo
         /\ Settled(row, status).attempts = row.attempts
         /\ Settled(row, status).abandonedBy = row.abandonedBy
  BY DEF Settled, ChunkRow

\* What one claim does to one row: reclaimed or not, then refused, assigned or left.
LEMMA ClaimRow ==
  ASSUME TypeInv, NEW t \in Threads, NEW p \in Providers, NEW n, NEW locked \in SUBSET Chunks,
         Claim(t, p, n, locked), NEW c \in Chunks
  PROVE  \E row \in ChunkRow :
           /\ \/ row = chunk[c]
              \/ chunk[c].status = "assigned" /\ row = Reclaimed(chunk[c], chunk[c].assignedTo)
           /\ \/ chunk'[c] = row
              \/ row.status = "pending" /\ chunk'[c] = Refused(row)
              \/ /\ row.status = "pending"
                 /\ row.attempts < MaxAttempts
                 /\ p \notin row.abandonedBy
                 /\ answer[c][p] = NoValue
                 /\ chunk'[c] = Assigned(row, p, row.attempts + 1)
  <1> DEFINE rows == AfterTTL(locked)
             overdue == Overdue(rows, locked)
  <1>1. PICK taken \in Limited(Candidates(rows, p, locked), n) :
          chunk' = AfterClaim(rows, overdue, taken, p)
    BY DEF Claim
  <1>2. overdue \cap taken = {}
    BY OverdueNotTaken
  <1>3. rows[c] \in ChunkRow
    BY AfterTTLType
  <1>4. \/ rows[c] = chunk[c]
        \/ chunk[c].status = "assigned" /\ rows[c] = Reclaimed(chunk[c], chunk[c].assignedTo)
    BY DEF AfterTTL, Overtime
  <1>5. CASE c \in overdue
    <2>1. rows[c].status = "pending"
      BY <1>5 DEF Overdue
    <2>2. chunk'[c] = Refused(rows[c])
      BY <1>1, <1>2, <1>5 DEF AfterClaim
    <2> QED BY <1>3, <1>4, <2>1, <2>2
  <1>6. CASE c \in taken
    <2>1. /\ rows[c].status = "pending"
          /\ rows[c].attempts < MaxAttempts
          /\ p \notin rows[c].abandonedBy
          /\ answer[c][p] = NoValue
      BY <1>6 DEF Limited, Candidates
    <2>2. chunk'[c] = Assigned(rows[c], p, rows[c].attempts + 1)
      BY <1>1, <1>2, <1>6 DEF AfterClaim
    <2> QED BY <1>3, <1>4, <2>1, <2>2
  <1>7. CASE c \notin overdue /\ c \notin taken
    <2>1. chunk'[c] = rows[c]
      BY <1>1, <1>7 DEF AfterClaim
    <2> QED BY <1>3, <1>4, <2>1
  <1> QED BY <1>5, <1>6, <1>7

\* What any step does to one row.
LEMMA RowStep ==
  ASSUME TypeInv, [Next]_vars, NEW c \in Chunks
  PROVE  \/ chunk'[c] = chunk[c]
         \/ /\ chunk'[c].status = chunk[c].status
            /\ chunk'[c].assignedTo = chunk[c].assignedTo
            /\ chunk'[c].attempts = chunk[c].attempts
            /\ chunk'[c].abandonedBy = chunk[c].abandonedBy
         \/ \E t \in Threads, p \in Providers, n \in 1..MaxClaim, locked \in SUBSET Chunks :
              Claim(t, p, n, locked)
         \/ chunk'[c] = Requeued(chunk[c])
         \/ \E status \in TerminalStatus : chunk'[c] = Settled(chunk[c], status)
  <1>0. chunk \in [Chunks -> ChunkRow] /\ chunk[c] \in ChunkRow
    BY DEF TypeInv, TypeOK
  <1>1. CASE chunk' = chunk
    BY <1>1
  <1>2. CASE \E d \in Chunks : Expire(d)
    BY <1>0, <1>2 DEF Expire, ChunkRow
  <1>3. CASE \E t \in Threads : Requeue(t)
    BY <1>0, <1>3 DEF Requeue
  <1>4. CASE \E t \in Threads : WriteVerdict(t)
    <2>1. PICK t \in Threads : WriteVerdict(t)
      BY <1>4
    <2>2. Decided(t) \in TerminalStatus
      BY DEF Decided, TerminalStatus
    <2>3. chunk' = [chunk EXCEPT ![thread[t].on] = Settled(@, Decided(t))]
      BY <2>1 DEF WriteVerdict
    <2> QED BY <1>0, <2>2, <2>3
  <1> QED BY <1>1, <1>2, <1>3, <1>4, ChunkSteps

-----------------------------------------------------------------------------
(* Abandoned assignments.                                                    *)

LEMMA AbandonerStep ==
  TypeInv /\ AbandonerNeverReassigned /\ [Next]_vars => AbandonerNeverReassigned'
  <1> SUFFICES ASSUME TypeInv, AbandonerNeverReassigned, [Next]_vars, NEW c \in Chunks
               PROVE  chunk'[c].assignedTo \notin chunk'[c].abandonedBy
    BY DEF AbandonerNeverReassigned
  <1>1. chunk[c] \in ChunkRow /\ chunk[c].assignedTo \notin chunk[c].abandonedBy
    BY DEF TypeInv, TypeOK, AbandonerNeverReassigned
  <1>2. \A row \in ChunkRow : NoProvider \notin row.abandonedBy
    BY ConstantsAssumption DEF ChunkRow
  <1>3. ASSUME NEW t \in Threads, NEW p \in Providers, NEW n \in 1..MaxClaim,
               NEW locked \in SUBSET Chunks, Claim(t, p, n, locked)
        PROVE  chunk'[c].assignedTo \notin chunk'[c].abandonedBy
    <2>1. PICK row \in ChunkRow :
           /\ \/ row = chunk[c]
              \/ chunk[c].status = "assigned" /\ row = Reclaimed(chunk[c], chunk[c].assignedTo)
           /\ \/ chunk'[c] = row
              \/ row.status = "pending" /\ chunk'[c] = Refused(row)
              \/ /\ p \notin row.abandonedBy
                 /\ chunk'[c] = Assigned(row, p, row.attempts + 1)
      BY <1>3, ClaimRow
    <2>2. row.assignedTo \notin row.abandonedBy
      <3>1. CASE row = chunk[c]
        BY <1>1, <3>1
      <3>2. CASE row = Reclaimed(chunk[c], chunk[c].assignedTo)
        <4>1. row.assignedTo = NoProvider
          BY <1>1, <3>2, ReclaimedFields
        <4> QED BY <1>2, <4>1
      <3> QED BY <2>1, <3>1, <3>2
    <2>3. CASE chunk'[c] = Refused(row)
      BY <2>2, <2>3, RefusedFields
    <2>4. CASE p \notin row.abandonedBy /\ chunk'[c] = Assigned(row, p, row.attempts + 1)
      BY <2>4, AssignedFields
    <2> QED BY <2>1, <2>2, <2>3, <2>4
  <1>4. CASE chunk'[c] = Requeued(chunk[c])
    BY <1>1, <1>2, <1>4, RequeuedFields
  <1>5. ASSUME NEW status, chunk'[c] = Settled(chunk[c], status)
        PROVE  chunk'[c].assignedTo \notin chunk'[c].abandonedBy
    BY <1>1, <1>5, SettledFields
  <1> QED BY <1>1, <1>3, <1>4, <1>5, RowStep

\* For any number of providers, chunks and threads, through late requeues, reclaims,
\* rejections and crashes: who let an assignment lapse never holds the chunk again.
THEOREM AbandonersStayAway == Spec => []AbandonerNeverReassigned
  <1>1. Init => AbandonerNeverReassigned
    BY DEF Init, AbandonerNeverReassigned, FreshChunk
  <1>2. Spec => [](TypeInv /\ AbandonerNeverReassigned)
    BY <1>1, InitType, NextType, AbandonerStep, PTL DEF Spec
  <1> QED BY <1>2, PTL

-----------------------------------------------------------------------------
(* Attempts.  The bound on abandoned_by is not inductive: an assignment in   *)
(* progress may still be abandoned, and has been counted already.            *)

Bounded(row) ==
  /\ row.attempts <= MaxAttempts
  /\ Cardinality(row.abandonedBy) <= row.attempts
  /\ row.status = "assigned" => Cardinality(row.abandonedBy) < row.attempts

AttemptsInv == \A c \in Chunks : Bounded(chunk[c])

LEMMA AbandonersCounted ==
  ASSUME NEW row \in ChunkRow
  PROVE  /\ IsFiniteSet(row.abandonedBy)
         /\ Cardinality(row.abandonedBy) \in Nat
         /\ row.attempts \in Nat
         /\ \A p : Cardinality(row.abandonedBy \cup {p}) <= Cardinality(row.abandonedBy) + 1
  <1>1. row.abandonedBy \in SUBSET Providers /\ row.attempts \in Nat
    BY DEF ChunkRow
  <1>2. IsFiniteSet(row.abandonedBy)
    BY <1>1, FS_Subset, ConstantsAssumption
  <1>3. Cardinality(row.abandonedBy) \in Nat
    BY <1>2, FS_CardinalityType
  <1>4. ASSUME NEW p
        PROVE  Cardinality(row.abandonedBy \cup {p}) <= Cardinality(row.abandonedBy) + 1
    BY <1>2, <1>3, FS_AddElement
  <1> QED BY <1>1, <1>2, <1>3, <1>4

LEMMA AttemptsStep == TypeInv /\ AttemptsInv /\ [Next]_vars => AttemptsInv'
  <1> SUFFICES ASSUME TypeInv, AttemptsInv, [Next]_vars, NEW c \in Chunks
               PROVE  Bounded(chunk'[c])
    BY DEF AttemptsInv
  <1>1. chunk[c] \in ChunkRow /\ Bounded(chunk[c])
    BY DEF TypeInv, TypeOK, AttemptsInv
  <1>2. /\ Cardinality(chunk[c].abandonedBy) \in Nat
        /\ chunk[c].attempts \in Nat
        /\ MaxAttempts \in Nat
    BY <1>1, AbandonersCounted, ConstantsAssumption
  <1>3. ASSUME NEW t \in Threads, NEW p \in Providers, NEW n \in 1..MaxClaim,
               NEW locked \in SUBSET Chunks, Claim(t, p, n, locked)
        PROVE  Bounded(chunk'[c])
    <2>1. PICK row \in ChunkRow :
           /\ \/ row = chunk[c]
              \/ chunk[c].status = "assigned" /\ row = Reclaimed(chunk[c], chunk[c].assignedTo)
           /\ \/ chunk'[c] = row
              \/ row.status = "pending" /\ chunk'[c] = Refused(row)
              \/ /\ row.attempts < MaxAttempts
                 /\ chunk'[c] = Assigned(row, p, row.attempts + 1)
      BY <1>3, ClaimRow
    <2>2. Bounded(row)
      <3>1. CASE row = chunk[c]
        BY <1>1, <3>1
      <3>2. CASE chunk[c].status = "assigned" /\ row = Reclaimed(chunk[c], chunk[c].assignedTo)
        <4>1. /\ row.status = "pending"
              /\ row.attempts = chunk[c].attempts
              /\ row.abandonedBy = chunk[c].abandonedBy \cup {chunk[c].assignedTo}
          BY <1>1, <3>2, ReclaimedFields
        <4>2. Cardinality(row.abandonedBy) <= Cardinality(chunk[c].abandonedBy) + 1
          BY <1>1, <4>1, AbandonersCounted
        <4>3. Cardinality(row.abandonedBy) \in Nat
          BY AbandonersCounted
        <4> QED BY <1>1, <1>2, <3>2, <4>1, <4>2, <4>3 DEF Bounded
      <3> QED BY <2>1, <3>1, <3>2
    <2>3. Cardinality(row.abandonedBy) \in Nat /\ row.attempts \in Nat
      BY AbandonersCounted
    <2>4. CASE chunk'[c] = row
      BY <2>2, <2>4
    <2>5. CASE chunk'[c] = Refused(row)
      BY <2>2, <2>5, RefusedFields DEF Bounded
    <2>6. CASE row.attempts < MaxAttempts /\ chunk'[c] = Assigned(row, p, row.attempts + 1)
      <3>1. /\ chunk'[c].attempts = row.attempts + 1
            /\ chunk'[c].abandonedBy = row.abandonedBy
        BY <2>6, AssignedFields
      <3> QED BY <1>2, <2>2, <2>3, <2>6, <3>1 DEF Bounded
    <2> QED BY <2>1, <2>4, <2>5, <2>6
  <1>4. CASE chunk'[c] = Requeued(chunk[c])
    BY <1>1, <1>4, RequeuedFields DEF Bounded
  <1>5. ASSUME NEW status \in TerminalStatus, chunk'[c] = Settled(chunk[c], status)
        PROVE  Bounded(chunk'[c])
    BY <1>1, <1>5, SettledFields DEF Bounded, TerminalStatus
  <1>6. CASE /\ chunk'[c].status = chunk[c].status
             /\ chunk'[c].attempts = chunk[c].attempts
             /\ chunk'[c].abandonedBy = chunk[c].abandonedBy
    BY <1>1, <1>6 DEF Bounded
  <1>7. CASE chunk'[c] = chunk[c]
    BY <1>1, <1>7
  <1> QED BY <1>3, <1>4, <1>5, <1>6, <1>7, RowStep

\* For any limit and any number of providers: no chunk is handed out more often than
\* MAX_CHUNK_ATTEMPTS, nor abandoned more often than it was handed out.
THEOREM AttemptsStayBounded == Spec => []AttemptsBounded
  <1>1. Init => AttemptsInv
    <2> SUFFICES ASSUME Init, NEW c \in Chunks PROVE Bounded(chunk[c])
      BY DEF AttemptsInv
    <2>1. chunk[c] = FreshChunk
      BY DEF Init
    <2>2. Cardinality({}) = 0
      BY FS_EmptySet
    <2> QED BY <2>1, <2>2, ConstantsAssumption DEF FreshChunk, Bounded
  <1>2. TypeInv /\ AttemptsInv => AttemptsBounded
    <2> SUFFICES ASSUME TypeInv, AttemptsInv, NEW c \in Chunks
                 PROVE  /\ chunk[c].attempts <= MaxAttempts
                        /\ chunk[c].status = "assigned" => chunk[c].attempts > 0
                        /\ Cardinality(chunk[c].abandonedBy) <= chunk[c].attempts
      BY DEF AttemptsBounded
    <2>1. chunk[c] \in ChunkRow /\ Bounded(chunk[c])
      BY DEF TypeInv, TypeOK, AttemptsInv
    <2> QED BY <2>1, AbandonersCounted DEF Bounded
  <1>3. Spec => [](TypeInv /\ AttemptsInv)
    BY <1>1, InitType, NextType, AttemptsStep, PTL DEF Spec
  <1> QED BY <1>2, <1>3, PTL

-----------------------------------------------------------------------------
(* No settlement of the pipeline lacks the consensus it needs.               *)
(* What a handler concluded from its reading of chunk_results must still hold *)
(* when it acts on it several calls later.  It does because an answer, once   *)
(* inserted, is never changed.                                                *)

Settling == {"validate", "verdict", "increment", "pay"}

Grounded(t) ==
  /\ thread[t].seen \subseteq Answered(thread[t].on)
  /\ thread[t].left \subseteq thread[t].seen
  /\ \A q \in thread[t].seen : IF q \in thread[t].winners THEN Seconded(thread[t].on, q)
                                                       ELSE Disputed(thread[t].on, q)
  /\ thread[t].winners # {} => TwoAgree(thread[t].on, Providers)

HandlersGrounded == \A t \in Threads : thread[t].pc \in Settling => Grounded(t)

ConsensusInv == TypeInv /\ HandlersGrounded /\ ConsensusBacksEverySettlement

-----------------------------------------------------------------------------
(* Who writes which table.                                                   *)

LEMMA Footprints ==
  ASSUME [Next]_vars
  PROVE  /\ answer' = answer \/ \E t \in Threads, v \in Values : Insert(t, v)
         /\ verdict' = verdict \/ \E t \in Threads, q \in Providers : Validate(t, q)
         /\ ledger' = ledger \/ \E t \in Threads, q \in Providers : Pay(t, q)
  <1>1. CASE UNCHANGED vars
    BY <1>1 DEF vars
  <1>2. CASE \E t \in Threads : Progress(t)
    <2>1. PICK t \in Threads : Progress(t)
      BY <1>2
    <2>2. CASE Check(t) \/ ReloadUndecided(t) \/ ReloadAgreed(t) \/ ReloadAllDiffer(t)
      BY <2>2 DEF Check, ReloadUndecided, ReloadAgreed, ReloadAllDiffer, tables
    <2>3. CASE Requeue(t) \/ WriteVerdict(t) \/ Increment(t)
      BY <2>3 DEF Requeue, WriteVerdict, Increment
    <2>4. CASE \E v \in Values : Insert(t, v)
      BY <2>4 DEF Insert
    <2>5. CASE \E q \in Providers : Validate(t, q)
      BY <2>5 DEF Validate
    <2>6. CASE \E q \in Providers : Pay(t, q)
      BY <2>6 DEF Pay
    <2>7. CASE Close(t)
      BY <2>7 DEF Close, CountTerminal, ReadJob, FailJob, GatherResults, CompleteJob, tables
    <2> QED BY <2>1, <2>2, <2>3, <2>4, <2>5, <2>6, <2>7 DEF Progress
  <1>3. CASE \E t \in Threads : Receives(t) \/ Fault(t)
    BY <1>3 DEF Receives, Receive, Fault, HandlerDies, PayFails, CloseFails, tables
  <1>4. CASE \E t \in Threads : PromptClaims(t) \/ LateClaims(t)
    BY <1>4 DEF PromptClaims, LateClaims, PromptClaim, LateClaim, Claim
  <1>5. CASE \E c \in Chunks : Expire(c)
    BY <1>5 DEF Expire
  <1> QED BY <1>1, <1>2, <1>3, <1>4, <1>5 DEF Next, PromptNext, SmoothNext

-----------------------------------------------------------------------------
(* Answers are never changed, so what follows from them stays true.          *)

LEMMA AnswersStay ==
  ASSUME TypeInv, [Next]_vars, NEW c \in Chunks, NEW p \in Providers, answer[c][p] # NoValue
  PROVE  answer'[c][p] = answer[c][p]
  <1>1. CASE answer' = answer
    BY <1>1
  <1>2. CASE \E t \in Threads, v \in Values : Insert(t, v)
    <2>1. PICK t \in Threads, v \in Values : Insert(t, v)
      BY <1>2
    <2> DEFINE d == thread[t].on
               q == thread[t].who
    <2>2. answer' = answer \/ (answer[d][q] = NoValue /\ answer' = [answer EXCEPT ![d][q] = v])
      BY <2>1 DEF Insert
    <2>3. d \in Chunks /\ q \in Providers
      BY <2>1, SubmitType DEF Insert, SubmitPC
    <2>4. answer \in [Chunks -> [Providers -> Values \cup {NoValue}]]
      BY DEF TypeInv, TypeOK
    <2>5. \A w : answer' = [answer EXCEPT ![d][q] = w] /\ ~(c = d /\ p = q)
                   => answer'[c][p] = answer[c][p]
      <3> HIDE DEF d, q
      <3> QED BY <2>3, <2>4
    <2> HIDE DEF d, q
    <2> QED BY <2>2, <2>5
  <1> QED BY <1>1, <1>2, Footprints

LEMMA ConclusionsStay ==
  ASSUME TypeInv, [Next]_vars, NEW c \in Chunks
  PROVE  /\ Answered(c) \subseteq Answered(c)'
         /\ TwoAgree(c, Providers) => TwoAgree(c, Providers)'
         /\ \A p \in Answered(c) : Seconded(c, p) => Seconded(c, p)'
         /\ \A p \in Answered(c) : Disputed(c, p) => Disputed(c, p)'
  <1>1. \A p \in Providers : answer[c][p] # NoValue => answer'[c][p] = answer[c][p]
    BY AnswersStay
  <1> QED BY <1>1 DEF Answered, TwoAgree, Seconded, Disputed

-----------------------------------------------------------------------------
(* The handlers keep what they concluded until they act on it.               *)

LEMMA ThreadsType == TypeInv => thread \in [Threads -> Handler]
  BY DEF TypeInv, TypeOK

LEMMA FieldsOfHandler ==
  ASSUME NEW h \in Handler
  PROVE  /\ \A pc : [h EXCEPT !.pc = pc].pc = pc
         /\ \A left, pc : LET g == [h EXCEPT !.left = left, !.pc = pc] IN
              g.on = h.on /\ g.seen = h.seen /\ g.winners = h.winners /\ g.left = left
  BY DEF Handler

\* A step of a thread leaves the other threads alone.
LEMMA OtherThreads ==
  ASSUME TypeInv, NEW u \in Threads, NEW t \in Threads, t # u,
         PromptClaims(u) \/ LateClaims(u) \/ Receives(u) \/ Progress(u) \/ Fault(u)
  PROVE  thread'[t] = thread[t]
  <1>1. CASE PromptClaims(u) \/ LateClaims(u)
    BY <1>1, ThreadsType DEF PromptClaims, LateClaims, PromptClaim, LateClaim, Claim
  <1>2. CASE Receives(u)
    BY <1>2, ThreadsType DEF Receives, Receive
  <1>3. CASE Check(u) \/ ReloadUndecided(u) \/ Requeue(u) \/ Increment(u)
    BY <1>3, ThreadsType DEF Check, ReloadUndecided, Requeue, Increment, Goto, Reply
  <1>4. CASE \E v \in Values : Insert(u, v)
    BY <1>4, ThreadsType DEF Insert, Goto, Reply
  <1>5. CASE ReloadAgreed(u) \/ ReloadAllDiffer(u)
    BY <1>5, ThreadsType DEF ReloadAgreed, ReloadAllDiffer
  <1>6. CASE WriteVerdict(u) \/ \E q \in Providers : Validate(u, q)
    BY <1>6, ThreadsType DEF WriteVerdict, Validate
  <1>7. CASE \E q \in Providers : Pay(u, q) \/ PayFails(u, q)
    BY <1>7, ThreadsType DEF Pay, PayFails, PaidOne
  <1>8. CASE Close(u)
    <2>1. CASE CountTerminal(u)
      BY <2>1, ThreadsType DEF CountTerminal
    <2>2. CASE ReadJob(u) \/ FailJob(u)
      BY <2>2, ThreadsType DEF ReadJob, FailJob
    <2>3. CASE GatherResults(u) \/ CompleteJob(u)
      BY <2>3, ThreadsType DEF GatherResults, CompleteJob
    <2> QED BY <1>8, <2>1, <2>2, <2>3 DEF Close
  <1>9. CASE HandlerDies(u) \/ CloseFails(u)
    BY <1>9, ThreadsType DEF HandlerDies, CloseFails, Reply
  <1> QED BY <1>1, <1>2, <1>3, <1>4, <1>5, <1>6, <1>7, <1>8, <1>9 DEF Progress, Fault

\* A handler is settling because it has just concluded, or was settling before.
Keeps(t) ==
  /\ thread[t].pc \in Settling
  /\ thread'[t].on = thread[t].on
  /\ thread'[t].seen = thread[t].seen
  /\ thread'[t].winners = thread[t].winners
  /\ thread'[t].left \subseteq thread[t].left \/ thread'[t].left = thread[t].seen

LEMMA SubmitSteps ==
  ASSUME TypeInv, NEW t \in Threads, thread'[t].pc \in Settling, Progress(t)
  PROVE  ReloadAgreed(t) \/ ReloadAllDiffer(t) \/ Keeps(t)
  <1>0. thread \in [Threads -> Handler] /\ thread[t] \in Handler
    BY ThreadsType
  <1>1. \A rest : CloseNext(rest).pc \notin Settling
    BY DEF CloseNext, Idle, Settling
  <1>2. Idle.pc \notin Settling
    BY DEF Idle, Settling
  <1>3. Reply(t) => FALSE
    BY <1>0, <1>2 DEF Reply
  <1>4. \A pc : Goto(t, pc) => pc \in Settling
    BY <1>0, FieldsOfHandler DEF Goto
  <1>5. CASE Check(t) \/ ReloadUndecided(t) \/ Requeue(t)
    BY <1>3, <1>4, <1>5 DEF Check, ReloadUndecided, Requeue, Settling
  <1>6. CASE \E v \in Values : Insert(t, v)
    BY <1>3, <1>4, <1>6 DEF Insert, Settling
  <1>7. CASE \E q \in Providers : Validate(t, q)
    BY <1>0, <1>7 DEF Validate, Settling, Keeps, Handler
  <1>8. CASE WriteVerdict(t)
    BY <1>0, <1>8 DEF WriteVerdict, Settling, Keeps, Handler
  <1>9. CASE Increment(t)
    BY <1>0, <1>3, <1>9 DEF Increment, Goto, Settling, Keeps, Handler
  <1>10. CASE \E q \in Providers : Pay(t, q)
    BY <1>0, <1>1, <1>10 DEF Pay, PaidOne, Settling, Keeps, Handler
  <1>11. CASE CountTerminal(t)
    BY <1>0, <1>1, <1>11 DEF CountTerminal, Idle, Settling
  <1>12. CASE ReadJob(t)
    BY <1>0, <1>1, <1>12 DEF ReadJob, Settling, Handler
  <1>13. CASE FailJob(t) \/ CompleteJob(t)
    BY <1>0, <1>1, <1>13 DEF FailJob, CompleteJob
  <1>14. CASE GatherResults(t)
    BY <1>0, <1>14 DEF GatherResults, Settling, Handler
  <1> QED BY <1>5, <1>6, <1>7, <1>8, <1>9, <1>10, <1>11, <1>12, <1>13, <1>14 DEF Progress, Close

LEMMA OtherSteps ==
  ASSUME TypeInv, NEW t \in Threads, thread'[t].pc \in Settling,
         PromptClaims(t) \/ LateClaims(t) \/ Receives(t) \/ Fault(t)
  PROVE  Keeps(t)
  <1>0. thread \in [Threads -> Handler] /\ thread[t] \in Handler
    BY ThreadsType
  <1>1. \A rest : CloseNext(rest).pc \notin Settling
    BY DEF CloseNext, Idle, Settling
  <1>2. Idle.pc \notin Settling
    BY DEF Idle, Settling
  <1>3. CASE PromptClaims(t) \/ LateClaims(t)
    BY <1>0, <1>1, <1>3 DEF PromptClaims, LateClaims, PromptClaim, LateClaim, Claim
  <1>4. CASE Receives(t)
    BY <1>0, <1>4 DEF Receives, Receive, Idle, Settling
  <1>5. CASE HandlerDies(t)
    BY <1>0, <1>2, <1>5 DEF HandlerDies, Reply
  <1>6. CASE \E q \in Providers : PayFails(t, q)
    BY <1>0, <1>1, <1>6 DEF PayFails, PaidOne, Settling, Keeps, Handler
  <1>7. CASE CloseFails(t)
    BY <1>0, <1>1, <1>7 DEF CloseFails
  <1> QED BY <1>3, <1>4, <1>5, <1>6, <1>7 DEF Fault

LEMMA SettlingSteps ==
  ASSUME TypeInv, [Next]_vars, NEW t \in Threads, thread'[t].pc \in Settling
  PROVE  ReloadAgreed(t) \/ ReloadAllDiffer(t) \/ Keeps(t)
  <1>1. CASE thread' = thread
    BY <1>1 DEF Keeps
  <1>2. ASSUME NEW u \in Threads,
               PromptClaims(u) \/ LateClaims(u) \/ Receives(u) \/ Progress(u) \/ Fault(u)
        PROVE  ReloadAgreed(t) \/ ReloadAllDiffer(t) \/ Keeps(t)
    <2>1. CASE u = t
      BY <1>2, <2>1, SubmitSteps, OtherSteps
    <2>2. CASE u # t
      BY <1>2, <2>2, OtherThreads DEF Keeps
    <2> QED BY <2>1, <2>2
  <1>3. CASE (\E c \in Chunks : Expire(c)) \/ UNCHANGED vars
    BY <1>1, <1>3 DEF Expire, vars
  <1> QED BY <1>2, <1>3 DEF Next, PromptNext, SmoothNext

-----------------------------------------------------------------------------
(* What a handler concludes from its reading holds when it concludes it.     *)

LEMMA TwoMembers ==
  ASSUME NEW B, IsFiniteSet(B), Cardinality(B) >= 2
  PROVE  \A p \in B : \E q \in B : q # p
  <1> SUFFICES ASSUME NEW p \in B, B \subseteq {p} PROVE FALSE
    OBVIOUS
  <1>1. B = {p}
    OBVIOUS
  <1>2. Cardinality(B) = 1
    BY <1>1, FS_Singleton
  <1> QED BY <1>2

LEMMA BackersFinite ==
  ASSUME NEW c, NEW S \in SUBSET Providers, NEW v
  PROVE  /\ IsFiniteSet(S)
         /\ IsFiniteSet(Backers(c, S, v))
         /\ Cardinality(Backers(c, S, v)) <= Cardinality(S)
  <1>1. IsFiniteSet(S)
    BY FS_Subset, ConstantsAssumption
  <1>2. Backers(c, S, v) \subseteq S
    BY DEF Backers
  <1> QED BY <1>1, <1>2, FS_Subset

LEMMA AgreedGrounds ==
  ASSUME TypeInv, NEW c \in Chunks, NEW v \in Values, Agreed(c, Answered(c), v)
  PROVE  /\ TwoAgree(c, Providers)
         /\ \A q \in Answered(c) : IF q \in Backers(c, Answered(c), v) THEN Seconded(c, q)
                                                                     ELSE Disputed(c, q)
  <1> DEFINE S == Answered(c)
             B == Backers(c, S, v)
  <1>1. S \in SUBSET Providers
    BY DEF Answered
  <1>2. IsFiniteSet(B) /\ Cardinality(B) >= 2
    BY <1>1, BackersFinite DEF Agreed
  <1>3. \A p \in B : \E q \in B : q # p
    BY <1>2, TwoMembers
  <1>4. B # {}
    BY <1>2, FS_EmptySet
  <1>5. \A p \in B : p \in Providers /\ answer[c][p] = v /\ v # NoValue
    BY <1>1, ConstantsAssumption DEF Backers
  <1>6. \A p \in S \ B : p \in Providers /\ answer[c][p] # v
    BY <1>1 DEF Backers
  <1> HIDE DEF S, B
  <1>7. TwoAgree(c, Providers)
    BY <1>3, <1>4, <1>5 DEF TwoAgree
  <1>8. \A q \in B : Seconded(c, q)
    BY <1>3, <1>5 DEF Seconded
  <1>9. \A q \in S \ B : Disputed(c, q)
    BY <1>4, <1>5, <1>6 DEF Disputed
  <1> QED BY <1>7, <1>8, <1>9 DEF S, B

LEMMA AllDifferGrounds ==
  ASSUME TypeInv, NEW c \in Chunks, Cardinality(Answered(c)) >= 3,
         \A v \in Values : ~Agreed(c, Answered(c), v)
  PROVE  \A q \in Answered(c) : Disputed(c, q)
  <1> DEFINE S == Answered(c)
  <1> SUFFICES ASSUME NEW q \in S, ~Disputed(c, q) PROVE FALSE
    OBVIOUS
  <1> DEFINE v == answer[c][q]
  <1>1. S \in SUBSET Providers /\ v \in Values
    BY DEF Answered, TypeInv, TypeOK
  <1>2. Backers(c, S, v) = S
    BY <1>1 DEF Disputed, Answered, Backers
  <1>3. \A w \in Values : Cardinality(Backers(c, S, w)) <= Cardinality(Backers(c, S, v))
    BY <1>1, <1>2, BackersFinite
  <1>4. Cardinality(S) \in Nat
    BY <1>1, BackersFinite, FS_CardinalityType
  <1>5. Agreed(c, S, v)
    BY <1>1, <1>2, <1>3, <1>4 DEF Agreed, MostCommon
  <1> QED BY <1>1, <1>5

-----------------------------------------------------------------------------
(* The invariant is inductive.                                               *)

LEMMA HandlersStep == ConsensusInv /\ [Next]_vars => HandlersGrounded'
  <1> SUFFICES ASSUME ConsensusInv, [Next]_vars, NEW t \in Threads, thread'[t].pc \in Settling
               PROVE  Grounded(t)'
    BY DEF HandlersGrounded
  <1>0. TypeInv /\ TypeInv'
    BY NextType DEF ConsensusInv
  <1>1. thread \in [Threads -> Handler] /\ thread[t] \in Handler
    BY <1>0, ThreadsType
  <1>2. CASE Keeps(t)
    <2>1. Grounded(t) /\ thread[t].on \in Chunks
      BY <1>0, <1>2, SubmitType DEF Keeps, Settling, SubmitPC, ConsensusInv, HandlersGrounded
    <2>2. PICK c \in Chunks, S \in SUBSET Providers : c = thread[t].on /\ S = thread[t].seen
      BY <1>1, <2>1 DEF Handler
    <2>3. /\ Answered(c) \subseteq Answered(c)'
          /\ TwoAgree(c, Providers) => TwoAgree(c, Providers)'
          /\ \A p \in Answered(c) : Seconded(c, p) => Seconded(c, p)'
          /\ \A p \in Answered(c) : Disputed(c, p) => Disputed(c, p)'
      BY <1>0, ConclusionsStay
    <2>4. /\ thread'[t].on = c
          /\ thread'[t].seen = S
          /\ thread'[t].winners = thread[t].winners
          /\ thread'[t].left \subseteq S
      BY <1>2, <2>1, <2>2 DEF Keeps, Grounded
    <2>5. /\ S \subseteq Answered(c)
          /\ thread[t].winners # {} => TwoAgree(c, Providers)
          /\ \A q \in S : IF q \in thread[t].winners THEN Seconded(c, q) ELSE Disputed(c, q)
      BY <2>1, <2>2 DEF Grounded
    <2>6. \A q \in S : IF q \in thread[t].winners THEN Seconded(c, q)' ELSE Disputed(c, q)'
      BY <2>3, <2>5
    <2> QED BY <2>3, <2>4, <2>5, <2>6 DEF Grounded
  <1>3. CASE ReloadAgreed(t)
    <2> DEFINE c == thread[t].on
               S == Answered(c)
    <2>1. c \in Chunks
      BY <1>0, <1>3, SubmitType DEF ReloadAgreed, SubmitPC
    <2>2. PICK v \in Values :
            /\ Agreed(c, S, v)
            /\ thread' = [thread EXCEPT ![t].pc = "validate", ![t].seen = S,
                                        ![t].winners = Backers(c, S, v), ![t].left = S]
      BY <1>3 DEF ReloadAgreed
    <2> DEFINE W == Backers(c, S, v)
    <2>3. /\ thread'[t].on = c
          /\ thread'[t].seen = S
          /\ thread'[t].winners = W
          /\ thread'[t].left = S
      <3> HIDE DEF W, S
      <3> QED BY <1>1, <2>2 DEF Handler, W
    <2>4. /\ TwoAgree(c, Providers)
          /\ \A q \in S : IF q \in W THEN Seconded(c, q) ELSE Disputed(c, q)
      BY <1>0, <2>1, <2>2, AgreedGrounds
    <2>5. answer' = answer
      BY <1>3 DEF ReloadAgreed, tables
    <2> QED BY <2>3, <2>4, <2>5 DEF Grounded, TwoAgree, Seconded, Disputed, Answered
  <1>4. CASE ReloadAllDiffer(t)
    <2> DEFINE c == thread[t].on
               S == Answered(c)
               W == {}
    <2>1. c \in Chunks
      BY <1>0, <1>4, SubmitType DEF ReloadAllDiffer, SubmitPC
    <2>2. thread' = [thread EXCEPT ![t].pc = "validate", ![t].seen = S,
                                  ![t].winners = W, ![t].left = S]
      BY <1>4 DEF ReloadAllDiffer
    <2>3. /\ thread'[t].on = c
          /\ thread'[t].seen = S
          /\ thread'[t].winners = W
          /\ thread'[t].left = S
      <3> HIDE DEF W, S
      <3> QED BY <1>1, <2>2 DEF Handler
    <2>4. \A q \in S : Disputed(c, q)
      BY <1>0, <1>4, <2>1, AllDifferGrounds DEF ReloadAllDiffer
    <2>5. answer' = answer
      BY <1>4 DEF ReloadAllDiffer, tables
    <2> QED BY <2>3, <2>4, <2>5 DEF Grounded, TwoAgree, Seconded, Disputed, Answered
  <1> QED BY <1>0, <1>2, <1>3, <1>4, SettlingSteps

\* A chunk becomes done only by the verdict of a handler that has winners.
LEMMA DoneStep ==
  ASSUME ConsensusInv, [Next]_vars, NEW c \in Chunks, chunk'[c].status = "done"
  PROVE  TwoAgree(c, Providers)
  <1>0. TypeInv /\ chunk \in [Chunks -> ChunkRow] /\ chunk[c] \in ChunkRow
    BY DEF ConsensusInv, TypeInv, TypeOK
  <1>1. CASE chunk[c].status = "done"
    BY <1>1 DEF ConsensusInv, ConsensusBacksEverySettlement
  <1>2. CASE chunk' = chunk
    BY <1>1, <1>2
  <1>3. CASE \E d \in Chunks : Expire(d)
    BY <1>0, <1>1, <1>3 DEF Expire, ChunkRow
  <1>4. ASSUME NEW t \in Threads, NEW p \in Providers, NEW n \in 1..MaxClaim,
               NEW locked \in SUBSET Chunks, Claim(t, p, n, locked)
        PROVE  chunk[c].status = "done"
    <2>1. PICK row \in ChunkRow :
           /\ row = chunk[c] \/ row = Reclaimed(chunk[c], chunk[c].assignedTo)
           /\ \/ chunk'[c] = row
              \/ chunk'[c] = Refused(row)
              \/ chunk'[c] = Assigned(row, p, row.attempts + 1)
      BY <1>0, <1>4, ClaimRow
    <2>2. chunk'[c] = row
      BY <2>1, RefusedFields, AssignedFields
    <2> QED BY <1>0, <2>1, <2>2, ReclaimedFields
  <1>5. CASE \E t \in Threads : Requeue(t)
    <2>1. PICK t \in Threads : Requeue(t)
      BY <1>5
    <2>2. chunk' = [chunk EXCEPT ![thread[t].on] = Requeued(@)]
      BY <2>1 DEF Requeue
    <2>3. Requeued(chunk[c]).status = "pending"
      BY <1>0, RequeuedFields
    <2> QED BY <1>0, <1>1, <2>2, <2>3
  <1>6. CASE \E t \in Threads : WriteVerdict(t)
    <2>1. PICK t \in Threads : WriteVerdict(t)
      BY <1>6
    <2>2. chunk' = [chunk EXCEPT ![thread[t].on] = Settled(@, Decided(t))]
      BY <2>1 DEF WriteVerdict
    <2>3. Settled(chunk[c], Decided(t)).status = Decided(t)
      BY <1>0, SettledFields
    <2>4. CASE thread[t].on = c /\ Decided(t) = "done"
      <3>1. Grounded(t)
        BY <2>1 DEF ConsensusInv, HandlersGrounded, WriteVerdict, Settling
      <3> QED BY <2>4, <3>1 DEF Grounded, Decided
    <2> QED BY <1>0, <1>1, <2>2, <2>3, <2>4
  <1> QED BY <1>1, <1>2, <1>3, <1>4, <1>5, <1>6, ChunkSteps

\* What one row of chunk_results and one account must satisfy.
RowBacked(c, p) ==
  /\ answer[c][p] = NoValue => /\ verdict[c][p] = "null"
                               /\ ledger[c][p].credits = 0
                               /\ ledger[c][p].penalties = 0
  /\ verdict[c][p] = "valid" \/ ledger[c][p].credits > 0 => Seconded(c, p)
  /\ verdict[c][p] = "invalid" \/ ledger[c][p].penalties > 0 => Disputed(c, p)

LEMMA SettlementStep ==
  ASSUME ConsensusInv, [Next]_vars, NEW c \in Chunks, NEW p \in Providers
  PROVE  RowBacked(c, p)'
  <1>0. /\ TypeInv
        /\ verdict \in [Chunks -> [Providers -> {"null", "valid", "invalid"}]]
        /\ ledger \in [Chunks -> [Providers -> Account]]
        /\ RowBacked(c, p)
    BY DEF ConsensusInv, TypeInv, TypeOK, ConsensusBacksEverySettlement, RowBacked
  <1>1. \/ verdict'[c][p] = verdict[c][p]
        \/ /\ p \in Answered(c)
           /\ verdict'[c][p] = "valid" /\ Seconded(c, p)
        \/ /\ p \in Answered(c)
           /\ verdict'[c][p] = "invalid" /\ Disputed(c, p)
    <2>1. ASSUME NEW t \in Threads, NEW q \in Providers, Validate(t, q)
          PROVE  \/ verdict'[c][p] = verdict[c][p]
                 \/ /\ p \in Answered(c)
                    /\ IF p \in thread[t].winners
                         THEN verdict'[c][p] = "valid" /\ Seconded(c, p)
                         ELSE verdict'[c][p] = "invalid" /\ Disputed(c, p)
      <3>1. Grounded(t) /\ q \in thread[t].left
        BY <2>1 DEF ConsensusInv, HandlersGrounded, Validate, Settling
      <3>2. verdict' = [verdict EXCEPT ![thread[t].on][q] = Mark(t, q)]
        BY <2>1 DEF Validate
      <3>3. CASE thread[t].on = c /\ q = p
        <4>1. verdict'[c][p] = Mark(t, p)
          BY <1>0, <3>2, <3>3
        <4> QED BY <3>1, <3>3, <4>1 DEF Grounded, Mark
      <3>4. CASE ~(thread[t].on = c /\ q = p)
        BY <1>0, <3>2, <3>4
      <3> QED BY <3>3, <3>4
    <2> QED BY <2>1, Footprints
  <1>2. \/ ledger'[c][p] = ledger[c][p]
        \/ /\ p \in Answered(c)
           /\ ledger'[c][p].penalties = ledger[c][p].penalties
           /\ Seconded(c, p)
        \/ /\ p \in Answered(c)
           /\ ledger'[c][p].credits = ledger[c][p].credits
           /\ Disputed(c, p)
    <2>1. ASSUME NEW t \in Threads, NEW q \in Providers, Pay(t, q)
          PROVE  \/ ledger'[c][p] = ledger[c][p]
                 \/ /\ p \in Answered(c)
                    /\ IF p \in thread[t].winners
                         THEN ledger'[c][p].penalties = ledger[c][p].penalties /\ Seconded(c, p)
                         ELSE ledger'[c][p].credits = ledger[c][p].credits /\ Disputed(c, p)
      <3>1. Grounded(t) /\ q \in thread[t].left
        BY <2>1 DEF ConsensusInv, HandlersGrounded, Pay, Settling
      <3>2. CASE thread[t].on = c /\ q = p
        <4>1. IF p \in thread[t].winners
                THEN ledger'[c][p].penalties = ledger[c][p].penalties
                ELSE ledger'[c][p].credits = ledger[c][p].credits
          BY <1>0, <2>1, <3>2 DEF Pay, Account
        <4> QED BY <3>1, <3>2, <4>1 DEF Grounded
      <3>3. CASE ~(thread[t].on = c /\ q = p)
        BY <1>0, <2>1, <3>3 DEF Pay
      <3> QED BY <3>2, <3>3
    <2> QED BY <2>1, Footprints
  <1>3. /\ p \in Answered(c) => p \in Answered(c)'
        /\ p \in Answered(c) => answer'[c][p] # NoValue
        /\ p \in Answered(c) /\ Seconded(c, p) => Seconded(c, p)'
        /\ p \in Answered(c) /\ Disputed(c, p) => Disputed(c, p)'
    BY <1>0, ConclusionsStay DEF Answered
  <1>4. p \in Answered(c) <=> answer[c][p] # NoValue
    BY DEF Answered
  <1>5. ledger[c][p] \in Account
    BY <1>0
  <1>6. verdict[c][p] \in {"null", "valid", "invalid"}
    BY <1>0
  <1>7. answer'[c][p] = NoValue => /\ verdict'[c][p] = "null"
                                  /\ ledger'[c][p].credits = 0
                                  /\ ledger'[c][p].penalties = 0
    BY <1>0, <1>1, <1>2, <1>3, <1>4 DEF RowBacked
  <1>8. verdict'[c][p] = "valid" \/ ledger'[c][p].credits > 0 => Seconded(c, p)'
    BY <1>0, <1>1, <1>2, <1>3, <1>4, <1>5 DEF RowBacked, Account
  <1>9. verdict'[c][p] = "invalid" \/ ledger'[c][p].penalties > 0 => Disputed(c, p)'
    BY <1>0, <1>1, <1>2, <1>3, <1>4, <1>5 DEF RowBacked, Account
  <1> QED BY <1>7, <1>8, <1>9 DEF RowBacked

LEMMA ConsensusStep == ConsensusInv /\ [Next]_vars => ConsensusInv'
  <1> SUFFICES ASSUME ConsensusInv, [Next]_vars PROVE ConsensusInv'
    OBVIOUS
  <1>1. TypeInv /\ TypeInv'
    BY NextType DEF ConsensusInv
  <1>2. HandlersGrounded'
    BY HandlersStep
  <1>3. \A c \in Chunks : chunk'[c].status = "done" => TwoAgree(c, Providers)'
    BY <1>1, DoneStep, ConclusionsStay
  <1>4. \A c \in Chunks, p \in Providers : RowBacked(c, p)'
    BY SettlementStep
  <1>5. ConsensusBacksEverySettlement'
    BY <1>3, <1>4 DEF ConsensusBacksEverySettlement, RowBacked
  <1> QED BY <1>1, <1>2, <1>5 DEF ConsensusInv

LEMMA ConsensusInit == Init => ConsensusInv
  <1> SUFFICES ASSUME Init PROVE ConsensusInv
    OBVIOUS
  <1>1. TypeInv
    BY InitType
  <1>2. HandlersGrounded
    BY DEF Init, HandlersGrounded, Idle, Settling
  <1>3. ConsensusBacksEverySettlement
    BY DEF Init, ConsensusBacksEverySettlement, FreshChunk
  <1> QED BY <1>1, <1>2, <1>3 DEF ConsensusInv

\* For any number of replicas, answers, threads and faults, late reclaims included:
\* no reward or valid mark without a second provider in agreement, no penalty without
\* one that differs, no chunk done without two that agree.
THEOREM SettlementsAreBacked == Spec => []ConsensusBacksEverySettlement
  <1>1. ConsensusInv => ConsensusBacksEverySettlement
    BY DEF ConsensusInv
  <1> QED BY <1>1, ConsensusInit, ConsensusStep, PTL DEF Spec

=============================================================================
