---------------------- MODULE OnChainVerificationProofs ----------------------
(***************************************************************************)
(* For any number of submissions, tasks and concurrent batches, whatever   *)
(* nullifier a proof names and under every fault: a submission reads       *)
(* verified only when the contract has recorded a proof that came with a   *)
(* request for it. Where it is posted once and one batch runs at a time,   *)
(* it stays so, attempts are counted without a loss, and the queue and the *)
(* submission agree.                                                       *)
(***************************************************************************)
EXTENDS OnChainVerification, TLAPS

\* A process in one of these places holds a row and the proof it sends for it.
Holding == {"queue", "found", "send", "wait", "mined", "failed"}

\* It got the row from a request and the proof from that request or from the queue.
HoldsAProof ==
  /\ \A p \in Processes : proc[p].pc \in Holding => proc[p].sub \in Submissions
  /\ \A p \in Processes, s \in Submissions :
       proc[p].pc \in Holding /\ proc[p].sub = s => proc[p].nullifier \in Proved(s)

\* A promise that has not started has no row.
IdleHasNone == \A t \in Tasks : proc[t].pc = "idle" => proc[t].sub = None

KnowsItIsOnChain ==
  \A p \in Processes :
    proc[p].pc \in {"mined", "found"} => proc[p].nullifier \in chain

\* The queue keeps the proof of the submission it names, and a batch only works on
\* rows that exist.
QueueKeepsProof ==
  /\ \A s \in Submissions : retry[s].status # "none" => retry[s].nullifier \in Proved(s)
  /\ \A p \in Processes : \A s \in proc[p].todo : retry[s].status # "none"
  /\ \A b \in Batches : proc[b].pc \in Holding => retry[proc[b].sub].status # "none"

\* VerifiedMeansOnChain alone is not inductive: whoever writes "verified" has to
\* hold a proof that came with a request for the row and to know that the contract has
\* recorded it.
VInv ==
  /\ TypeOK
  /\ IdleHasNone
  /\ HoldsAProof
  /\ KnowsItIsOnChain
  /\ QueueKeepsProof
  /\ VerifiedMeansOnChain

USE DEF At, Goto, rows

\* The empty table is consistent.
LEMMA InitVInv == Init => VInv
  BY VerificationAssumption
  DEF Init, VInv, TypeOK, IdleHasNone, HoldsAProof, KnowsItIsOnChain, QueueKeepsProof,
      VerifiedMeansOnChain, Idle, NoRetry, Holding, Processes,
      VerStatuses, RetryStatuses, Pcs

\* The types of the compound variables.
RetryType == [status : RetryStatuses, count : Nat,
              nullifier : Nullifiers \cup {None}, due : BOOLEAN]
RetryTypes == [Submissions -> RetryType]
ProcType ==
  [pc : Pcs, sub : Submissions \cup {None}, nullifier : Nullifiers \cup {None},
   todo : SUBSET Submissions, count : [Submissions -> Nat]]
ProcTypes == [Processes -> ProcType]

\* A process may go anywhere.
LEMMA GotoTypes ==
  ASSUME proc \in ProcTypes, NEW p \in Processes, NEW pc \in Pcs, Goto(p, pc)
  PROVE  proc' \in ProcTypes
  BY DEF ProcTypes, ProcType

\* A task's own steps keep the state well typed.
LEMMA TaskTypes ==
  ASSUME TypeOK, NEW t \in Tasks, TaskStep(t)
  PROVE  TypeOK'
<1> USE DEF TypeOK, Processes
<1>1. t \in Processes
  OBVIOUS
<1>2. \E pc \in {"send", "done", "failed", "lost"} : Goto(t, pc)
  BY DEF TaskStep, MarkQueued, RecordVerified, QueueForRetry, TaskDbError
<1>3. proc' \in ProcTypes
  BY <1>1, <1>2, GotoTypes DEF ProcTypes, ProcType, Pcs
<1>4. CASE MarkQueued(t)
  BY <1>3, <1>4 DEF MarkQueued, VerStatuses, ProcTypes, ProcType
<1>5. CASE RecordVerified(t)
  BY <1>3, <1>5 DEF RecordVerified, VerStatuses, ProcTypes, ProcType
<1>6. CASE QueueForRetry(t)
  <2>1. retry' \in RetryTypes
    <3> DEFINE old == retry[proc[t].sub]
               new == IF old.status = "none"
                        THEN [status |-> "pending", count |-> 0,
                              nullifier |-> proc[t].nullifier, due |-> FALSE]
                        ELSE [old EXCEPT !.status = "pending", !.due = FALSE]
    <3>1. CASE proc[t].sub \in Submissions
      <4>1. old \in RetryType /\ proc[t].nullifier \in Nullifiers \cup {None}
        BY <1>1, <3>1 DEF RetryType
      <4>2. new \in RetryType
        BY <4>1 DEF RetryType, RetryStatuses
      <4>3. retry' = [retry EXCEPT ![proc[t].sub] = new]
        BY <1>6, <3>1 DEF QueueForRetry
      <4> QED  BY <4>2, <4>3 DEF RetryTypes, RetryType
    <3>2. CASE proc[t].sub \notin Submissions
      BY <1>6, <3>2 DEF QueueForRetry, RetryTypes, RetryType
    <3> QED  BY <3>1, <3>2
  <2> QED  BY <1>3, <1>6, <2>1 DEF QueueForRetry, ProcTypes, ProcType, RetryTypes, RetryType
<1>7. CASE TaskDbError(t)
  BY <1>3, <1>7 DEF TaskDbError, ProcTypes, ProcType
<1> QED
  BY <1>4, <1>5, <1>6, <1>7 DEF TaskStep

\* A batch's own steps keep the state well typed.
LEMMA BatchTypes ==
  ASSUME TypeOK, HoldsAProof, NEW b \in Batches, StartBatch(b) \/ BatchStep(b)
  PROVE  TypeOK'
<1> USE DEF TypeOK, Processes
<1>0. b \in Processes /\ {"next", "found", "send"} \subseteq Pcs
  BY DEF Pcs
<1>1. CASE StartBatch(b)
  <2>1. proc' \in ProcTypes
    <3>1. PICK due \in SUBSET Submissions, n \in [Submissions -> Nat] :
            proc' = [proc EXCEPT ![b].pc = "next", ![b].todo = due, ![b].count = n]
      BY <1>1 DEF StartBatch
    <3>2. proc[b] \in ProcType
      BY <1>0 DEF ProcType
    <3>3. [proc[b] EXCEPT !.pc = "next", !.todo = due, !.count = n] \in ProcType
      BY <1>0, <3>2 DEF ProcType
    <3>4. proc' = [proc EXCEPT ![b] =
                     [proc[b] EXCEPT !.pc = "next", !.todo = due, !.count = n]]
      BY <3>1
    <3> QED  BY <3>3, <3>4 DEF ProcTypes, ProcType
  <2> QED  BY <1>1, <2>1 DEF StartBatch, ProcTypes, ProcType
<1>2. CASE RecordFound(b)
  <2>1. proc' \in ProcTypes
    BY <1>0, <1>2, GotoTypes DEF RecordFound, ProcTypes, ProcType
  <2>2. retry' \in RetryTypes
    <3>1. retry \in RetryTypes /\ retry' = [retry EXCEPT ![proc[b].sub].status = "succeeded"]
      BY <1>2 DEF RecordFound, RetryTypes, RetryType
    <3> HIDE DEF TypeOK
    <3> QED  BY <3>1 DEF RetryTypes, RetryType, RetryStatuses
  <2> QED  BY <1>2, <2>1, <2>2 DEF RecordFound, VerStatuses,
                                    ProcTypes, ProcType, RetryTypes, RetryType
<1>3. CASE RecordRetried(b)
  <2>1. proc' \in ProcTypes
    BY <1>0, <1>3, GotoTypes DEF RecordRetried, ProcTypes, ProcType
  <2>2. retry' \in RetryTypes
    <3>1. retry \in RetryTypes /\ retry' = [retry EXCEPT ![proc[b].sub].status = "succeeded"]
      BY <1>3 DEF RecordRetried, RetryTypes, RetryType
    <3> HIDE DEF TypeOK
    <3> QED  BY <3>1 DEF RetryTypes, RetryType, RetryStatuses
  <2> QED  BY <1>3, <2>1, <2>2 DEF RecordRetried, VerStatuses,
                                    ProcTypes, ProcType, RetryTypes, RetryType
<1>4. CASE ChargeAttempt(b)
  <2>1. proc' \in ProcTypes
    BY <1>0, <1>4, GotoTypes DEF ChargeAttempt, ProcTypes, ProcType
  <2>2. PICK n \in Nat : n = proc[b].count[proc[b].sub] + 1
    <3>1. proc[b].sub \in Submissions
      BY <1>0, <1>4 DEF ChargeAttempt, HoldsAProof, Holding
    <3>2. proc[b].count \in [Submissions -> Nat]
      BY <1>0
    <3> QED  BY <3>1, <3>2
  <2>3. retry' \in RetryTypes
    <3> DEFINE r == proc[b].sub
    <3>1. retry \in RetryTypes
      BY DEF RetryTypes, RetryType
    <3>2. \/ retry' = [retry EXCEPT ![r].status = "exhausted", ![r].count = n]
          \/ retry' = [retry EXCEPT ![r].count = n, ![r].due = FALSE]
      BY <1>4, <2>2 DEF ChargeAttempt
    <3> HIDE DEF TypeOK
    <3> QED  BY <3>1, <3>2 DEF RetryTypes, RetryType, RetryStatuses
  <2> QED  BY <1>4, <2>1, <2>3 DEF ChargeAttempt, VerStatuses,
                                    ProcTypes, ProcType, RetryTypes, RetryType
<1>5. CASE BatchDbError(b)
  <2>1. proc' \in ProcTypes
    BY <1>0, <1>5, GotoTypes DEF BatchDbError, ProcTypes, ProcType
  <2> QED  BY <1>5, <2>1 DEF BatchDbError, ProcTypes, ProcType
<1>6. CASE EndBatch(b)
  <2>1. Idle \in [pc : Pcs, sub : Submissions \cup {None},
                  nullifier : Nullifiers \cup {None},
                  todo : SUBSET Submissions, count : [Submissions -> Nat]]
    BY DEF Idle, Pcs
  <2>2. proc' \in ProcTypes
    BY <1>0, <1>6, <2>1 DEF EndBatch, ProcTypes, ProcType
  <2> QED  BY <1>6, <2>2 DEF EndBatch, ProcTypes, ProcType
<1>7. ASSUME NEW s \in Submissions, TakeRow(b, s)
      PROVE  TypeOK'
  <2>1. proc' \in ProcTypes
    BY <1>0, <1>7 DEF TakeRow, ProcTypes, ProcType
  <2> QED  BY <1>7, <2>1 DEF TakeRow, ProcTypes, ProcType
<1> QED
  BY <1>1, <1>2, <1>3, <1>4, <1>5, <1>6, <1>7 DEF BatchStep

\* What is sent names a nullifier.
LEMMA HeldIsTyped ==
  ASSUME TypeOK, HoldsAProof, NEW p \in Processes, proc[p].pc \in Holding
  PROVE  proc[p].nullifier \in Nullifiers
  BY DEF TypeOK, HoldsAProof, Proved, Processes

\* So do the steps of a call to verifyOnChain and an eviction.
LEMMA CallTypes ==
  ASSUME TypeOK, HoldsAProof, NEW p \in Processes, CallStep(p) \/ Crash(p)
  PROVE  TypeOK'
<1> USE DEF TypeOK
<1>1. CASE CallStep(p)
  <2>1. \E pc \in {"failed", "next", "wait", "mined"} : Goto(p, pc)
    BY <1>1 DEF CallStep, Refuse, ThrowNonce, Send, Mine, Revert, LoseReceipt
  <2>2. proc' \in ProcTypes
    BY <2>1, GotoTypes DEF ProcTypes, ProcType, Pcs
  <2>3. chain' \subseteq Nullifiers /\ orphans' \subseteq Nullifiers
    BY <1>1, HeldIsTyped
    DEF CallStep, Refuse, ThrowNonce, Send, Mine, Revert, LoseReceipt, Abandon, Holding
  <2>4. UNCHANGED <<ver, txHash, retry, posts>>
    BY <1>1 DEF CallStep, Refuse, ThrowNonce, Send, Mine, Revert, LoseReceipt
  <2> QED  BY <2>2, <2>3, <2>4 DEF ProcTypes, ProcType
<1>2. CASE Crash(p)
  <2>1. proc' \in ProcTypes
    <3>1. CASE p \in Tasks
      <4>1. Goto(p, "lost")
        BY <1>2, <3>1 DEF Crash
      <4> QED  BY <4>1, GotoTypes DEF ProcTypes, ProcType, Pcs
    <3>2. CASE p \notin Tasks
      BY <1>2, <3>2 DEF Crash, ProcTypes, ProcType, Idle, Pcs
    <3> QED  BY <3>1, <3>2
  <2>2. orphans' \subseteq Nullifiers
    BY <1>2, HeldIsTyped DEF Crash, Abandon, Holding
  <2> QED  BY <1>2, <2>1, <2>2 DEF Crash, ProcTypes, ProcType
<1> QED
  BY <1>1, <1>2

\* Every step keeps the state well typed. What a process holds is needed for it.
LEMMA TypeStep == TypeOK /\ HoldsAProof /\ [Next]_vars => TypeOK'
<1> SUFFICES ASSUME TypeOK, HoldsAProof, [Next]_vars
             PROVE  TypeOK'
  OBVIOUS
<1>1. ASSUME NEW t \in Tasks, NEW s \in Submissions, NEW n \in Nullifiers \cup {None},
             Post(t, s, n)
      PROVE  TypeOK'
  <2>1. proc' \in ProcTypes
    <3> DEFINE pc == IF n = None THEN "done" ELSE "queue"
               row == [proc[t] EXCEPT !.pc = pc, !.sub = s, !.nullifier = n]
    <3>1. /\ proc \in ProcTypes /\ pc \in Pcs /\ t \in Processes
          /\ proc' = [proc EXCEPT ![t] = row]
      BY <1>1 DEF Post, TypeOK, ProcTypes, ProcType, Pcs, Processes
    <3> HIDE DEF pc
    <3>2. proc[t] \in ProcType
      BY <3>1 DEF ProcTypes
    <3>3. row \in ProcType
      BY <3>1, <3>2 DEF ProcType
    <3> HIDE DEF row
    <3> QED  BY <3>1, <3>3 DEF ProcTypes
  <2>2. posts' \in [Submissions -> 0..MaxPosts]
    BY <1>1, VerificationAssumption DEF Post, TypeOK
  <2> QED  BY <1>1, <2>1, <2>2 DEF Post, TypeOK, VerStatuses, ProcTypes, ProcType
<1>2. ASSUME NEW n \in Nullifiers, MineOrphan(n)
      PROVE  TypeOK'
  BY <1>2 DEF MineOrphan, TypeOK
<1>3. ASSUME NEW s \in Submissions, BackoffElapses(s)
      PROVE  TypeOK'
  <2>1. retry \in RetryTypes /\ retry' = [retry EXCEPT ![s].due = TRUE]
    BY <1>3 DEF BackoffElapses, RetryTypes, RetryType, TypeOK
  <2>2. retry' \in RetryTypes
    BY <2>1 DEF RetryTypes, RetryType
  <2> QED  BY <1>3, <2>2 DEF BackoffElapses, TypeOK, RetryTypes, RetryType
<1>4. CASE UNCHANGED vars
  BY <1>4 DEF vars, TypeOK
<1> QED
  BY <1>1, <1>2, <1>3, <1>4, TaskTypes, BatchTypes, CallTypes DEF Next, RefuseBatch

-----------------------------------------------------------------------------
\* A process that goes somewhere keeps what it has in hand.
LEMMA GotoKeeps ==
  ASSUME TypeOK, NEW p \in Processes, NEW pc, Goto(p, pc)
  PROVE  \A q \in Processes :
           /\ proc'[q].sub = proc[q].sub
           /\ proc'[q].nullifier = proc[q].nullifier
           /\ proc'[q].todo = proc[q].todo
           /\ proc'[q].pc = IF q = p THEN pc ELSE proc[q].pc
  BY DEF TypeOK

\* A batch that ends has nothing in hand.
LEMMA IdleHolds ==
  ASSUME TypeOK, NEW p \in Processes, proc' = [proc EXCEPT ![p] = Idle]
  PROVE  /\ proc'[p].pc = "idle" /\ proc'[p].todo = {}
         /\ \A q \in Processes : q # p => proc'[q] = proc[q]
  BY DEF TypeOK, Idle

\* A promise keeps the row and the proof it was started with, and starts once.
LEMMA TasksKeep ==
  ASSUME TypeOK, IdleHasNone, [Next]_vars, NEW u \in Tasks
  PROVE  /\ proc[u].pc # "idle" =>
              proc'[u].sub = proc[u].sub /\ proc'[u].nullifier = proc[u].nullifier
         /\ proc'[u].pc = "idle" => proc'[u].sub = None
<1>0. u \in Processes /\ u \notin Batches /\ (proc[u].pc = "idle" => proc[u].sub = None)
  BY VerificationAssumption DEF Processes, IdleHasNone
<1>1. ASSUME NEW p \in Processes, NEW pc, pc # "idle", Goto(p, pc)
      PROVE  /\ proc[u].pc # "idle" =>
                  proc'[u].sub = proc[u].sub /\ proc'[u].nullifier = proc[u].nullifier
             /\ proc'[u].pc = "idle" => proc'[u].sub = None
  BY <1>0, <1>1, GotoKeeps
<1>2. ASSUME NEW b \in Processes, b \notin Tasks, \A q \in Processes : q # b => proc'[q] = proc[q]
      PROVE  proc'[u] = proc[u]
  BY <1>0, <1>2
<1>3. ASSUME NEW t \in Tasks, TaskStep(t)
      PROVE  \E p \in Processes, pc \in {"send", "done", "failed", "lost"} : Goto(p, pc)
  BY <1>3 DEF TaskStep, MarkQueued, RecordVerified, QueueForRetry, TaskDbError, Processes
<1>4. ASSUME NEW t \in Tasks, NEW s \in Submissions, NEW n \in Nullifiers \cup {None},
             Post(t, s, n)
      PROVE  /\ proc[u].pc # "idle" => proc'[u] = proc[u]
             /\ proc'[u].pc = "idle" => proc'[u] = proc[u]
  BY <1>0, <1>4 DEF Post, TypeOK, Processes
<1>5. ASSUME NEW b \in Batches, StartBatch(b) \/ BatchStep(b)
      PROVE  proc'[u] = proc[u]
  <2>1. b \in Processes /\ b \notin Tasks
    BY VerificationAssumption DEF Processes
  <2>2. \A q \in Processes : q # b => proc'[q] = proc[q]
    BY <1>5, <2>1
    DEF StartBatch, BatchStep, RecordFound, RecordRetried, ChargeAttempt, BatchDbError,
        EndBatch, TakeRow, TypeOK
  <2> QED  BY <1>2, <2>1, <2>2
<1>6. ASSUME NEW p \in Processes, CallStep(p)
      PROVE  \E pc \in {"failed", "next", "wait", "mined"} : Goto(p, pc)
  BY <1>6 DEF CallStep, Refuse, ThrowNonce, Send, Mine, Revert, LoseReceipt
<1>7. ASSUME NEW p \in Processes, Crash(p)
      PROVE  (p \in Tasks /\ Goto(p, "lost")) \/ proc'[u] = proc[u]
  <2>1. CASE p \in Tasks
    BY <1>7, <2>1 DEF Crash
  <2>2. CASE p \notin Tasks
    BY <1>2, <1>7, <2>2 DEF Crash, TypeOK
  <2> QED  BY <2>1, <2>2
<1>8. (\E n \in Nullifiers : MineOrphan(n)) \/ (\E r \in Submissions : BackoffElapses(r)) =>
        proc' = proc
  BY DEF MineOrphan, BackoffElapses
<1>9. UNCHANGED vars => proc' = proc
  BY DEF vars
<1> HIDE DEF Goto
<1> QED
  BY <1>0, <1>1, <1>3, <1>4, <1>5, <1>6, <1>7, <1>8, <1>9 DEF Next, RefuseBatch

\* So that what came with the requests for a row only grows.
LEMMA ProvedGrows ==
  ASSUME TypeOK, IdleHasNone, [Next]_vars
  PROVE  IdleHasNone' /\ \A s \in Submissions : Proved(s) \subseteq Proved(s)'
<1>1. IdleHasNone'
  BY TasksKeep DEF IdleHasNone
<1>2. ASSUME NEW s \in Submissions, NEW n \in Proved(s)
      PROVE  n \in Proved(s)'
  <2>1. PICK u \in Tasks : proc[u].sub = s /\ proc[u].nullifier = n /\ n # None
    BY <1>2 DEF Proved
  <2>2. proc[u].pc # "idle"
    BY <2>1, VerificationAssumption DEF IdleHasNone
  <2>3. proc'[u].sub = s /\ proc'[u].nullifier = n
    BY <2>1, <2>2, TasksKeep
  <2> QED  BY <2>1, <2>3 DEF Proved
<1> QED  BY <1>1, <1>2

\* Whoever holds a row holds a proof that came with a request for it: a promise its own,
\* a batch the one that the first failed promise left in the queue.
LEMMA HoldStep ==
  ASSUME VInv, [Next]_vars
  PROVE  HoldsAProof' /\ QueueKeepsProof'
<1>0. /\ TypeOK /\ HoldsAProof /\ QueueKeepsProof
      /\ \A s \in Submissions : Proved(s) \subseteq Proved(s)'
  BY ProvedGrows DEF VInv
<1> USE DEF HoldsAProof, QueueKeepsProof, Holding, Processes
<1>1. ASSUME NEW t \in Tasks, TaskStep(t)
      PROVE  HoldsAProof' /\ QueueKeepsProof'
  <2>0. t \in Processes
    OBVIOUS
  <2>1. CASE MarkQueued(t)
    <3>1. Goto(t, "send") /\ proc[t].pc = "queue" /\ UNCHANGED retry
      BY <2>1 DEF MarkQueued
    <3> QED  BY <1>0, <2>0, <3>1, GotoKeeps
  <2>2. CASE RecordVerified(t) \/ TaskDbError(t)
    <3>1. PICK pc \in {"done", "lost", "failed"} :
            /\ Goto(t, pc)
            /\ pc = "failed" => proc[t].pc \in {"queue", "mined"}
      BY <2>2 DEF RecordVerified, TaskDbError
    <3>2. UNCHANGED retry
      BY <2>2 DEF RecordVerified, TaskDbError
    <3> QED  BY <1>0, <2>0, <3>1, <3>2, GotoKeeps
  <2>3. CASE QueueForRetry(t)
    <3>1. Goto(t, "done") /\ proc[t].pc = "failed"
      BY <2>3 DEF QueueForRetry
    <3>2. /\ proc[t].sub \in Submissions
          /\ \A s \in Submissions : proc[t].sub = s => proc[t].nullifier \in Proved(s)
      BY <1>0, <2>0, <3>1
    <3>3. \A s \in Submissions :
            /\ retry[s].status # "none" => retry'[s].status # "none"
            /\ retry'[s].status # "none" => retry'[s].nullifier \in Proved(s)
      BY <1>0, <2>3, <3>2 DEF TypeOK, QueueForRetry
    <3>4. \A q \in Processes : proc[q].todo \subseteq Submissions
      BY <1>0 DEF TypeOK
    <3> QED  BY <1>0, <2>0, <3>1, <3>3, <3>4, GotoKeeps
  <2> QED  BY <1>1, <2>1, <2>2, <2>3 DEF TaskStep
<1>2. ASSUME NEW t \in Tasks, NEW s \in Submissions, NEW n \in Nullifiers \cup {None}, Post(t, s, n)
      PROVE  HoldsAProof' /\ QueueKeepsProof'
  <2>1. /\ \A q \in Processes : q # t => proc'[q] = proc[q]
        /\ proc'[t].sub = s /\ proc'[t].nullifier = n /\ proc'[t].todo = proc[t].todo
        /\ proc'[t].pc \in Holding => n # None
        /\ t \in Processes /\ t \notin Batches /\ retry' = retry
    BY <1>0, <1>2, VerificationAssumption DEF TypeOK, Post
  <2>2. n # None => n \in Proved(s)'
    BY <2>1 DEF Proved
  <2> QED  BY <1>0, <2>1, <2>2
<1>3. ASSUME NEW b \in Batches, StartBatch(b) \/ BatchStep(b)
      PROVE  HoldsAProof' /\ QueueKeepsProof'
  <2>0. b \in Processes /\ \A q \in Processes : proc[q].todo \subseteq Submissions
    BY <1>0 DEF TypeOK
  <2>1. CASE StartBatch(b)
    <3>1. PICK due \in SUBSET {s \in Submissions : retry[s].status # "none"} :
            /\ \A q \in Processes :
                 /\ proc'[q].todo = IF q = b THEN due ELSE proc[q].todo
                 /\ proc'[q].pc = IF q = b THEN "next" ELSE proc[q].pc
                 /\ proc'[q].sub = proc[q].sub
                 /\ proc'[q].nullifier = proc[q].nullifier
            /\ UNCHANGED retry
      <4> DEFINE dueRows == {s \in Submissions : retry[s].status = "pending" /\ retry[s].due}
                 counts == [s \in Submissions |-> retry[s].count]
      <4>1. proc' = [proc EXCEPT ![b].pc = "next", ![b].todo = dueRows, ![b].count = counts]
        BY <2>1 DEF StartBatch
      <4>2. dueRows \in SUBSET {s \in Submissions : retry[s].status # "none"}
        OBVIOUS
      <4>3. UNCHANGED retry
        BY <2>1 DEF StartBatch
      <4> HIDE DEF dueRows, counts
      <4>4. \A q \in Processes :
              /\ proc'[q].todo = IF q = b THEN dueRows ELSE proc[q].todo
              /\ proc'[q].pc = IF q = b THEN "next" ELSE proc[q].pc
              /\ proc'[q].sub = proc[q].sub
              /\ proc'[q].nullifier = proc[q].nullifier
        BY <1>0, <2>0, <4>1 DEF TypeOK
      <4> QED  BY <4>2, <4>3, <4>4
    <3> QED  BY <1>0, <2>0, <3>1
  <2>2. ASSUME RecordFound(b) \/ RecordRetried(b) \/ ChargeAttempt(b)
        PROVE  HoldsAProof' /\ QueueKeepsProof'
    <3>1. Goto(b, "next")
      BY <2>2 DEF RecordFound, RecordRetried, ChargeAttempt
    <3>0. /\ proc[b].sub \in Submissions /\ retry[proc[b].sub].status # "none"
          /\ retry \in RetryTypes
      BY <1>0, <2>0, <2>2
      DEF TypeOK, RetryTypes, RetryType, RecordFound, RecordRetried, ChargeAttempt
    <3>2. \A s \in Submissions :
            /\ retry'[s].nullifier = retry[s].nullifier
            /\ retry[s].status # "none" => retry'[s].status # "none"
            /\ retry'[s].status # "none" => retry[s].status # "none"
      <4> HIDE DEF HoldsAProof, QueueKeepsProof
      <4>1. CASE RecordFound(b) \/ RecordRetried(b)
        <5>1. retry' = [retry EXCEPT ![proc[b].sub].status = "succeeded"]
          BY <4>1 DEF RecordFound, RecordRetried
        <5> QED  BY <3>0, <5>1 DEF RetryTypes, RetryType
      <4>2. CASE ChargeAttempt(b)
        BY <3>0, <4>2 DEF ChargeAttempt, RetryTypes, RetryType
      <4> QED  BY <2>2, <4>1, <4>2
    <3> QED  BY <1>0, <2>0, <3>1, <3>2, GotoKeeps
  <2>4. CASE BatchDbError(b) \/ EndBatch(b)
    <3>1. UNCHANGED retry
      BY <2>4 DEF BatchDbError, EndBatch
    <3>2. CASE BatchDbError(b)
      <4>1. Goto(b, "next")
        BY <3>2 DEF BatchDbError
      <4> QED  BY <1>0, <2>0, <3>1, <4>1, GotoKeeps
    <3>3. CASE EndBatch(b)
      <4>1. /\ proc'[b].pc = "idle" /\ proc'[b].todo = {}
            /\ \A q \in Processes : q # b => proc'[q] = proc[q]
        BY <1>0, <2>0, <3>3, IdleHolds DEF EndBatch
      <4> QED  BY <1>0, <2>0, <3>1, <4>1
    <3> QED  BY <2>4, <3>2, <3>3
  <2>5. ASSUME NEW s \in Submissions, TakeRow(b, s)
        PROVE  HoldsAProof' /\ QueueKeepsProof'
    BY <1>0, <2>5 DEF TypeOK, TakeRow
  <2> QED
    BY <1>3, <2>1, <2>2, <2>4, <2>5 DEF BatchStep
<1>4. ASSUME NEW p \in Processes, CallStep(p) \/ Crash(p)
      PROVE  HoldsAProof' /\ QueueKeepsProof'
  <2>1. CASE CallStep(p)
    <3>1. PICK pc \in {"failed", "next", "wait", "mined"} : Goto(p, pc)
      BY <2>1 DEF CallStep, Refuse, ThrowNonce, Send, Mine, Revert, LoseReceipt
    <3>2. proc[p].pc \in {"send", "wait", "mined"} /\ UNCHANGED retry
      BY <2>1 DEF CallStep, Refuse, ThrowNonce, Send, Mine, Revert, LoseReceipt
    <3> QED  BY <1>0, <3>1, <3>2, GotoKeeps
  <2>2. CASE Crash(p)
    BY <1>0, <2>2 DEF TypeOK, Crash, Idle
  <2> QED  BY <1>4, <2>1, <2>2
<1>5. ASSUME NEW n \in Nullifiers, MineOrphan(n)
      PROVE  HoldsAProof' /\ QueueKeepsProof'
  BY <1>0, <1>5 DEF MineOrphan
<1>6. ASSUME NEW s \in Submissions, BackoffElapses(s)
      PROVE  HoldsAProof' /\ QueueKeepsProof'
  BY <1>0, <1>6 DEF TypeOK, BackoffElapses
<1>7. CASE UNCHANGED vars
  BY <1>0, <1>7 DEF vars
<1> QED
  BY <1>1, <1>2, <1>3, <1>4, <1>5, <1>6, <1>7 DEF Next, RefuseBatch

\* A step writes "verified" and a hash only where the contract has recorded a proof of
\* that row.
WritesProven ==
  /\ chain \subseteq chain'
  /\ \A s \in Submissions :
       /\ ver'[s] = "verified" => ver[s] = "verified" \/ Proved(s) \cap chain # {}
       /\ txHash'[s] = txHash[s] \/ txHash'[s] \in Proved(s) \cap chain

\* What is proved and what is recorded only grow.
LEMMA ProvenFrame ==
  ASSUME VerifiedMeansOnChain, WritesProven,
         \A s \in Submissions : Proved(s) \subseteq Proved(s)'
  PROVE  VerifiedMeansOnChain'
<1> SUFFICES ASSUME NEW s \in Submissions
             PROVE  /\ ver'[s] = "verified" => Proved(s)' \cap chain' # {}
                    /\ txHash'[s] # None => txHash'[s] \in Proved(s)' \cap chain'
                    /\ Matching(s)' /\ ver'[s] = "verified" => s \in chain'
  BY DEF VerifiedMeansOnChain
<1>1. ver[s] = "verified" => Proved(s) \cap chain # {}
  BY DEF VerifiedMeansOnChain
<1>2. txHash[s] # None => txHash[s] \in Proved(s) \cap chain
  BY DEF VerifiedMeansOnChain
<1>3. ver'[s] = "verified" => Proved(s)' \cap chain' # {}
  BY <1>1 DEF WritesProven
<1>4. txHash'[s] # None => txHash'[s] \in Proved(s)' \cap chain'
  BY <1>2 DEF WritesProven
<1>5. Matching(s)' <=> Proved(s)' \subseteq {s}
  BY DEF Matching
<1> QED  BY <1>3, <1>4, <1>5

\* What a process learned of the contract stays true, and only a process that learned
\* it writes "verified".
LEMMA ChainStep ==
  ASSUME VInv, [Next]_vars
  PROVE  KnowsItIsOnChain' /\ VerifiedMeansOnChain'
<1>0. /\ TypeOK /\ HoldsAProof /\ KnowsItIsOnChain /\ VerifiedMeansOnChain
      /\ \A s \in Submissions : Proved(s) \subseteq Proved(s)'
  BY ProvedGrows DEF VInv
<1> USE DEF KnowsItIsOnChain, WritesProven, Processes
<1>1. ASSUME NEW t \in Tasks, TaskStep(t)
      PROVE  KnowsItIsOnChain' /\ WritesProven
  <2>1. CASE MarkQueued(t)
    BY <1>0, <2>1 DEF TypeOK, MarkQueued
  <2>2. CASE RecordVerified(t)
    BY <1>0, <2>2 DEF TypeOK, RecordVerified, HoldsAProof, Holding
  <2>3. CASE QueueForRetry(t) \/ TaskDbError(t)
    <3>0. UNCHANGED <<ver, txHash, chain>>
      BY <2>3 DEF QueueForRetry, TaskDbError
    <3>1. Goto(t, "done") \/ Goto(t, "failed") \/ Goto(t, "lost")
      BY <2>3 DEF QueueForRetry, TaskDbError
    <3>2. KnowsItIsOnChain'
      BY <1>0, <3>0, <3>1, GotoKeeps
    <3>3. WritesProven
      BY <3>0
    <3> QED  BY <3>2, <3>3
  <2> QED  BY <1>1, <2>1, <2>2, <2>3 DEF TaskStep
<1>2. ASSUME NEW t \in Tasks, NEW s \in Submissions, NEW n \in Nullifiers \cup {None}, Post(t, s, n)
      PROVE  KnowsItIsOnChain' /\ WritesProven
  BY <1>0, <1>2 DEF TypeOK, Post
<1>3. ASSUME NEW b \in Batches, StartBatch(b) \/ BatchStep(b)
      PROVE  KnowsItIsOnChain' /\ WritesProven
  <2>1. CASE RecordFound(b)
    BY <1>0, <2>1 DEF TypeOK, RecordFound, HoldsAProof, Holding
  <2>2. CASE RecordRetried(b)
    BY <1>0, <2>2 DEF TypeOK, RecordRetried, HoldsAProof, Holding
  <2>3. CASE ChargeAttempt(b)
    BY <1>0, <2>3 DEF TypeOK, ChargeAttempt
  <2>4. CASE StartBatch(b) \/ BatchDbError(b) \/ EndBatch(b)
    <3>1. UNCHANGED <<ver, txHash, chain>>
      BY <2>4 DEF StartBatch, BatchDbError, EndBatch
    <3>2. \A q \in Processes :
            proc'[q].pc \in {"mined", "found"} =>
              proc[q].pc \in {"mined", "found"} /\ proc'[q].nullifier = proc[q].nullifier
      <4>1. CASE StartBatch(b)
        <5> DEFINE due == {s \in Submissions : retry[s].status = "pending" /\ retry[s].due}
                   counts == [s \in Submissions |-> retry[s].count]
        <5>1. proc' = [proc EXCEPT ![b].pc = "next", ![b].todo = due, ![b].count = counts]
          BY <4>1 DEF StartBatch
        <5> HIDE DEF due, counts
        <5> QED  BY <1>0, <5>1 DEF TypeOK
      <4>2. CASE BatchDbError(b)
        <5>1. Goto(b, "next")
          BY <4>2 DEF BatchDbError
        <5> QED  BY <1>0, <5>1, GotoKeeps
      <4>3. CASE EndBatch(b)
        BY <1>0, <4>3, IdleHolds DEF EndBatch
      <4> QED  BY <2>4, <4>1, <4>2, <4>3
    <3> QED  BY <1>0, <3>1, <3>2
  <2>5. ASSUME NEW s \in Submissions, TakeRow(b, s)
        PROVE  KnowsItIsOnChain' /\ WritesProven
    BY <1>0, <2>5 DEF TypeOK, TakeRow
  <2> QED
    BY <1>3, <2>1, <2>2, <2>3, <2>4, <2>5 DEF BatchStep
<1>4. ASSUME NEW p \in Processes, CallStep(p) \/ Crash(p)
      PROVE  KnowsItIsOnChain' /\ WritesProven
  <2>1. CASE CallStep(p)
    <3>2. /\ chain \subseteq chain' /\ UNCHANGED <<ver, txHash>>
          /\ Mine(p) \/ Goto(p, "failed") \/ Goto(p, "next") \/ Goto(p, "wait")
      BY <2>1 DEF CallStep, Refuse, ThrowNonce, Send, Mine, Revert, LoseReceipt
    <3>3. CASE Mine(p)
      BY <1>0, <3>2, <3>3, GotoKeeps DEF Mine
    <3>4. CASE Goto(p, "failed") \/ Goto(p, "next") \/ Goto(p, "wait")
      <4>0. \A q \in Processes :
              proc'[q].pc \in {"mined", "found"} =>
                proc[q].pc \in {"mined", "found"} /\ proc'[q].nullifier = proc[q].nullifier
        BY <1>0, <3>4, GotoKeeps
      <4>1. KnowsItIsOnChain'
        BY <1>0, <3>2, <4>0
      <4>2. WritesProven
        BY <1>0, <3>2
      <4> QED  BY <4>1, <4>2
    <3> QED  BY <3>2, <3>3, <3>4
  <2>2. CASE Crash(p)
    BY <1>0, <2>2 DEF TypeOK, Crash, Idle
  <2> QED  BY <1>4, <2>1, <2>2
<1>5. ASSUME NEW n \in Nullifiers, MineOrphan(n)
      PROVE  KnowsItIsOnChain' /\ WritesProven
  BY <1>0, <1>5 DEF MineOrphan
<1>u. ASSUME UNCHANGED <<ver, txHash, chain, proc>>
      PROVE  KnowsItIsOnChain' /\ WritesProven
  <2>1. KnowsItIsOnChain'
    BY <1>0, <1>u
  <2> QED  BY <1>u, <2>1
<1>6. ASSUME NEW s \in Submissions, BackoffElapses(s)
      PROVE  KnowsItIsOnChain' /\ WritesProven
  BY <1>6, <1>u DEF BackoffElapses
<1>7. ASSUME UNCHANGED vars
      PROVE  KnowsItIsOnChain' /\ WritesProven
  BY <1>7, <1>u DEF vars
<1> HIDE DEF KnowsItIsOnChain, WritesProven, Processes
<1>8. KnowsItIsOnChain' /\ WritesProven
  BY <1>1, <1>2, <1>3, <1>4, <1>5, <1>6, <1>7 DEF Next, RefuseBatch
<1> QED  BY <1>0, <1>8, ProvenFrame

\* VInv is inductive.
LEMMA VInvStep == VInv /\ [Next]_vars => VInv'
  BY TypeStep, ProvedGrows, HoldStep, ChainStep DEF VInv

\* What the code keeps of "Chain = source of truth" (submissions/create/+server.ts:31),
\* whatever nullifiers the requests name: no order of tasks, batches, retries, crashes
\* and lost receipts shows a submission as verified, or keeps a transaction hash beside
\* it, before the contract recorded a proof that came with a request for it. Where all
\* those proofs name the row's own nullifier, it is that one which is recorded.
THEOREM VerifiedIsOnChain == Spec => []VerifiedMeansOnChain
<1>1. Init => VInv
  BY InitVInv
<1>2. VInv /\ [Next]_vars => VInv'
  BY VInvStep
<1>3. VInv => VerifiedMeansOnChain
  BY DEF VInv
<1> QED
  BY <1>1, <1>2, <1>3, PTL DEF Spec

\* The state stays well typed for every instance.
THEOREM TypesHold == Spec => []TypeOK
<1>1. VInv /\ [Next]_vars => VInv'
  BY VInvStep
<1>2. VInv => TypeOK
  BY DEF VInv
<1> QED
  BY <1>1, <1>2, InitVInv, PTL DEF Spec

-----------------------------------------------------------------------------
\* Where the endpoint answers for s once and one batch runs at a time, s is worked on by
\* its own promise first and by the batch alone afterwards.

\* What the queue's row says of the number of attempts and of the submission.
RowOK(s) ==
  LET row == retry[s]
  IN /\ row.status = "none" => row.count = 0 /\ ver[s] # "failed"
     /\ row.status = "pending" => row.count < MaxRetries /\ ver[s] \in {"pending", "queued"}
     /\ row.status = "succeeded" => row.count < MaxRetries /\ ver[s] = "verified"
     /\ row.status = "exhausted" => row.count = MaxRetries /\ ver[s] = "failed"

\* Before the first POST nothing has happened to s.
UntouchedOK(s) == posts[s] = 0 => ver[s] = "none" /\ retry[s].status = "none"

Serves(t, s) == proc[t].pc # "idle" /\ proc[t].sub = s

\* One task serves s, and while it runs s is neither queued for a retry nor settled.
TaskOK(s) ==
  \A t \in Tasks : Serves(t, s) =>
    /\ posts[s] # 0
    /\ \A u \in Tasks : Serves(u, s) => u = t
    /\ proc[t].pc \in Holding =>
         retry[s].status = "none" /\ ver[s] \in {"pending", "queued"}

Fresh(b, s) == retry[s].status = "pending" /\ proc[b].count[s] = retry[s].count

\* What a batch read of a row is still true while the row is before it or in its hand.
BatchOK(s) ==
  \A b \in Batches :
    /\ s \in proc[b].todo => Fresh(b, s)
    /\ proc[b].pc \in Holding /\ proc[b].sub = s => Fresh(b, s) /\ s \notin proc[b].todo

QueueOK(s) == RowOK(s) /\ UntouchedOK(s) /\ TaskOK(s) /\ BatchOK(s)

\* RetryBudget and QueueAgrees speak of rows alone and are not inductive: that nobody
\* else writes the row has to be said of those who may.
QueueInv == \A s \in Submissions : Undisturbed(s) => QueueOK(s)

\* The empty table and the empty queue.
LEMMA InitQueue == Init => QueueInv
  BY VerificationAssumption
  DEF Init, QueueInv, QueueOK, RowOK, UntouchedOK, TaskOK, BatchOK, Serves, Fresh, Holding,
      Idle, NoRetry, Processes

\* A step that leaves the row and the submission alone, and lets nobody get hold of s,
\* keeps what is said of s.
LEMMA QueueFrame ==
  ASSUME NEW s \in Submissions, QueueOK(s),
         ver'[s] = ver[s], retry'[s] = retry[s], posts'[s] = posts[s],
         \A q \in Processes :
           /\ Serves(q, s)' => Serves(q, s)
           /\ s \in proc'[q].todo => s \in proc[q].todo /\ proc'[q].count = proc[q].count
           /\ proc'[q].pc \in Holding /\ proc'[q].sub = s =>
                /\ proc[q].pc \in Holding /\ proc[q].sub = s
                /\ proc'[q].count = proc[q].count
                /\ proc'[q].todo = proc[q].todo
  PROVE  QueueOK(s)'
<1> USE DEF QueueOK, Processes
<1>1. RowOK(s)'
  BY DEF RowOK
<1>2. UntouchedOK(s)'
  BY DEF UntouchedOK
<1>3. TaskOK(s)'
  BY DEF TaskOK, Serves
<1>4. BatchOK(s)'
  BY DEF BatchOK, Fresh
<1> QED  BY <1>1, <1>2, <1>3, <1>4

\* Nor does a process that goes somewhere lose the counts it read.
LEMMA GotoKeepsCount ==
  ASSUME TypeOK, NEW p \in Processes, NEW pc, Goto(p, pc)
  PROVE  \A q \in Processes : proc'[q].count = proc[q].count
  BY DEF TypeOK

HIDE DEF Goto

\* So does a process that goes on with what it has in hand.
LEMMA GotoFrame ==
  ASSUME TypeOK, NEW s \in Submissions, QueueOK(s),
         ver'[s] = ver[s], retry'[s] = retry[s], posts'[s] = posts[s],
         NEW p \in Processes, NEW pc, Goto(p, pc),
         proc[p].pc # "idle", pc \in Holding => proc[p].pc \in Holding
  PROVE  QueueOK(s)'
<1>1. \A q \in Processes :
        /\ proc'[q].sub = proc[q].sub
        /\ proc'[q].todo = proc[q].todo
        /\ proc'[q].count = proc[q].count
        /\ proc'[q].pc = IF q = p THEN pc ELSE proc[q].pc
  BY GotoKeeps, GotoKeepsCount
<1>2. \A q \in Processes : Serves(q, s)' => Serves(q, s)
  BY <1>1 DEF Serves
<1> QED  BY <1>1, <1>2, QueueFrame

\* The steps of a task: it works on s alone, and s is not in the queue yet.
LEMMA TaskQueue ==
  ASSUME VInv, NEW s \in Submissions, Undisturbed(s), QueueOK(s),
         NEW t \in Tasks, TaskStep(t)
  PROVE  QueueOK(s)'
<1>0. TypeOK /\ HoldsAProof /\ t \in Processes
  BY DEF VInv, Processes
<1>1. posts'[s] = posts[s]
  BY DEF TaskStep, MarkQueued, RecordVerified, QueueForRetry, TaskDbError
<1>2. CASE TaskDbError(t)
  <2>1. PICK pc \in {"failed", "lost"} : Goto(t, pc)
    BY <1>2 DEF TaskDbError
  <2>2. proc[t].pc \in Holding /\ ver' = ver /\ retry' = retry
    BY <1>2 DEF TaskDbError, Holding
  <2>3. proc[t].pc # "idle"
    BY <2>2 DEF Holding
  <2> QED  BY <1>0, <1>1, <2>1, <2>2, <2>3, GotoFrame
<1>3. ASSUME MarkQueued(t) \/ RecordVerified(t) \/ QueueForRetry(t)
      PROVE  QueueOK(s)'
  <2>1. PICK pc \in {"send", "done"} :
          /\ Goto(t, pc)
          /\ proc[t].pc \in Holding /\ proc[t].pc # "idle"
    BY <1>3 DEF MarkQueued, RecordVerified, QueueForRetry, Holding
  <2>2. /\ proc[t].sub \in Submissions
        /\ \A q \in Processes :
             /\ proc'[q].sub = proc[q].sub
             /\ proc'[q].todo = proc[q].todo
             /\ proc'[q].count = proc[q].count
             /\ proc'[q].pc = IF q = t THEN pc ELSE proc[q].pc
    BY <1>0, <2>1, GotoKeeps, GotoKeepsCount DEF HoldsAProof
  <2>3. CASE proc[t].sub # s
    <3>1. ver'[s] = ver[s] /\ retry'[s] = retry[s]
      BY <1>0, <1>3, <2>2, <2>3 DEF MarkQueued, RecordVerified, QueueForRetry, TypeOK
    <3> QED  BY <1>0, <1>1, <2>1, <3>1, GotoFrame
  <2>4. CASE proc[t].sub = s
    <3>1. /\ retry[s].status = "none" /\ retry[s].count = 0 /\ posts[s] # 0
          /\ ver[s] \in {"pending", "queued"}
          /\ \A u \in Tasks : Serves(u, s) => u = t
      BY <2>1, <2>4 DEF QueueOK, TaskOK, RowOK, Serves
    <3>2. \A b \in Batches : s \notin proc[b].todo /\ ~(proc[b].pc \in Holding /\ proc[b].sub = s)
      BY <3>1 DEF QueueOK, BatchOK, Fresh
    <3>3. t \notin Batches
      BY VerificationAssumption
    <3>4. BatchOK(s)'
      BY <2>2, <3>2, <3>3 DEF BatchOK, Processes
    <3>5. UntouchedOK(s)'
      BY <1>1, <3>1 DEF UntouchedOK
    <3>6. \A u \in Tasks : Serves(u, s)' => u = t
      BY <2>1, <2>2, <3>1 DEF Serves, Processes
    <3>7. CASE MarkQueued(t)
      <4>1. ver'[s] = "queued" /\ retry' = retry
        BY <1>0, <2>4, <3>7 DEF MarkQueued, TypeOK
      <4>2. RowOK(s)' /\ TaskOK(s)'
        BY <1>1, <3>1, <3>6, <4>1 DEF RowOK, TaskOK
      <4> QED  BY <3>4, <3>5, <4>2 DEF QueueOK
    <3>8. CASE RecordVerified(t)
      <4>1. ver'[s] = "verified" /\ retry' = retry /\ proc'[t].pc = "done"
        BY <1>0, <2>2, <2>4, <3>8 DEF RecordVerified, TypeOK, Goto
      <4>2. RowOK(s)'
        BY <3>1, <4>1 DEF RowOK
      <4>3. TaskOK(s)'
        BY <1>1, <3>1, <3>6, <4>1 DEF TaskOK, Holding
      <4> QED  BY <3>4, <3>5, <4>2, <4>3 DEF QueueOK
    <3>9. CASE QueueForRetry(t)
      <4>1. ver' = ver /\ proc'[t].pc = "done"
        BY <1>0, <3>9 DEF QueueForRetry, TypeOK, Goto
      <4>2. retry'[s].status = "pending" /\ retry'[s].count = 0
        BY <1>0, <2>4, <3>1, <3>9 DEF QueueForRetry, TypeOK
      <4>3. RowOK(s)'
        BY <3>1, <4>1, <4>2, VerificationAssumption DEF RowOK
      <4>4. TaskOK(s)'
        BY <1>1, <3>1, <3>6, <4>1 DEF TaskOK, Holding
      <4> QED  BY <3>4, <3>5, <4>3, <4>4 DEF QueueOK
    <3> QED  BY <1>3, <3>7, <3>8, <3>9
  <2> QED  BY <2>3, <2>4
<1> QED
  BY <1>2, <1>3 DEF TaskStep

\* The steps of a batch: with no other batch, what it read of the rows it holds is
\* what they are.
LEMMA BatchQueue ==
  ASSUME VInv, NEW s \in Submissions, Undisturbed(s), QueueOK(s),
         NEW b \in Batches, StartBatch(b) \/ BatchStep(b)
  PROVE  QueueOK(s)'
<1>0. /\ TypeOK /\ HoldsAProof
      /\ b \in Processes /\ b \notin Tasks /\ \A a \in Batches : a = b
  BY VerificationAssumption DEF VInv, Processes, Undisturbed
<1>1. posts'[s] = posts[s]
  BY DEF BatchStep, StartBatch, TakeRow, RecordFound, RecordRetried, ChargeAttempt,
         BatchDbError, EndBatch
<1>2. CASE BatchDbError(b)
  <2>1. Goto(b, "next") /\ ver' = ver /\ retry' = retry /\ proc[b].pc # "idle"
    BY <1>2 DEF BatchDbError
  <2> QED  BY <1>0, <1>1, <2>1, GotoFrame DEF Holding
<1>3. CASE EndBatch(b)
  <2>1. /\ proc'[b].pc = "idle" /\ proc'[b].todo = {}
        /\ \A q \in Processes : q # b => proc'[q] = proc[q]
        /\ ver' = ver /\ retry' = retry
    BY <1>0, <1>3, IdleHolds DEF EndBatch
  <2>2. \A q \in Processes : Serves(q, s)' => Serves(q, s)
    BY <2>1 DEF Serves
  <2> QED  BY <1>1, <2>1, <2>2, QueueFrame DEF Holding
<1>4. CASE StartBatch(b)
  <2>1. /\ proc[b].pc = "idle" /\ ver' = ver /\ retry' = retry
        /\ \A q \in Processes : q # b => proc'[q] = proc[q]
        /\ proc'[b].pc = "next"
        /\ s \in proc'[b].todo =>
             retry[s].status = "pending" /\ proc'[b].count[s] = retry[s].count
    <3> DEFINE due == {r \in Submissions : retry[r].status = "pending" /\ retry[r].due}
               counts == [r \in Submissions |-> retry[r].count]
    <3>1. /\ proc' = [proc EXCEPT ![b].pc = "next", ![b].todo = due, ![b].count = counts]
          /\ s \in due => retry[s].status = "pending"
          /\ counts[s] = retry[s].count
      BY <1>4 DEF StartBatch
    <3>2. proc[b].pc = "idle" /\ ver' = ver /\ retry' = retry
      BY <1>4 DEF StartBatch
    <3> HIDE DEF due, counts
    <3>3. /\ \A q \in Processes : q # b => proc'[q] = proc[q]
          /\ proc'[b].pc = "next" /\ proc'[b].todo = due /\ proc'[b].count = counts
      BY <1>0, <3>1 DEF TypeOK
    <3> QED  BY <3>1, <3>2, <3>3
  <2>2. RowOK(s)' /\ UntouchedOK(s)'
    BY <1>1, <2>1 DEF QueueOK, RowOK, UntouchedOK
  <2>3. TaskOK(s)'
    BY <1>0, <1>1, <2>1 DEF QueueOK, TaskOK, Serves, Processes
  <2>4. BatchOK(s)'
    BY <1>0, <2>1 DEF BatchOK, Fresh, Holding
  <2> QED  BY <2>2, <2>3, <2>4 DEF QueueOK
<1>5. ASSUME NEW r \in Submissions, TakeRow(b, r)
      PROVE  QueueOK(s)'
  <2>1. /\ r \in proc[b].todo /\ ver' = ver /\ retry' = retry
        /\ \A q \in Processes : q # b => proc'[q] = proc[q]
        /\ proc'[b].pc \in {"found", "send"}
        /\ proc'[b].sub = r
        /\ proc'[b].todo = proc[b].todo \ {r}
        /\ proc'[b].count = proc[b].count
    BY <1>0, <1>5 DEF TakeRow, TypeOK
  <2>2. RowOK(s)' /\ UntouchedOK(s)'
    BY <1>1, <2>1 DEF QueueOK, RowOK, UntouchedOK
  <2>3. TaskOK(s)'
    BY <1>0, <1>1, <2>1 DEF QueueOK, TaskOK, Serves, Processes
  <2>4. BatchOK(s)'
    BY <1>0, <2>1 DEF QueueOK, BatchOK, Fresh
  <2> QED  BY <2>2, <2>3, <2>4 DEF QueueOK
<1>6. ASSUME RecordFound(b) \/ RecordRetried(b) \/ ChargeAttempt(b)
      PROVE  QueueOK(s)'
  <2>1. Goto(b, "next") /\ proc[b].pc \in Holding /\ proc[b].pc # "idle"
    BY <1>6 DEF RecordFound, RecordRetried, ChargeAttempt, Holding
  <2>2. /\ proc[b].sub \in Submissions
        /\ \A q \in Processes :
             /\ proc'[q].sub = proc[q].sub
             /\ proc'[q].todo = proc[q].todo
             /\ proc'[q].count = proc[q].count
             /\ proc'[q].pc = IF q = b THEN "next" ELSE proc[q].pc
    BY <1>0, <2>1, GotoKeeps, GotoKeepsCount DEF HoldsAProof
  <2>3. CASE proc[b].sub # s
    <3>1. ver'[s] = ver[s] /\ retry'[s] = retry[s]
      BY <1>0, <1>6, <2>2, <2>3 DEF RecordFound, RecordRetried, ChargeAttempt, TypeOK
    <3> QED  BY <1>0, <1>1, <2>1, <3>1, GotoFrame DEF Holding
  <2>4. CASE proc[b].sub = s
    <3>1. /\ retry[s].status = "pending" /\ retry[s].count < MaxRetries
          /\ proc[b].count[s] = retry[s].count /\ retry[s].count \in Nat
          /\ s \notin proc[b].todo
          /\ ver[s] \in {"pending", "queued"}
      BY <1>0, <2>1, <2>4 DEF QueueOK, RowOK, BatchOK, Fresh, TypeOK
    <3>2. posts[s] # 0
      BY <3>1 DEF QueueOK, UntouchedOK
    <3>3. \A t \in Tasks : Serves(t, s) => proc[t].pc \notin Holding
      BY <3>1 DEF QueueOK, TaskOK
    <3>4. TaskOK(s)'
      BY <1>0, <1>1, <2>2, <3>2, <3>3 DEF QueueOK, TaskOK, Serves, Processes
    <3>5. BatchOK(s)'
      BY <1>0, <2>2, <3>1 DEF BatchOK, Holding
    <3>6. UntouchedOK(s)'
      BY <1>1, <3>2 DEF UntouchedOK
    <3>7. RowOK(s)'
      <4>1. CASE RecordFound(b) \/ RecordRetried(b)
        <5>1. /\ ver'[s] = "verified"
              /\ retry'[s].status = "succeeded" /\ retry'[s].count = retry[s].count
          BY <1>0, <2>4, <4>1 DEF RecordFound, RecordRetried, TypeOK
        <5> QED  BY <3>1, <5>1 DEF RowOK
      <4>2. CASE ChargeAttempt(b)
        <5>1. CASE retry[s].count + 1 >= MaxRetries
          <6>1. /\ ver'[s] = "failed" /\ retry'[s].status = "exhausted"
                /\ retry'[s].count = retry[s].count + 1
            BY <1>0, <2>4, <3>1, <4>2, <5>1 DEF ChargeAttempt, TypeOK
          <6> QED  BY <3>1, <5>1, <6>1, VerificationAssumption DEF RowOK
        <5>2. CASE ~(retry[s].count + 1 >= MaxRetries)
          <6>1. /\ ver' = ver /\ retry'[s].status = "pending"
                /\ retry'[s].count = retry[s].count + 1
            BY <1>0, <2>4, <3>1, <4>2, <5>2 DEF ChargeAttempt, TypeOK
          <6> QED  BY <3>1, <5>2, <6>1, VerificationAssumption DEF RowOK
        <5> QED  BY <5>1, <5>2
      <4> QED  BY <1>6, <4>1, <4>2
    <3> QED  BY <3>4, <3>5, <3>6, <3>7 DEF QueueOK
  <2> QED  BY <2>3, <2>4
<1> QED
  BY <1>2, <1>3, <1>4, <1>5, <1>6 DEF BatchStep

\* Every step keeps what is said of a submission that stays undisturbed.
LEMMA QueueStep ==
  ASSUME VInv, NEW s \in Submissions, Undisturbed(s), QueueOK(s), Undisturbed(s)',
         [Next]_vars
  PROVE  QueueOK(s)'
<1>0. TypeOK
  BY DEF VInv
<1>1. ASSUME NEW t \in Tasks, NEW r \in Submissions, NEW n \in Nullifiers \cup {None}, Post(t, r, n)
      PROVE  QueueOK(s)'
  <2>1. /\ proc[t].pc = "idle" /\ retry' = retry
        /\ \A q \in Processes : q # t => proc'[q] = proc[q]
        /\ proc'[t].pc # "idle" /\ proc'[t].sub = r
        /\ proc'[t].todo = proc[t].todo /\ proc'[t].count = proc[t].count
        /\ t \in Processes /\ t \notin Batches
    BY <1>0, <1>1, VerificationAssumption DEF Post, TypeOK, Processes
  <2>2. CASE r # s
    <3>1. ver'[s] = ver[s] /\ posts'[s] = posts[s]
      BY <1>0, <1>1, <2>2 DEF Post, TypeOK
    <3>2. \A q \in Processes : Serves(q, s)' => Serves(q, s)
      BY <2>1, <2>2 DEF Serves
    <3> QED  BY <2>1, <2>2, <3>1, <3>2, QueueFrame
  <2>3. CASE r = s
    <3>1. posts[s] = 0 /\ posts'[s] = 1
      BY <1>0, <1>1, <2>3 DEF Post, TypeOK, Undisturbed
    <3>2. ver[s] = "none" /\ retry[s].status = "none" /\ \A u \in Tasks : ~Serves(u, s)
      BY <3>1 DEF QueueOK, UntouchedOK, TaskOK
    <3>3. ver'[s] = "pending"
      BY <1>0, <1>1, <2>3, <3>2 DEF Post, TypeOK
    <3>4. RowOK(s)' /\ UntouchedOK(s)'
      BY <2>1, <3>1, <3>2, <3>3 DEF QueueOK, RowOK, UntouchedOK
    <3>5. \A u \in Tasks : Serves(u, s)' => u = t
      BY <2>1, <3>2 DEF Serves, Processes
    <3>6. TaskOK(s)'
      BY <2>1, <3>1, <3>2, <3>3, <3>5 DEF TaskOK
    <3>7. BatchOK(s)'
      BY <2>1, <3>2 DEF QueueOK, BatchOK, Fresh, Processes
    <3> QED  BY <3>4, <3>6, <3>7 DEF QueueOK
  <2> QED  BY <2>2, <2>3
<1>2. ASSUME NEW p \in Processes, CallStep(p)
      PROVE  QueueOK(s)'
  <2>1. PICK pc \in {"failed", "next", "wait", "mined"} : Goto(p, pc)
    BY <1>2 DEF CallStep, Refuse, ThrowNonce, Send, Mine, Revert, LoseReceipt
  <2>2. /\ proc[p].pc \in Holding /\ proc[p].pc # "idle"
        /\ ver' = ver /\ retry' = retry /\ posts' = posts
    BY <1>2 DEF CallStep, Refuse, ThrowNonce, Send, Mine, Revert, LoseReceipt, Holding
  <2> QED  BY <1>0, <2>1, <2>2, GotoFrame
<1>3. ASSUME NEW p \in Processes, Crash(p)
      PROVE  QueueOK(s)'
  <2>1. ver' = ver /\ retry' = retry /\ posts' = posts /\ proc[p].pc # "idle"
    BY <1>3 DEF Crash
  <2>2. CASE p \in Tasks
    <3>1. Goto(p, "lost")
      BY <1>3, <2>2 DEF Crash, Goto
    <3> QED  BY <1>0, <2>1, <3>1, GotoFrame DEF Holding
  <2>3. CASE p \notin Tasks
    <3>1. proc' = [proc EXCEPT ![p] = Idle]
      BY <1>3, <2>3 DEF Crash
    <3>2. /\ proc'[p].pc = "idle" /\ proc'[p].todo = {}
          /\ \A q \in Processes : q # p => proc'[q] = proc[q]
      BY <1>0, <3>1, IdleHolds
    <3>3. \A q \in Processes : Serves(q, s)' => Serves(q, s)
      BY <3>2 DEF Serves
    <3> QED  BY <2>1, <3>2, <3>3, QueueFrame DEF Holding
  <2> QED  BY <2>2, <2>3
<1>4. ASSUME UNCHANGED <<ver, retry, posts, proc>>
      PROVE  QueueOK(s)'
  BY <1>4, QueueFrame DEF Serves
<1>5. ASSUME NEW n \in Nullifiers, MineOrphan(n)
      PROVE  QueueOK(s)'
  BY <1>4, <1>5 DEF MineOrphan
<1>6. ASSUME NEW r \in Submissions, BackoffElapses(r)
      PROVE  QueueOK(s)'
  <2>1. /\ ver' = ver /\ posts' = posts /\ proc' = proc
        /\ retry'[s].status = retry[s].status /\ retry'[s].count = retry[s].count
    BY <1>0, <1>6 DEF BackoffElapses, TypeOK
  <2>2. RowOK(s)' /\ UntouchedOK(s)'
    BY <2>1 DEF QueueOK, RowOK, UntouchedOK
  <2>3. TaskOK(s)' /\ BatchOK(s)'
    BY <2>1 DEF QueueOK, TaskOK, BatchOK, Serves, Fresh
  <2> QED  BY <2>2, <2>3 DEF QueueOK
<1>7. CASE UNCHANGED vars
  BY <1>4, <1>7 DEF vars
<1> QED
  BY <1>1, <1>2, <1>3, <1>5, <1>6, <1>7, TaskQueue, BatchQueue DEF Next, RefuseBatch

\* Nobody takes a POST back.
LEMMA PostsGrow ==
  ASSUME TypeOK, NEW s \in Submissions, [Next]_vars, Undisturbed(s)'
  PROVE  Undisturbed(s)
<1>1. posts'[s] = posts[s] \/ posts'[s] = posts[s] + 1
  <2>1. ASSUME NEW t \in Tasks, NEW r \in Submissions, NEW n \in Nullifiers \cup {None}, Post(t, r, n)
        PROVE  posts'[s] = posts[s] \/ posts'[s] = posts[s] + 1
    BY <2>1 DEF Post, TypeOK
  <2>2. ASSUME NEW t \in Tasks, TaskStep(t)
        PROVE  posts' = posts
    BY <2>2 DEF TaskStep, MarkQueued, RecordVerified, QueueForRetry, TaskDbError
  <2>3. ASSUME NEW b \in Batches, StartBatch(b) \/ BatchStep(b)
        PROVE  posts' = posts
    BY <2>3 DEF BatchStep, StartBatch, TakeRow, RecordFound, RecordRetried, ChargeAttempt,
                BatchDbError, EndBatch
  <2>4. ASSUME NEW p \in Processes, CallStep(p) \/ Crash(p)
        PROVE  posts' = posts
    BY <2>4 DEF CallStep, Refuse, ThrowNonce, Send, Mine, Revert, LoseReceipt, Crash
  <2>5. (\E n \in Nullifiers : MineOrphan(n)) \/ (\E r \in Submissions : BackoffElapses(r)) => posts' = posts
    BY DEF MineOrphan, BackoffElapses
  <2> QED  BY <2>1, <2>2, <2>3, <2>4, <2>5 DEF Next, RefuseBatch, vars
<1>2. posts[s] \in Nat
  BY VerificationAssumption DEF TypeOK
<1> QED  BY <1>1, <1>2 DEF Undisturbed

\* QueueInv is inductive together with VInv.
LEMMA QueueInvStep == VInv /\ QueueInv /\ [Next]_vars => QueueInv'
<1> SUFFICES ASSUME VInv, QueueInv, [Next]_vars, NEW s \in Submissions, Undisturbed(s)'
             PROVE  QueueOK(s)'
  BY DEF QueueInv
<1>1. Undisturbed(s) /\ QueueOK(s)
  BY PostsGrow DEF VInv, QueueInv
<1> QED  BY <1>1, QueueStep

\* "Give up after 4 attempts" (submission-retry-queue.ts:7), for every limit: where the
\* endpoint answers for a submission once and one batch runs at a time, the count read
\* when the batch started is still the row's when it is written back, so that no attempt
\* is forgotten and none is made beyond the limit.
THEOREM AttemptsAreCounted == Spec => []RetryBudget
<1>1. VInv /\ QueueInv => RetryBudget
  <2> SUFFICES ASSUME VInv, QueueInv, NEW s \in Submissions, Undisturbed(s)
               PROVE  /\ retry[s].count <= MaxRetries
                      /\ retry[s].status = "exhausted" <=> retry[s].count = MaxRetries
    BY DEF RetryBudget
  <2>1. RowOK(s) /\ retry[s].count \in Nat /\ retry[s].status \in RetryStatuses
    BY DEF QueueInv, QueueOK, VInv, TypeOK
  <2> QED  BY <2>1, VerificationAssumption DEF RowOK, RetryStatuses
<1>2. VInv /\ QueueInv /\ [Next]_vars => VInv' /\ QueueInv'
  BY VInvStep, QueueInvStep
<1> QED
  BY <1>1, <1>2, InitVInv, InitQueue, PTL DEF Spec

\* The queue and the submission tell one story in every interleaving of the promise, the
\* batch, their faults and late receipts.
THEOREM QueueAndRowAgree == Spec => []QueueAgrees
<1>1. ASSUME VInv, QueueInv
      PROVE  QueueAgrees
  <2>1. ASSUME NEW s \in Submissions, RowOK(s)
        PROVE  CASE retry[s].status = "pending"   -> ver[s] \in {"pending", "queued"}
                 [] retry[s].status = "succeeded" -> ver[s] = "verified"
                 [] retry[s].status = "exhausted" -> ver[s] = "failed"
                 [] OTHER                         -> ver[s] # "failed"
    <3>1. retry[s].status \in RetryStatuses
      BY <1>1 DEF VInv, TypeOK
    <3> QED  BY <2>1, <3>1 DEF RowOK, RetryStatuses
  <2> QED  BY <1>1, <2>1 DEF QueueInv, QueueOK, QueueAgrees
<1>2. VInv /\ QueueInv /\ [Next]_vars => VInv' /\ QueueInv'
  BY VInvStep, QueueInvStep
<1> QED
  BY <1>1, <1>2, InitVInv, InitQueue, PTL DEF Spec

\* Only the promise that serves s and the batch that holds it write over a status, and
\* neither does once s is verified.
LEMMA VerifiedStays ==
  ASSUME VInv, QueueInv, [Next]_vars,
         NEW s \in Submissions, Undisturbed(s)', ver[s] = "verified"
  PROVE  ver'[s] = "verified"
<1>0. TypeOK /\ HoldsAProof /\ Undisturbed(s) /\ QueueOK(s)
  BY PostsGrow DEF VInv, QueueInv
<1>1. ASSUME NEW t \in Tasks, TaskStep(t)
      PROVE  ver'[s] = "verified"
  <2>1. CASE MarkQueued(t)
    <3>1. proc[t].pc \in Holding /\ proc[t].pc # "idle"
      BY <2>1 DEF MarkQueued, Holding
    <3>2. proc[t].sub # s
      BY <1>0, <3>1 DEF QueueOK, TaskOK, Serves
    <3> QED  BY <1>0, <2>1, <3>2 DEF MarkQueued, TypeOK
  <2>2. CASE RecordVerified(t)
    BY <1>0, <2>2 DEF RecordVerified, TypeOK
  <2>3. CASE QueueForRetry(t) \/ TaskDbError(t)
    BY <2>3 DEF QueueForRetry, TaskDbError
  <2> QED  BY <1>1, <2>1, <2>2, <2>3 DEF TaskStep
<1>2. ASSUME NEW b \in Batches, StartBatch(b) \/ BatchStep(b)
      PROVE  ver'[s] = "verified"
  <2>1. CASE RecordFound(b) \/ RecordRetried(b)
    BY <1>0, <2>1 DEF RecordFound, RecordRetried, TypeOK
  <2>2. CASE ChargeAttempt(b)
    <3>1. proc[b].pc \in Holding
      BY <2>2 DEF ChargeAttempt, Holding
    <3>2. retry[s].status # "pending"
      BY <1>0 DEF QueueOK, RowOK
    <3>3. proc[b].sub # s
      BY <1>0, <3>1, <3>2 DEF QueueOK, BatchOK, Fresh
    <3> QED  BY <1>0, <2>2, <3>3 DEF ChargeAttempt, TypeOK
  <2>3. CASE StartBatch(b) \/ BatchDbError(b) \/ EndBatch(b) \/ \E r \in Submissions : TakeRow(b, r)
    BY <2>3 DEF StartBatch, BatchDbError, EndBatch, TakeRow
  <2> QED  BY <1>2, <2>1, <2>2, <2>3 DEF BatchStep
<1>3. ASSUME NEW t \in Tasks, NEW r \in Submissions, NEW n \in Nullifiers \cup {None}, Post(t, r, n)
      PROVE  ver'[s] = "verified"
  BY <1>0, <1>3 DEF Post, TypeOK
<1>4. ASSUME NEW p \in Processes, CallStep(p) \/ Crash(p)
      PROVE  ver' = ver
  BY <1>4 DEF CallStep, Refuse, ThrowNonce, Send, Mine, Revert, LoseReceipt, Crash
<1>5. (\E n \in Nullifiers : MineOrphan(n)) \/ (\E r \in Submissions : BackoffElapses(r)) => ver' = ver
  BY DEF MineOrphan, BackoffElapses
<1> QED
  BY <1>1, <1>2, <1>3, <1>4, <1>5 DEF Next, RefuseBatch, vars

\* No retry, no late receipt and no batch that starts over after a crash takes a
\* verification back, whatever the number of submissions in the table and in the queue.
THEOREM VerifiedStaysVerified == Spec => VerifiedIsFinal
<1>1. VInv /\ QueueInv /\ [Next]_vars =>
        [\A s \in Submissions :
           Undisturbed(s)' /\ ver[s] = "verified" => ver'[s] = "verified"]_vars
  BY VerifiedStays
<1>2. VInv /\ QueueInv /\ [Next]_vars => VInv' /\ QueueInv'
  BY VInvStep, QueueInvStep
<1> QED
  BY <1>1, <1>2, InitVInv, InitQueue, PTL DEF Spec, VerifiedIsFinal
=============================================================================
