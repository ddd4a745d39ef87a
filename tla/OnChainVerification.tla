------------------------- MODULE OnChainVerification -------------------------
(***************************************************************************)
(* On-chain verification of submissions: the promise the create endpoint   *)
(* starts, the retry queue it falls back to                                *)
(* (lib/core/blockchain/submission-retry-queue.ts), the batch that works   *)
(* the queue off, and the DistrictGate contract they both send to          *)
(* (verifyOnChain and isNullifierUsed of district-gate-client.ts).         *)
(*                                                                         *)
(* A submission is named by the nullifier it was stored with; the proof    *)
(* that a request brings may name another, since nothing compares the two. *)
(* The contract records a nullifier (of an action domain) once and reverts *)
(* every later transaction for it. A transaction is mined some time after  *)
(* it was sent, whether or not its sender still waits for the receipt.     *)
(***************************************************************************)
EXTENDS Integers

CONSTANTS
  Submissions,  \* rows of the submission table, by nullifier
  Nullifiers,   \* what the public inputs of a proof may name
  Tasks,        \* background promises of POSTs to create; each starts once
  Batches,      \* callers of processRetryQueue that may run at the same time
  MaxRetries,   \* MAX_RETRIES of the retry queue
  MaxPosts,     \* bound: how often a POST is answered with one submission
  Faults,       \* what may go wrong beneath the code, see FaultKinds
  None

FaultKinds ==
  {"crash",  \* the isolate is evicted and its promises never resume
   "db",     \* a statement or transaction throws
   "rpc"}    \* the RPC loses a receipt, a view call or a nonce read

ASSUME VerificationAssumption ==
  /\ MaxRetries \in Nat \ {0}
  /\ MaxPosts \in Nat
  /\ Faults \subseteq FaultKinds
  /\ None \notin Submissions \cup Nullifiers
  /\ Tasks \cap Batches = {}

VARIABLES
  ver,      \* ver[s]: verification_status
  txHash,   \* txHash[s]: the nullifier the recorded transaction proves, or None
  retry,    \* retry[s]: the submission_retry row of s
  chain,    \* nullifiers the contract has recorded
  orphans,  \* nullifiers of sent transactions nobody waits for any more
  posts,    \* posts[s]: POSTs answered with s
  proc      \* where each task and batch is and what it has in hand

vars == <<ver, txHash, retry, chain, orphans, posts, proc>>
rows == <<ver, txHash, retry>>

Processes == Tasks \cup Batches

NoRetry == [status |-> "none", count |-> 0, nullifier |-> None, due |-> FALSE]

\* `sub' is the row a process works on, `nullifier' the one in its proof. A batch
\* holds the rows it read when it started: `todo', with `count' as it was then.
Idle == [pc |-> "idle", sub |-> None, nullifier |-> None,
         todo |-> {}, count |-> [s \in Submissions |-> 0]]

Init ==
  /\ ver = [s \in Submissions |-> "none"]
  /\ txHash = [s \in Submissions |-> None]
  /\ retry = [s \in Submissions |-> NoRetry]
  /\ chain = {}
  /\ orphans = {}
  /\ posts = [s \in Submissions |-> 0]
  /\ proc = [p \in Processes |-> Idle]

At(p, pc) == proc[p].pc = pc
Goto(p, pc) == proc' = [proc EXCEPT ![p].pc = pc]

-----------------------------------------------------------------------------
(* The create endpoint.                                                    *)

\* A POST is answered with submission s: the one it creates, the one its user stored
\* under the body's nullifier, or the one its idempotency key finds, whose nullifier is
\* not looked at. The proof it brings names n, which is compared with nothing. Public
\* inputs that are not the 31 of a proof (None) start no verification.
Post(t, s, n) ==
  /\ At(t, "idle")
  /\ posts[s] < MaxPosts
  /\ posts' = [posts EXCEPT ![s] = @ + 1]
  /\ ver' = IF ver[s] = "none" THEN [ver EXCEPT ![s] = "pending"] ELSE ver
  /\ proc' = [proc EXCEPT ![t].pc = IF n = None THEN "done" ELSE "queue",
                          ![t].sub = s, ![t].nullifier = n]
  /\ UNCHANGED <<txHash, retry, chain, orphans>>

MarkQueued(t) ==
  /\ At(t, "queue")
  /\ ver' = [ver EXCEPT ![proc[t].sub] = "queued"]
  /\ Goto(t, "send")
  /\ UNCHANGED <<txHash, retry, chain, orphans, posts>>

\* verifyOnChain returned a transaction hash.
RecordVerified(t) ==
  /\ t \in Tasks /\ At(t, "mined")
  /\ ver' = [ver EXCEPT ![proc[t].sub] = "verified"]
  /\ txHash' = [txHash EXCEPT ![proc[t].sub] = proc[t].nullifier]
  /\ Goto(t, "done")
  /\ UNCHANGED <<retry, chain, orphans, posts>>

\* Mutant of QueueForRetry: a failed verification is only logged.
FailureOnlyLogged(t) ==
  /\ t \in Tasks /\ At(t, "failed")
  /\ Goto(t, "done")
  /\ UNCHANGED <<rows, chain, orphans, posts>>

\* queueForRetry: an upsert that keeps the count of a row it finds.
QueueForRetry(t) ==
  /\ t \in Tasks /\ At(t, "failed")
  /\ retry' = [retry EXCEPT ![proc[t].sub] =
       IF @.status = "none"
         THEN [status |-> "pending", count |-> 0,
               nullifier |-> proc[t].nullifier, due |-> FALSE]
         ELSE [@ EXCEPT !.status = "pending", !.due = FALSE]]
  /\ Goto(t, "done")
  /\ UNCHANGED <<ver, txHash, chain, orphans, posts>>

\* A statement of the task throws: every throw is caught and queued, and a throw
\* of queueForRetry itself is swallowed, which loses the verification.
TaskDbError(t) ==
  /\ "db" \in Faults
  /\ t \in Tasks
  /\ \/ (At(t, "queue") \/ At(t, "mined")) /\ Goto(t, "failed")
     \/ At(t, "failed") /\ Goto(t, "lost")
  /\ UNCHANGED <<rows, chain, orphans, posts>>

-----------------------------------------------------------------------------
(* verifyOnChain, called by a task or for a row of a batch, and the chain. *)

\* The circuit breaker, the validation, the configuration, the balance or the RPC
\* ends the call before a transaction is sent.
Refuse(p) ==
  /\ At(p, "send")
  /\ Goto(p, "failed")
  /\ UNCHANGED <<rows, chain, orphans, posts>>

\* The nonce read throws out of verifyOnChain: a task queues a retry, a batch logs
\* the error and goes on without charging the row an attempt.
ThrowNonce(p) ==
  /\ "rpc" \in Faults
  /\ At(p, "send")
  /\ Goto(p, IF p \in Tasks THEN "failed" ELSE "next")
  /\ UNCHANGED <<rows, chain, orphans, posts>>

\* Mutant of Send: reports success with the hash of a transaction not yet mined.
SendDoesNotWait(p) ==
  /\ At(p, "send")
  /\ Goto(p, "mined")
  /\ UNCHANGED <<rows, chain, orphans, posts>>

Send(p) ==
  /\ At(p, "send")
  /\ Goto(p, "wait")
  /\ UNCHANGED <<rows, chain, orphans, posts>>

Mine(p) ==
  /\ At(p, "wait")
  /\ proc[p].nullifier \notin chain
  /\ chain' = chain \cup {proc[p].nullifier}
  /\ Goto(p, "mined")
  /\ UNCHANGED <<rows, orphans, posts>>

\* The contract reverts: the nullifier is recorded, the EIP-712 nonce was used by a
\* concurrent call, the root or the action domain is not accepted.
Revert(p) ==
  /\ At(p, "wait")
  /\ Goto(p, "failed")
  /\ UNCHANGED <<rows, chain, orphans, posts>>

\* The transaction is left to its fate when its sender stops waiting.
Abandon(p) ==
  orphans' = IF At(p, "wait") THEN orphans \cup {proc[p].nullifier} ELSE orphans

LoseReceipt(p) ==
  /\ "rpc" \in Faults
  /\ At(p, "wait") \/ At(p, "mined")
  /\ Abandon(p)
  /\ Goto(p, "failed")
  /\ UNCHANGED <<rows, chain, posts>>

MineOrphan(n) ==
  /\ n \in orphans
  /\ orphans' = orphans \ {n}
  /\ chain' = chain \cup {n}
  /\ UNCHANGED <<rows, posts, proc>>

-----------------------------------------------------------------------------
(* processRetryQueue.                                                      *)

\* next_retry_at passes.
BackoffElapses(s) ==
  /\ retry[s].status = "pending" /\ ~retry[s].due
  /\ retry' = [retry EXCEPT ![s].due = TRUE]
  /\ UNCHANGED <<ver, txHash, chain, orphans, posts, proc>>

\* The breaker does not let the batch through: the call returns 0.
RefuseBatch(b) ==
  /\ b \in Batches /\ At(b, "idle")
  /\ UNCHANGED vars

\* The breaker lets the batch through, which reads the rows that are due.
StartBatch(b) ==
  LET dueRows == {s \in Submissions : retry[s].status = "pending" /\ retry[s].due}
  IN /\ b \in Batches /\ At(b, "idle")
     /\ dueRows # {}
     /\ proc' = [proc EXCEPT ![b].pc = "next", ![b].todo = dueRows,
                             ![b].count = [s \in Submissions |-> retry[s].count]]
     /\ UNCHANGED <<rows, chain, orphans, posts>>

\* Take the next row and ask the contract whether its nullifier is recorded; an RPC
\* error counts as no.
TakeRow(b, s) ==
  /\ At(b, "next") /\ s \in proc[b].todo
  /\ \E used \in BOOLEAN :
       /\ used => retry[s].nullifier \in chain
       /\ retry[s].nullifier \in chain => used \/ "rpc" \in Faults
       /\ proc' = [proc EXCEPT ![b].pc = IF used THEN "found" ELSE "send",
                               ![b].sub = s,
                               ![b].nullifier = retry[s].nullifier,
                               ![b].todo = @ \ {s}]
  /\ UNCHANGED <<rows, chain, orphans, posts>>

\* Mutant of RecordFound: the submission is forgotten.
FoundForgetsSubmission(b) ==
  /\ At(b, "found")
  /\ retry' = [retry EXCEPT ![proc[b].sub].status = "succeeded"]
  /\ Goto(b, "next")
  /\ UNCHANGED <<ver, txHash, chain, orphans, posts>>

\* The nullifier was recorded before: no transaction hash to store.
RecordFound(b) ==
  /\ At(b, "found")
  /\ retry' = [retry EXCEPT ![proc[b].sub].status = "succeeded"]
  /\ ver' = [ver EXCEPT ![proc[b].sub] = "verified"]
  /\ Goto(b, "next")
  /\ UNCHANGED <<txHash, chain, orphans, posts>>

\* Mutant of RecordRetried: the row stays in the queue.
RetriedStaysQueued(b) ==
  /\ b \in Batches /\ At(b, "mined")
  /\ ver' = [ver EXCEPT ![proc[b].sub] = "verified"]
  /\ txHash' = [txHash EXCEPT ![proc[b].sub] = proc[b].nullifier]
  /\ Goto(b, "next")
  /\ UNCHANGED <<retry, chain, orphans, posts>>

RecordRetried(b) ==
  /\ b \in Batches /\ At(b, "mined")
  /\ retry' = [retry EXCEPT ![proc[b].sub].status = "succeeded"]
  /\ ver' = [ver EXCEPT ![proc[b].sub] = "verified"]
  /\ txHash' = [txHash EXCEPT ![proc[b].sub] = proc[b].nullifier]
  /\ Goto(b, "next")
  /\ UNCHANGED <<chain, orphans, posts>>

\* Mutant of ChargeAttempt: gives up one attempt late.
OneAttemptTooMany(b) ==
  LET s == proc[b].sub
      newCount == proc[b].count[s] + 1
  IN /\ b \in Batches /\ At(b, "failed")
     /\ IF newCount > MaxRetries
          THEN /\ retry' = [retry EXCEPT ![s].status = "exhausted", ![s].count = newCount]
               /\ ver' = [ver EXCEPT ![s] = "failed"]
          ELSE /\ retry' = [retry EXCEPT ![s].count = newCount, ![s].due = FALSE]
               /\ UNCHANGED ver
     /\ Goto(b, "next")
     /\ UNCHANGED <<txHash, chain, orphans, posts>>

\* The attempt failed: count it, from the count the batch read, and give up or
\* schedule the next one.
ChargeAttempt(b) ==
  LET s == proc[b].sub
      newCount == proc[b].count[s] + 1
  IN /\ b \in Batches /\ At(b, "failed")
     /\ IF newCount >= MaxRetries
          THEN /\ retry' = [retry EXCEPT ![s].status = "exhausted", ![s].count = newCount]
               /\ ver' = [ver EXCEPT ![s] = "failed"]
          ELSE /\ retry' = [retry EXCEPT ![s].count = newCount, ![s].due = FALSE]
               /\ UNCHANGED ver
     /\ Goto(b, "next")
     /\ UNCHANGED <<txHash, chain, orphans, posts>>

\* A transaction of the batch throws: the error is logged and the row left as it is.
BatchDbError(b) ==
  /\ "db" \in Faults
  /\ b \in Batches /\ proc[b].pc \in {"found", "mined", "failed"}
  /\ Goto(b, "next")
  /\ UNCHANGED <<rows, chain, orphans, posts>>

EndBatch(b) ==
  /\ At(b, "next") /\ proc[b].todo = {}
  /\ proc' = [proc EXCEPT ![b] = Idle]
  /\ UNCHANGED <<rows, chain, orphans, posts>>

\* A task is lost for good; a batch starts over at the next call.
Crash(p) ==
  /\ "crash" \in Faults
  /\ proc[p].pc \notin {"idle", "done", "lost"}
  /\ Abandon(p)
  /\ proc' = [proc EXCEPT ![p] = IF p \in Tasks THEN [@ EXCEPT !.pc = "lost"] ELSE Idle]
  /\ UNCHANGED <<rows, chain, posts>>

-----------------------------------------------------------------------------
TaskStep(t) == MarkQueued(t) \/ RecordVerified(t) \/ QueueForRetry(t) \/ TaskDbError(t)

CallStep(p) == Refuse(p) \/ ThrowNonce(p) \/ Send(p) \/ Mine(p) \/ Revert(p) \/ LoseReceipt(p)

BatchStep(b) ==
  \/ RecordFound(b) \/ RecordRetried(b) \/ ChargeAttempt(b)
  \/ BatchDbError(b) \/ EndBatch(b)
  \/ \E s \in Submissions : TakeRow(b, s)

Next ==
  \/ \E t \in Tasks : TaskStep(t)
  \/ \E t \in Tasks, s \in Submissions, n \in Nullifiers \cup {None} : Post(t, s, n)
  \/ \E b \in Batches : RefuseBatch(b) \/ StartBatch(b) \/ BatchStep(b)
  \/ \E p \in Processes : CallStep(p) \/ Crash(p)
  \/ \E n \in Nullifiers : MineOrphan(n)
  \/ \E s \in Submissions : BackoffElapses(s)

Spec == Init /\ [][Next]_vars

Taken(b) == \E s \in Submissions : TakeRow(b, s)
Called(b) == Refuse(b) \/ Send(b)
Answered(b) == Mine(b) \/ Revert(b)
Recorded(b) == RecordFound(b) \/ RecordRetried(b) \/ ChargeAttempt(b)

\* A task or batch that has started runs on while its isolate lives, and backoffs
\* elapse. Nothing makes a batch start: the repository has no caller of
\* processRetryQueue, and the breaker may refuse every call. No fault strikes every
\* time: a step of a batch that is struck again and again is done in the end.
Fairness ==
  /\ \A t \in Tasks : WF_vars(TaskStep(t) \/ CallStep(t))
  /\ \A s \in Submissions : WF_vars(BackoffElapses(s))
  /\ \A b \in Batches :
       /\ WF_vars(BatchStep(b) \/ CallStep(b))
       /\ SF_vars(Taken(b))
       /\ SF_vars(Called(b))
       /\ SF_vars(Answered(b))
       /\ SF_vars(Recorded(b))

FairSpec == Spec /\ Fairness

-----------------------------------------------------------------------------
(* Properties.                                                             *)

VerStatuses == {"none", "pending", "queued", "verified", "failed"}
RetryStatuses == {"none", "pending", "succeeded", "exhausted"}
Pcs == {"idle", "queue", "next", "found", "send", "wait", "mined", "failed", "done", "lost"}

TypeOK ==
  /\ ver \in [Submissions -> VerStatuses]
  /\ txHash \in [Submissions -> Nullifiers \cup {None}]
  /\ retry \in [Submissions ->
       [status : RetryStatuses, count : Nat, nullifier : Nullifiers \cup {None},
        due : BOOLEAN]]
  /\ chain \subseteq Nullifiers
  /\ orphans \subseteq Nullifiers
  /\ posts \in [Submissions -> 0..MaxPosts]
  /\ proc \in [Processes ->
       [pc : Pcs, sub : Submissions \cup {None}, nullifier : Nullifiers \cup {None},
        todo : SUBSET Submissions, count : [Submissions -> Nat]]]

\* The nullifiers in the proofs of the requests that were answered with s.
Proved(s) == {proc[t].nullifier : t \in {u \in Tasks : proc[u].sub = s}} \ {None}

\* Whoever was answered with s brought the proof of the nullifier s was stored with.
Matching(s) == Proved(s) \subseteq {s}

\* "Chain = source of truth: verification_status set only after on-chain
\* confirmation" (submissions/create/+server.ts:31). What the code keeps of it: a
\* submission reads verified only after the contract has recorded a proof that came
\* with a request answered by this row, and the hash kept beside it is of such a
\* proof. That it is the row's own nullifier which the contract recorded follows only
\* if the requests' proofs name it: :122-131 returns a row by its idempotency key
\* alone, and the body's nullifier is never compared with the proof's public inputs.
VerifiedMeansOnChain ==
  \A s \in Submissions :
    /\ ver[s] = "verified" => Proved(s) \cap chain # {}
    /\ txHash[s] # None => txHash[s] \in Proved(s) \cap chain
    /\ Matching(s) /\ ver[s] = "verified" => s \in chain

\* The guards of the code presuppose that the create endpoint answers for s once and
\* that processRetryQueue is not called while it runs.
Undisturbed(s) == posts[s] <= 1 /\ \A a, b \in Batches : a = b

\* A verified submission stays verified: no retry, no late receipt and no batch that
\* starts over after a crash takes it back.
VerifiedIsFinal ==
  [][\A s \in Submissions :
       Undisturbed(s)' /\ ver[s] = "verified" => ver'[s] = "verified"]_vars

\* "Give up after 4 attempts" (submission-retry-queue.ts:7): the count never passes
\* the limit, and reaching it and giving up are the same thing.
RetryBudget ==
  \A s \in Submissions : Undisturbed(s) =>
    /\ retry[s].count <= MaxRetries
    /\ retry[s].status = "exhausted" <=> retry[s].count = MaxRetries

\* The queue and the submission tell one story: what the queue settled, the
\* submission shows, and what it has yet to try is not shown as settled.
QueueAgrees ==
  \A s \in Submissions : Undisturbed(s) =>
    CASE retry[s].status = "pending"   -> ver[s] \in {"pending", "queued"}
      [] retry[s].status = "succeeded" -> ver[s] = "verified"
      [] retry[s].status = "exhausted" -> ver[s] = "failed"
      [] OTHER                         -> ver[s] # "failed"

Lost(s) == \E t \in Tasks : proc[t].sub = s /\ At(t, "lost")

\* The row is due for another attempt, and no batch is at work.
Waits(s) ==
  /\ retry[s].status = "pending" /\ retry[s].due
  /\ \A b \in Batches : At(b, "idle")

=============================================================================
