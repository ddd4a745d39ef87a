------------------------- MODULE SubmissionDelivery -------------------------
(***************************************************************************)
(* Delivery of a constituent's submission to the offices of Congress that  *)
(* represent them (lib/server/delivery-worker.ts), together with everything*)
(* that starts a worker or changes the row it works on: the create and     *)
(* retry endpoints and the witness cleanup cron.                           *)
(*                                                                         *)
(* A worker is a promise in the isolate that served a request. It reads    *)
(* and writes the row in separate statements, so any two workers of one    *)
(* submission interleave between any two of their steps.                   *)
(***************************************************************************)
EXTENDS Integers, FiniteSets

CONSTANTS
  Submissions,  \* rows of the submission table
  Runs,         \* executions of processSubmissionDelivery, numbered as they start
  Offices,      \* the representatives Shadow Atlas returns for the district
  Senate,       \* those in the Senate, which may not accept CWC messages
  Attempts,     \* MAX_RETRIES of fetchWithRetry: POSTs for one message
  MaxPosts,     \* bound: how often one submission is POSTed to create
  Faults        \* what may go wrong beneath the code, see FaultKinds

FaultKinds ==
  {"crash",       \* the isolate is evicted and its promises never resume
   "db",          \* a statement on the row throws
   "lost_reply"}  \* an office accepts a message and its reply times out

ASSUME DeliveryAssumption ==
  /\ Offices # {}
  /\ Senate \subseteq Offices
  /\ Attempts \in Nat \ {0}
  /\ MaxPosts \in Nat
  /\ Runs \subseteq Nat
  /\ Faults \subseteq FaultKinds

VARIABLES
  row,    \* row[s]: the delivery columns of submission s
  posts,  \* posts[s]: POSTs to create that were answered with s
  run,    \* run[w]: where worker w is and what it has in hand
  inbox   \* inbox[s][o]: copies of the message of s that office o accepted

vars == <<row, posts, run, inbox>>

\* What became of one office; "none" while the worker has not tried it.
\* "submitted" stands for the code's submitted and queued; "refused" for a failed or
\* rejected that came in a reply, with a message id; "other" for a status of the
\* Senate API's own.
Outcomes == {"none", "submitted", "failed", "refused", "other", "cwc_unavailable"}
WithMessageId == {"submitted", "refused", "other"}
Failures == {"failed", "refused"}

NoRow == [status |-> "none", error |-> FALSE, delivered_at |-> FALSE,
          messageIds |-> {}, witness |-> "erased", expired |-> FALSE]

NoRun == [pc |-> "idle", sub |-> "none", result |-> [o \in Offices |-> "none"]]

\* "lost" workers were evicted, or could not even write that they failed.
Working == {"mark", "read", "submit", "fail"}
Active(s) == {w \in Runs : run[w].sub = s /\ run[w].pc \in Working}

Init ==
  /\ row = [s \in Submissions |-> NoRow]
  /\ posts = [s \in Submissions |-> 0]
  /\ run = [w \in Runs |-> NoRun]
  /\ inbox = [s \in Submissions |-> [o \in Offices |-> 0]]

-----------------------------------------------------------------------------
(* What starts a worker.                                                   *)

Launch(w, s) ==
  /\ run[w].pc = "idle"
  /\ \A v \in Runs : v < w => run[v].pc # "idle"
  /\ run' = [run EXCEPT ![w].pc = "mark", ![w].sub = s]

\* Mutant of Post: an upsert that stores the witness of the repeated request.
PostReseals(w, s) ==
  /\ posts[s] < MaxPosts
  /\ posts' = [posts EXCEPT ![s] = @ + 1]
  /\ row' = [row EXCEPT ![s] = IF @.status = "none"
       THEN [NoRow EXCEPT !.status = "pending", !.witness = "sealed"]
       ELSE [@ EXCEPT !.witness = "sealed"]]
  /\ Launch(w, s)
  /\ UNCHANGED inbox

\* POST /api/submissions/create. The row is created unless the idempotency key or
\* the nullifier finds it already there; the worker starts in either case.
Post(w, s) ==
  /\ posts[s] < MaxPosts
  /\ posts' = [posts EXCEPT ![s] = @ + 1]
  /\ IF row[s].status = "none"
       THEN row' = [row EXCEPT ![s] =
                      [NoRow EXCEPT !.status = "pending", !.witness = "sealed"]]
       ELSE UNCHANGED row
  /\ Launch(w, s)
  /\ UNCHANGED inbox

\* Mutant of Retry: it also accepts a row in work.
RetryInWork(w, s) ==
  /\ row[s].status \in {"failed", "processing"}
  /\ row' = [row EXCEPT ![s].status = "pending", ![s].error = FALSE]
  /\ Launch(w, s)
  /\ UNCHANGED <<posts, inbox>>

\* POST /api/submissions/[id]/retry, which claims a failed row before it starts.
Retry(w, s) ==
  /\ row[s].status = "failed"
  /\ row' = [row EXCEPT ![s].status = "pending", ![s].error = FALSE]
  /\ Launch(w, s)
  /\ UNCHANGED <<posts, inbox>>

-----------------------------------------------------------------------------
(* The worker.                                                             *)

At(w, pc) == run[w].pc = pc
Goto(w, pc) == run' = [run EXCEPT ![w].pc = pc]

\* The promise ends, and what it had in hand is gone.
Stop(w, pc) == run' = [run EXCEPT ![w] = [NoRun EXCEPT !.pc = pc, !.sub = run[w].sub]]

MarkProcessing(w) ==
  /\ At(w, "mark")
  /\ row' = [row EXCEPT ![run[w].sub].status = "processing"]
  /\ Goto(w, "read")
  /\ UNCHANGED <<posts, inbox>>

\* Read the row, decrypt the witness, look up officials and template. From here on
\* the worker holds the constituent's data itself.
ReadSubmission(w) ==
  /\ At(w, "read")
  /\ row[run[w].sub].witness = "sealed"
  /\ Goto(w, "submit")
  /\ UNCHANGED <<row, posts, inbox>>

\* Mutant of Throw: an error while the witness is resolved escapes the try block.
ThrowEscapes(w) ==
  /\ "db" \in Faults
  /\ \/ At(w, "mark")
     \/ At(w, "submit") /\ \A o \in Offices : run[w].result[o] # "none"
  /\ Goto(w, "fail")
  /\ UNCHANGED <<row, posts, inbox>>

\* A statement throws, or the witness cannot be resolved: it was erased, it does
\* not decrypt, no officials or no template are found.
Throw(w) ==
  /\ \/ At(w, "read")
     \/ "db" \in Faults /\ At(w, "mark")
     \/ "db" \in Faults /\ At(w, "submit") /\ \A o \in Offices : run[w].result[o] # "none"
  /\ Goto(w, "fail")
  /\ UNCHANGED <<row, posts, inbox>>

\* The statuses an office's answer can carry, and the copies that may arrive: every
\* attempt but the last one answered may have been accepted with its reply lost.
Answers(o) ==
  IF o \in Senate THEN Outcomes \ {"none"} ELSE {"submitted", "failed"}

Copies(outcome) ==
  LET lost == IF "lost_reply" \in Faults THEN 0..Attempts ELSE {0}
      before == lost \ {Attempts}
  IN CASE outcome = "cwc_unavailable" -> {0}
       [] outcome = "failed"          -> lost
       [] outcome = "refused"         -> before
       [] OTHER                       -> {n + 1 : n \in before}

SubmitToOffice(w, o) ==
  /\ At(w, "submit")
  /\ run[w].result[o] = "none"
  /\ \E outcome \in Answers(o) : \E n \in Copies(outcome) :
       /\ run' = [run EXCEPT ![w].result[o] = outcome]
       /\ inbox' = [inbox EXCEPT ![run[w].sub][o] = @ + n]
  /\ UNCHANGED <<row, posts>>

\* Mutant of OverallStatus: whatever did not fail was delivered.
NotFailedIsDelivered(result) ==
  IF \A o \in Offices : result[o] \in Failures \cup {"cwc_unavailable"}
    THEN "failed" ELSE "delivered"

OverallStatus(result) ==
  LET deliverable == {o \in Offices : result[o] # "cwc_unavailable"}
      anySuccess == \E o \in deliverable : result[o] = "submitted"
      allFailed == \A o \in deliverable : result[o] \in Failures
  IN IF allFailed THEN "failed" ELSE IF anySuccess THEN "delivered" ELSE "partial"

Finish(w) ==
  /\ At(w, "submit")
  /\ \A o \in Offices : run[w].result[o] # "none"
  /\ row' = [row EXCEPT ![run[w].sub] =
       [@ EXCEPT !.status = OverallStatus(run[w].result),
                 !.error = \E o \in Offices : run[w].result[o] \in Failures,
                 !.delivered_at = \E o \in Offices : run[w].result[o] = "submitted",
                 !.messageIds = {<<w, o>> : o \in {p \in Offices :
                                     run[w].result[p] \in WithMessageId}}]]
  /\ Stop(w, "done")
  /\ UNCHANGED <<posts, inbox>>

\* Mutant of RecordFailure: only the error.
RecordErrorOnly(w) ==
  /\ At(w, "fail")
  /\ row' = [row EXCEPT ![run[w].sub].error = TRUE]
  /\ Stop(w, "done")
  /\ UNCHANGED <<posts, inbox>>

\* The catch block; it swallows an error of its own update.
RecordFailure(w) ==
  /\ At(w, "fail")
  /\ row' = [row EXCEPT ![run[w].sub].status = "failed", ![run[w].sub].error = TRUE]
  /\ Stop(w, "done")
  /\ UNCHANGED <<posts, inbox>>

LoseFailure(w) ==
  /\ "db" \in Faults
  /\ At(w, "fail")
  /\ Stop(w, "lost")
  /\ UNCHANGED <<row, posts, inbox>>

\* An office may have the message of a request that was out when the worker went.
Crash(w) ==
  /\ "crash" \in Faults
  /\ run[w].pc \in Working
  /\ Stop(w, "lost")
  /\ \/ UNCHANGED inbox
     \/ \E o \in Offices : \E n \in Copies("submitted") :
          /\ At(w, "submit") /\ run[w].result[o] = "none"
          /\ inbox' = [inbox EXCEPT ![run[w].sub][o] = @ + n]
  /\ UNCHANGED <<row, posts>>

-----------------------------------------------------------------------------
(* Data minimisation: the witness expires and the daily cron erases it.    *)

Expire(s) ==
  /\ row[s].status # "none" /\ ~row[s].expired
  /\ row' = [row EXCEPT ![s].expired = TRUE]
  /\ UNCHANGED <<posts, run, inbox>>

Due(s) == row[s].expired /\ row[s].witness = "sealed"

CleanupWitness ==
  /\ \E s \in Submissions : Due(s)
  /\ row' = [s \in Submissions |->
               IF Due(s) THEN [row[s] EXCEPT !.witness = "erased"] ELSE row[s]]
  /\ UNCHANGED <<posts, run, inbox>>

-----------------------------------------------------------------------------
Work(w) ==
  \/ MarkProcessing(w) \/ ReadSubmission(w) \/ Throw(w)
  \/ \E o \in Offices : SubmitToOffice(w, o)
  \/ Finish(w) \/ RecordFailure(w) \/ LoseFailure(w)

Next ==
  \/ \E w \in Runs : Work(w) \/ Crash(w)
  \/ \E w \in Runs, s \in Submissions : Post(w, s) \/ Retry(w, s)
  \/ \E s \in Submissions : Expire(s)
  \/ CleanupWitness

Spec == Init /\ [][Next]_vars

\* A started worker keeps running; nobody is obliged to post or to retry.
FairSpec == Spec /\ \A w \in Runs : WF_vars(Work(w))
-----------------------------------------------------------------------------
(* Properties.                                                             *)

TypeOK ==
  /\ row \in [Submissions ->
       [status : {"none", "pending", "processing", "delivered", "partial", "failed"},
        error : BOOLEAN, delivered_at : BOOLEAN, messageIds : SUBSET (Runs \X Offices),
        witness : {"sealed", "erased"}, expired : BOOLEAN]]
  /\ posts \in [Submissions -> 0..MaxPosts]
  /\ run \in [Runs ->
       [pc : Working \cup {"idle", "done", "lost"},
        sub : Submissions \cup {"none"}, result : [Offices -> Outcomes]]]
  /\ inbox \in [Submissions -> [Offices -> Nat]]

\* A submission is shown as delivered only when an office really has the message
\* and the row holds the id that office's answer carried, however many workers
\* overwrite the row and whatever they lose on the way (delivery-worker.ts:247-275).
DeliveredHasReceipt ==
  \A s \in Submissions : row[s].status = "delivered" =>
    /\ row[s].delivered_at
    /\ \E id \in row[s].messageIds : inbox[s][id[2]] > 0

Lost(s) == \E w \in Runs : run[w].sub = s /\ run[w].pc = "lost"

\* A submission that waits for a worker nobody runs is one whose worker was evicted
\* or could not record its failure; no other order of steps abandons it.
AbandonedOnlyByLoss ==
  \A s \in Submissions :
    row[s].status \in {"pending", "processing"} /\ Active(s) = {} => Lost(s)

\* Once the cron has erased a witness it stays erased, and nobody gets hold of the
\* constituent's data who did not have it: no retry and no second POST brings the
\* address back (cleanup-witness/+server.ts:47-57, create/+server.ts:139-144).
Holders(s) == {w \in Active(s) : run[w].pc = "submit"}

ErasedStaysSilent ==
  [][\A s \in Submissions :
       posts[s] > 0 /\ row[s].witness = "erased" =>
         row'[s].witness = "erased" /\ Holders(s)' \subseteq Holders(s)]_vars

\* The endpoints' own guards are enough while the create endpoint answers for s once.
PostedOnce(s) == posts[s] <= 1

\* However often it is retried, a submission POSTed once has one worker at a time: the
\* retry endpoint's conditional update is there to keep a retry from racing "an active
\* delivery worker" (submissions/[id]/retry/+server.ts:41-42).
OneWorkerAtATime ==
  \A s \in Submissions : PostedOnce(s) => \A v, w \in Active(s) : v = w

\* A submission that was accepted is settled in the end, or a worker of it was evicted.
Settles ==
  \A s \in Submissions :
    row[s].status \in {"pending", "processing"} ~>
      row[s].status \in {"delivered", "partial", "failed"} \/ Lost(s)
=============================================================================
