---------------------- MODULE SubmissionDeliveryProofs ----------------------
(***************************************************************************)
(* The safety properties of delivery for any number of submissions,        *)
(* workers, offices and attempts and under every fault: what "delivered"   *)
(* stands for, that a submission POSTed once has one worker at a time      *)
(* however often it is retried, that none is abandoned but by a loss, and  *)
(* that an erased witness is nobody's any more.                            *)
(***************************************************************************)
EXTENDS SubmissionDelivery, TLAPS

RowType ==
  [status : {"none", "pending", "processing", "delivered", "partial", "failed"},
   error : BOOLEAN, delivered_at : BOOLEAN, messageIds : SUBSET (Runs \X Offices),
   witness : {"sealed", "erased"}, expired : BOOLEAN]

RunType ==
  [pc : Working \cup {"idle", "done", "lost"},
   sub : Submissions \cup {"none"}, result : [Offices -> Outcomes]]

RowOK == row \in [Submissions -> RowType]

\* A worker at work has a submission, and one not started has no results.
RunOK ==
  /\ run \in [Runs -> RunType]
  /\ \A w \in Runs :
       /\ run[w].pc \in Working => run[w].sub \in Submissions
       /\ run[w].pc = "idle" => \A o \in Offices : run[w].result[o] = "none"

USE DEF At, Working

\* A worker goes on, or ends and lets go of what it had in hand.
Moves(w, pc) == Goto(w, pc) \/ Stop(w, pc)

\* A worker that moves learns nothing new.
LEMMA GotoKeeps ==
  ASSUME RunOK, NEW w \in Runs, NEW pc, Moves(w, pc)
  PROVE  \A v \in Runs :
           /\ run'[v].sub = run[v].sub
           /\ \A o \in Offices : run'[v].result[o] \in {run[v].result[o], "none"}
           /\ run'[v].pc = IF v = w THEN pc ELSE run[v].pc
<1>1. CASE Goto(w, pc)
  BY <1>1 DEF RunOK, RunType, Goto
<1>2. CASE Stop(w, pc)
  BY <1>2 DEF RunOK, RunType, Stop, NoRun
<1> QED
  BY <1>1, <1>2 DEF Moves

\* A worker may go to any place of the program it is in.
LEMMA GotoTypes ==
  ASSUME RunOK, NEW w \in Runs, run[w].pc \in Working,
         NEW pc \in Working \cup {"done", "lost"}, Moves(w, pc)
  PROVE  RunOK'
<1>1. CASE Goto(w, pc)
  <2>1. run' \in [Runs -> RunType]
    BY <1>1 DEF RunOK, RunType, Goto
  <2>2. \A v \in Runs :
           /\ run'[v].sub = run[v].sub
           /\ run'[v].result = run[v].result
           /\ run'[v].pc = IF v = w THEN pc ELSE run[v].pc
    BY <1>1 DEF RunOK, RunType, Goto
  <2> QED  BY <2>1, <2>2 DEF RunOK
<1>2. CASE Stop(w, pc)
  <2> DEFINE new == [NoRun EXCEPT !.pc = pc, !.sub = run[w].sub]
  <2>1. run[w].sub \in Submissions
    BY DEF RunOK
  <2>2. new \in RunType /\ new.pc = pc /\ new.sub = run[w].sub
    BY <2>1 DEF RunType, NoRun, Outcomes
  <2>3. run' = [run EXCEPT ![w] = new]
    BY <1>2 DEF Stop
  <2> HIDE DEF new
  <2> QED  BY <2>1, <2>2, <2>3 DEF RunOK
<1> QED
  BY <1>1, <1>2 DEF Moves

\* Launching an idle worker gives it the submission.
LEMMA LaunchTypes ==
  ASSUME RunOK, NEW w \in Runs, NEW s \in Submissions, Launch(w, s)
  PROVE  /\ RunOK'
         /\ run[w].pc = "idle"
         /\ run'[w].pc = "mark" /\ run'[w].sub = s /\ run'[w].result = run[w].result
         /\ \A v \in Runs : v # w => run'[v] = run[v]
<1>1. run' = [run EXCEPT ![w].pc = "mark", ![w].sub = s] /\ run[w].pc = "idle"
  BY DEF Launch
<1>2. run'[w] = [run[w] EXCEPT !.pc = "mark", !.sub = s]
  BY <1>1 DEF RunOK
<1>3. run[w] \in RunType
  BY DEF RunOK
<1>4. /\ run'[w].pc = "mark" /\ run'[w].sub = s /\ run'[w].result = run[w].result
      /\ run'[w] \in RunType
  BY <1>2, <1>3 DEF RunType
<1>5. \A v \in Runs : v # w => run'[v] = run[v]
  BY <1>1 DEF RunOK
<1>6. run' \in [Runs -> RunType]
  BY <1>1, <1>4, <1>5 DEF RunOK
<1> QED
  BY <1>1, <1>4, <1>5, <1>6 DEF RunOK

\* The one step that changes results changes one, of an office not tried before.
LEMMA SubmitTypes ==
  ASSUME RunOK, NEW w \in Runs, NEW o \in Offices, SubmitToOffice(w, o)
  PROVE  /\ RunOK'
         /\ \A v \in Runs : run'[v].pc = run[v].pc /\ run'[v].sub = run[v].sub
         /\ \A v \in Runs, p \in Offices :
              run'[v].result[p] = IF v = w /\ p = o THEN run'[w].result[o]
                                  ELSE run[v].result[p]
<1>1. PICK outcome \in Answers(o) : run' = [run EXCEPT ![w].result[o] = outcome]
  BY DEF SubmitToOffice
<1>2. outcome \in Outcomes
  BY <1>1 DEF Answers, Outcomes
<1>3. run[w] \in RunType /\ run[w].pc = "submit"
  BY DEF RunOK, SubmitToOffice
<1>4. run'[w] = [run[w] EXCEPT !.result[o] = outcome]
  BY <1>1 DEF RunOK
<1>5. /\ run'[w].pc = run[w].pc /\ run'[w].sub = run[w].sub
      /\ run'[w].result = [run[w].result EXCEPT ![o] = outcome]
      /\ run'[w] \in RunType
  BY <1>2, <1>3, <1>4 DEF RunType
<1>6. \A v \in Runs : v # w => run'[v] = run[v]
  BY <1>1 DEF RunOK
<1>7. run' \in [Runs -> RunType]
  BY <1>1, <1>5, <1>6 DEF RunOK
<1>8. RunOK'
  BY <1>3, <1>5, <1>6, <1>7 DEF RunOK
<1> QED
  BY <1>3, <1>5, <1>6, <1>8 DEF RunType

\* Every step keeps the types, for any constants.
LEMMA TypesStep == RunOK /\ RowOK /\ [Next]_vars => RunOK' /\ RowOK'
<1> SUFFICES ASSUME RunOK, RowOK, [Next]_vars
             PROVE  RunOK' /\ RowOK'
  OBVIOUS
<1> USE DEF RowOK
<1>1. ASSUME NEW w \in Runs, NEW s \in Submissions, Post(w, s)
      PROVE  RunOK' /\ RowOK'
  <2>1. [NoRow EXCEPT !.status = "pending", !.witness = "sealed"] \in RowType
    BY DEF NoRow, RowType
  <2>2. RowOK'
    BY <1>1, <2>1 DEF Post
  <2> QED  BY <1>1, <2>2, LaunchTypes DEF Post
<1>2. ASSUME NEW w \in Runs, NEW s \in Submissions, Retry(w, s)
      PROVE  RunOK' /\ RowOK'
  <2>1. [row[s] EXCEPT !.status = "pending", !.error = FALSE] \in RowType
    BY DEF RowType
  <2>2. row' = [row EXCEPT ![s] = [row[s] EXCEPT !.status = "pending", !.error = FALSE]]
    BY <1>2 DEF Retry
  <2>3. RowOK'
    BY <2>1, <2>2
  <2> QED  BY <1>2, <2>3, LaunchTypes DEF Retry
<1>3. ASSUME NEW w \in Runs, NEW o \in Offices, SubmitToOffice(w, o)
      PROVE  RunOK' /\ RowOK'
  BY <1>3, SubmitTypes DEF SubmitToOffice
<1>4. ASSUME NEW w \in Runs,
             \/ MarkProcessing(w) \/ ReadSubmission(w) \/ Throw(w) \/ Finish(w)
             \/ RecordFailure(w) \/ LoseFailure(w) \/ Crash(w)
      PROVE  RunOK' /\ RowOK'
  <2>1. \E pc \in Working \cup {"done", "lost"} : Moves(w, pc)
    BY <1>4 DEF Moves, MarkProcessing, ReadSubmission, Throw, Finish, RecordFailure, LoseFailure, Crash
  <2>2. run[w].pc \in Working
    BY <1>4 DEF MarkProcessing, ReadSubmission, Throw, Finish, RecordFailure, LoseFailure, Crash
  <2>3. RunOK'
    BY <2>1, <2>2, GotoTypes
  <2>4. CASE Finish(w)
    <3> DEFINE ids == {<<w, o>> : o \in {p \in Offices : run[w].result[p] \in WithMessageId}}
               error == \E o \in Offices : run[w].result[o] \in Failures
               delivered_at == \E o \in Offices : run[w].result[o] = "submitted"
               old == row[run[w].sub]
               new == [old EXCEPT !.status = OverallStatus(run[w].result), !.error = error,
                                  !.delivered_at = delivered_at, !.messageIds = ids]
    <3>1. row' = [row EXCEPT ![run[w].sub] = new]
      BY <2>4 DEF Finish
    <3>2. ids \in SUBSET (Runs \X Offices)
      OBVIOUS
    <3>3. error \in BOOLEAN /\ delivered_at \in BOOLEAN
      OBVIOUS
    <3>4. OverallStatus(run[w].result) \in {"failed", "delivered", "partial"}
      BY DEF OverallStatus
    <3>5. old \in RowType
      BY <2>2 DEF RunOK
    <3> HIDE DEF ids, error, delivered_at, old
    <3>6. new \in RowType
      BY <3>2, <3>3, <3>4, <3>5 DEF RowType
    <3> QED  BY <2>3, <3>1, <3>6
  <2>5. CASE MarkProcessing(w) \/ RecordFailure(w)
    <3>1. RowOK'
      BY <2>5 DEF MarkProcessing, RecordFailure, RowType
    <3> QED  BY <2>3, <3>1
  <2>6. CASE ReadSubmission(w) \/ Throw(w) \/ LoseFailure(w) \/ Crash(w)
    BY <2>3, <2>6 DEF ReadSubmission, Throw, LoseFailure, Crash
  <2> QED  BY <1>4, <2>4, <2>5, <2>6
<1>5. CASE CleanupWitness
  <2>1. \A s \in Submissions : [row[s] EXCEPT !.witness = "erased"] \in RowType
    BY DEF RowType
  <2> QED  BY <1>5, <2>1 DEF CleanupWitness, RunOK
<1>6. ASSUME NEW s \in Submissions, Expire(s)
      PROVE  RunOK' /\ RowOK'
  <2>1. [row[s] EXCEPT !.expired = TRUE] \in RowType
    BY DEF RowType
  <2> QED  BY <1>6, <2>1 DEF Expire, RunOK
<1>7. CASE UNCHANGED vars
  BY <1>7 DEF vars, RunOK
<1> QED
  BY <1>1, <1>2, <1>3, <1>4, <1>5, <1>6, <1>7 DEF Next, Work

\* The empty table is well typed.
LEMMA InitTypes == Init => RunOK /\ RowOK
  BY DEF Init, RunOK, RunType, RowOK, RowType, NoRun, NoRow, Outcomes

-----------------------------------------------------------------------------
(* One worker at a time.                                                   *)

InHand == {"pending", "processing"}

\* A row of a submission POSTed once that has a worker waits for one; a row exists
\* exactly if it was POSTed, and whoever works has one.
WorkInv ==
  /\ RunOK
  /\ RowOK
  /\ posts \in [Submissions -> Nat]
  /\ \A s \in Submissions : row[s].status = "none" <=> posts[s] = 0
  /\ \A w \in Runs : run[w].pc \in Working =>
       /\ posts[run[w].sub] # 0
       /\ PostedOnce(run[w].sub) => row[run[w].sub].status \in InHand
  /\ OneWorkerAtATime

\* What a step of worker w does to the statuses, while nobody else works on its row.
LEMMA WorkerStep ==
  ASSUME WorkInv, NEW w \in Runs, run[w].pc \in Working,
         RunOK', RowOK', UNCHANGED posts,
         \A v \in Runs : run'[v].sub = run[v].sub,
         \A v \in Runs : v # w => run'[v].pc = run[v].pc,
         row'[run[w].sub].status # "none",
         PostedOnce(run[w].sub) /\ run'[w].pc \in Working =>
           row'[run[w].sub].status \in InHand,
         \A s \in Submissions : s # run[w].sub => row'[s].status = row[s].status
  PROVE  WorkInv'
<1> USE DEF WorkInv, OneWorkerAtATime, Active, PostedOnce
<1>1. run[w].sub \in Submissions
  BY DEF RunOK
<1>2. \A v \in Runs :
        /\ PostedOnce(run[w].sub)
        /\ run[v].pc \in Working /\ run[v].sub = run[w].sub
        => v = w
  BY <1>1
<1>3. \A v \in Runs : run'[v].pc \in Working => run[v].pc \in Working
  OBVIOUS
<1>4. \A v \in Runs : run[v].pc \in Working => run[v].sub \in Submissions
  BY DEF RunOK
<1>5. \A v \in Runs : run'[v].pc \in Working =>
        /\ posts'[run'[v].sub] # 0
        /\ PostedOnce(run[v].sub) => row'[run'[v].sub].status \in InHand
  BY <1>2, <1>3, <1>4
<1>6. OneWorkerAtATime'
  BY <1>3
<1>7. \A s \in Submissions : row'[s].status = "none" <=> posts'[s] = 0
  BY <1>1
<1> QED
  BY <1>5, <1>6, <1>7

\* What a launch does: a row that counts as POSTed once afterwards has no worker yet.
LEMMA LaunchStep ==
  ASSUME WorkInv, NEW w \in Runs, NEW s \in Submissions, Launch(w, s),
         PostedOnce(s)' => /\ PostedOnce(s)
                           /\ row[s].status \notin InHand
                           /\ row'[s].status = "pending",
         RowOK', row'[s].status # "none",
         posts' \in [Submissions -> Nat], posts'[s] # 0,
         \A t \in Submissions :
           t # s => row'[t].status = row[t].status /\ posts'[t] = posts[t]
  PROVE  WorkInv'
<1> USE DEF WorkInv, PostedOnce
<1>1. /\ RunOK' /\ run'[w].pc = "mark" /\ run'[w].sub = s
      /\ \A v \in Runs : v # w => run'[v] = run[v]
  BY LaunchTypes
<1>2. \A v \in Runs : run[v].pc \in Working =>
        run[v].sub \in Submissions /\ (PostedOnce(s)' => run[v].sub # s)
  BY DEF RunOK
<1>3. \A v \in Runs : run'[v].pc \in Working =>
        /\ posts'[run'[v].sub] # 0
        /\ posts'[run'[v].sub] <= 1 => row'[run'[v].sub].status \in InHand
  <2> SUFFICES ASSUME NEW v \in Runs, run'[v].pc \in Working
               PROVE  /\ posts'[run'[v].sub] # 0
                      /\ posts'[run'[v].sub] <= 1 => row'[run'[v].sub].status \in InHand
    OBVIOUS
  <2>1. CASE run'[v].sub = s
    BY <2>1 DEF InHand
  <2>2. CASE run'[v].sub # s
    BY <1>1, <1>2, <2>2
  <2> QED  BY <2>1, <2>2
<1>4. OneWorkerAtATime'
  <2> SUFFICES ASSUME NEW t \in Submissions, PostedOnce(t)', NEW u \in Active(t)', NEW v \in Active(t)'
               PROVE  u = v
    BY DEF OneWorkerAtATime
  <2>1. CASE t = s
    BY <1>1, <1>2, <2>1 DEF Active
  <2>2. CASE t # s
    BY <1>1, <1>2, <2>2 DEF OneWorkerAtATime, Active
  <2> QED  BY <2>1, <2>2
<1>5. \A t \in Submissions : row'[t].status = "none" <=> posts'[t] = 0
  OBVIOUS
<1> QED
  BY <1>1, <1>3, <1>4, <1>5

\* Every step keeps it: a second POST takes its submission out of the claim, a retry
\* starts a worker only where the row waits for none.
LEMMA WorkStep == WorkInv /\ [Next]_vars => WorkInv'
<1> SUFFICES ASSUME WorkInv, [Next]_vars
             PROVE  WorkInv'
  OBVIOUS
<1>0. RunOK /\ RowOK /\ RowOK'
  BY TypesStep DEF WorkInv
<1>1. ASSUME NEW w \in Runs, NEW s \in Submissions, Post(w, s)
      PROVE  WorkInv'
  <2>1. posts' = [posts EXCEPT ![s] = posts[s] + 1] /\ posts[s] \in Nat
    BY <1>1 DEF Post, WorkInv
  <2>2. /\ posts' \in [Submissions -> Nat] /\ posts'[s] # 0
        /\ \A t \in Submissions : t # s => posts'[t] = posts[t]
        /\ PostedOnce(s)' => posts[s] = 0
    BY <2>1 DEF WorkInv, PostedOnce
  <2>3. CASE row[s].status = "none"
    <3>1. row' = [row EXCEPT ![s] = [NoRow EXCEPT !.status = "pending", !.witness = "sealed"]]
      BY <1>1, <2>3 DEF Post
    <3>2. /\ row'[s].status = "pending"
          /\ \A t \in Submissions : t # s => row'[t].status = row[t].status
      BY <1>0, <3>1 DEF NoRow, RowOK
    <3>3. posts[s] = 0 /\ PostedOnce(s)
      BY <2>3 DEF WorkInv, PostedOnce
    <3> QED  BY <1>0, <1>1, <2>2, <2>3, <3>2, <3>3, LaunchStep DEF Post, InHand
  <2>4. CASE row[s].status # "none"
    <3>1. UNCHANGED row /\ posts[s] # 0
      BY <1>1, <2>4 DEF Post, WorkInv
    <3> QED  BY <1>0, <1>1, <2>2, <2>4, <3>1, LaunchStep DEF Post
  <2> QED  BY <2>3, <2>4
<1>2. ASSUME NEW w \in Runs, NEW s \in Submissions, Retry(w, s)
      PROVE  WorkInv'
  <2>1. row[s].status = "failed" /\ posts[s] # 0
    BY <1>2 DEF Retry, WorkInv
  <2>2. /\ row'[s].status = "pending"
        /\ \A t \in Submissions : t # s => row'[t].status = row[t].status
    BY <1>0, <1>2 DEF Retry, RowOK, RowType
  <2>3. posts' = posts /\ posts' \in [Submissions -> Nat]
    BY <1>2 DEF Retry, WorkInv
  <2>4. PostedOnce(s)' => PostedOnce(s)
    BY <2>3 DEF PostedOnce
  <2> QED  BY <1>0, <1>2, <2>1, <2>2, <2>3, <2>4, LaunchStep DEF Retry, InHand
<1>3. ASSUME NEW w \in Runs, Work(w) \/ Crash(w)
      PROVE  WorkInv'
  <2>0. run[w].pc \in Working /\ UNCHANGED posts
    BY <1>3 DEF Work, Crash, MarkProcessing, ReadSubmission, Throw, SubmitToOffice, Finish,
                RecordFailure, LoseFailure
  <2>1. /\ run[w].sub \in Submissions /\ row[run[w].sub].status # "none"
        /\ PostedOnce(run[w].sub) => row[run[w].sub].status \in InHand
    BY <1>0, <2>0 DEF WorkInv, RunOK
  <2>2. CASE MarkProcessing(w)
    <3>1. Moves(w, "read")
      BY <2>2 DEF Moves, MarkProcessing
    <3>2. /\ row'[run[w].sub].status = "processing"
          /\ \A s \in Submissions : s # run[w].sub => row'[s].status = row[s].status
      BY <1>0, <2>1, <2>2 DEF MarkProcessing, RowOK, RowType
    <3> QED  BY <1>0, <2>0, <3>1, <3>2, GotoTypes, GotoKeeps, WorkerStep DEF InHand
  <2>3. CASE ReadSubmission(w) \/ Throw(w) \/ LoseFailure(w) \/ Crash(w)
    <3>1. UNCHANGED row /\ \E pc \in Working \cup {"done", "lost"} : Moves(w, pc)
      BY <2>3 DEF Moves, ReadSubmission, Throw, LoseFailure, Crash
    <3> QED  BY <1>0, <2>0, <2>1, <3>1, GotoTypes, GotoKeeps, WorkerStep DEF InHand
  <2>4. ASSUME NEW o \in Offices, SubmitToOffice(w, o)
        PROVE  WorkInv'
    <3>1. UNCHANGED row
      BY <2>4 DEF SubmitToOffice
    <3> QED  BY <1>0, <2>0, <2>1, <2>4, <3>1, SubmitTypes, WorkerStep DEF InHand
  <2>5. CASE Finish(w)
    <3>1. Moves(w, "done")
      BY <2>5 DEF Moves, Finish
    <3>2. OverallStatus(run[w].result) # "none"
      BY DEF OverallStatus
    <3>3. /\ row'[run[w].sub].status = OverallStatus(run[w].result)
          /\ \A s \in Submissions : s # run[w].sub => row'[s].status = row[s].status
      BY <1>0, <2>1, <2>5, ZenonT(30) DEF Finish, RowOK, RowType
    <3>4. RunOK' /\ run'[w].pc = "done"
      BY <1>0, <2>0, <3>1, GotoTypes, GotoKeeps
    <3>5. /\ \A v \in Runs : run'[v].sub = run[v].sub
          /\ \A v \in Runs : v # w => run'[v].pc = run[v].pc
      BY <1>0, <3>1, GotoKeeps
    <3>6. row'[run[w].sub].status # "none" /\ run'[w].pc \notin Working
      BY <3>2, <3>3, <3>4
    <3> QED  BY <1>0, <2>0, <3>3, <3>4, <3>5, <3>6, WorkerStep
  <2>6. CASE RecordFailure(w)
    <3>1. Moves(w, "done")
      BY <2>6 DEF Moves, RecordFailure
    <3>2. /\ row'[run[w].sub].status = "failed"
          /\ \A s \in Submissions : s # run[w].sub => row'[s].status = row[s].status
      BY <1>0, <2>1, <2>6 DEF RecordFailure, RowOK, RowType
    <3> QED  BY <1>0, <2>0, <3>1, <3>2, GotoTypes, GotoKeeps, WorkerStep DEF InHand
  <2> QED
    BY <1>3, <2>2, <2>3, <2>4, <2>5, <2>6 DEF Work
<1>4. ASSUME CleanupWitness \/ \E s \in Submissions : Expire(s)
      PROVE  WorkInv'
  <2>1. UNCHANGED <<posts, run>>
    BY <1>0, <1>4 DEF CleanupWitness, Expire
  <2>2. \A s \in Submissions : row'[s].status = row[s].status
    <3>1. CASE CleanupWitness
      <4>1. \A s \in Submissions :
              row'[s] = row[s] \/ row'[s] = [row[s] EXCEPT !.witness = "erased"]
        BY <3>1 DEF CleanupWitness
      <4> QED  BY <1>0, <4>1 DEF RowOK, RowType
    <3>2. ASSUME NEW s \in Submissions, Expire(s)
          PROVE  \A t \in Submissions : row'[t].status = row[t].status
      BY <1>0, <3>2 DEF Expire, RowOK, RowType
    <3> QED  BY <1>4, <3>1, <3>2
  <2> QED
    BY <1>0, <2>1, <2>2 DEF WorkInv, RunOK, OneWorkerAtATime, Active, PostedOnce
<1>5. CASE UNCHANGED vars
  BY <1>0, <1>5 DEF vars, WorkInv, RunOK, OneWorkerAtATime, Active, PostedOnce
<1> QED
  BY <1>1, <1>2, <1>3, <1>4, <1>5 DEF Next

\* A submission POSTed once never has two workers, however many retries, crashes and
\* lost statements there are: the retry endpoint's conditional update is enough for
\* what its comment claims (submissions/[id]/retry/+server.ts:41-53).
THEOREM SinglePostSingleWorker == Spec => []OneWorkerAtATime
<1>1. Init => WorkInv
  BY InitTypes DEF Init, WorkInv, NoRun, NoRow, OneWorkerAtATime, Active
<1>2. WorkInv => OneWorkerAtATime
  BY DEF WorkInv
<1> QED
  BY <1>1, <1>2, WorkStep, PTL DEF Spec

-----------------------------------------------------------------------------
(* What "delivered" stands for.                                            *)

InboxOK == inbox \in [Submissions -> [Offices -> Nat]]

\* A worker that took down "submitted" for an office was answered by it, and an
\* office does not answer so unless it has the message.
ResultsAreTrue ==
  \A w \in Runs, o \in Offices :
    run[w].result[o] = "submitted" =>
      run[w].sub \in Submissions /\ inbox[run[w].sub][o] > 0

ReceiptInv == RunOK /\ RowOK /\ InboxOK /\ ResultsAreTrue /\ DeliveredHasReceipt

\* Copies only arrive, and one arrives with every "submitted".
LEMMA CopiesArrive ==
  ASSUME NEW o \in Offices, NEW outcome \in Answers(o), NEW n \in Copies(outcome)
  PROVE  n \in Nat /\ (outcome = "submitted" => n > 0)
<1>1. Attempts \in Nat
  BY DeliveryAssumption
<1>2. outcome \in {"submitted", "failed", "refused", "other", "cwc_unavailable"}
  BY DEF Answers, Outcomes
<1> QED
  BY <1>1, <1>2 DEF Copies

\* A submission's row that is not written to and an inbox that only fills keep the
\* receipts.
LEMMA ReceiptsKept ==
  ASSUME ReceiptInv, InboxOK', NEW s \in Submissions,
         row'[s].status = "delivered" =>
           /\ row[s].status = "delivered" /\ row'[s].delivered_at = row[s].delivered_at
           /\ row'[s].messageIds = row[s].messageIds,
         \A o \in Offices : inbox'[s][o] >= inbox[s][o]
  PROVE  row'[s].status = "delivered" =>
           /\ row'[s].delivered_at
           /\ \E id \in row'[s].messageIds : inbox'[s][id[2]] > 0
<1> SUFFICES ASSUME row'[s].status = "delivered"
             PROVE  /\ row'[s].delivered_at
                    /\ \E id \in row'[s].messageIds : inbox'[s][id[2]] > 0
  OBVIOUS
<1>1. row[s].delivered_at
  BY DEF ReceiptInv, DeliveredHasReceipt
<1>2. PICK id \in row[s].messageIds : inbox[s][id[2]] > 0
  BY DEF ReceiptInv, DeliveredHasReceipt
<1>3. id[2] \in Offices
  BY <1>2 DEF ReceiptInv, RowOK, RowType
<1>4. inbox[s][id[2]] \in Nat /\ inbox'[s][id[2]] \in Nat
  BY <1>3 DEF ReceiptInv, InboxOK
<1>5. inbox'[s][id[2]] > 0
  BY <1>2, <1>3, <1>4
<1> QED
  BY <1>1, <1>2, <1>5

\* An answer adds its copies to one inbox.
LEMMA SubmitFills ==
  ASSUME RunOK, InboxOK, NEW w \in Runs, NEW o \in Offices, SubmitToOffice(w, o)
  PROVE  /\ InboxOK'
         /\ \A s \in Submissions, p \in Offices : inbox'[s][p] >= inbox[s][p]
         /\ run'[w].result[o] = "submitted" => inbox'[run[w].sub][o] > 0
<1>0. PICK outcome \in Answers(o) : \E m \in Copies(outcome) :
        /\ run' = [run EXCEPT ![w].result[o] = outcome]
        /\ inbox' = [inbox EXCEPT ![run[w].sub][o] = @ + m]
  BY DEF SubmitToOffice
<1>1. PICK n \in Copies(outcome) :
        /\ run' = [run EXCEPT ![w].result[o] = outcome]
        /\ inbox' = [inbox EXCEPT ![run[w].sub][o] = @ + n]
  BY <1>0
<1>2. n \in Nat /\ (outcome = "submitted" => n > 0)
  BY CopiesArrive
<1>3. run[w].sub \in Submissions
  BY DEF RunOK, SubmitToOffice
<1>4. /\ InboxOK'
      /\ \A s \in Submissions, p \in Offices : inbox'[s][p] >= inbox[s][p]
      /\ inbox'[run[w].sub][o] = inbox[run[w].sub][o] + n
  BY <1>1, <1>2, <1>3 DEF InboxOK
<1>5. run'[w].result[o] = outcome
  BY <1>1 DEF RunOK, RunType
<1>6. inbox[run[w].sub][o] \in Nat
  BY <1>3 DEF InboxOK
<1> QED
  BY <1>2, <1>4, <1>5, <1>6

\* Every step keeps the receipts.
LEMMA ReceiptStep == ReceiptInv /\ [Next]_vars => ReceiptInv'
<1> SUFFICES ASSUME ReceiptInv, [Next]_vars
             PROVE  ReceiptInv'
  OBVIOUS
<1>0. RunOK /\ RowOK /\ InboxOK /\ ResultsAreTrue /\ DeliveredHasReceipt /\ RunOK' /\ RowOK'
  BY TypesStep DEF ReceiptInv
<1>1. ASSUME NEW w \in Runs, NEW s \in Submissions, Post(w, s) \/ Retry(w, s)
      PROVE  ReceiptInv'
  <2>1. UNCHANGED inbox /\ Launch(w, s)
    BY <1>1 DEF Post, Retry
  <2>2. ResultsAreTrue'
    BY <1>0, <2>1, LaunchTypes DEF ResultsAreTrue, RunOK
  <2>3. \A t \in Submissions : row'[t] = row[t] \/ row'[t].status = "pending"
    <3>1. CASE Post(w, s)
      BY <1>0, <3>1 DEF Post, RowOK, NoRow
    <3>2. CASE Retry(w, s)
      BY <1>0, <3>2 DEF Retry, RowOK, RowType
    <3> QED  BY <1>1, <3>1, <3>2
  <2>4. DeliveredHasReceipt'
    BY <1>0, <2>1, <2>3 DEF DeliveredHasReceipt
  <2> QED  BY <1>0, <2>1, <2>2, <2>4 DEF ReceiptInv, InboxOK
<1>2. ASSUME NEW w \in Runs, NEW o \in Offices, SubmitToOffice(w, o)
      PROVE  ReceiptInv'
  <2>1. /\ InboxOK'
        /\ \A s \in Submissions, p \in Offices : inbox'[s][p] >= inbox[s][p]
        /\ run'[w].result[o] = "submitted" => inbox'[run[w].sub][o] > 0
    BY <1>0, <1>2, SubmitFills
  <2>2. ResultsAreTrue'
    <3> SUFFICES ASSUME NEW v \in Runs, NEW p \in Offices, run'[v].result[p] = "submitted"
                 PROVE  run'[v].sub \in Submissions /\ inbox'[run'[v].sub][p] > 0
      BY DEF ResultsAreTrue
    <3>1. run'[v].sub = run[v].sub
      BY <1>0, <1>2, SubmitTypes
    <3>2. CASE v = w /\ p = o
      BY <1>0, <1>2, <2>1, <3>1, <3>2 DEF RunOK, SubmitToOffice
    <3>3. CASE ~(v = w /\ p = o)
      <4>1. run[v].result[p] = "submitted"
        BY <1>0, <1>2, <3>3, SubmitTypes
      <4>2. run[v].sub \in Submissions /\ inbox[run[v].sub][p] > 0
        BY <1>0, <4>1 DEF ResultsAreTrue
      <4>3. inbox[run[v].sub][p] \in Nat /\ inbox'[run[v].sub][p] \in Nat
        BY <1>0, <2>1, <4>2 DEF InboxOK
      <4>4. inbox'[run[v].sub][p] >= inbox[run[v].sub][p]
        BY <2>1, <4>2
      <4> QED  BY <3>1, <4>2, <4>3, <4>4
    <3> QED  BY <3>2, <3>3
  <2>3. UNCHANGED row
    BY <1>2 DEF SubmitToOffice
  <2>4. DeliveredHasReceipt'
    <3> SUFFICES ASSUME NEW s \in Submissions
                 PROVE  row'[s].status = "delivered" =>
                          /\ row'[s].delivered_at
                          /\ \E id \in row'[s].messageIds : inbox'[s][id[2]] > 0
      BY DEF DeliveredHasReceipt
    <3> QED  BY <2>1, <2>3, ReceiptsKept
  <2> QED  BY <1>0, <2>1, <2>2, <2>4 DEF ReceiptInv
<1>3. ASSUME NEW w \in Runs, Finish(w)
      PROVE  ReceiptInv'
  <2> DEFINE ids == {<<w, o>> : o \in {p \in Offices : run[w].result[p] \in WithMessageId}}
             sub == run[w].sub
  <2>1. sub \in Submissions /\ Moves(w, "done") /\ UNCHANGED inbox
    BY <1>0, <1>3 DEF Moves, Finish, RunOK
  <2>2. ResultsAreTrue'
    BY <1>0, <2>1, GotoKeeps DEF ResultsAreTrue
  <2>3. /\ row'[sub].status = OverallStatus(run[w].result)
        /\ row'[sub].delivered_at = \E o \in Offices : run[w].result[o] = "submitted"
        /\ row'[sub].messageIds = ids
    <3>1. row'[sub] = [row[sub] EXCEPT
            !.status = OverallStatus(run[w].result),
            !.error = \E o \in Offices : run[w].result[o] \in Failures,
            !.delivered_at = \E o \in Offices : run[w].result[o] = "submitted",
            !.messageIds = ids]
      BY <1>0, <1>3, <2>1 DEF Finish, RowOK
    <3>2. row[sub] \in RowType
      BY <1>0, <2>1 DEF RowOK
    <3> HIDE DEF ids, sub
    <3> QED  BY <3>1, <3>2 DEF RowType
  <2>4. row'[sub].status = "delivered" =>
          /\ row'[sub].delivered_at
          /\ \E id \in row'[sub].messageIds : inbox'[sub][id[2]] > 0
    <3> SUFFICES ASSUME OverallStatus(run[w].result) = "delivered"
                 PROVE  /\ row'[sub].delivered_at
                        /\ \E id \in ids : inbox[sub][id[2]] > 0
      BY <2>1, <2>3
    <3>1. PICK o \in Offices : run[w].result[o] = "submitted"
      BY DEF OverallStatus
    <3>2. inbox[sub][o] > 0
      BY <1>0, <3>1 DEF ResultsAreTrue
    <3>3. <<w, o>> \in ids /\ <<w, o>>[2] = o
      BY <3>1 DEF WithMessageId
    <3>4. \E id \in ids : inbox[sub][id[2]] > 0
      BY <3>2, <3>3
    <3>5. row'[sub].delivered_at
      BY <2>3, <3>1
    <3> QED  BY <3>4, <3>5
  <2>5. \A s \in Submissions : s # sub => row'[s] = row[s]
    BY <1>0, <1>3 DEF Finish, RowOK
  <2>6. DeliveredHasReceipt'
    BY <1>0, <2>1, <2>4, <2>5 DEF DeliveredHasReceipt
  <2> QED  BY <1>0, <2>1, <2>2, <2>6 DEF ReceiptInv, InboxOK
<1>4. ASSUME NEW w \in Runs,
             \/ MarkProcessing(w) \/ ReadSubmission(w) \/ Throw(w)
             \/ RecordFailure(w) \/ LoseFailure(w) \/ Crash(w)
      PROVE  ReceiptInv'
  <2>0. \E pc \in Working \cup {"done", "lost"} : Moves(w, pc)
    BY <1>4 DEF Moves, MarkProcessing, ReadSubmission, Throw, RecordFailure, LoseFailure, Crash
  <2>1. InboxOK' /\ \A s \in Submissions, o \in Offices : inbox'[s][o] >= inbox[s][o]
    <3>1. CASE Crash(w)
      <4>1. CASE UNCHANGED inbox
        BY <1>0, <4>1 DEF InboxOK
      <4>2. ASSUME NEW o \in Offices, NEW n \in Copies("submitted"),
                   inbox' = [inbox EXCEPT ![run[w].sub][o] = @ + n]
            PROVE  InboxOK' /\ \A s \in Submissions, p \in Offices : inbox'[s][p] >= inbox[s][p]
        <5>1. n \in Nat
          BY DeliveryAssumption DEF Copies
        <5>2. run[w].sub \in Submissions
          BY <1>0, <3>1 DEF RunOK, Crash
        <5> QED  BY <1>0, <4>2, <5>1, <5>2 DEF InboxOK
      <4> QED  BY <3>1, <4>1, <4>2 DEF Crash
    <3>2. CASE UNCHANGED inbox
      BY <1>0, <3>2 DEF InboxOK
    <3> QED
      BY <1>4, <3>1, <3>2 DEF MarkProcessing, ReadSubmission, Throw, RecordFailure, LoseFailure
  <2>2. ResultsAreTrue'
    <3> SUFFICES ASSUME NEW v \in Runs, NEW o \in Offices, run'[v].result[o] = "submitted"
                 PROVE  run'[v].sub \in Submissions /\ inbox'[run'[v].sub][o] > 0
      BY DEF ResultsAreTrue
    <3>1. run'[v].sub = run[v].sub /\ run[v].result[o] = "submitted"
      BY <1>0, <2>0, GotoKeeps
    <3>2. run[v].sub \in Submissions /\ inbox[run[v].sub][o] > 0
      BY <1>0, <3>1 DEF ResultsAreTrue
    <3>3. inbox[run[v].sub][o] \in Nat /\ inbox'[run[v].sub][o] \in Nat
      BY <1>0, <2>1, <3>2 DEF InboxOK
    <3> QED  BY <2>1, <3>1, <3>2, <3>3
  <2>3. \A s \in Submissions : row'[s] = row[s] \/ row'[s].status \in {"processing", "failed"}
    BY <1>0, <1>4 DEF MarkProcessing, ReadSubmission, Throw, RecordFailure, LoseFailure, Crash,
                      RowOK, RowType
  <2>4. DeliveredHasReceipt'
    <3> SUFFICES ASSUME NEW s \in Submissions
                 PROVE  row'[s].status = "delivered" =>
                          /\ row'[s].delivered_at
                          /\ \E id \in row'[s].messageIds : inbox'[s][id[2]] > 0
      BY DEF DeliveredHasReceipt
    <3> QED  BY <2>1, <2>3, ReceiptsKept
  <2> QED  BY <1>0, <2>1, <2>2, <2>4 DEF ReceiptInv
<1>5. ASSUME CleanupWitness \/ \E s \in Submissions : Expire(s)
      PROVE  ReceiptInv'
  <2>1. UNCHANGED <<run, inbox>>
    BY <1>5 DEF CleanupWitness, Expire
  <2>2. \A s \in Submissions :
          /\ row'[s].status = row[s].status
          /\ row'[s].delivered_at = row[s].delivered_at
          /\ row'[s].messageIds = row[s].messageIds
    <3>1. \A s \in Submissions :
            \/ row'[s] = row[s]
            \/ row'[s] = [row[s] EXCEPT !.witness = "erased"]
            \/ row'[s] = [row[s] EXCEPT !.expired = TRUE]
      BY <1>0, <1>5 DEF CleanupWitness, Expire, RowOK
    <3> QED  BY <1>0, <3>1 DEF RowOK, RowType
  <2>3. DeliveredHasReceipt'
    BY <1>0, <2>1, <2>2 DEF DeliveredHasReceipt
  <2> QED  BY <1>0, <2>1, <2>3 DEF ReceiptInv, InboxOK, ResultsAreTrue
<1>6. CASE UNCHANGED vars
  BY <1>0, <1>6 DEF vars, ReceiptInv, InboxOK, ResultsAreTrue, DeliveredHasReceipt
<1> QED
  BY <1>1, <1>2, <1>3, <1>4, <1>5, <1>6 DEF Next, Work

\* However many workers overwrite a row, and whatever is lost or crashes, a submission
\* reads delivered only while it holds an id of an office that has the message
\* (delivery-worker.ts:247-275).
THEOREM DeliveredIsReceived == Spec => []DeliveredHasReceipt
<1>1. Init => ReceiptInv
  BY InitTypes DEF Init, ReceiptInv, InboxOK, ResultsAreTrue, DeliveredHasReceipt, NoRun, NoRow
<1>2. ReceiptInv => DeliveredHasReceipt
  BY DEF ReceiptInv
<1> QED
  BY <1>1, <1>2, ReceiptStep, PTL DEF Spec

-----------------------------------------------------------------------------
(* Who is abandoned.                                                       *)

\* Somebody works on s, or was lost with it.
Held(s) == \E w \in Runs : run[w].sub = s /\ run[w].pc \in Working \cup {"lost"}

HeldInv == RunOK /\ RowOK /\ \A s \in Submissions : row[s].status \in InHand => Held(s)

\* Who moves, and does not end, still holds what they held; so does everybody else.
LEMMA MoverHolds ==
  ASSUME HeldInv, RunOK', RowOK', NEW w \in Runs, run[w].pc \in Working,
         NEW pc \in Working \cup {"done", "lost"}, Moves(w, pc),
         pc # "done" \/ row'[run[w].sub].status \notin InHand,
         \A s \in Submissions : s # run[w].sub => row'[s].status = row[s].status
  PROVE  HeldInv'
<1> SUFFICES ASSUME NEW s \in Submissions, row'[s].status \in InHand
             PROVE  Held(s)'
  BY DEF HeldInv
<1>1. CASE s = run[w].sub
  BY <1>1, GotoKeeps DEF Held, HeldInv
<1>2. CASE s # run[w].sub
  <2>1. PICK v \in Runs : run[v].sub = s /\ run[v].pc \in Working \cup {"lost"}
    BY <1>2 DEF HeldInv, Held
  <2>2. v # w
    BY <1>2, <2>1
  <2> QED  BY <2>1, <2>2, GotoKeeps DEF Held, HeldInv
<1> QED
  BY <1>1, <1>2

\* A launch gives a submission to somebody who held none.
LEMMA LauncherHolds ==
  ASSUME HeldInv, RowOK', NEW w \in Runs, NEW s \in Submissions, Launch(w, s),
         \A t \in Submissions : t # s => row'[t] = row[t]
  PROVE  HeldInv'
<1>1. /\ RunOK' /\ run[w].pc = "idle" /\ run'[w].pc = "mark" /\ run'[w].sub = s
      /\ \A v \in Runs : v # w => run'[v] = run[v]
  BY LaunchTypes DEF HeldInv
<1> SUFFICES ASSUME NEW t \in Submissions, row'[t].status \in InHand
             PROVE  Held(t)'
  BY <1>1 DEF HeldInv
<1>2. CASE t = s
  BY <1>1, <1>2 DEF Held
<1>3. CASE t # s
  <2>1. PICK v \in Runs : run[v].sub = t /\ run[v].pc \in Working \cup {"lost"}
    BY <1>3 DEF HeldInv, Held
  <2>2. v # w
    BY <1>1, <2>1
  <2> QED  BY <1>1, <2>1, <2>2 DEF Held
<1> QED
  BY <1>2, <1>3

\* Every step keeps it: only a worker that wrote the outcome lets go.
LEMMA HeldStep == HeldInv /\ [Next]_vars => HeldInv'
<1> SUFFICES ASSUME HeldInv, [Next]_vars
             PROVE  HeldInv'
  OBVIOUS
<1>0. RunOK /\ RowOK /\ RunOK' /\ RowOK'
  BY TypesStep DEF HeldInv
<1>1. ASSUME NEW w \in Runs, NEW s \in Submissions, Post(w, s) \/ Retry(w, s)
      PROVE  HeldInv'
  BY <1>0, <1>1, LauncherHolds DEF Post, Retry, RowOK
<1>2. ASSUME NEW w \in Runs, NEW o \in Offices, SubmitToOffice(w, o)
      PROVE  HeldInv'
  <2>1. UNCHANGED row
    BY <1>2 DEF SubmitToOffice
  <2> QED  BY <1>0, <1>2, <2>1, SubmitTypes DEF HeldInv, Held
<1>3. ASSUME NEW w \in Runs,
             \/ MarkProcessing(w) \/ ReadSubmission(w) \/ Throw(w) \/ LoseFailure(w) \/ Crash(w)
      PROVE  HeldInv'
  <2>1. run[w].pc \in Working /\ \E pc \in Working \cup {"lost"} : Moves(w, pc)
    BY <1>3 DEF Moves, MarkProcessing, ReadSubmission, Throw, LoseFailure, Crash
  <2>2. \A s \in Submissions : s # run[w].sub => row'[s].status = row[s].status
    BY <1>0, <1>3 DEF MarkProcessing, ReadSubmission, Throw, LoseFailure, Crash, RowOK
  <2> QED  BY <1>0, <2>1, <2>2, MoverHolds
<1>4. ASSUME NEW w \in Runs, Finish(w) \/ RecordFailure(w)
      PROVE  HeldInv'
  <2>1. run[w].pc \in Working /\ run[w].sub \in Submissions /\ Moves(w, "done")
    BY <1>0, <1>4 DEF Moves, Finish, RecordFailure, RunOK
  <2>2. \A s \in Submissions : s # run[w].sub => row'[s].status = row[s].status
    BY <1>0, <1>4 DEF Finish, RecordFailure, RowOK
  <2>3. row'[run[w].sub].status \notin InHand
    <3>1. CASE Finish(w)
      <4>1. row'[run[w].sub].status = OverallStatus(run[w].result)
        BY <1>0, <2>1, <3>1, ZenonT(30) DEF Finish, RowOK, RowType
      <4> QED  BY <4>1 DEF OverallStatus, InHand
    <3>2. CASE RecordFailure(w)
      BY <1>0, <2>1, <3>2 DEF RecordFailure, RowOK, RowType, InHand
    <3> QED  BY <1>4, <3>1, <3>2
  <2> QED  BY <1>0, <2>1, <2>2, <2>3, MoverHolds
<1>5. ASSUME CleanupWitness \/ \E s \in Submissions : Expire(s)
      PROVE  HeldInv'
  <2>1. UNCHANGED run
    BY <1>5 DEF CleanupWitness, Expire
  <2>2. \A s \in Submissions : row'[s].status = row[s].status
    <3>1. \A s \in Submissions :
            \/ row'[s] = row[s]
            \/ row'[s] = [row[s] EXCEPT !.witness = "erased"]
            \/ row'[s] = [row[s] EXCEPT !.expired = TRUE]
      BY <1>0, <1>5 DEF CleanupWitness, Expire, RowOK
    <3> QED  BY <1>0, <3>1 DEF RowOK, RowType
  <2> QED  BY <1>0, <2>1, <2>2 DEF HeldInv, Held
<1>6. CASE UNCHANGED vars
  BY <1>0, <1>6 DEF vars, HeldInv, Held
<1> QED
  BY <1>1, <1>2, <1>3, <1>4, <1>5, <1>6 DEF Next, Work

\* No order of retries, repeated POSTs, throws and crashes leaves a submission waiting
\* with nobody at work on it, unless a worker of it was lost (delivery-worker.ts:41-305).
THEOREM NobodyAbandoned == Spec => []AbandonedOnlyByLoss
<1>1. Init => HeldInv
  BY InitTypes DEF Init, HeldInv, NoRow, InHand
<1>2. HeldInv => AbandonedOnlyByLoss
  BY DEF HeldInv, Held, AbandonedOnlyByLoss, Active, Lost, InHand
<1> QED
  BY <1>1, <1>2, HeldStep, PTL DEF Spec

-----------------------------------------------------------------------------
(* Data minimisation.                                                      *)

\* A submission that was POSTed has its row, which is never created a second time.
PostedInv ==
  /\ RunOK /\ RowOK
  /\ posts \in [Submissions -> Nat]
  /\ \A s \in Submissions : posts[s] > 0 => row[s].status # "none"

\* A worker that writes the row of its submission gives it a status and leaves the witness.
LEMMA WorkersWrite ==
  ASSUME RunOK, RowOK, NEW w \in Runs, Work(w) \/ Crash(w)
  PROVE  /\ posts' = posts
         /\ \A s \in Submissions :
              /\ row'[s].witness = row[s].witness
              /\ row'[s].status = row[s].status \/ row'[s].status # "none"
<1> USE DEF RowOK
<1>1. posts' = posts
  BY DEF Work, MarkProcessing, ReadSubmission, Throw, SubmitToOffice, Finish, RecordFailure,
         LoseFailure, Crash
<1>2. CASE row' = row
  BY <1>1, <1>2
<1>3. CASE MarkProcessing(w)
  BY <1>1, <1>3 DEF MarkProcessing, RowType
<1>4. CASE RecordFailure(w)
  BY <1>1, <1>4 DEF RecordFailure, RowType
<1>5. CASE Finish(w)
  <2> DEFINE s == run[w].sub
             error == \E o \in Offices : run[w].result[o] \in Failures
             delivered == \E o \in Offices : run[w].result[o] = "submitted"
             ids == {<<w, o>> : o \in {p \in Offices : run[w].result[p] \in WithMessageId}}
             status == OverallStatus(run[w].result)
             new == [row[s] EXCEPT !.status = status, !.error = error,
                                   !.delivered_at = delivered, !.messageIds = ids]
  <2>1. s \in Submissions /\ row' = [row EXCEPT ![s] = new]
    BY <1>5 DEF Finish, RunOK
  <2>2. status # "none"
    BY DEF OverallStatus
  <2> HIDE DEF s, error, delivered, ids, status
  <2>3. row[s] \in RowType
    BY <2>1
  <2>4. new.status = status /\ new.witness = row[s].witness
    BY <2>3 DEF RowType
  <2> HIDE DEF new
  <2> QED BY <1>1, <2>1, <2>2, <2>4
<1> QED
  BY <1>2, <1>3, <1>4, <1>5 DEF Work, ReadSubmission, Throw, SubmitToOffice, LoseFailure, Crash

\* What is done to the rows besides.
LEMMA OthersWrite ==
  ASSUME RunOK, RowOK,
         \/ \E w \in Runs, s \in Submissions : Retry(w, s)
         \/ \E s \in Submissions : Expire(s)
         \/ CleanupWitness
  PROVE  /\ posts' = posts
         /\ \A s \in Submissions :
              /\ row[s].witness = "erased" => row'[s].witness = "erased"
              /\ row'[s].status = row[s].status \/ row'[s].status # "none"
<1> USE DEF RowOK
<1>1. CASE \E w \in Runs, s \in Submissions : Retry(w, s)
  BY <1>1 DEF Retry, RowType
<1>2. CASE \E s \in Submissions : Expire(s)
  BY <1>2 DEF Expire, RowType
<1>3. CASE CleanupWitness
  BY <1>3 DEF CleanupWitness, RowType
<1> QED BY <1>1, <1>2, <1>3

LEMMA PostWrites ==
  ASSUME PostedInv, NEW w \in Runs, NEW s \in Submissions, Post(w, s)
  PROVE  /\ posts' \in [Submissions -> Nat] /\ row'[s].status # "none"
         /\ \A t \in Submissions : t # s => posts'[t] = posts[t] /\ row'[t] = row[t]
         /\ posts[s] > 0 => row'[s] = row[s]
<1>1. posts' = [posts EXCEPT ![s] = posts[s] + 1]
  BY DEF Post
<1>2. CASE row[s].status = "none"
  <2> DEFINE new == [NoRow EXCEPT !.status = "pending", !.witness = "sealed"]
  <2>1. row' = [row EXCEPT ![s] = new] /\ new.status # "none"
    BY <1>2 DEF Post, NoRow
  <2> HIDE DEF new
  <2> QED BY <1>1, <1>2, <2>1 DEF PostedInv, RowOK
<1>3. CASE row[s].status # "none"
  BY <1>1, <1>3 DEF Post, PostedInv
<1> QED BY <1>2, <1>3

LEMMA PostedStep == PostedInv /\ [Next]_vars => PostedInv'
<1> SUFFICES ASSUME PostedInv, [Next]_vars PROVE PostedInv'
  OBVIOUS
<1>0. RunOK' /\ RowOK' /\ RunOK /\ RowOK
  BY TypesStep DEF PostedInv
<1>1. ASSUME NEW w \in Runs, Work(w) \/ Crash(w) PROVE PostedInv'
  BY <1>0, <1>1, WorkersWrite DEF PostedInv
<1>2. ASSUME NEW w \in Runs, NEW s \in Submissions, Post(w, s) PROVE PostedInv'
  BY <1>0, <1>2, PostWrites DEF PostedInv
<1>3. ASSUME \/ \E w \in Runs, s \in Submissions : Retry(w, s)
             \/ \E s \in Submissions : Expire(s)
             \/ CleanupWitness
      PROVE  PostedInv'
  BY <1>0, <1>3, OthersWrite DEF PostedInv
<1>4. CASE UNCHANGED vars
  BY <1>0, <1>4 DEF PostedInv, vars
<1> QED BY <1>1, <1>2, <1>3, <1>4 DEF Next

\* Only who reads a sealed witness gets hold of it.
LEMMA HoldersRead ==
  ASSUME RunOK, [Next]_vars, NEW s \in Submissions, row[s].witness = "erased"
  PROVE  Holders(s)' \subseteq Holders(s)
<1> SUFFICES ASSUME NEW v \in Runs, run'[v].pc = "submit", run'[v].sub = s
             PROVE  run[v].pc = "submit" /\ run[v].sub = s
  BY DEF Holders, Active
<1>1. ASSUME NEW w \in Runs, NEW pc \in {"read", "fail", "done", "lost"}, Moves(w, pc)
      PROVE  run[v].pc = "submit" /\ run[v].sub = s
  BY <1>1, GotoKeeps
<1>2. ASSUME NEW w \in Runs, ReadSubmission(w)
      PROVE  run[v].pc = "submit" /\ run[v].sub = s
  <2>1. Moves(w, "submit") /\ row[run[w].sub].witness = "sealed"
    BY <1>2 DEF ReadSubmission, Moves
  <2>2. /\ run'[v].sub = run[v].sub
        /\ run'[v].pc = IF v = w THEN "submit" ELSE run[v].pc
    BY <2>1, GotoKeeps
  <2> QED BY <2>1, <2>2
<1>3. ASSUME NEW w \in Runs, NEW o \in Offices, SubmitToOffice(w, o)
      PROVE  run[v].pc = "submit" /\ run[v].sub = s
  BY <1>3, SubmitTypes
<1>4. ASSUME NEW w \in Runs, NEW t \in Submissions, Launch(w, t)
      PROVE  run[v].pc = "submit" /\ run[v].sub = s
  BY <1>4, LaunchTypes
<1>5. CASE run' = run
  BY <1>5
<1> QED
  BY <1>1, <1>2, <1>3, <1>4, <1>5
  DEF Next, vars, Work, MarkProcessing, Throw, Finish, RecordFailure, LoseFailure, Crash, Post,
      Retry, Expire, CleanupWitness, Moves

\* For any number of workers, retries and repeated POSTs, an erased witness stays erased and
\* nobody gets hold of it any more (cleanup-witness/+server.ts:47-57, create/+server.ts:139-144).
THEOREM ErasedIsForgotten == Spec => ErasedStaysSilent
<1>1. Init => PostedInv
  <2> SUFFICES ASSUME Init PROVE PostedInv
    OBVIOUS
  <2>1. posts = [s \in Submissions |-> 0]
    BY DEF Init
  <2> QED BY <2>1, InitTypes DEF PostedInv
<1>2. PostedInv /\ [Next]_vars =>
        [\A s \in Submissions :
           posts[s] > 0 /\ row[s].witness = "erased" =>
             row'[s].witness = "erased" /\ Holders(s)' \subseteq Holders(s)]_vars
  <2> SUFFICES ASSUME PostedInv, [Next]_vars, NEW s \in Submissions,
                      posts[s] > 0, row[s].witness = "erased"
               PROVE  row'[s].witness = "erased" /\ Holders(s)' \subseteq Holders(s)
    OBVIOUS
  <2>1. RunOK /\ RowOK
    BY DEF PostedInv
  <2>2. ASSUME NEW w \in Runs, Work(w) \/ Crash(w) PROVE row'[s].witness = "erased"
    BY <2>1, <2>2, WorkersWrite
  <2>3. ASSUME NEW w \in Runs, NEW t \in Submissions, Post(w, t) PROVE row'[s].witness = "erased"
    BY <2>3, PostWrites
  <2>4. ASSUME \/ \E w \in Runs, t \in Submissions : Retry(w, t)
               \/ \E t \in Submissions : Expire(t)
               \/ CleanupWitness
        PROVE  row'[s].witness = "erased"
    BY <2>1, <2>4, OthersWrite
  <2>5. ASSUME UNCHANGED vars PROVE row'[s].witness = "erased"
    BY <2>5 DEF vars
  <2>6. row'[s].witness = "erased"
    BY <2>2, <2>3, <2>4, <2>5 DEF Next
  <2>7. Holders(s)' \subseteq Holders(s)
    BY <2>1, HoldersRead
  <2> QED BY <2>6, <2>7
<1> QED BY <1>1, <1>2, PostedStep, PTL DEF Spec, ErasedStaysSilent
=============================================================================
