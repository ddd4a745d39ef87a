--------------------------- MODULE AutomationProofs ---------------------------
(***************************************************************************)
(* For any number of triggers, supporters and schedulers, any workflow and *)
(* every fault: the model is well typed, an execution that is neither      *)
(* paused nor over is in some promise's hand or was lost with one, nobody  *)
(* who left the audience comes back to it, and, where calls of the         *)
(* scheduler do not overlap, no step happens twice or before its delay.    *)
(***************************************************************************)
EXTENDS Automation, TLAPS

Positive == Nat \ {0}

ExecRow == [status : ExecStatuses, step : Positive, due : BOOLEAN, recent : BOOLEAN,
            waited : SUBSET Nat]

Resting == {"idle", "create", "next", "done"}
Busy == {"claim", "read", "mark", "step", "mail", "pause", "advance", "catch", "recover"}

RunRow == [pc : Resting \cup Busy, exec : Triggers \cup {None}, step : Positive,
           next : Positive, todo : SUBSET Triggers]

\* TypeOK alone is not inductive: steps are counted from 1, a promise has an execution in
\* hand exactly while it works on one, and SES is called for a step of the workflow.
TInv ==
  /\ AudienceTypeOK
  /\ exec \in [Triggers -> ExecRow]
  /\ run \in [Runners -> RunRow]
  /\ performed \in [Triggers -> [DOMAIN Steps -> Nat]]
  /\ lost \subseteq Triggers
  /\ \A r \in Runners : run[r].pc \in Busy <=> run[r].exec \in Triggers
  /\ \A r \in Runners : At(r, "mail") => run[r].step \in DOMAIN Steps

\* StuckOnlyByLoss rests on who holds what, and on nothing else.
HInv == TInv /\ StuckOnlyByLoss

LEMMA InitTInv == Init => TInv
  BY AutomationAssumption, AudienceAssumption
  DEF Init, TInv, AudienceInit, AudienceTypeOK, NoImport, Statuses, Rank, ExecRow, ExecStatuses,
      NoExec, RunRow, Idle, Runners, Positive, Resting, Busy, At

-----------------------------------------------------------------------------
(* The audience.                                                           *)

ImportRow == [pc : {"idle", "write", "done"}, sub : Supporters \cup {0}, status : Statuses]

\* The stricter of two statuses is one of them.
LEMMA StricterIsStatus ==
  ASSUME NEW a \in Statuses, NEW b \in Statuses
  PROVE  Stricter(a, b) \in Statuses
  BY DEF Stricter

LEMMA AudienceTypes == AudienceTypeOK /\ [AudienceNext]_audienceVars => AudienceTypeOK'
<1> SUFFICES ASSUME AudienceTypeOK, [AudienceNext]_audienceVars PROVE AudienceTypeOK'
  OBVIOUS
<1> USE AudienceAssumption
<1>0. {"subscribed", "unsubscribed", "bounced", "complained"} = Statuses
  BY DEF Statuses, Rank
<1>1. ASSUME NEW s \in Supporters, Bounce(s) \/ Complain(s) \/ Unsubscribe(s)
      PROVE  AudienceTypeOK'
  BY <1>0, <1>1 DEF AudienceTypeOK, Bounce, Complain, Unsubscribe, Notice
<1>2. ASSUME NEW i \in Imports, NEW s \in Supporters, NEW mapped \in Statuses,
             ImportRead(i, s, mapped)
      PROVE  AudienceTypeOK'
  <2> DEFINE status == Stricter(emailStatus[s], mapped)
  <2>1. status \in Statuses
    BY StricterIsStatus DEF AudienceTypeOK
  <2>2. "subscribed" \in Statuses
    BY <1>0
  <2>3. import' = [import EXCEPT ![i] =
          IF status = emailStatus[s] THEN [NoImport EXCEPT !.pc = "done"]
          ELSE [pc |-> "write", sub |-> s, status |-> status]]
        /\ UNCHANGED <<emailStatus, notices>>
    BY <1>2 DEF ImportRead
  <2>4. [NoImport EXCEPT !.pc = "done"] \in ImportRow
    BY <2>2 DEF NoImport, ImportRow
  <2>5. [pc |-> "write", sub |-> s, status |-> status] \in ImportRow
    BY <2>1 DEF ImportRow
  <2> HIDE DEF status
  <2> QED
    BY <2>3, <2>4, <2>5 DEF AudienceTypeOK, ImportRow
<1>3. ASSUME NEW i \in Imports, ImportWrite(i)
      PROVE  AudienceTypeOK'
  <2>1. [NoImport EXCEPT !.pc = "done"] \in ImportRow
    BY <1>0 DEF NoImport, ImportRow
  <2> QED
    BY <1>3, <2>1 DEF AudienceTypeOK, ImportWrite, ImportRow
<1>4. CASE UNCHANGED audienceVars
  BY <1>4 DEF AudienceTypeOK, audienceVars
<1> QED
  BY <1>1, <1>2, <1>3, <1>4 DEF AudienceNext

\* What an importer is about to write is stricter than what it read: never "subscribed".
NeverResubscribes == \A i \in Imports : import[i].pc = "write" => import[i].status # "subscribed"

LEMMA ImportsNeverResubscribe ==
  ASSUME AudienceTypeOK, NeverResubscribes, [AudienceNext]_audienceVars
  PROVE  NeverResubscribes'
<1>1. ASSUME NEW s \in Supporters, Bounce(s) \/ Complain(s) \/ Unsubscribe(s)
      PROVE  NeverResubscribes'
  BY <1>1 DEF NeverResubscribes, Bounce, Complain, Unsubscribe, Notice
<1>2. ASSUME NEW i \in Imports, NEW s \in Supporters, NEW mapped \in Statuses,
             ImportRead(i, s, mapped)
      PROVE  NeverResubscribes'
  <2> DEFINE status == Stricter(emailStatus[s], mapped)
  <2>1. emailStatus[s] \in Statuses
    BY DEF AudienceTypeOK
  <2>2. status # emailStatus[s] => status # "subscribed"
    BY <2>1 DEF Stricter, Statuses, Rank
  <2>3. import' = [import EXCEPT ![i] =
          IF status = emailStatus[s] THEN [NoImport EXCEPT !.pc = "done"]
          ELSE [pc |-> "write", sub |-> s, status |-> status]]
    BY <1>2 DEF ImportRead
  <2> HIDE DEF status
  <2> QED
    BY <2>2, <2>3 DEF NeverResubscribes, AudienceTypeOK, NoImport
<1>3. ASSUME NEW i \in Imports, ImportWrite(i)
      PROVE  NeverResubscribes'
  BY <1>3 DEF NeverResubscribes, ImportWrite, AudienceTypeOK, NoImport
<1>4. CASE UNCHANGED audienceVars
  BY <1>4 DEF NeverResubscribes, audienceVars
<1> QED
  BY <1>1, <1>2, <1>3, <1>4 DEF AudienceNext

\* No step of the audience brings anybody back.
LEMMA NobodyComesBack ==
  ASSUME AudienceTypeOK, NeverResubscribes, [AudienceNext]_audienceVars,
         NEW s \in Supporters, s \notin Subscribed
  PROVE  s \notin Subscribed'
<1> USE DEF Subscribed
<1>1. ASSUME NEW t \in Supporters, Bounce(t) \/ Complain(t) \/ Unsubscribe(t)
      PROVE  s \notin Subscribed'
  BY <1>1 DEF AudienceTypeOK, Bounce, Complain, Unsubscribe
<1>2. ASSUME NEW i \in Imports, NEW t \in Supporters, NEW mapped \in Statuses,
             ImportRead(i, t, mapped)
      PROVE  s \notin Subscribed'
  BY <1>2 DEF ImportRead
<1>3. ASSUME NEW i \in Imports, ImportWrite(i)
      PROVE  s \notin Subscribed'
  BY <1>3 DEF NeverResubscribes, ImportWrite, AudienceTypeOK
<1>4. CASE UNCHANGED audienceVars
  BY <1>4 DEF audienceVars
<1> QED
  BY <1>1, <1>2, <1>3, <1>4 DEF AudienceNext

-----------------------------------------------------------------------------
(* Types.                                                                  *)

USE DEF At, Goto

LEMMA UnchangedAudience == AudienceTypeOK /\ UNCHANGED audienceVars => AudienceTypeOK'
  BY DEF AudienceTypeOK, audienceVars

\* The rows of a workflow lead to steps that are counted from 1.
LEMMA StepTypes ==
  ASSUME NEW i \in DOMAIN Steps
  PROVE  i + 1 \in Positive /\ Steps[i].then \in Positive /\ Steps[i].else \in Positive
<1> DEFINE Row == [type : {"email", "tag", "delay", "condition"}, then : Positive, else : Positive]
<1>1. Steps \in Seq(Row)
  BY AutomationAssumption DEF Positive
<1>2. \A p \in Row : p.then \in Positive /\ p.else \in Positive
  OBVIOUS
<1> HIDE DEF Row
<1>3. DOMAIN Steps = 1..Len(Steps) /\ Len(Steps) \in Nat
  BY <1>1
<1>4. Steps[i] \in Row
  BY <1>1, <1>3
<1> QED
  BY <1>2, <1>3, <1>4 DEF Positive

\* What the types say of whoever moves.
LEMMA RunRows ==
  ASSUME TInv, NEW r \in Runners
  PROVE  /\ run[r] \in RunRow
         /\ run[r].pc \in Busy => run[r].exec \in Triggers /\ exec[run[r].exec] \in ExecRow
         /\ run[r].pc \notin Busy => run[r].exec = None
  BY AutomationAssumption DEF TInv, RunRow

\* A promise that goes from one place of its work to another keeps its execution.
LEMMA GotoTypes ==
  ASSUME TInv, NEW r \in Runners, NEW pc \in Busy, run[r].pc \in Busy, Goto(r, pc),
         pc = "mail" => run[r].step \in DOMAIN Steps
  PROVE  /\ run' \in [Runners -> RunRow]
         /\ \A q \in Runners : run'[q].pc \in Busy <=> run'[q].exec \in Triggers
         /\ \A q \in Runners : run'[q].pc = "mail" => run'[q].step \in DOMAIN Steps
<1> DEFINE row == [run[r] EXCEPT !.pc = pc]
<1>1. run[r] \in RunRow /\ run[r].exec \in Triggers
  BY DEF TInv
<1>2. row \in RunRow /\ row.pc = pc /\ row.exec \in Triggers /\ row.step = run[r].step
  BY <1>1 DEF RunRow
<1>3. run' = [run EXCEPT ![r] = row]
  BY DEF TInv
<1> HIDE DEF row
<1> QED
  BY <1>2, <1>3 DEF TInv

\* An update of a row keeps it one.
LEMMA StatusTypes ==
  ASSUME exec \in [Triggers -> ExecRow], NEW t \in Triggers, NEW status \in ExecStatuses,
         exec' = [exec EXCEPT ![t].status = status]
  PROVE  exec' \in [Triggers -> ExecRow]
  BY DEF ExecRow

\* A promise ends, or goes on to the next row.
LEMMA ReturnTypes ==
  ASSUME TInv, NEW r \in Runners,
         \/ Return(r)
         \/ run' = [run EXCEPT ![r] = IF r \in Triggers THEN [Idle EXCEPT !.pc = "done"] ELSE Idle]
  PROVE  /\ run' \in [Runners -> RunRow]
         /\ \A q \in Runners : run'[q].pc \in Busy <=> run'[q].exec \in Triggers
         /\ \A q \in Runners : run'[q].pc = "mail" => run'[q].step \in DOMAIN Steps
<1>1. PICK row \in {[Idle EXCEPT !.pc = "done"], Idle,
                    [Idle EXCEPT !.pc = "next", !.todo = run[r].todo]} :
        run' = [run EXCEPT ![r] = row]
  BY DEF Return
<1>2. /\ row \in RunRow
      /\ row.pc \notin Busy /\ row.exec \notin Triggers
  <2>1. run[r].todo \in SUBSET Triggers
    BY DEF TInv, RunRow
  <2>2. CASE row = Idle
    BY <2>2, AutomationAssumption DEF Idle, RunRow, Resting, Busy, Positive
  <2>3. CASE row = [Idle EXCEPT !.pc = "done"]
    BY <2>3, AutomationAssumption DEF Idle, RunRow, Resting, Busy, Positive
  <2>4. CASE row = [Idle EXCEPT !.pc = "next", !.todo = run[r].todo]
    <3>1. /\ row.pc = "next" /\ row.exec = None
          /\ row = [pc |-> "next", exec |-> None, step |-> 1, next |-> 1, todo |-> run[r].todo]
      BY <2>4 DEF Idle
    <3>2. "next" \in Resting /\ "next" \notin Busy /\ 1 \in Positive
      BY DEF Resting, Busy, Positive
    <3> QED
      BY <2>1, <3>1, <3>2, AutomationAssumption DEF RunRow
  <2> QED
    BY <2>2, <2>3, <2>4
<1>3. row.pc # "mail"
  BY <1>2 DEF Busy
<1> QED
  BY <1>1, <1>2, <1>3 DEF TInv

LEMMA LeadsTypes ==
  ASSUME TInv, NEW r \in Runners, run[r].pc \in Busy,
         NEW pc \in {"mail", "advance", "pause"}, NEW next \in Positive, Leads(r, pc, next),
         run[r].step \in DOMAIN Steps
  PROVE  /\ run' \in [Runners -> RunRow]
         /\ \A q \in Runners : run'[q].pc \in Busy <=> run'[q].exec \in Triggers
         /\ \A q \in Runners : run'[q].pc = "mail" => run'[q].step \in DOMAIN Steps
<1> DEFINE row == [run[r] EXCEPT !.pc = pc, !.next = next]
<1>1. run[r] \in RunRow /\ run[r].exec \in Triggers /\ pc \in Busy
  BY DEF TInv, Busy
<1>2. row \in RunRow /\ row.pc \in Busy /\ row.exec \in Triggers /\ row.step \in DOMAIN Steps
  BY <1>1 DEF RunRow
<1>3. run' = [run EXCEPT ![r] = row]
  BY DEF Leads, TInv
<1> HIDE DEF row
<1> QED
  BY <1>2, <1>3 DEF TInv

LEMMA EffectTypes ==
  ASSUME TInv, NEW r \in Runners, run[r].exec \in Triggers, run[r].step \in DOMAIN Steps,
         TakeEffect(r)
  PROVE  performed' \in [Triggers -> [DOMAIN Steps -> Nat]]
  BY DEF TInv, TakeEffect

\* The steps of a dispatch and of time.
LEMMA DispatchTypes ==
  ASSUME TInv, NEW t \in Triggers,
         \/ Dispatch(t) \/ CreateExecution(t) \/ MinutePasses(t) \/ DelayElapses(t)
         \/ DispatchThrows(t)
  PROVE  TInv'
<1>0. t \in Runners
  BY DEF Runners
<1>1. CASE Dispatch(t)
  <2>1. AudienceTypeOK'
    BY <1>1, UnchangedAudience DEF Dispatch, TInv
  <2>2. PICK pc \in {"done", "create"} : run' = [run EXCEPT ![t].pc = pc]
    BY <1>1 DEF Dispatch
  <2>3. run[t].pc \notin Busy
    BY <1>1 DEF Dispatch, Busy
  <2>4. pc \in Resting /\ pc \notin Busy /\ pc # "mail"
    BY DEF Resting, Busy
  <2> QED
    BY <1>0, <1>1, <2>1, <2>2, <2>3, <2>4 DEF Dispatch, TInv, RunRow
<1>2. CASE CreateExecution(t)
  <2>1. AudienceTypeOK'
    BY <1>2, UnchangedAudience DEF CreateExecution, TInv
  <2>2. exec' \in [Triggers -> ExecRow]
    BY <1>2, ZenonT(30) DEF CreateExecution, TInv, ExecRow, ExecStatuses
  <2>3. run' = [run EXCEPT ![t].pc = "read", ![t].exec = t]
    BY <1>2 DEF CreateExecution, Begin
  <2>4. run' \in [Runners -> RunRow]
    <3> DEFINE row == [run[t] EXCEPT !.pc = "read", !.exec = t]
    <3>1. run[t] \in RunRow
      BY <1>0, RunRows
    <3>2. row \in RunRow
      BY <3>1 DEF RunRow, Busy
    <3>3. run' = [run EXCEPT ![t] = row]
      BY <2>3
    <3> HIDE DEF row
    <3> QED
      BY <1>0, <3>2, <3>3 DEF TInv
  <2>5. "read" \in Busy /\ "read" # "mail"
    BY DEF Busy
  <2>6. UNCHANGED <<performed, lost>>
    BY <1>2 DEF CreateExecution
  <2> QED
    BY <1>0, <2>1, <2>2, <2>3, <2>4, <2>5, <2>6 DEF TInv
<1>3. CASE MinutePasses(t)
  <2>1. AudienceTypeOK'
    BY <1>3, UnchangedAudience DEF MinutePasses, TInv
  <2>2. exec' \in [Triggers -> ExecRow]
    BY <1>3 DEF MinutePasses, TInv, ExecRow
  <2> QED
    BY <1>3, <2>1, <2>2 DEF MinutePasses, TInv
<1>4. CASE DelayElapses(t)
  <2>1. AudienceTypeOK'
    BY <1>4, UnchangedAudience DEF DelayElapses, TInv
  <2>2. exec[t].step - 1 \in Nat
    BY DEF TInv, ExecRow, Positive
  <2>3. exec' \in [Triggers -> ExecRow]
    BY <1>4, <2>2 DEF DelayElapses, TInv, ExecRow
  <2> QED
    BY <1>4, <2>1, <2>3 DEF DelayElapses, TInv
<1>5. CASE DispatchThrows(t)
  <2>1. AudienceTypeOK'
    BY <1>5, UnchangedAudience DEF DispatchThrows, EndCall, TInv
  <2>2. lost' \subseteq Triggers
    BY <1>0, <1>5 DEF DispatchThrows, EndCall, Abandoned, TInv, RunRow
  <2> QED
    BY <1>0, <1>5, <2>1, <2>2, ReturnTypes DEF DispatchThrows, EndCall, TInv
<1> QED
  BY <1>1, <1>2, <1>3, <1>4, <1>5

\* The scheduler's steps.
LEMMA SchedulerTypes ==
  ASSUME TInv, NEW p \in Schedulers, StartBatch(p) \/ SchedulerStep(p)
  PROVE  TInv'
<1>0. p \in Runners
  BY DEF Runners
<1>1. AudienceTypeOK'
  BY UnchangedAudience DEF SchedulerStep, StartBatch, Claim, EndBatch, Recover, RecoverThrows,
                           EndCall, TakeRow, TInv
<1>2. CASE StartBatch(p)
  <2>1. DueRows \subseteq Triggers
    BY DEF DueRows
  <2>2. run' = [run EXCEPT ![p].pc = "next", ![p].todo = DueRows]
        /\ UNCHANGED <<exec, performed, lost>> /\ run[p].pc = "idle"
    BY <1>2 DEF StartBatch
  <2>3. run' \in [Runners -> RunRow]
    BY <1>0, <2>1, <2>2, ZenonT(30) DEF TInv, RunRow, Resting
  <2>4. "next" \notin Busy /\ "idle" \notin Busy /\ "next" # "mail"
    BY DEF Busy
  <2> QED
    BY <1>0, <1>1, <2>2, <2>3, <2>4 DEF TInv
<1>3. ASSUME NEW t \in Triggers, TakeRow(p, t)
      PROVE  TInv'
  BY <1>0, <1>1, <1>3 DEF TakeRow, TInv, RunRow, Busy
<1>4. CASE Claim(p)
  <2>1. run[p].pc \in Busy /\ "read" \in Busy /\ "read" # "mail"
    BY <1>4 DEF Claim, Busy
  <2>2. exec' \in [Triggers -> ExecRow]
    <3> DEFINE row == [exec[run[p].exec] EXCEPT !.status = "running", !.due = FALSE]
    <3>1. run[p].exec \in Triggers /\ exec[run[p].exec] \in ExecRow
      BY <1>0, <2>1, RunRows
    <3>2. row \in ExecRow
      BY <3>1 DEF ExecRow, ExecStatuses
    <3>3. exec' = [exec EXCEPT ![run[p].exec] = row]
      BY <1>4 DEF Claim
    <3> HIDE DEF row
    <3> QED
      BY <3>1, <3>2, <3>3 DEF TInv
  <2> QED
    BY <1>0, <1>1, <1>4, <2>1, <2>2, GotoTypes DEF Claim, TInv
<1>5. CASE EndBatch(p)
  BY <1>0, <1>1, <1>5, AutomationAssumption DEF EndBatch, TInv, RunRow, Idle, Resting, Busy, Positive
<1>6. CASE Recover(p)
  <2>1. run[p].pc \in Busy
    BY <1>6 DEF Recover, Busy
  <2>2. exec' \in [Triggers -> ExecRow]
    BY <1>0, <1>6, <2>1, StatusTypes DEF Recover, TInv, ExecStatuses
  <2> QED
    BY <1>0, <1>1, <1>6, <2>2, ReturnTypes DEF Recover, TInv
<1>7. CASE RecoverThrows(p)
  <2>1. lost' \subseteq Triggers
    BY <1>0, <1>7 DEF RecoverThrows, EndCall, Abandoned, TInv, RunRow
  <2> QED
    BY <1>0, <1>1, <1>7, <2>1, ReturnTypes DEF RecoverThrows, EndCall, TInv
<1> QED
  BY <1>2, <1>3, <1>4, <1>5, <1>6, <1>7 DEF SchedulerStep

\* The steps of executeWorkflow and a crash.
LEMMA ExecuteTypes ==
  ASSUME TInv, NEW r \in Runners, ExecuteStep(r) \/ Crash(r)
  PROVE  TInv'
<1>1. AudienceTypeOK'
  BY UnchangedAudience DEF ExecuteStep, ReadExecution, MarkRunning, StartEmail, SendEmail, Tag,
       Delay, Condition, Pause, Advance, Complete, StepThrows, RecordFailure, Reject, Crash,
       EndCall, TInv
<1>2. CASE ReadExecution(r)
  <2>1. run[r].exec \in Triggers
    BY <1>2 DEF ReadExecution, TInv, Busy
  <2>2. CASE Return(r)
    BY <1>1, <1>2, <2>2, ReturnTypes DEF ReadExecution, TInv
  <2>3. CASE run' = [run EXCEPT ![r].pc = "mark", ![r].step = exec[run[r].exec].step]
    <3>1. exec[run[r].exec].step \in Positive
      BY <2>1 DEF TInv, ExecRow
    <3>2. "mark" \in Busy /\ "mark" # "mail"
      BY DEF Busy
    <3>3. run' \in [Runners -> RunRow]
      BY <2>3, <3>1, <3>2 DEF TInv, RunRow
    <3>4. UNCHANGED <<exec, performed, lost>>
      BY <1>2 DEF ReadExecution
    <3> QED
      BY <1>1, <2>1, <2>3, <3>2, <3>3, <3>4 DEF TInv
  <2> QED
    BY <1>2, <2>2, <2>3 DEF ReadExecution
<1>3. CASE MarkRunning(r)
  <2>1. run[r].pc \in Busy /\ "step" \in Busy
    BY <1>3 DEF MarkRunning, Busy
  <2>2. exec' \in [Triggers -> ExecRow]
    BY <1>3, <2>1, StatusTypes DEF MarkRunning, TInv, ExecStatuses
  <2> QED
    BY <1>1, <1>3, <2>1, <2>2, GotoTypes DEF MarkRunning, TInv
<1>4. CASE StartEmail(r)
  <2>1. run[r].pc \in Busy /\ run[r].step \in DOMAIN Steps
    BY <1>4 DEF StartEmail, AtStep, Busy
  <2>2. run[r].step + 1 \in Positive
    BY <2>1, StepTypes
  <2>3. \E pc \in {"mail", "advance", "pause"} : Leads(r, pc, run[r].step + 1)
    BY <1>4 DEF StartEmail
  <2> QED
    BY <1>1, <1>4, <2>1, <2>2, <2>3, LeadsTypes DEF StartEmail, TInv
<1>5. CASE SendEmail(r)
  <2>1. run[r].pc \in Busy /\ "advance" \in Busy /\ run[r].exec \in Triggers
        /\ run[r].step \in DOMAIN Steps
    BY <1>5 DEF SendEmail, TInv, Busy
  <2>2. performed' \in [Triggers -> [DOMAIN Steps -> Nat]]
    BY <1>5, <2>1, EffectTypes DEF SendEmail, TInv
  <2> QED
    BY <1>1, <1>5, <2>1, <2>2, GotoTypes DEF SendEmail, TInv
<1>6. CASE Tag(r) \/ Delay(r) \/ Condition(r)
  <2>1. run[r].pc \in Busy /\ run[r].exec \in Triggers /\ run[r].step \in DOMAIN Steps
    BY <1>6 DEF Tag, Delay, Condition, AtStep, TInv, Busy
  <2>2. performed' \in [Triggers -> [DOMAIN Steps -> Nat]]
    BY <1>6, <2>1, EffectTypes DEF Tag, Delay, Condition, TInv
  <2>3. \E pc \in {"mail", "advance", "pause"}, next \in Positive : Leads(r, pc, next)
    BY <1>6, <2>1, StepTypes DEF Tag, Delay, Condition, Current
  <2>4. UNCHANGED <<exec, lost>>
    BY <1>6 DEF Tag, Delay, Condition
  <2> QED
    BY <1>1, <2>1, <2>2, <2>3, <2>4, LeadsTypes DEF TInv
<1>7. CASE Pause(r)
  <2>1. run[r].exec \in Triggers
    BY <1>7 DEF Pause, TInv, Busy
  <2>2. exec' \in [Triggers -> ExecRow]
    <3> DEFINE row == [exec[run[r].exec] EXCEPT !.status = "paused", !.step = run[r].next,
                                                !.due = FALSE]
    <3>1. exec[run[r].exec] \in ExecRow /\ run[r].next \in Positive
      BY <2>1 DEF TInv, RunRow
    <3>2. row \in ExecRow
      BY <3>1 DEF ExecRow, ExecStatuses
    <3>3. exec' = [exec EXCEPT ![run[r].exec] = row]
      BY <1>7 DEF Pause
    <3> HIDE DEF row
    <3> QED
      BY <2>1, <3>2, <3>3 DEF TInv
  <2> QED
    BY <1>1, <1>7, <2>2, ReturnTypes DEF Pause, TInv
<1>8. CASE Advance(r)
  <2>1. run[r].exec \in Triggers
    BY <1>8 DEF Advance, TInv, Busy
  <2>2. exec' \in [Triggers -> ExecRow]
    <3>1. run[r].next \in Positive
      BY DEF TInv, RunRow
    <3>2. exec' = [exec EXCEPT ![run[r].exec].step = run[r].next]
      BY <1>8 DEF Advance
    <3> QED
      BY <2>1, <3>1, <3>2 DEF TInv, ExecRow
  <2>3. "step" \in Busy /\ "step" # "mail"
    BY DEF Busy
  <2>4. run' = [run EXCEPT ![r].pc = "step", ![r].step = run[r].next]
        /\ UNCHANGED <<performed, lost>>
    BY <1>8 DEF Advance
  <2>5. run' \in [Runners -> RunRow]
    BY <2>3, <2>4 DEF TInv, RunRow
  <2> QED
    BY <1>1, <2>1, <2>2, <2>3, <2>4, <2>5 DEF TInv
<1>9. CASE Complete(r) \/ RecordFailure(r)
  <2>1. run[r].exec \in Triggers
    BY <1>9 DEF Complete, RecordFailure, TInv, Busy
  <2>2. exec' \in [Triggers -> ExecRow]
    BY <1>9, <2>1, StatusTypes DEF Complete, RecordFailure, TInv, ExecStatuses
  <2>3. Return(r) /\ UNCHANGED <<performed, lost>>
    BY <1>9 DEF Complete, RecordFailure
  <2> QED
    BY <1>1, <2>2, <2>3, ReturnTypes DEF TInv
<1>10. CASE StepThrows(r)
  <2>1. run[r].pc \in Busy /\ "catch" \in Busy
    BY <1>10 DEF StepThrows, AtStep, Busy
  <2> QED
    BY <1>1, <1>10, <2>1, GotoTypes DEF StepThrows, TInv
<1>11. CASE Reject(r)
  <2>1. run[r].pc \in Busy /\ "recover" \in Busy /\ run[r].exec \in Triggers
    BY <1>11 DEF Reject, TInv, Busy
  <2>2. CASE r \in Triggers
    BY <1>1, <1>11, <2>1, <2>2, ReturnTypes DEF Reject, TInv
  <2>3. CASE r \notin Triggers
    BY <1>1, <1>11, <2>1, <2>3, GotoTypes DEF Reject, TInv
  <2> QED
    BY <2>2, <2>3
<1>12. CASE Crash(r)
  <2>1. lost' \subseteq Triggers
    BY <1>12 DEF Crash, EndCall, Abandoned, TInv, RunRow
  <2> QED
    BY <1>1, <1>12, <2>1, ReturnTypes DEF Crash, EndCall, TInv
<1> QED
  BY <1>2, <1>3, <1>4, <1>5, <1>6, <1>7, <1>8, <1>9, <1>10, <1>11, <1>12 DEF ExecuteStep

LEMMA NextTInv == TInv /\ [Next]_vars => TInv'
<1> SUFFICES ASSUME TInv, [Next]_vars PROVE TInv'
  OBVIOUS
<1>1. CASE AudienceNext /\ UNCHANGED <<exec, run, performed, lost>>
  BY <1>1, AudienceTypes DEF TInv
<1>2. ASSUME NEW t \in Triggers,
             Dispatch(t) \/ DispatchStep(t) \/ MinutePasses(t) \/ DelayElapses(t)
      PROVE  TInv'
  BY <1>2, DispatchTypes DEF DispatchStep
<1>3. CASE UNCHANGED vars
  BY <1>3, UnchangedAudience DEF vars, audienceVars, TInv
<1> QED
  BY <1>1, <1>2, <1>3, SchedulerTypes, ExecuteTypes DEF Next

-----------------------------------------------------------------------------
(* Nothing is forgotten.                                                   *)

\* Executions that need not be in anybody's hand.
AtRest(t) == exec[t].status \notin {"pending", "running"} \/ t \in lost

\* Whoever else has an execution in hand keeps it when r moves, and what is lost stays
\* lost: only the rows r writes and the one it drops need a look.
LEMMA HandsOff ==
  ASSUME HInv, NEW r \in Runners, lost \subseteq lost',
         \A q \in Runners \ {r} : run'[q] = run[q],
         \A t \in Triggers : t # run[r].exec => exec'[t].status = exec[t].status,
         \A t \in Triggers : t = run[r].exec => run'[r].exec = t \/ AtRest(t)'
  PROVE  StuckOnlyByLoss'
<1> SUFFICES ASSUME NEW t \in Triggers, exec'[t].status \in {"pending", "running"}
             PROVE  InHand(t)' \/ t \in lost'
  BY DEF StuckOnlyByLoss
<1>1. CASE t = run[r].exec
  BY <1>1 DEF AtRest, InHand
<1>2. CASE t # run[r].exec
  <2>1. InHand(t) \/ t \in lost
    BY <1>2 DEF HInv, StuckOnlyByLoss
  <2>2. ASSUME NEW q \in Runners, run[q].exec = t
        PROVE  InHand(t)'
    BY <1>2, <2>2 DEF InHand
  <2> QED
    BY <2>1, <2>2 DEF InHand
<1> QED
  BY <1>1, <1>2

\* What was claimed and is let go of by a crash counts as lost.
LEMMA EndCallHolds ==
  ASSUME HInv, NEW r \in Runners, EndCall(r)
  PROVE  StuckOnlyByLoss'
<1>1. /\ lost' = lost \cup Abandoned(r) /\ exec' = exec
      /\ \A q \in Runners \ {r} : run'[q] = run[q]
  BY Zenon DEF EndCall, HInv, TInv
<1>2. \A t \in Triggers : t = run[r].exec => AtRest(t)'
  BY <1>1, AutomationAssumption DEF Abandoned, AtRest
<1> QED
  BY <1>1, <1>2, HandsOff

\* The steps of a dispatch and of time.
LEMMA DispatchHolds ==
  ASSUME HInv, NEW t \in Triggers,
         \/ Dispatch(t) \/ CreateExecution(t) \/ MinutePasses(t) \/ DelayElapses(t)
         \/ DispatchThrows(t)
  PROVE  StuckOnlyByLoss'
<1>0. t \in Runners
  BY DEF Runners
<1>1. CASE Dispatch(t)
  <2>1. PICK pc : run' = [run EXCEPT ![t].pc = pc]
    BY <1>1 DEF Dispatch
  <2>2. exec' = exec /\ lost' = lost
    BY <1>1 DEF Dispatch
  <2>3. \A q \in Runners : run'[q].exec = run[q].exec
    BY <1>0, <2>1 DEF HInv, TInv, RunRow
  <2> QED
    BY <2>2, <2>3 DEF HInv, StuckOnlyByLoss, InHand
<1>2. CASE CreateExecution(t)
  <2>1. /\ run' = [run EXCEPT ![t].pc = "read", ![t].exec = t]
        /\ exec' = [exec EXCEPT ![t].status = "pending", ![t].recent = TRUE]
        /\ lost' = lost
    BY <1>2 DEF CreateExecution, Begin
  <2>2. run[t].exec \notin Triggers
    BY <1>0, <1>2 DEF CreateExecution, HInv, TInv, Busy
  <2>3. run'[t].exec = t
    BY <1>0, <2>1 DEF HInv, TInv, RunRow
  <2>4. \A u \in Triggers : u # t => exec'[u].status = exec[u].status
    BY <2>1 DEF HInv, TInv
  <2>5. \A q \in Runners \ {t} : run'[q] = run[q]
    BY <2>1 DEF HInv, TInv
  <2> SUFFICES ASSUME NEW u \in Triggers, exec'[u].status \in {"pending", "running"}
               PROVE  InHand(u)' \/ u \in lost'
    BY DEF StuckOnlyByLoss
  <2>6. CASE u = t
    BY <1>0, <2>3, <2>6 DEF InHand
  <2>7. CASE u # t
    BY <2>1, <2>2, <2>4, <2>5, <2>7 DEF HInv, StuckOnlyByLoss, InHand
  <2> QED
    BY <2>6, <2>7
<1>3. CASE MinutePasses(t)
  <2>1. exec' = [exec EXCEPT ![t].recent = FALSE] /\ run' = run /\ lost' = lost
    BY <1>3 DEF MinutePasses
  <2>2. \A u \in Triggers : exec'[u].status = exec[u].status
    BY <2>1 DEF HInv, TInv, ExecRow
  <2> QED
    BY <2>1, <2>2 DEF HInv, StuckOnlyByLoss, InHand
<1>4. CASE DelayElapses(t)
  <2>1. run' = run /\ lost' = lost
    BY <1>4 DEF DelayElapses
  <2>2. \A u \in Triggers : exec'[u].status = exec[u].status
    BY <1>4 DEF DelayElapses, HInv, TInv, ExecRow
  <2> QED
    BY <2>1, <2>2 DEF HInv, StuckOnlyByLoss, InHand
<1>5. CASE DispatchThrows(t)
  BY <1>0, <1>5, EndCallHolds DEF DispatchThrows
<1> QED
  BY <1>1, <1>2, <1>3, <1>4, <1>5

\* The scheduler's steps.
LEMMA SchedulerHolds ==
  ASSUME HInv, NEW p \in Schedulers, StartBatch(p) \/ SchedulerStep(p)
  PROVE  StuckOnlyByLoss'
<1>0. p \in Runners
  BY DEF Runners
<1>1. CASE StartBatch(p) \/ EndBatch(p) \/ \E t \in Triggers : TakeRow(p, t)
  <2>1. run[p].exec \notin Triggers
    BY <1>0, <1>1 DEF StartBatch, EndBatch, TakeRow, HInv, TInv, Busy
  <2>2. exec' = exec /\ lost' = lost
    BY <1>1 DEF StartBatch, EndBatch, TakeRow
  <2>3. \A q \in Runners \ {p} : run'[q] = run[q]
    BY <1>1 DEF StartBatch, EndBatch, TakeRow, HInv, TInv
  <2> QED
    BY <1>0, <2>1, <2>2, <2>3, HandsOff
<1>2. CASE Claim(p)
  <2>1. run' = [run EXCEPT ![p].pc = "read"] /\ lost' = lost
    BY <1>2 DEF Claim
  <2>2. run'[p].exec = run[p].exec /\ \A q \in Runners \ {p} : run'[q] = run[q]
    BY <1>0, <2>1 DEF HInv, TInv, RunRow
  <2>3. \A t \in Triggers : t # run[p].exec => exec'[t].status = exec[t].status
    BY <1>2 DEF Claim, HInv, TInv
  <2> QED
    BY <1>0, <2>1, <2>2, <2>3, HandsOff
<1>3. CASE Recover(p)
  <2>1. exec' = [exec EXCEPT ![run[p].exec].status = "failed"] /\ lost' = lost /\ Return(p)
    BY <1>3 DEF Recover
  <2>2. \A q \in Runners \ {p} : run'[q] = run[q]
    BY <2>1 DEF Return, HInv, TInv
  <2>3. run[p].exec \in Triggers => exec'[run[p].exec].status = "failed"
    BY <2>1 DEF HInv, TInv, ExecRow
  <2>4. \A t \in Triggers : t # run[p].exec => exec'[t].status = exec[t].status
    BY <2>1 DEF HInv, TInv
  <2> QED
    BY <1>0, <2>1, <2>2, <2>3, <2>4, HandsOff DEF AtRest
<1>4. CASE RecoverThrows(p)
  BY <1>0, <1>4, EndCallHolds DEF RecoverThrows
<1> QED
  BY <1>1, <1>2, <1>3, <1>4 DEF SchedulerStep

\* The steps of executeWorkflow and a crash. Whoever returns has read or written that
\* the execution is over or paused; a trigger whose statement throws loses it.
LEMMA ExecuteHolds ==
  ASSUME HInv, NEW r \in Runners, ExecuteStep(r) \/ Crash(r)
  PROVE  StuckOnlyByLoss'
<1> DEFINE keeps == run'[r].exec = run[r].exec
<1>1. CASE ReadExecution(r)
  <2>1. exec' = exec /\ lost' = lost
    BY <1>1 DEF ReadExecution
  <2>2. \A q \in Runners \ {r} : run'[q] = run[q]
    BY <1>1 DEF ReadExecution, Return, HInv, TInv
  <2>3. CASE exec[run[r].exec].status \in {"completed", "failed"}
    BY <2>1, <2>2, <2>3, HandsOff DEF AtRest
  <2>4. CASE exec[run[r].exec].status \notin {"completed", "failed"}
    <3>1. keeps
      BY <1>1, <2>4 DEF ReadExecution, HInv, TInv, RunRow
    <3> QED
      BY <2>1, <2>2, <3>1, HandsOff
  <2> QED
    BY <2>3, <2>4
<1>2. CASE MarkRunning(r) \/ Advance(r)
  <2>1. lost' = lost /\ keeps /\ \A q \in Runners \ {r} : run'[q] = run[q]
    BY <1>2 DEF MarkRunning, Advance, HInv, TInv, RunRow
  <2>2. \A t \in Triggers : t # run[r].exec => exec'[t].status = exec[t].status
    BY <1>2 DEF MarkRunning, Advance, HInv, TInv
  <2> QED
    BY <2>1, <2>2, HandsOff
<1>3. CASE StartEmail(r) \/ SendEmail(r) \/ Tag(r) \/ Delay(r) \/ Condition(r) \/ StepThrows(r)
  <2>1. lost' = lost /\ exec' = exec
    BY <1>3 DEF StartEmail, SendEmail, Tag, Delay, Condition, StepThrows
  <2>2. \/ \E pc : Goto(r, pc)
        \/ \E pc, next : Leads(r, pc, next)
    BY <1>3 DEF StartEmail, SendEmail, Tag, Delay, Condition, StepThrows
  <2>3. keeps /\ \A q \in Runners \ {r} : run'[q] = run[q]
    BY <2>2 DEF Leads, HInv, TInv, RunRow
  <2> QED
    BY <2>1, <2>3, HandsOff
<1>4. CASE Pause(r) \/ Complete(r) \/ RecordFailure(r)
  <2>1. lost' = lost /\ Return(r)
    BY <1>4 DEF Pause, Complete, RecordFailure
  <2>2. \A q \in Runners \ {r} : run'[q] = run[q]
    BY <2>1 DEF Return, HInv, TInv
  <2>3. \A t \in Triggers : t # run[r].exec => exec'[t].status = exec[t].status
    BY <1>4 DEF Pause, Complete, RecordFailure, HInv, TInv
  <2>4. run[r].exec \in Triggers => exec'[run[r].exec].status \in {"paused", "completed", "failed"}
    <3>0. ASSUME run[r].exec \in Triggers PROVE exec[run[r].exec] \in ExecRow
      BY <3>0 DEF HInv, TInv
    <3>1. CASE Pause(r)
      BY <3>0, <3>1 DEF Pause, HInv, TInv, ExecRow
    <3>2. CASE Complete(r) \/ RecordFailure(r)
      BY <3>0, <3>2 DEF Complete, RecordFailure, HInv, TInv, ExecRow
    <3> QED
      BY <1>4, <3>1, <3>2
  <2> QED
    BY <2>1, <2>2, <2>3, <2>4, HandsOff DEF AtRest
<1>5. CASE Reject(r)
  <2>1. exec' = exec
    BY <1>5 DEF Reject
  <2>2. CASE r \in Triggers
    <3>1. lost' = lost \cup {run[r].exec} /\ Return(r)
      BY <1>5, <2>2 DEF Reject
    <3>2. \A q \in Runners \ {r} : run'[q] = run[q]
      BY <3>1 DEF Return, HInv, TInv
    <3> QED
      BY <2>1, <3>1, <3>2, HandsOff DEF AtRest
  <2>3. CASE r \notin Triggers
    <3>1. lost' = lost /\ keeps /\ \A q \in Runners \ {r} : run'[q] = run[q]
      BY <1>5, <2>3 DEF Reject, HInv, TInv, RunRow
    <3> QED
      BY <2>1, <3>1, HandsOff
  <2> QED
    BY <2>2, <2>3
<1>6. CASE Crash(r)
  BY <1>6, EndCallHolds DEF Crash
<1> QED
  BY <1>1, <1>2, <1>3, <1>4, <1>5, <1>6 DEF ExecuteStep

LEMMA NextHInv == HInv /\ [Next]_vars => HInv'
<1> SUFFICES ASSUME HInv, [Next]_vars PROVE StuckOnlyByLoss'
  BY NextTInv DEF HInv
<1>1. CASE UNCHANGED <<exec, run, lost>>
  BY <1>1 DEF HInv, StuckOnlyByLoss, InHand
<1>2. ASSUME NEW t \in Triggers,
             Dispatch(t) \/ DispatchStep(t) \/ MinutePasses(t) \/ DelayElapses(t)
      PROVE  StuckOnlyByLoss'
  BY <1>2, DispatchHolds DEF DispatchStep
<1> QED
  BY <1>1, <1>2, SchedulerHolds, ExecuteHolds DEF Next, vars

-----------------------------------------------------------------------------
(* Once, and behind its delays.                                            *)

\* What is not yet performed, and the delays that are over.
NoneFrom(t, n) == \A i \in DOMAIN Steps : i >= n => performed[t][i] = 0
Waited(t, i) == Steps[i].type = "delay" /\ performed[t][i] > 0 => i \in exec[t].waited
AllWaited(t) == \A i \in DOMAIN Steps : Waited(t, i)

Once(t) == \A i \in DOMAIN Steps : performed[t][i] <= 1
Kept(t) ==
  \A i, j \in DOMAIN Steps :
    Steps[i].type = "delay" /\ performed[t][i] > 0 /\ i < j /\ performed[t][j] > 0 =>
      i \in exec[t].waited

\* An execution that was not created has done nothing.
Fresh(t) ==
  run[t].pc \in {"idle", "create"} =>
    exec[t].status = "none" /\ exec[t].step = 1 /\ NoneFrom(t, 1)

\* A paused one has done what precedes its step, and only the delay it waits for may not
\* be over.
Paused(t) ==
  exec[t].status = "paused" =>
    /\ NoneFrom(t, exec[t].step)
    /\ \A i \in DOMAIN Steps : Waited(t, i) \/ (i = exec[t].step - 1 /\ ~exec[t].due)

\* What r knows of the execution it has in hand.
Holds(r, t) ==
  LET row == run[r]
  IN /\ r \in Triggers => r = t
     /\ row.pc \in {"claim", "recover"} => r \in Schedulers
     /\ row.pc = "claim" => exec[t].status = "paused" /\ exec[t].due
     /\ row.pc = "recover" => exec[t].status \in {"pending", "running", "paused"}
     /\ row.pc \notin {"claim", "recover"} => exec[t].status \in {"pending", "running"}
     /\ row.pc \in {"read", "mark"} => NoneFrom(t, exec[t].step) /\ AllWaited(t)
     /\ row.pc = "mark" => row.step = exec[t].step
     /\ row.pc \in {"step", "mail"} => NoneFrom(t, row.step) /\ AllWaited(t)
     /\ row.pc = "mail" => Steps[row.step].type = "email" /\ row.next > row.step
     /\ row.pc = "advance" => NoneFrom(t, row.next) /\ AllWaited(t)
     /\ row.pc = "pause" => /\ NoneFrom(t, row.next) /\ row.next = row.step + 1
                            /\ \A i \in DOMAIN Steps : Waited(t, i) \/ i = row.step

\* A row a scheduler has read is paused and nobody else's.
Listed(r, t) ==
  /\ r \in Schedulers
  /\ exec[t].status = "paused" /\ exec[t].due
  /\ \A q \in Runners : run[q].exec # t

Orderly(t) ==
  /\ Fresh(t) /\ Paused(t) /\ Once(t) /\ Kept(t)
  /\ \A q, r \in Runners : run[q].exec = t /\ run[r].exec = t => q = r
  /\ \A r \in Runners : run[r].exec = t => Holds(r, t)
  /\ \A r \in Runners : t \in run[r].todo => Listed(r, t)

OInv == TInv /\ \A t \in Triggers : Orderly(t)

\* Of an execution that r neither has in hand nor takes, nothing changes.
Same(t) ==
  /\ exec'[t] = exec[t] /\ performed'[t] = performed[t]
  /\ run'[t].pc \in {"idle", "create"} => run[t].pc \in {"idle", "create"}
  /\ \A q \in Runners : run'[q].exec = t => run'[q] = run[q]
  /\ \A q \in Runners : t \in run'[q].todo => t \in run[q].todo

LEMMA SameOrderly ==
  ASSUME NEW t \in Triggers, Orderly(t), Same(t)
  PROVE  Orderly(t)'
<1> USE DEF Same
<1>1. Once(t)' /\ Kept(t)' /\ Fresh(t)' /\ Paused(t)'
  BY DEF Orderly, Once, Kept, Fresh, Paused, NoneFrom, Waited
<1>2. \A q, r \in Runners : run'[q].exec = t /\ run'[r].exec = t => q = r
  BY DEF Orderly
<1>3. ASSUME NEW r \in Runners, run'[r].exec = t
      PROVE  Holds(r, t)'
  <2>1. run'[r] = run[r] /\ Holds(r, t)
    BY <1>3 DEF Orderly
  <2> QED
    BY <2>1 DEF Holds, NoneFrom, AllWaited, Waited
<1>4. ASSUME NEW r \in Runners, t \in run'[r].todo
      PROVE  Listed(r, t)'
  <2>1. Listed(r, t)
    BY <1>4 DEF Orderly
  <2> QED
    BY <2>1 DEF Listed
<1> QED
  BY <1>1, <1>2, <1>3, <1>4 DEF Orderly

\* r moves, and touches nothing but the execution it has in hand.
Own(r) ==
  /\ \A q \in Runners \ {r} : run'[q] = run[q]
  /\ run'[r].todo \subseteq run[r].todo
  /\ run'[r].exec \in {run[r].exec, None}
  /\ run'[r].pc \in {"idle", "create"} => r \in Schedulers \/ run[r].pc \in {"idle", "create"}
  /\ \A t \in Triggers : t # run[r].exec => exec'[t] = exec[t] /\ performed'[t] = performed[t]

\* Then only that execution needs a look: it stays in order, and either r still has it
\* in hand or nobody has.
LEMMA OwnOrderly ==
  ASSUME OInv, OneScheduler, NEW r \in Runners, Own(r),
         NEW t \in Triggers, run[r].exec = t,
         Once(t)', Kept(t)', Paused(t)',
         run'[r].exec = t => Holds(r, t)'
  PROVE  Orderly(t)'
<1>1. Orderly(t)
  BY DEF OInv
<1>2. Holds(r, t)
  BY <1>1 DEF Orderly
<1>3. \A q \in Runners : run'[q].exec = t => q = r
  BY <1>1, AutomationAssumption DEF Own, Orderly
<1>4. \A q \in Runners : t \notin run'[q].todo
  BY <1>1 DEF Orderly, Own, Listed
<1>5. Fresh(t)'
  <2>1. exec[t].status # "none"
    BY <1>2 DEF Holds
  <2>2. run[t].pc \notin {"idle", "create"}
    BY <1>1, <2>1 DEF Orderly, Fresh
  <2>3. t \in Runners /\ t \notin Schedulers
    BY AutomationAssumption DEF Runners
  <2>4. run'[t].pc \notin {"idle", "create"}
    BY <2>2, <2>3 DEF Own
  <2> QED
    BY <2>4 DEF Fresh
<1> QED
  BY <1>3, <1>4, <1>5 DEF Orderly

LEMMA OthersOrderly ==
  ASSUME OInv, NEW r \in Runners, Own(r), NEW t \in Triggers, run[r].exec # t
  PROVE  Orderly(t)'
<1>1. t \in Runners /\ t \notin Schedulers
  BY AutomationAssumption DEF Runners
<1>2. Same(t)
  BY <1>1, AutomationAssumption DEF Same, Own
<1> QED
  BY <1>2, SameOrderly DEF OInv

LEMMA InitOrderly == Init => OInv
<1> SUFFICES ASSUME Init, NEW t \in Triggers PROVE Orderly(t)
  BY InitTInv DEF OInv
<1>1. \A r \in Runners : run[r] = Idle
  BY DEF Init
<1>2. \A r \in Runners : run[r].exec # t /\ t \notin run[r].todo
  BY <1>1, AutomationAssumption DEF Idle
<1>3. exec[t] = NoExec /\ \A i \in DOMAIN Steps : performed[t][i] = 0
  BY DEF Init
<1> QED
  BY <1>2, <1>3 DEF Orderly, Fresh, Paused, Once, Kept, NoExec, NoneFrom

\* Time passes.
LEMMA TimeOrderly ==
  ASSUME OInv, NEW t \in Triggers, MinutePasses(t) \/ DelayElapses(t), NEW u \in Triggers
  PROVE  Orderly(u)'
<1>0. /\ run' = run /\ performed' = performed /\ Orderly(u) /\ exec[t] \in ExecRow
      /\ \A v \in Triggers : v # t => exec'[v] = exec[v]
  BY DEF OInv, TInv, MinutePasses, DelayElapses
<1>1. CASE u # t
  BY <1>0, <1>1, SameOrderly DEF Same
<1>2. CASE u = t /\ MinutePasses(t)
  <2>1. /\ exec'[u].status = exec[u].status /\ exec'[u].step = exec[u].step
        /\ exec'[u].due = exec[u].due /\ exec'[u].waited = exec[u].waited
    BY <1>0, <1>2 DEF MinutePasses, OInv, TInv, ExecRow
  <2>2. Fresh(u)' /\ Paused(u)' /\ Once(u)' /\ Kept(u)'
    BY <1>0, <2>1 DEF Orderly, Fresh, Paused, Once, Kept, NoneFrom, Waited
  <2>3. \A r \in Runners : run'[r].exec = u => Holds(r, u)'
    BY <1>0, <2>1 DEF Orderly, Holds, NoneFrom, Waited, AllWaited
  <2>4. \A r \in Runners : u \in run'[r].todo => Listed(r, u)'
    BY <1>0, <2>1 DEF Orderly, Listed
  <2> QED
    BY <1>0, <2>2, <2>3, <2>4 DEF Orderly
<1>3. CASE u = t /\ DelayElapses(t)
  <2>1. /\ exec[u].status = "paused" /\ ~exec[u].due
        /\ exec'[u].status = "paused" /\ exec'[u].step = exec[u].step /\ exec'[u].due
        /\ exec'[u].waited = exec[u].waited \cup {exec[u].step - 1}
    BY <1>0, <1>3 DEF DelayElapses, OInv, TInv, ExecRow
  <2>2. Fresh(u)' /\ Paused(u)' /\ Once(u)' /\ Kept(u)'
    BY <1>0, <2>1 DEF Orderly, Fresh, Paused, Once, Kept, NoneFrom, Waited
  <2>3. ASSUME NEW r \in Runners, run'[r].exec = u
        PROVE  Holds(r, u)'
    <3>1. run[r].exec = u /\ Holds(r, u)
      BY <1>0, <2>3 DEF Orderly
    <3>2. run[r].pc = "recover"
      BY <2>1, <3>1 DEF Holds
    <3> QED
      BY <1>0, <2>1, <3>1, <3>2 DEF Holds
  <2>4. \A r \in Runners : u \in run'[r].todo => Listed(r, u)'
    BY <1>0, <2>1 DEF Orderly, Listed
  <2> QED
    BY <1>0, <2>2, <2>3, <2>4 DEF Orderly
<1> QED
  BY <1>1, <1>2, <1>3

\* A trigger creates its execution, and the scheduler reads and takes rows.
LEMMA BeginOrderly ==
  ASSUME OInv, OneScheduler, TInv', NEW r \in Runners, NEW u \in Triggers,
         \/ r \in Triggers /\ (Dispatch(r) \/ CreateExecution(r))
         \/ r \in Schedulers /\ (StartBatch(r) \/ EndBatch(r) \/ \E t \in Triggers : TakeRow(r, t))
  PROVE  Orderly(u)'
<1>0. /\ Orderly(u) /\ performed' = performed
      /\ \A q \in Runners \ {r} : run'[q] = run[q]
      /\ run[r] \in RunRow /\ exec[u] \in ExecRow
  BY DEF OInv, TInv, Dispatch, CreateExecution, Begin, StartBatch, EndBatch, TakeRow
<1>1. run[r].exec # u
  BY DEF OInv, TInv, Busy, Dispatch, CreateExecution, StartBatch, EndBatch, TakeRow
<1>2. u \in Runners /\ u \notin Schedulers
  BY AutomationAssumption DEF Runners
<1>3. CASE r \in Triggers /\ Dispatch(r)
  <2>1. /\ exec' = exec /\ run'[r].exec = run[r].exec /\ run'[r].todo = run[r].todo
        /\ run[r].pc = "idle"
    BY <1>0, <1>3 DEF Dispatch, RunRow, OInv, TInv
  <2> QED
    BY <1>0, <1>1, <1>2, <2>1, SameOrderly DEF Same
<1>4. CASE r \in Triggers /\ CreateExecution(r)
  <2>1. /\ run'[r].exec = r /\ run'[r].todo = run[r].todo /\ run'[r].pc = "read"
        /\ run[r].pc = "create"
        /\ \A t \in Triggers : t # r => exec'[t] = exec[t]
    BY <1>0, <1>4 DEF CreateExecution, Begin, RunRow, OInv, TInv
  <2>2. CASE u # r
    BY <1>0, <1>1, <1>2, <2>1, <2>2, SameOrderly DEF Same
  <2>3. CASE u = r
    <3>1. exec[u].status = "none" /\ exec[u].step = 1 /\ NoneFrom(u, 1)
      BY <1>0, <2>1, <2>3 DEF Orderly, Fresh
    <3>2. exec'[u].status = "pending" /\ exec'[u].step = 1
      BY <1>0, <1>4, <2>3, <3>1 DEF CreateExecution, OInv, TInv, ExecRow
    <3>3. \A q \in Runners : run[q].exec # u /\ u \notin run[q].todo
      BY <1>0, <3>1 DEF Orderly, Holds, Listed
    <3>4. \A i \in DOMAIN Steps : i >= 1 /\ performed[u][i] = 0
      BY <3>1, AutomationAssumption DEF NoneFrom
    <3>5. \A q \in Runners : run'[q].exec = u => q = u
      BY <1>0, <2>3, <3>3
    <3>6. Holds(u, u)'
      BY <1>0, <2>1, <2>3, <3>2, <3>4 DEF Holds, NoneFrom, AllWaited, Waited
    <3>7. \A q \in Runners : u \notin run'[q].todo
      BY <1>0, <2>1, <2>3, <3>3
    <3>8. Fresh(u)' /\ Paused(u)' /\ Once(u)' /\ Kept(u)'
      BY <1>0, <2>1, <2>3, <3>2, <3>4 DEF Fresh, Paused, Once, Kept
    <3> QED
      BY <3>5, <3>6, <3>7, <3>8 DEF Orderly
  <2> QED
    BY <2>2, <2>3
<1>5. CASE r \in Schedulers /\ StartBatch(r)
  <2>1. /\ exec' = exec /\ run'[r].exec = run[r].exec /\ run'[r].todo = DueRows
    BY <1>0, <1>5 DEF StartBatch, RunRow, OInv, TInv
  <2>2. \A q \in Runners : run'[q].exec = u => run'[q] = run[q]
    BY <1>0, <1>1, <2>1
  <2>3. ASSUME NEW q \in Runners, u \in run'[q].todo, u \notin run[q].todo
        PROVE  Listed(q, u)'
    <3>1. q = r /\ exec[u].status = "paused" /\ exec[u].due
      BY <1>0, <2>1, <2>3 DEF DueRows
    <3>2. ASSUME NEW v \in Runners, run[v].exec = u
          PROVE  FALSE
      <4>1. Holds(v, u)
        BY <1>0, <3>2 DEF Orderly
      <4>2. v \in Schedulers
        BY <3>1, <4>1 DEF Holds
      <4> QED
        BY <1>1, <1>5, <3>2, <4>2 DEF OneScheduler
    <3>3. \A v \in Runners : run'[v].exec # u
      BY <2>2, <3>2
    <3> QED
      BY <1>5, <2>1, <3>1, <3>3 DEF Listed
  <2>4. \A q \in Runners : run'[q].exec = u => Holds(q, u)'
    BY <1>0, <2>1, <2>2 DEF Orderly, Holds, NoneFrom, AllWaited, Waited
  <2>5. ASSUME NEW q \in Runners, u \in run'[q].todo
        PROVE  Listed(q, u)'
    <3>1. CASE u \in run[q].todo
      BY <1>0, <2>1, <2>2, <3>1 DEF Orderly, Listed
    <3> QED
      BY <2>3, <2>5, <3>1
  <2>6. run'[u] = run[u]
    BY <1>0, <1>2, <1>5
  <2> QED
    BY <1>0, <2>1, <2>2, <2>4, <2>5, <2>6
    DEF Orderly, Fresh, Paused, Once, Kept, NoneFrom, Waited
<1>6. CASE r \in Schedulers /\ EndBatch(r)
  <2>1. exec' = exec /\ run'[r] = Idle
    BY <1>0, <1>6 DEF EndBatch, OInv, TInv
  <2> QED
    BY <1>0, <1>1, <1>2, <1>6, <2>1, SameOrderly, AutomationAssumption DEF Same, Idle
<1>7. ASSUME r \in Schedulers, NEW t \in Triggers, TakeRow(r, t)
      PROVE  Orderly(u)'
  <2>1. /\ exec' = exec /\ run'[r].exec = t /\ run'[r].todo = run[r].todo \ {t}
        /\ run'[r].pc = "claim" /\ t \in run[r].todo
    BY <1>0, <1>7 DEF TakeRow, RunRow, OInv, TInv
  <2>2. CASE u # t
    BY <1>0, <1>1, <1>2, <1>7, <2>1, <2>2, SameOrderly DEF Same
  <2>3. CASE u = t
    <3>1. Listed(r, u)
      BY <1>0, <2>1, <2>3 DEF Orderly
    <3>2. \A q \in Runners : run'[q].exec = u => q = r
      BY <1>0, <3>1 DEF Listed
    <3>3. \A q \in Runners : u \notin run'[q].todo
      BY <1>0, <1>7, <2>1, <2>3 DEF Orderly, Listed, OneScheduler
    <3>4. Holds(r, u)'
      <4>1. r \notin Triggers
        BY <1>7, AutomationAssumption
      <4> QED
        BY <1>7, <2>1, <3>1, <4>1 DEF Holds, Listed
    <3>5. run'[u] = run[u]
      BY <1>0, <1>2, <1>7
    <3>6. Fresh(u)' /\ Paused(u)' /\ Once(u)' /\ Kept(u)'
      BY <1>0, <2>1, <3>5 DEF Orderly, Fresh, Paused, Once, Kept, NoneFrom, Waited
    <3> QED
      BY <3>2, <3>3, <3>4, <3>6 DEF Orderly
  <2> QED
    BY <2>2, <2>3
<1> QED
  BY <1>3, <1>4, <1>5, <1>6, <1>7

\* The steps within an execution. What they have in common: r has t in hand, and t is in
\* order.
LEMMA InHandFacts ==
  ASSUME OInv, NEW r \in Runners, run[r].pc \in Busy
  PROVE  \E t \in Triggers :
           /\ run[r].exec = t /\ Orderly(t) /\ Holds(r, t)
           /\ exec[t] \in ExecRow /\ run[r] \in RunRow
           /\ \A i \in DOMAIN Steps : i \in Nat /\ performed[t][i] \in Nat
<1>1. run[r].exec \in Triggers
  BY DEF OInv, TInv
<1>2. DOMAIN Steps \subseteq Nat
  BY AutomationAssumption
<1>3. \A t \in Triggers, i \in DOMAIN Steps : performed[t][i] \in Nat
  BY DEF OInv, TInv
<1> QED
  BY <1>1, <1>2, <1>3 DEF OInv, TInv, Orderly

\* Steps that perform nothing and leave the row in place.
LEMMA QuietOrderly ==
  ASSUME OInv, OneScheduler, NEW r \in Runners, NEW u \in Triggers, TInv',
         \/ ReadExecution(r) \/ MarkRunning(r) \/ StartEmail(r) \/ Advance(r) \/ StepThrows(r)
         \/ Reject(r) \/ (r \in Schedulers /\ Claim(r))
  PROVE  Orderly(u)'
<1>1. run[r].pc \in Busy
  BY DEF ReadExecution, MarkRunning, StartEmail, Advance, StepThrows, Reject, Claim, AtStep, Busy
<1>2. PICK t \in Triggers :
        /\ run[r].exec = t /\ Orderly(t) /\ Holds(r, t)
        /\ exec[t] \in ExecRow /\ run[r] \in RunRow
        /\ \A i \in DOMAIN Steps : i \in Nat /\ performed[t][i] \in Nat
  BY <1>1, InHandFacts
<1>3. /\ performed' = performed
      /\ \A q \in Runners \ {r} : run'[q] = run[q]
      /\ \A v \in Triggers : v # t => exec'[v] = exec[v]
  BY <1>2 DEF ReadExecution, MarkRunning, StartEmail, Advance, StepThrows, Reject, Claim,
              Return, Leads, OInv, TInv
<1>4. /\ run'[r].todo \subseteq run[r].todo
      /\ run'[r].exec \in {t, None}
      /\ run'[r].pc \in {"idle", "create"} => r \in Schedulers
  <2>1. CASE Return(r)
    BY <1>2, <2>1, AutomationAssumption DEF Return, OInv, TInv, RunRow, Idle, Runners
  <2>2. CASE ~Return(r)
    <3>1. /\ run'[r].todo = run[r].todo /\ run'[r].exec = run[r].exec
          /\ run'[r].pc \in Busy
      BY <1>2, <2>2 DEF ReadExecution, MarkRunning, StartEmail, Advance, StepThrows, Reject,
                        Claim, Leads, OInv, TInv, RunRow, Busy
    <3> QED
      BY <1>2, <3>1 DEF Busy
  <2> QED
    BY <2>1, <2>2
<1>5. Own(r)
  BY <1>2, <1>3, <1>4 DEF Own
<1>6. CASE u # t
  BY <1>2, <1>5, <1>6, OthersOrderly
<1>7. CASE u = t
  <2>1. exec'[t].waited = exec[t].waited
    BY <1>2 DEF ReadExecution, MarkRunning, StartEmail, Advance, StepThrows, Reject, Claim,
                OInv, TInv, ExecRow
  <2>2. Once(t)' /\ Kept(t)'
    BY <1>2, <1>3, <2>1 DEF Orderly, Once, Kept
  <2>3. t # None
    BY AutomationAssumption
  <2> SUFFICES Paused(t)' /\ (run'[r].exec = t => Holds(r, t)')
    BY <1>2, <1>5, <1>7, <2>2, OwnOrderly
  <2> USE <1>2, <1>3, <2>1 DEF NoneFrom, AllWaited, Waited
  <2>4. CASE ReadExecution(r)
    <3>1. exec' = exec /\ run[r].pc = "read"
      BY <2>4 DEF ReadExecution
    <3>2. exec[t].status \in {"pending", "running"} /\ NoneFrom(t, exec[t].step) /\ AllWaited(t)
      BY <3>1 DEF Holds
    <3>3. run' = [run EXCEPT ![r].pc = "mark", ![r].step = exec[t].step]
      BY <2>4, <3>2 DEF ReadExecution
    <3>4. run'[r].pc = "mark" /\ run'[r].step = exec[t].step
      BY <3>3 DEF OInv, TInv, RunRow
    <3> QED
      BY <3>1, <3>2, <3>4 DEF Paused, Holds
  <2>5. CASE MarkRunning(r)
    <3>1. /\ exec'[t].status = "running" /\ exec'[t].step = exec[t].step
          /\ run'[r].pc = "step" /\ run'[r].step = run[r].step /\ run[r].pc = "mark"
      BY <2>5 DEF MarkRunning, OInv, TInv, RunRow, ExecRow
    <3> QED
      BY <3>1 DEF Paused, Holds
  <2>6. CASE StartEmail(r)
    <3>1. /\ exec' = exec /\ run[r].pc = "step" /\ Steps[run[r].step].type = "email"
          /\ run'[r].step = run[r].step /\ run'[r].next = run[r].step + 1
          /\ run'[r].pc \in {"mail", "advance"} /\ run[r].step \in DOMAIN Steps
      BY <2>6 DEF StartEmail, AtStep, Current, Leads, OInv, TInv, RunRow
    <3>2. NoneFrom(t, run[r].step + 1)
      BY <3>1 DEF Holds
    <3> QED
      BY <3>1, <3>2 DEF Paused, Holds, Orderly
  <2>7. CASE Advance(r)
    <3>1. /\ exec'[t].status = exec[t].status
          /\ run'[r].pc = "step" /\ run'[r].step = run[r].next /\ run[r].pc = "advance"
      BY <2>7 DEF Advance, OInv, TInv, RunRow, ExecRow
    <3> QED
      BY <3>1 DEF Paused, Holds
  <2>8. CASE StepThrows(r)
    <3>1. exec' = exec /\ run'[r].pc = "catch" /\ run[r].pc \in {"step", "pause", "advance"}
      BY <2>8 DEF StepThrows, AtStep, OInv, TInv, RunRow
    <3> QED
      BY <3>1 DEF Paused, Holds, Orderly
  <2>9. CASE Reject(r)
    <3>1. exec' = exec /\ run[r].pc \in {"claim", "read", "mark", "catch", "step"}
      BY <2>9 DEF Reject
    <3>2. CASE r \in Triggers
      <4>1. run'[r].exec = None
        BY <2>9, <3>2 DEF Reject, Return, OInv, TInv, Idle
      <4> QED
        BY <2>3, <3>1, <4>1 DEF Paused, Orderly
    <3>3. CASE r \notin Triggers
      <4>1. run'[r].pc = "recover" /\ r \in Schedulers
        BY <2>9, <3>3 DEF Reject, OInv, TInv, RunRow, Runners
      <4>2. exec[t].status \in {"pending", "running", "paused"}
        BY <3>1 DEF Holds
      <4> QED
        BY <3>1, <3>3, <4>1, <4>2 DEF Paused, Holds, Orderly
    <3> QED
      BY <3>2, <3>3
  <2>10. CASE r \in Schedulers /\ Claim(r)
    <3>1. /\ exec'[t].status = "running" /\ exec'[t].step = exec[t].step
          /\ run'[r].pc = "read" /\ run[r].pc = "claim"
      BY <2>10 DEF Claim, OInv, TInv, RunRow, ExecRow
    <3>2. exec[t].status = "paused" /\ exec[t].due
      BY <3>1 DEF Holds
    <3>3. NoneFrom(t, exec[t].step) /\ AllWaited(t)
      BY <3>2 DEF Orderly, Paused
    <3> QED
      BY <3>1, <3>3, <2>10, AutomationAssumption DEF Paused, Holds
  <2> QED
    BY <2>4, <2>5, <2>6, <2>7, <2>8, <2>9, <2>10
<1> QED
  BY <1>6, <1>7

\* Steps that perform one.
LEMMA EffectOrderly ==
  ASSUME OInv, OneScheduler, Forward, NEW r \in Runners, NEW u \in Triggers, TInv',
         SendEmail(r) \/ Tag(r) \/ Delay(r) \/ Condition(r)
  PROVE  Orderly(u)'
<1>1. run[r].pc \in Busy
  BY DEF SendEmail, Tag, Delay, Condition, AtStep, Busy
<1>2. PICK t \in Triggers :
        /\ run[r].exec = t /\ Orderly(t) /\ Holds(r, t)
        /\ exec[t] \in ExecRow /\ run[r] \in RunRow
        /\ \A i \in DOMAIN Steps : i \in Nat /\ performed[t][i] \in Nat
  BY <1>1, InHandFacts
<1> DEFINE step == run[r].step
<1>3. /\ step \in DOMAIN Steps
      /\ NoneFrom(t, step) /\ AllWaited(t)
      /\ exec[t].status \in {"pending", "running"}
  BY <1>2 DEF SendEmail, Tag, Delay, Condition, AtStep, OInv, TInv, Holds
<1>4. /\ exec' = exec
      /\ \A q \in Runners \ {r} : run'[q] = run[q]
      /\ \A v \in Triggers : v # t => performed'[v] = performed[v]
  BY <1>2 DEF SendEmail, Tag, Delay, Condition, TakeEffect, Leads, OInv, TInv
<1>5. /\ run'[r].todo = run[r].todo /\ run'[r].exec = t /\ run'[r].step = step
      /\ run'[r].pc \in {"advance", "pause"}
      /\ run'[r].next > step
      /\ run'[r].pc = "pause" => run'[r].next = step + 1
      /\ Steps[step].type = "delay" => run'[r].pc = "pause"
  <2>1. CASE SendEmail(r)
    <3>1. /\ run'[r].todo = run[r].todo /\ run'[r].exec = t /\ run'[r].step = step
          /\ run'[r].pc = "advance" /\ run'[r].next = run[r].next
      BY <1>2, <2>1 DEF SendEmail, OInv, TInv, RunRow
    <3>2. Steps[step].type = "email" /\ run[r].next > step
      BY <1>2, <2>1 DEF SendEmail, Holds
    <3> QED
      BY <3>1, <3>2
  <2>2. CASE Tag(r) \/ Delay(r)
    BY <1>2, <1>3, <2>2 DEF Tag, Delay, AtStep, Current, Leads, OInv, TInv, RunRow
  <2>3. CASE Condition(r)
    <3>1. PICK next \in {Steps[step].then, Steps[step].else} : Leads(r, "advance", next)
      BY <2>3 DEF Condition, Current
    <3>2. Steps[step].type = "condition" /\ next > step
      BY <1>3, <2>3, <3>1 DEF Condition, Current, Forward
    <3> QED
      BY <1>2, <3>1, <3>2 DEF Leads, OInv, TInv, RunRow
  <2> QED
    BY <2>1, <2>2, <2>3
<1>6. \A i \in DOMAIN Steps :
        /\ i # step => performed'[t][i] = performed[t][i]
        /\ i = step => performed'[t][i] \in {0, 1}
  <2>1. \/ performed' = performed
        \/ performed' = [performed EXCEPT ![t][step] = @ + 1]
    BY <1>2 DEF SendEmail, Tag, Delay, Condition, TakeEffect
  <2>2. performed[t] \in [DOMAIN Steps -> Nat] /\ performed[t][step] = 0
    BY <1>2, <1>3 DEF OInv, TInv, NoneFrom
  <2>3. t \in DOMAIN performed
    BY DEF OInv, TInv
  <2> QED
    BY <1>3, <2>1, <2>2, <2>3
<1>7. Own(r)
  BY <1>2, <1>4, <1>5 DEF Own
<1>8. CASE u # t
  BY <1>2, <1>7, <1>8, OthersOrderly
<1>9. CASE u = t
  <2>1. \A i \in DOMAIN Steps : i > step => performed'[t][i] = 0
    BY <1>2, <1>3, <1>6 DEF NoneFrom
  <2>2. Once(t)'
    BY <1>2, <1>6 DEF Orderly, Once
  <2>3. Kept(t)'
    <3> SUFFICES ASSUME NEW i \in DOMAIN Steps, NEW j \in DOMAIN Steps,
                        Steps[i].type = "delay", performed'[t][i] > 0, i < j, performed'[t][j] > 0
                 PROVE  i \in exec'[t].waited
      BY DEF Kept
    <3>0. i \in Nat /\ j \in Nat /\ step \in Nat
      BY <1>2, <1>3
    <3>1. ~(j > step)
      BY <2>1
    <3>2. i < step
      BY <3>0, <3>1
    <3>3. i # step
      BY <3>0, <3>2
    <3>4. performed[t][i] > 0
      BY <1>6, <3>3
    <3> QED
      BY <1>3, <1>4, <3>4 DEF AllWaited, Waited
  <2>4. Paused(t)'
    BY <1>3, <1>4 DEF Paused
  <2>5. NoneFrom(t, run[r].next)'
    <3>1. run'[r].next \in Nat /\ step \in Nat
      BY <1>2, <1>3 DEF TInv, RunRow, Positive
    <3> QED
      BY <1>2, <1>5, <2>1, <3>1 DEF NoneFrom
  <2>6. \A i \in DOMAIN Steps : i # step => Waited(t, i)'
    BY <1>3, <1>4, <1>6 DEF AllWaited, Waited
  <2>7. Steps[step].type # "delay" => AllWaited(t)'
    BY <2>6 DEF AllWaited, Waited
  <2>8. Holds(r, t)'
    <3>1. r \in Triggers => r = t
      BY <1>2 DEF Holds
    <3>2. CASE run'[r].pc = "advance"
      BY <1>3, <1>4, <1>5, <2>5, <2>7, <3>1, <3>2 DEF Holds
    <3>3. CASE run'[r].pc = "pause"
      BY <1>3, <1>4, <1>5, <2>5, <2>6, <3>1, <3>3 DEF Holds
    <3> QED
      BY <1>5, <3>2, <3>3
  <2> QED
    BY <1>2, <1>7, <1>9, <2>2, <2>3, <2>4, <2>8, OwnOrderly
<1> QED
  BY <1>8, <1>9

\* Steps with which r lets go of its execution.
LEMMA LastOrderly ==
  ASSUME OInv, OneScheduler, NEW r \in Runners, NEW u \in Triggers, TInv', run[r].pc \in Busy,
         \/ Pause(r) \/ Complete(r) \/ RecordFailure(r)
         \/ r \in Schedulers /\ (Recover(r) \/ RecoverThrows(r))
         \/ Crash(r)
  PROVE  Orderly(u)'
<1>1. PICK t \in Triggers :
        /\ run[r].exec = t /\ Orderly(t) /\ Holds(r, t)
        /\ exec[t] \in ExecRow /\ run[r] \in RunRow
        /\ \A i \in DOMAIN Steps : i \in Nat /\ performed[t][i] \in Nat
  BY InHandFacts
<1>2. /\ performed' = performed
      /\ \A q \in Runners \ {r} : run'[q] = run[q]
      /\ \A v \in Triggers : v # t => exec'[v] = exec[v]
  BY <1>1 DEF Pause, Complete, RecordFailure, Recover, RecoverThrows, Crash, EndCall, Return,
              OInv, TInv
<1>3. /\ run'[r].todo \subseteq run[r].todo /\ run'[r].exec = None
      /\ run'[r].pc \in {"idle", "create"} => r \in Schedulers
  <2>1. \/ Return(r)
        \/ run' = [run EXCEPT ![r] = IF r \in Triggers THEN [Idle EXCEPT !.pc = "done"] ELSE Idle]
    BY DEF Pause, Complete, RecordFailure, Recover, RecoverThrows, Crash, EndCall
  <2> QED
    <3>1. \/ run' = [run EXCEPT ![r] = [Idle EXCEPT !.pc = "done"]]
          \/ run' = [run EXCEPT ![r] = [Idle EXCEPT !.pc = "next", !.todo = run[r].todo]]
          \/ run' = [run EXCEPT ![r] = Idle] /\ r \in Schedulers
      BY <2>1 DEF Return, Runners
    <3>2. \/ run'[r] = [Idle EXCEPT !.pc = "done"]
          \/ run'[r] = [Idle EXCEPT !.pc = "next", !.todo = run[r].todo]
          \/ run'[r] = Idle /\ r \in Schedulers
      BY <3>1 DEF OInv, TInv
    <3>3. CASE run'[r] = [Idle EXCEPT !.pc = "done"]
      BY <3>3 DEF Idle
    <3>4. CASE run'[r] = [Idle EXCEPT !.pc = "next", !.todo = run[r].todo]
      BY <3>4 DEF Idle
    <3>5. CASE run'[r] = Idle /\ r \in Schedulers
      BY <3>5 DEF Idle
    <3> QED
      BY <3>2, <3>3, <3>4, <3>5
<1>4. Own(r)
  BY <1>1, <1>2, <1>3 DEF Own
<1>5. CASE u # t
  BY <1>1, <1>4, <1>5, OthersOrderly
<1>6. CASE u = t
  <2>1. t # None
    BY AutomationAssumption
  <2>2. exec'[t].waited = exec[t].waited
    <3>1. t \in DOMAIN exec
      BY DEF OInv, TInv
    <3>2. CASE Pause(r)
      BY <1>1, <3>1, <3>2 DEF Pause, ExecRow
    <3>3. CASE Complete(r) \/ RecordFailure(r) \/ Recover(r)
      BY <1>1, <3>1, <3>3 DEF Complete, RecordFailure, Recover, ExecRow
    <3>4. CASE RecoverThrows(r) \/ Crash(r)
      BY <3>4 DEF RecoverThrows, Crash, EndCall
    <3> QED
      BY <3>2, <3>3, <3>4
  <2>3. Once(t)' /\ Kept(t)'
    BY <1>1, <1>2, <2>2 DEF Orderly, Once, Kept
  <2>4. Paused(t)'
    <3>1. CASE Pause(r)
      <4>1. /\ exec'[t].step = run[r].next /\ ~exec'[t].due /\ run[r].pc = "pause"
        BY <1>1, <3>1 DEF Pause, OInv, TInv, ExecRow
      <4>2. /\ NoneFrom(t, run[r].next) /\ run[r].next = run[r].step + 1
            /\ \A i \in DOMAIN Steps : Waited(t, i) \/ i = run[r].step
        BY <1>1, <4>1 DEF Holds
      <4>3. run[r].step \in Nat
        BY <1>1 DEF RunRow, Positive
      <4> QED
        BY <1>2, <2>2, <4>1, <4>2, <4>3 DEF Paused, NoneFrom, Waited
    <3>2. CASE Complete(r) \/ RecordFailure(r) \/ Recover(r)
      <4>1. exec'[t].status \in {"completed", "failed"}
        BY <1>1, <3>2 DEF Complete, RecordFailure, Recover, OInv, TInv, ExecRow
      <4> QED
        BY <4>1 DEF Paused
    <3>3. CASE RecoverThrows(r) \/ Crash(r)
      BY <1>1, <1>2, <3>3 DEF RecoverThrows, Crash, EndCall, Orderly, Paused, NoneFrom, Waited
    <3> QED
      BY <3>1, <3>2, <3>3
  <2> QED
    BY <1>1, <1>3, <1>4, <1>6, <2>1, <2>3, <2>4, OwnOrderly
<1> QED
  BY <1>5, <1>6

\* A call that ends with nothing in hand.
LEMMA EmptyHandedOrderly ==
  ASSUME OInv, NEW r \in Runners, NEW u \in Triggers, EndCall(r), run[r].pc \notin Busy,
         run[r].pc # "idle"
  PROVE  Orderly(u)'
<1>1. /\ exec' = exec /\ performed' = performed
      /\ \A q \in Runners \ {r} : run'[q] = run[q]
      /\ run[r].exec \notin Triggers
  BY DEF EndCall, OInv, TInv
<1>2. /\ run'[r].todo = {} /\ run'[r].exec = None
      /\ run'[r].pc \in {"idle", "create"} => r \in Schedulers
  BY AutomationAssumption DEF EndCall, OInv, TInv, Idle, Runners
<1>3. Own(r)
  BY <1>1, <1>2 DEF Own
<1> QED
  BY <1>1, <1>3, OthersOrderly

LEMMA NextOrderly == OneScheduler /\ Forward /\ OInv /\ [Next]_vars => OInv'
<1> SUFFICES ASSUME OneScheduler, Forward, OInv, [Next]_vars, NEW u \in Triggers
             PROVE  Orderly(u)'
  BY NextTInv DEF OInv
<1>0. TInv' /\ Triggers \subseteq Runners /\ Schedulers \subseteq Runners
  BY NextTInv DEF OInv, Runners
<1>1. CASE UNCHANGED <<exec, run, performed, lost>>
  BY <1>1, SameOrderly DEF Same, OInv
<1>2. ASSUME NEW r \in Runners, Crash(r) \/ (r \in Triggers /\ DispatchThrows(r))
             \/ (r \in Schedulers /\ RecoverThrows(r))
      PROVE  Orderly(u)'
  <2>1. EndCall(r) /\ run[r].pc # "idle"
    BY <1>2 DEF Crash, DispatchThrows, RecoverThrows
  <2>2. CASE run[r].pc \in Busy
    <3>1. ~DispatchThrows(r)
      BY <2>2 DEF DispatchThrows, Busy
    <3> QED
      BY <1>0, <1>2, <2>2, <3>1, LastOrderly
  <2> QED
    BY <2>1, <2>2, EmptyHandedOrderly
<1>3. ASSUME NEW t \in Triggers,
             Dispatch(t) \/ DispatchStep(t) \/ MinutePasses(t) \/ DelayElapses(t)
      PROVE  Orderly(u)'
  BY <1>0, <1>2, <1>3, BeginOrderly, TimeOrderly DEF DispatchStep
<1>4. ASSUME NEW p \in Schedulers, StartBatch(p) \/ SchedulerStep(p)
      PROVE  Orderly(u)'
  <2>1. CASE Recover(p)
    <3>1. run[p].pc \in Busy
      BY <2>1 DEF Recover, Busy
    <3> QED
      BY <1>0, <2>1, <3>1, LastOrderly
  <2> QED
    BY <1>0, <1>2, <1>4, <2>1, BeginOrderly, QuietOrderly DEF SchedulerStep
<1>5. ASSUME NEW r \in Runners, ExecuteStep(r)
      PROVE  Orderly(u)'
  <2>1. CASE Pause(r) \/ Complete(r) \/ RecordFailure(r)
    <3>1. run[r].pc \in Busy
      BY <2>1 DEF Pause, Complete, RecordFailure, Busy
    <3> QED
      BY <1>0, <2>1, <3>1, LastOrderly
  <2>2. CASE SendEmail(r) \/ Tag(r) \/ Delay(r) \/ Condition(r)
    BY <1>0, <2>2, EffectOrderly
  <2> QED
    BY <1>0, <1>5, <2>1, <2>2, QuietOrderly DEF ExecuteStep
<1> QED
  BY <1>1, <1>2, <1>3, <1>4, <1>5 DEF Next, vars

-----------------------------------------------------------------------------
(* Theorems.                                                               *)

\* The model of the automation is well typed, and its steps count from 1.
THEOREM AutomationTypes == Spec => []TypeOK
<1>1. TInv => TypeOK
  BY DEF TInv, TypeOK, ExecRow, RunRow, Resting, Busy, Positive
<1> QED
  BY <1>1, InitTInv, NextTInv, PTL DEF Spec

\* No error path of executor.ts and scheduler.ts forgets an execution.
THEOREM NothingIsForgotten == Spec => []StuckOnlyByLoss
<1>1. Init => StuckOnlyByLoss
  BY DEF Init, StuckOnlyByLoss, NoExec
<1>2. Init => HInv
  BY <1>1, InitTInv DEF HInv
<1>3. HInv => StuckOnlyByLoss
  BY DEF HInv
<1> QED
  BY <1>2, <1>3, NextHInv, PTL DEF Spec

\* Who has left the audience stays out of it, whatever notifications and importers
\* interleave (ses-webhook/+server.ts:121-146, an/importer.ts:359-379).
THEOREM NobodyIsResubscribed == Spec => SuppressedForever
<1> DEFINE SInv == AudienceTypeOK /\ NeverResubscribes
<1>1. Init => SInv
  BY InitTInv DEF Init, AudienceInit, NeverResubscribes, NoImport, TInv
<1>2. [Next]_vars => [AudienceNext]_audienceVars
  BY DEF Next, vars, audienceVars, Dispatch, DispatchStep, CreateExecution, DispatchThrows, EndCall,
     MinutePasses, DelayElapses, SchedulerStep, StartBatch, TakeRow, Claim, EndBatch, Recover,
     RecoverThrows, ExecuteStep, ReadExecution, MarkRunning, StartEmail, SendEmail, Tag, Delay,
     Condition, Pause, Advance, Complete, StepThrows, RecordFailure, Reject, Crash
<1>3. SInv /\ [Next]_vars => SInv'
  BY <1>2, AudienceTypes, ImportsNeverResubscribe
<1>4. SInv /\ [Next]_vars => [\A s \in Supporters : s \notin Subscribed => s \notin Subscribed']_audienceVars
  BY <1>2, NobodyComesBack
<1> QED
  BY <1>1, <1>3, <1>4, PTL DEF Spec, SuppressedForever

\* Where calls of the scheduler do not overlap and no condition leads back, executions
\* stay in order.
OrderlyIfForward == OneScheduler /\ Forward => OInv

LEMMA AlwaysOrderly == Spec => []OrderlyIfForward
<1>1. Init => OrderlyIfForward
  BY InitOrderly DEF OrderlyIfForward
<1>2. OrderlyIfForward /\ [Next]_vars => OrderlyIfForward'
  BY NextOrderly DEF OrderlyIfForward, OneScheduler, Forward
<1> QED
  BY <1>1, <1>2, PTL DEF Spec

\* No step of a workflow is performed twice for an execution, whatever fails
\* (executor.ts:29-90).
THEOREM StepsHappenOnce == Spec => []StepOnce
<1>1. OrderlyIfForward => StepOnce
  BY DEF OrderlyIfForward, OInv, Orderly, Once, StepOnce
<1> QED
  BY <1>1, AlwaysOrderly, PTL

\* No step behind a delay is performed before the delay has elapsed (executor.ts:49-60).
THEOREM NothingBeforeItsDelay == Spec => []DelaysAreKept
<1>1. OrderlyIfForward => DelaysAreKept
  BY DEF OrderlyIfForward, OInv, Orderly, Kept, DelaysAreKept
<1> QED
  BY <1>1, AlwaysOrderly, PTL
=============================================================================
