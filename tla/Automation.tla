----------------------------- MODULE Automation -----------------------------
(***************************************************************************)
(* Workflow automation (lib/server/automation): a trigger creates an       *)
(* execution of a workflow for a supporter and runs it; a delay pauses it, *)
(* and the scheduler, called through routes/api/automation/process, runs it*)
(* on from the step the row names.                                         *)
(*                                                                         *)
(* The row of an execution is read and written in separate statements by   *)
(* whoever runs it. One workflow is modelled, whose steps nobody edits; its*)
(* steps are counted from 1.                                               *)
(***************************************************************************)
EXTENDS Audience, Sequences, FiniteSets

CONSTANTS
  Triggers,     \* events that trigger the workflow; each creates an execution at most
  SupporterOf,  \* SupporterOf[t]: the supporter event t is about
  Schedulers,   \* callers of processScheduledWorkflows that may run at the same time
  Steps,        \* the workflow: a sequence of [type, then, else]
  Faults,       \* what may go wrong beneath the code, see FaultKinds
  None

FaultKinds ==
  {"crash",  \* the isolate is evicted and its promises never resume
   "db",     \* a statement throws
   "ses"}    \* SES refuses a message, or accepts it and loses the reply

ASSUME AutomationAssumption ==
  /\ SupporterOf \in [Triggers -> Supporters]
  /\ Steps \in Seq([type : {"email", "tag", "delay", "condition"},
                    then : Nat \ {0}, else : Nat \ {0}])
  /\ Triggers \cap Schedulers = {}
  /\ None \notin Triggers
  /\ Faults \subseteq FaultKinds

VARIABLES
  exec,       \* exec[t]: the workflow_execution row that trigger t created
  run,        \* run[r]: where a trigger's or a scheduler's promise is
  performed,  \* performed[t][i]: how often step i took effect for execution t
  lost        \* executions whose promise went or could not record how it ended

vars == <<emailStatus, import, notices, exec, run, performed, lost>>

Runners == Triggers \cup Schedulers

\* `due' is whether next_run_at has passed, `recent' whether created_at is within the
\* last minute, `waited' the delays that have elapsed.
NoExec == [status |-> "none", step |-> 1, due |-> FALSE, recent |-> FALSE, waited |-> {}]

\* `exec' is the execution in hand, `step' the local currentStep, `next' where the step's
\* result leads; a scheduler also has the rows it read, `todo'.
Idle == [pc |-> "idle", exec |-> None, step |-> 1, next |-> 1, todo |-> {}]

Init ==
  /\ AudienceInit
  /\ exec = [t \in Triggers |-> NoExec]
  /\ run = [r \in Runners |-> Idle]
  /\ performed = [t \in Triggers |-> [i \in DOMAIN Steps |-> 0]]
  /\ lost = {}

At(r, pc) == run[r].pc = pc
Goto(r, pc) == run' = [run EXCEPT ![r].pc = pc]
Begin(r, pc, t) == run' = [run EXCEPT ![r].pc = pc, ![r].exec = t]

\* executeWorkflow is over: so is a trigger's promise; a scheduler takes the next row.
Return(r) == run' = [run EXCEPT ![r] =
  IF r \in Triggers THEN [Idle EXCEPT !.pc = "done"]
  ELSE [Idle EXCEPT !.pc = "next", !.todo = run[r].todo]]

-----------------------------------------------------------------------------
(* dispatchTrigger.                                                        *)

\* An execution for the same supporter, created within a minute, stops another one.
Dispatch(t) ==
  /\ t \in Triggers /\ At(t, "idle")
  /\ Goto(t, IF \E u \in Triggers : exec[u].recent /\ SupporterOf[u] = SupporterOf[t]
             THEN "done" ELSE "create")
  /\ UNCHANGED <<audienceVars, exec, performed, lost>>

CreateExecution(t) ==
  /\ At(t, "create")
  /\ exec' = [exec EXCEPT ![t].status = "pending", ![t].recent = TRUE]
  /\ Begin(t, "read", t)
  /\ UNCHANGED <<audienceVars, performed, lost>>

\* Nobody asks how recent an execution is but an event still to come.
MinutePasses(t) ==
  /\ exec[t].recent /\ \E u \in Triggers : At(u, "idle")
  /\ exec' = [exec EXCEPT ![t].recent = FALSE]
  /\ UNCHANGED <<audienceVars, run, performed, lost>>

-----------------------------------------------------------------------------
(* processScheduledWorkflows.                                              *)

DelayElapses(t) ==
  /\ exec[t].status = "paused" /\ ~exec[t].due
  /\ exec' = [exec EXCEPT ![t].due = TRUE, ![t].waited = @ \cup {exec[t].step - 1}]
  /\ UNCHANGED <<audienceVars, run, performed, lost>>

\* Mutant of DueRows: next_run_at is not compared.
PausedRows == {t \in Triggers : exec[t].status = "paused"}

DueRows == {t \in Triggers : exec[t].status = "paused" /\ exec[t].due}

StartBatch(p) ==
  /\ p \in Schedulers /\ At(p, "idle")
  /\ DueRows # {}
  /\ run' = [run EXCEPT ![p].pc = "next", ![p].todo = DueRows]
  /\ UNCHANGED <<audienceVars, exec, performed, lost>>

TakeRow(p, t) ==
  /\ At(p, "next") /\ t \in run[p].todo
  /\ run' = [run EXCEPT ![p].pc = "claim", ![p].exec = t, ![p].todo = @ \ {t}]
  /\ UNCHANGED <<audienceVars, exec, performed, lost>>

\* "Clear nextRunAt before resuming", by id alone.
Claim(p) ==
  /\ At(p, "claim")
  /\ exec' = [exec EXCEPT ![run[p].exec].status = "running", ![run[p].exec].due = FALSE]
  /\ Goto(p, "read")
  /\ UNCHANGED <<audienceVars, performed, lost>>

EndBatch(p) ==
  /\ At(p, "next") /\ run[p].todo = {}
  /\ run' = [run EXCEPT ![p] = Idle]
  /\ UNCHANGED <<audienceVars, exec, performed, lost>>

-----------------------------------------------------------------------------
(* executeWorkflow.                                                        *)

Current(r) == Steps[run[r].step]
AtStep(r) == At(r, "step") /\ run[r].step \in DOMAIN Steps

ReadExecution(r) ==
  /\ At(r, "read")
  /\ IF exec[run[r].exec].status \in {"completed", "failed"} THEN Return(r)
     ELSE run' = [run EXCEPT ![r].pc = "mark", ![r].step = exec[run[r].exec].step]
  /\ UNCHANGED <<audienceVars, exec, performed, lost>>

MarkRunning(r) ==
  /\ At(r, "mark")
  /\ exec' = [exec EXCEPT ![run[r].exec].status = "running"]
  /\ Goto(r, "step")
  /\ UNCHANGED <<audienceVars, performed, lost>>

\* A step has its effect, and its result leads to the next one. The log row is written
\* with what follows: a throw or a crash between the two is one before both.
TakeEffect(r) == performed' = [performed EXCEPT ![run[r].exec][run[r].step] = @ + 1]
Leads(r, pc, next) == run' = [run EXCEPT ![r].pc = pc, ![r].next = next]

\* An e-mail step reads the supporter's status first.
StartEmail(r) ==
  /\ AtStep(r) /\ Current(r).type = "email"
  /\ Leads(r, IF SupporterOf[run[r].exec] \in Subscribed THEN "mail" ELSE "advance", run[r].step + 1)
  /\ UNCHANGED <<audienceVars, exec, performed, lost>>

\* A refused message and a lost reply are results like any other: the workflow goes on.
SendEmail(r) ==
  /\ At(r, "mail")
  /\ TakeEffect(r) \/ ("ses" \in Faults /\ UNCHANGED performed)
  /\ Goto(r, "advance")
  /\ UNCHANGED <<audienceVars, exec, lost>>

\* A supporter or a tag that is gone, or a tag of another organization, is a result too.
Tag(r) ==
  /\ AtStep(r) /\ Current(r).type = "tag"
  /\ TakeEffect(r) \/ UNCHANGED performed
  /\ Leads(r, "advance", run[r].step + 1)
  /\ UNCHANGED <<audienceVars, exec, lost>>

Delay(r) ==
  /\ AtStep(r) /\ Current(r).type = "delay"
  /\ TakeEffect(r)
  /\ Leads(r, "pause", run[r].step + 1)
  /\ UNCHANGED <<audienceVars, exec, lost>>

\* What the supporter's row says decides, and it may say anything.
Condition(r) ==
  /\ AtStep(r) /\ Current(r).type = "condition"
  /\ TakeEffect(r)
  /\ \E next \in {Current(r).then, Current(r).else} : Leads(r, "advance", next)
  /\ UNCHANGED <<audienceVars, exec, lost>>

\* Mutant of Pause: the row still names the delay.
PauseHere(r) ==
  /\ At(r, "pause")
  /\ exec' = [exec EXCEPT ![run[r].exec] =
       [@ EXCEPT !.status = "paused", !.step = run[r].step, !.due = FALSE]]
  /\ Return(r)
  /\ UNCHANGED <<audienceVars, performed, lost>>

Pause(r) ==
  /\ At(r, "pause")
  /\ exec' = [exec EXCEPT ![run[r].exec] =
       [@ EXCEPT !.status = "paused", !.step = run[r].next, !.due = FALSE]]
  /\ Return(r)
  /\ UNCHANGED <<audienceVars, performed, lost>>

Advance(r) ==
  /\ At(r, "advance")
  /\ exec' = [exec EXCEPT ![run[r].exec].step = run[r].next]
  /\ run' = [run EXCEPT ![r].pc = "step", ![r].step = run[r].next]
  /\ UNCHANGED <<audienceVars, performed, lost>>

Complete(r) ==
  /\ At(r, "step") /\ run[r].step \notin DOMAIN Steps
  /\ exec' = [exec EXCEPT ![run[r].exec].status = "completed"]
  /\ Return(r)
  /\ UNCHANGED <<audienceVars, performed, lost>>

-----------------------------------------------------------------------------
(* Failures.                                                               *)

\* A throw within a step reaches the catch block, which fails the execution.
StepThrows(r) ==
  /\ "db" \in Faults
  /\ AtStep(r) \/ At(r, "pause") \/ At(r, "advance")
  /\ Goto(r, "catch")
  /\ UNCHANGED <<audienceVars, exec, performed, lost>>

\* Mutant of RecordFailure: the error is only logged.
FailureOnlyLogged(r) ==
  /\ At(r, "catch")
  /\ Return(r)
  /\ UNCHANGED <<audienceVars, exec, performed, lost>>

RecordFailure(r) ==
  /\ At(r, "catch")
  /\ exec' = [exec EXCEPT ![run[r].exec].status = "failed"]
  /\ Return(r)
  /\ UNCHANGED <<audienceVars, performed, lost>>

\* Mutant of Reject: the scheduler only logs, too.
OnlyLogged(r) ==
  /\ "db" \in Faults
  /\ \/ run[r].pc \in {"claim", "read", "mark", "catch"}
     \/ At(r, "step") /\ run[r].step \notin DOMAIN Steps
  /\ Return(r)
  /\ UNCHANGED <<audienceVars, exec, performed, lost>>

\* Any other throw leaves executeWorkflow. A trigger logs it; a scheduler fails the
\* execution, as it does when its own claim throws.
Reject(r) ==
  /\ "db" \in Faults
  /\ \/ run[r].pc \in {"claim", "read", "mark", "catch"}
     \/ At(r, "step") /\ run[r].step \notin DOMAIN Steps
  /\ IF r \in Triggers THEN Return(r) /\ lost' = lost \cup {run[r].exec}
                       ELSE Goto(r, "recover") /\ UNCHANGED lost
  /\ UNCHANGED <<audienceVars, exec, performed>>

Recover(p) ==
  /\ At(p, "recover")
  /\ exec' = [exec EXCEPT ![run[p].exec].status = "failed"]
  /\ Return(p)
  /\ UNCHANGED <<audienceVars, performed, lost>>

\* A throw out of the scheduler's catch block, and an eviction, end the call. A row that
\* was not claimed is found again by the next one.
Abandoned(r) == {t \in {run[r].exec} \ {None} : exec[t].status # "paused"}

EndCall(r) ==
  /\ run' = [run EXCEPT ![r] = IF r \in Triggers THEN [Idle EXCEPT !.pc = "done"] ELSE Idle]
  /\ lost' = lost \cup Abandoned(r)
  /\ UNCHANGED <<audienceVars, exec, performed>>

RecoverThrows(p) == "db" \in Faults /\ At(p, "recover") /\ EndCall(p)

DispatchThrows(t) == "db" \in Faults /\ At(t, "create") /\ EndCall(t)

Crash(r) ==
  /\ "crash" \in Faults
  /\ run[r].pc \notin {"idle", "done"}
  /\ EndCall(r)

-----------------------------------------------------------------------------
DispatchStep(t) == CreateExecution(t) \/ DispatchThrows(t)

SchedulerStep(p) ==
  \/ Claim(p) \/ EndBatch(p) \/ Recover(p) \/ RecoverThrows(p)
  \/ \E t \in Triggers : TakeRow(p, t)

ExecuteStep(r) ==
  \/ ReadExecution(r) \/ MarkRunning(r)
  \/ StartEmail(r) \/ SendEmail(r) \/ Tag(r) \/ Delay(r) \/ Condition(r)
  \/ Pause(r) \/ Advance(r) \/ Complete(r)
  \/ StepThrows(r) \/ RecordFailure(r) \/ Reject(r)

Next ==
  \/ AudienceNext /\ UNCHANGED <<exec, run, performed, lost>>
  \/ \E t \in Triggers : Dispatch(t) \/ DispatchStep(t) \/ MinutePasses(t) \/ DelayElapses(t)
  \/ \E p \in Schedulers : StartBatch(p) \/ SchedulerStep(p)
  \/ \E r \in Runners : ExecuteStep(r) \/ Crash(r)

Spec == Init /\ [][Next]_vars

\* Promises, and calls of the scheduler that have begun, run on while their isolate lives.
\* Nothing in the repository calls the scheduler, so that no call need ever begin.
Fairness ==
  /\ \A t \in Triggers : WF_vars(DispatchStep(t) \/ ExecuteStep(t))
  /\ \A p \in Schedulers : WF_vars(SchedulerStep(p) \/ ExecuteStep(p))

FairSpec == Spec /\ Fairness

-----------------------------------------------------------------------------
(* Properties.                                                             *)

ExecStatuses == {"none", "pending", "running", "paused", "completed", "failed"}

TypeOK ==
  /\ AudienceTypeOK
  /\ exec \in [Triggers -> [status : ExecStatuses, step : Nat, due : BOOLEAN, recent : BOOLEAN,
                            waited : SUBSET Nat]]
  /\ run \in [Runners ->
       [pc : {"idle", "create", "next", "claim", "read", "mark", "step", "mail", "pause",
              "advance", "catch", "recover", "done"},
        exec : Triggers \cup {None}, step : Nat, next : Nat, todo : SUBSET Triggers]]
  /\ performed \in [Triggers -> [DOMAIN Steps -> Nat]]
  /\ lost \subseteq Triggers

\* The guards of the code presuppose that no two calls of the scheduler overlap, and a
\* condition that leads back repeats what it leads back to.
OneScheduler == \A p, q \in Schedulers : p = q
Forward ==
  \A i \in DOMAIN Steps : Steps[i].type = "condition" => Steps[i].then > i /\ Steps[i].else > i

\* No step of an execution has its effect twice, whatever throws or crashes: what is
\* paused is resumed behind the delay, and what may have happened is not repeated
\* (executor.ts:29-90, scheduler.ts:18-48).
StepOnce ==
  OneScheduler /\ Forward => \A t \in Triggers, i \in DOMAIN Steps : performed[t][i] <= 1

\* Nothing behind a delay happens before it has elapsed (executor.ts:49-60,
\* scheduler.ts:18-25).
DelaysAreKept ==
  OneScheduler /\ Forward =>
    \A t \in Triggers, i, j \in DOMAIN Steps :
      Steps[i].type = "delay" /\ performed[t][i] > 0 /\ i < j /\ performed[t][j] > 0 =>
        i \in exec[t].waited

\* An execution that is neither paused nor over is in some promise's hand, or that promise
\* was lost: no error path forgets one (executor.ts:74-92, scheduler.ts:39-48).
InHand(t) == \E r \in Runners : run[r].exec = t

StuckOnlyByLoss ==
  \A t \in Triggers :
    exec[t].status \in {"pending", "running"} => InHand(t) \/ t \in lost

\* Every execution that is created is completed or failed in the end, or was lost, or is
\* paused from some time on, since nobody calls the scheduler (process/+server.ts:4, "Called
\* by cron or manual trigger") or no call gets as far as claiming it.
Ended(t) == exec[t].status \in {"completed", "failed"} \/ t \in lost
PausedForGood(t) == [](exec[t].status = "paused")

ExecutionsEnd ==
  Forward => \A t \in Triggers :
    exec[t].status # "none" ~> Ended(t) \/ PausedForGood(t)
=============================================================================
