----------------------------- MODULE EmailBlast -----------------------------
(***************************************************************************)
(* E-mail blasts and A/B tests: the compose page that creates them,        *)
(* sendBlast and its pages of recipients (lib/server/email/engine.ts), the *)
(* cron that picks a test's winner and sends it on                         *)
(* (lib/server/email/ab-winner.ts, routes/api/cron/ab-winner), and SES.    *)
(*                                                                         *)
(* Every blast is sent by one promise of the isolate that created it. The  *)
(* recipients' statuses change meanwhile, see Audience. Filters by tag and *)
(* by verification are taken to select everybody.                          *)
(***************************************************************************)
EXTENDS Audience, FiniteSetsExt

CONSTANTS
  Blasts,       \* rows of the email_blast table, numbered as they are created
  Crons,        \* executions of the cron that may overlap
  BatchSize,    \* BATCH_SIZE
  MaxComposed,  \* bound: how often an editor sends a blast or a test
  Faults        \* what may go wrong beneath the code, see FaultKinds

FaultKinds ==
  {"crash",       \* the isolate is evicted and its promises never resume
   "db",          \* a statement throws
   "ses",         \* SES refuses a message
   "lost_reply"}  \* SES accepts a message and its reply is lost

ASSUME BlastAssumption ==
  /\ Blasts \subseteq Nat \ {0}
  /\ IsFiniteSet(Supporters) /\ IsFiniteSet(Blasts)
  /\ BatchSize \in Nat \ {0}
  /\ MaxComposed \in Nat
  /\ Faults \subseteq FaultKinds

VARIABLES
  blast,   \* blast[b]: the row of blast b
  worker,  \* worker[b]: where sendBlast(b) is and what it has in hand
  cron,    \* cron[c]: where an execution of the cron is
  mailed   \* mailed[b][s]: calls of sendEmail for b and s that SES accepted

vars == <<emailStatus, import, notices, blast, worker, cron, mailed>>

\* `parent' is ab_parent_id, by the number of variant A; 0 for a plain blast. `test'
\* and `exclude' are testRecipientIds and excludeIds of the filter, `winnerPicked'
\* whether ab_winner_picked_at is set, `elapsed' whether the test's time is over.
NoBlast == [status |-> "none", kind |-> "plain", parent |-> 0, test |-> {}, exclude |-> {},
            total |-> 0, sent |-> 0, bounced |-> 0, winnerPicked |-> FALSE, elapsed |-> FALSE]

NoWorker == [pc |-> "none", cursor |-> 0, page |-> {},
             result |-> [s \in Supporters |-> "none"], sent |-> 0, failed |-> 0]

NoCron == [pc |-> "idle", test |-> 0, winner |-> 0]

Init ==
  /\ AudienceInit
  /\ blast = [b \in Blasts |-> NoBlast]
  /\ worker = [b \in Blasts |-> NoWorker]
  /\ cron = [c \in Crons |-> NoCron]
  /\ mailed = [b \in Blasts |-> [s \in Supporters |-> 0]]

At(b, pc) == worker[b].pc = pc
Goto(b, pc) == worker' = [worker EXCEPT ![b].pc = pc]

\* The promise ends, and what it had in hand is gone.
Stop(b, pc) == worker' = [worker EXCEPT ![b] = [NoWorker EXCEPT !.pc = pc]]

NextBlast(b) == blast[b].status = "none" /\ \A a \in Blasts : a < b => blast[a].status # "none"
VariantsOf(t) == {b \in Blasts : blast[b].parent = t /\ blast[b].kind \in {"A", "B"}}
WinnersOf(t) == {b \in Blasts : blast[b].parent = t /\ blast[b].kind = "winner"}

-----------------------------------------------------------------------------
(* The compose page.                                                       *)

\* buildFilterWhere.
Selected(b) ==
  {s \in Subscribed :
     /\ blast[b].test # {} => s \in blast[b].test
     /\ s \notin blast[b].exclude}

Composed == {b \in Blasts : blast[b].status # "none" /\ blast[b].kind \in {"plain", "A"}}
MayCompose == Cardinality(Composed) < MaxComposed

SendPlain(b) ==
  /\ MayCompose /\ NextBlast(b)
  /\ Subscribed # {}
  /\ blast' = [blast EXCEPT ![b] =
       [NoBlast EXCEPT !.status = "draft", !.total = Cardinality(Subscribed)]]
  /\ Goto(b, "claim")
  /\ UNCHANGED <<audienceVars, cron, mailed>>

\* Math.round, and the sizes that testGroupPct of 10 to 50 and splitPct of 10 to 90
\* per cent give.
Percent(n, pct) == (n * pct + 50) \div 100
TestGroupSizes(n) == {Max({2, Percent(n, pct)}) : pct \in 10..50}
SplitPoints(n) == {Percent(n, pct) : pct \in 10..90}

\* Mutant of Groups: the slices share a recipient.
GroupsOverlap(everybody) ==
  {g \in (SUBSET everybody) \X (SUBSET everybody) : g[1] # {} /\ g[2] # {} /\ g[1] # g[2]}

\* The shuffled recipients are cut into two groups, neither of them empty.
Groups(everybody) ==
  {g \in (SUBSET everybody) \X (SUBSET everybody) :
     /\ g[1] # {} /\ g[2] # {} /\ g[1] \cap g[2] = {}
     /\ LET size == Cardinality(g[1] \cup g[2])
        IN \E n \in TestGroupSizes(Cardinality(everybody)) :
             size = Min({n, Cardinality(everybody)}) /\ Cardinality(g[1]) \in SplitPoints(size)}

\* sendAbTest creates variant A, then variant B, then starts both in one promise.
SendAbTest(a) ==
  /\ MayCompose /\ NextBlast(a)
  /\ \E groups \in Groups(Subscribed) :
       /\ blast' = [blast EXCEPT ![a] =
            [NoBlast EXCEPT !.status = "draft", !.kind = "A", !.parent = a,
                            !.test = groups[1], !.total = Cardinality(groups[1])]]
       /\ worker' = [worker EXCEPT ![a].pc = "pair", ![a].page = groups[2]]
  /\ UNCHANGED <<audienceVars, cron, mailed>>

CreateVariantB(a, b) ==
  /\ At(a, "pair") /\ NextBlast(b)
  /\ blast' = [blast EXCEPT ![b] =
       [NoBlast EXCEPT !.status = "draft", !.kind = "B", !.parent = a,
                       !.test = worker[a].page, !.total = Cardinality(worker[a].page)]]
  /\ worker' = [worker EXCEPT ![a] = [NoWorker EXCEPT !.pc = "claim"], ![b].pc = "claim"]
  /\ UNCHANGED <<audienceVars, cron, mailed>>

-----------------------------------------------------------------------------
(* sendBlast.                                                              *)

Claim(b) ==
  /\ At(b, "claim")
  /\ blast[b].status = "draft"
  /\ blast' = [blast EXCEPT ![b].status = "sending"]
  /\ Goto(b, "count")
  /\ UNCHANGED <<audienceVars, cron, mailed>>

CountRecipients(b) ==
  /\ At(b, "count")
  /\ blast' = [blast EXCEPT ![b].total = Cardinality(Selected(b))]
  /\ Goto(b, IF Selected(b) = {} THEN "finish" ELSE "page")
  /\ UNCHANGED <<audienceVars, cron, mailed>>

\* findMany from the cursor on. `skip: 1' drops the first row, which is the cursor's own
\* only while that supporter still matches the filter.
Rest(b) ==
  LET from == {s \in Selected(b) : s >= worker[b].cursor}
  IN IF worker[b].cursor = 0 \/ from = {} THEN from ELSE from \ {Min(from)}

FirstOf(n, S) == {s \in S : Cardinality({r \in S : r < s}) < n}

TakePage(b) ==
  /\ At(b, "page")
  /\ worker' = [worker EXCEPT
       ![b].pc = IF Rest(b) = {} THEN "finish" ELSE "mail",
       ![b].page = FirstOf(BatchSize, Rest(b)),
       ![b].result = [s \in Supporters |-> "none"]]
  /\ UNCHANGED <<audienceVars, blast, cron, mailed>>

\* Mutant of Check: the list of the page is good enough.
NoCheck(b, s) ==
  /\ At(b, "mail") /\ s \in worker[b].page
  /\ worker[b].result[s] = "none"
  /\ worker' = [worker EXCEPT ![b].result[s] = "calling"]
  /\ UNCHANGED <<audienceVars, blast, cron, mailed>>

\* The status is read again before each message; a throw of that read is a failure.
Check(b, s) ==
  /\ At(b, "mail") /\ s \in worker[b].page
  /\ worker[b].result[s] = "none"
  /\ \E outcome \in {"calling", "failed"} :
       /\ outcome = "calling" => s \in Subscribed
       /\ outcome = "failed" => s \notin Subscribed \/ "db" \in Faults
       /\ worker' = [worker EXCEPT ![b].result[s] = outcome]
  /\ UNCHANGED <<audienceVars, blast, cron, mailed>>

\* sendEmail, called once for a recipient; a refusal and a lost reply look alike. (The SDK's
\* client may call SES again on its own: `mailed' counts the calls of sendEmail.)
Send(b, s) ==
  /\ At(b, "mail") /\ worker[b].result[s] = "calling"
  /\ \E accepted \in BOOLEAN, outcome \in {"sent", "failed"} :
       /\ outcome = "sent" => accepted
       /\ outcome = "failed" /\ accepted => "lost_reply" \in Faults
       /\ ~accepted => "ses" \in Faults
       /\ mailed' = IF accepted THEN [mailed EXCEPT ![b][s] = @ + 1] ELSE mailed
       /\ worker' = [worker EXCEPT ![b].result[s] = outcome]
  /\ UNCHANGED <<audienceVars, blast, cron>>

Settled(b) == \A s \in worker[b].page : worker[b].result[s] \in {"sent", "failed"}

Outcome(b, outcome) == {s \in worker[b].page : worker[b].result[s] = outcome}

RecordBatch(b) ==
  /\ At(b, "mail") /\ Settled(b)
  /\ worker' = [worker EXCEPT ![b].pc = "page", ![b].page = {}, ![b].cursor = Max(worker[b].page),
       ![b].result = [s \in Supporters |-> "none"],
       ![b].sent = @ + Cardinality(Outcome(b, "sent")),
       ![b].failed = @ + Cardinality(Outcome(b, "failed"))]
  /\ UNCHANGED <<audienceVars, blast, cron, mailed>>

\* Mutants of Finish: the planned total is stored as sent; the status is another table's.
FinishAsPlanned(b) ==
  /\ At(b, "finish")
  /\ blast' = [blast EXCEPT ![b].status = "sent", ![b].sent = blast[b].total,
                            ![b].bounced = worker[b].failed]
  /\ Stop(b, "done")
  /\ UNCHANGED <<audienceVars, cron, mailed>>

FinishCompleted(b) ==
  /\ At(b, "finish")
  /\ blast' = [blast EXCEPT ![b].status = "completed", ![b].sent = worker[b].sent,
                            ![b].bounced = worker[b].failed]
  /\ Stop(b, "done")
  /\ UNCHANGED <<audienceVars, cron, mailed>>

Finish(b) ==
  /\ At(b, "finish")
  /\ blast' = [blast EXCEPT ![b].status = "sent", ![b].sent = worker[b].sent,
                            ![b].bounced = worker[b].failed]
  /\ Stop(b, "done")
  /\ UNCHANGED <<audienceVars, cron, mailed>>

\* A statement throws. Nobody catches it before the claim took effect, nor from the read
\* of the row behind it; later the catch block does, and what it throws itself nobody
\* catches again.
DbError(b) ==
  /\ "db" \in Faults
  /\ \/ worker[b].pc \in {"count", "page", "finish"} /\ Goto(b, "fail")
     \/ At(b, "mail") /\ Settled(b) /\ Goto(b, "fail")
     \/ worker[b].pc \in {"pair", "claim", "count", "fail"} /\ Stop(b, "lost")
  /\ UNCHANGED <<audienceVars, blast, cron, mailed>>

\* Mutant of RecordFailure: the error is only logged.
FailureOnlyLogged(b) ==
  /\ At(b, "fail")
  /\ Stop(b, "done")
  /\ UNCHANGED <<audienceVars, blast, cron, mailed>>

RecordFailure(b) ==
  /\ At(b, "fail")
  /\ blast' = [blast EXCEPT ![b].status = "failed"]
  /\ Stop(b, "done")
  /\ UNCHANGED <<audienceVars, cron, mailed>>

\* The two variants of a test are sent by one isolate, every other blast by its own. A
\* message that was out may have been accepted.
Isolate(b) == IF blast[b].kind \in {"A", "B"} THEN VariantsOf(blast[b].parent) ELSE {b}
Running(b) == worker[b].pc \notin {"none", "done", "lost"}
Out(b) == {s \in worker[b].page : worker[b].result[s] = "calling"}

Crash(b) ==
  LET gone == {a \in Isolate(b) : Running(a)}
  IN /\ "crash" \in Faults
     /\ Running(b)
     /\ worker' = [a \in Blasts |->
          IF a \in gone THEN [NoWorker EXCEPT !.pc = "lost"] ELSE worker[a]]
     /\ \E accepted \in SUBSET {p \in gone \X Supporters : p[2] \in Out(p[1])} :
          mailed' = [a \in Blasts |-> [s \in Supporters |->
            mailed[a][s] + (IF <<a, s>> \in accepted THEN 1 ELSE 0)]]
     /\ UNCHANGED <<audienceVars, blast, cron>>

-----------------------------------------------------------------------------
(* The cron.                                                               *)

TestElapses(t) ==
  /\ blast[t].kind = "A" /\ blast[t].status = "sent" /\ ~blast[t].elapsed
  /\ blast' = [blast EXCEPT ![t].elapsed = TRUE]
  /\ UNCHANGED <<audienceVars, worker, cron, mailed>>

CronAt(c, pc) == cron[c].pc = pc
CronGoto(c, pc) == cron' = [cron EXCEPT ![c].pc = pc]

Due(t) ==
  /\ blast[t].kind = "A" /\ blast[t].status = "sent"
  /\ ~blast[t].winnerPicked /\ blast[t].elapsed
  /\ \A w \in WinnersOf(t) : blast[w].status = "failed"

\* Mutant of PickWinner: whether variant B was sent is not asked.
PickEarly(c, t) ==
  /\ CronAt(c, "idle") /\ Due(t)
  /\ \E w \in VariantsOf(t) : cron' = [cron EXCEPT ![c] = [pc |-> "mark", test |-> t, winner |-> w]]
  /\ UNCHANGED <<audienceVars, blast, worker, mailed>>

\* A test whose variants are both sent, whose time is over and that has no winner's
\* blast. Opens and clicks decide, and may decide otherwise when they are counted again.
\* What the cron reads in several statements only ever turns against the test, so one
\* that goes on could have read it all at once.
PickWinner(c, t) ==
  /\ CronAt(c, "idle") /\ Due(t)
  /\ \E b \in VariantsOf(t) : blast[b].kind = "B" /\ blast[b].status = "sent"
  /\ \E w \in VariantsOf(t) : cron' = [cron EXCEPT ![c] = [pc |-> "mark", test |-> t, winner |-> w]]
  /\ UNCHANGED <<audienceVars, blast, worker, mailed>>

MarkPicked(c) ==
  /\ CronAt(c, "mark")
  /\ blast' = [b \in Blasts |-> IF b \in VariantsOf(cron[c].test)
                                THEN [blast[b] EXCEPT !.winnerPicked = TRUE] ELSE blast[b]]
  /\ CronGoto(c, "create")
  /\ UNCHANGED <<audienceVars, worker, mailed>>

\* The remainder blast spreads the winner's filter, its testRecipientIds with it.
CreateWinner(c, b) ==
  LET t == cron[c].test
  IN /\ CronAt(c, "create") /\ NextBlast(b)
     /\ blast' = [blast EXCEPT ![b] =
          [NoBlast EXCEPT !.status = "draft", !.kind = "winner", !.parent = t,
                          !.test = blast[cron[c].winner].test,
                          !.exclude = UNION {blast[v].test : v \in VariantsOf(t)}]]
     /\ Goto(b, "claim")
     /\ cron' = [cron EXCEPT ![c] = NoCron]
     /\ UNCHANGED <<audienceVars, mailed>>

\* A statement throws, which is logged, or the isolate goes. Before the mark the next run
\* of the cron takes the test up again; after it nobody does.
CronFails(c) ==
  /\ {"db", "crash"} \cap Faults # {}
  /\ cron[c].pc \in {"mark", "create"}
  /\ cron' = [cron EXCEPT ![c] =
       IF CronAt(c, "create") THEN [@ EXCEPT !.pc = "lost"] ELSE NoCron]
  /\ UNCHANGED <<audienceVars, blast, worker, mailed>>

-----------------------------------------------------------------------------
SendStep(b) ==
  \/ Claim(b) \/ CountRecipients(b) \/ TakePage(b) \/ RecordBatch(b) \/ Finish(b)
  \/ DbError(b) \/ RecordFailure(b)
  \/ \E s \in Supporters : Check(b, s) \/ Send(b, s)
  \/ \E other \in Blasts : CreateVariantB(b, other)

CronGoesOn(c) == MarkPicked(c) \/ CronFails(c) \/ \E b \in Blasts : CreateWinner(c, b)
CronStep(c) == CronGoesOn(c) \/ \E t \in Blasts : PickWinner(c, t)

Next ==
  \/ AudienceNext /\ UNCHANGED <<blast, worker, cron, mailed>>
  \/ \E b \in Blasts : SendPlain(b) \/ SendAbTest(b) \/ SendStep(b) \/ Crash(b) \/ TestElapses(b)
  \/ \E c \in Crons : CronStep(c)

Spec == Init /\ [][Next]_vars

\* A promise, and a run of the cron that has taken a test up, go on while their isolate
\* lives. Nothing in the repository calls the cron, so that no run need ever begin.
Fairness ==
  /\ \A b \in Blasts : WF_vars(SendStep(b))
  /\ \A c \in Crons : WF_vars(CronGoesOn(c))

FairSpec == Spec /\ Fairness

-----------------------------------------------------------------------------
(* Properties.                                                             *)

TypeOK ==
  /\ AudienceTypeOK
  /\ blast \in [Blasts ->
       [status : {"none", "draft", "sending", "sent", "failed"},
        kind : {"plain", "A", "B", "winner"}, parent : Blasts \cup {0},
        test : SUBSET Supporters, exclude : SUBSET Supporters,
        total : Nat, sent : Nat, bounced : Nat, winnerPicked : BOOLEAN, elapsed : BOOLEAN]]
  /\ worker \in [Blasts ->
       [pc : {"none", "pair", "claim", "count", "page", "mail", "finish", "fail", "done", "lost"},
        cursor : Supporters \cup {0}, page : SUBSET Supporters,
        result : [Supporters -> {"none", "calling", "sent", "failed"}], sent : Nat, failed : Nat]]
  /\ cron \in [Crons -> [pc : {"idle", "mark", "create", "lost"},
                         test : Blasts \cup {0}, winner : Blasts \cup {0}]]
  /\ mailed \in [Blasts -> [Supporters -> Nat]]

\* Nobody is sent a message of a blast twice, nor of two blasts of one test, whatever is lost
\* or crashes: the groups are disjoint, pages do not overlap, and what SES may have
\* accepted is not sent again (engine.ts:343-393, compose/+page.server.ts:283-287,
\* ab-winner.ts:111-134).
SameTest(a, b) == a = b \/ (blast[a].parent # 0 /\ blast[a].parent = blast[b].parent)

MailedOnce ==
  \A a, b \in Blasts, s \in Supporters :
    /\ mailed[a][s] <= 1
    /\ SameTest(a, b) /\ mailed[a][s] > 0 /\ mailed[b][s] > 0 => a = b

\* The numbers of a sent blast account for its recipients (engine.ts:303-403): at least
\* `sent' of them have the message, at most `bounced' more do, and unless somebody left
\* the audience meanwhile nobody the count promised was passed over.
Recipients(b) == {s \in Supporters : mailed[b][s] > 0}

SentIsAccountedFor ==
  \A b \in Blasts : blast[b].status = "sent" =>
    /\ blast[b].sent <= Cardinality(Recipients(b))
    /\ Cardinality(Recipients(b)) <= blast[b].sent + blast[b].bounced
    /\ blast[b].sent + blast[b].bounced <= blast[b].total
    /\ Subscribed = Supporters => blast[b].sent + blast[b].bounced = blast[b].total

\* A test whose winner is marked as picked has both variants sent and marked and has its
\* winner's blast, unless a run of the cron is about to create it or was lost between the
\* two statements (ab-winner.ts:94-142). Nothing is sent on of a test not marked.
Picked(t) == \E v \in VariantsOf(t) : blast[v].winnerPicked
Dispatching(t) == \E c \in Crons : cron[c].test = t /\ cron[c].pc \in {"create", "lost"}

PickedIsDispatched ==
  \A t \in Blasts :
    /\ Picked(t) =>
         /\ WinnersOf(t) # {} \/ Dispatching(t)
         /\ Cardinality(VariantsOf(t)) = 2
         /\ \A v \in VariantsOf(t) : blast[v].winnerPicked /\ blast[v].status = "sent"
    /\ WinnersOf(t) # {} => Picked(t)

\* "Re-check status to avoid sending to newly bounced/complained addresses"
\* (engine.ts:241): from the moment a supporter leaves the audience no message is sent
\* but those already on their way to SES.
NoMailAfterLeaving ==
  [][\A b \in Blasts, s \in Supporters :
       s \notin Subscribed /\ s \notin Out(b) =>
         s \notin Out(b)' /\ mailed'[b][s] = mailed[b][s]]_vars

\* Every blast ends sent or failed, and a test whose winner is marked as picked is sent on,
\* unless a promise or a run of the cron was lost on the way. A test that no run of the
\* cron marks waits for good: it is to come "every 15 minutes via wrangler.toml cron
\* trigger" (cron/ab-winner/+server.ts:3), but wrangler.toml has no triggers.
Lost(b) == At(b, "lost") \/ \E c \in Crons : cron[c].test = b /\ CronAt(c, "lost")

Undecided(t) ==
  /\ Cardinality(VariantsOf(t)) = 2 /\ \A v \in VariantsOf(t) : blast[v].status = "sent"
  /\ WinnersOf(t) = {}

Unsettled(b) == blast[b].status \in {"draft", "sending"} \/ (Picked(b) /\ Undecided(b))

BlastsSettle == \A b \in Blasts : Unsettled(b) ~> ~Unsettled(b) \/ Lost(b)

\* "Send the winning variant to the remaining (non-test) recipients" (ab-winner.ts:83):
\* once the winner's blast is sent, everybody subscribed has a message of the test.
WinnerReachesTheRest ==
  \A w \in Blasts : blast[w].kind = "winner" /\ blast[w].status = "sent" =>
    \A s \in Subscribed : \E b \in Blasts : SameTest(b, w) /\ mailed[b][s] > 0
=============================================================================
