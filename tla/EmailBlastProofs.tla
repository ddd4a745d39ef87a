-------------------------- MODULE EmailBlastProofs --------------------------
(***************************************************************************)
(* Proofs about EmailBlast, for any number of supporters, imports, blasts  *)
(* and crons, any size of a page and any faults.                           *)
(*                                                                         *)
(* A test's rows (RowInv, OneB) have disjoint recipients and the winner's  *)
(* blast has none; a promise (WorkerInv, MailInv) never has in hand whom   *)
(* its blast has been mailed to; a mark goes to a test whose variants are  *)
(* sent, which they remain (CronInv, PickInv). What a promise has counted, *)
(* its page and those behind it add up to the total (CountInv), less only  *)
(* whoever has left the audience.                                          *)
(***************************************************************************)
EXTENDS EmailBlast, TLAPS, FiniteSetTheorems, WellFoundedInduction

-----------------------------------------------------------------------------
(* The largest and the smallest element of a set.                          *)

\* A finite set of numbers is bounded, or the smallest such set would be.
LEMMA MaxExists ==
  ASSUME NEW S \in SUBSET Nat, IsFiniteSet(S), S # {}
  PROVE  \E x \in S : \A y \in S : x >= y
<1> DEFINE T == {A \in SUBSET S : A # {} /\ ~ \E x \in A : \A y \in A : x >= y}
<1> SUFFICES ASSUME T # {} PROVE FALSE
  OBVIOUS
<1>1. IsWellFoundedOn(StrictSubsetOrdering(S), SUBSET S)
  BY FS_StrictSubsetOrderingWellFounded, FS_FiniteSubsetsOfFinite
<1>2. PICK A \in T : \A B \in T : ~ (<<B, A>> \in StrictSubsetOrdering(S))
  <2>1. T \subseteq SUBSET S
    OBVIOUS
  <2> HIDE DEF T
  <2> QED BY <1>1, <2>1, WFMin
<1>3. PICK z \in A : TRUE
  OBVIOUS
<1> DEFINE B == A \ {z}
<1>4. B \notin T
  BY <1>2, <1>3 DEF StrictSubsetOrdering
<1>5. CASE B = {}
  <2>1. \A y \in A : z >= y
    BY <1>3, <1>5
  <2> QED BY <1>3, <2>1
<1>6. CASE B # {}
  <2>1. PICK x \in B : \A y \in B : x >= y
    BY <1>4, <1>6
  <2>2. CASE z >= x
    <3>1. \A y \in A : z >= y
      BY <1>3, <2>1, <2>2
    <3> QED BY <1>3, <3>1
  <2>3. CASE ~ (z >= x)
    <3>1. \A y \in A : x >= y
      BY <1>3, <2>1, <2>3
    <3> QED BY <2>1, <3>1
  <2> QED BY <2>2, <2>3
<1> QED BY <1>5, <1>6

LEMMA MaxOf ==
  ASSUME NEW S \in SUBSET Nat, IsFiniteSet(S), S # {}
  PROVE  Max(S) \in S /\ \A y \in S : Max(S) >= y
<1>1. \E x \in S : \A y \in S : x >= y
  BY MaxExists
<1> QED
  BY <1>1 DEF Max

LEMMA MinOf ==
  ASSUME NEW S \in SUBSET Nat, S # {}
  PROVE  Min(S) \in S /\ \A y \in S : Min(S) <= y
<1>1. PICK n \in S : TRUE
  OBVIOUS
<1> DEFINE D == {d \in 0..n : n - d \in S}
<1>2. D \in SUBSET Nat /\ 0 \in D /\ D \subseteq 0..n
  BY <1>1
<1>3. IsFiniteSet(D)
  <2>1. IsFiniteSet(0..n)
    BY <1>1, FS_Interval
  <2> HIDE DEF D
  <2> QED BY <1>2, <2>1, FS_Subset
<1>4. PICK x \in D : \A y \in D : x >= y
  <2> HIDE DEF D
  <2> QED BY <1>2, <1>3, MaxExists
<1>5. n - x \in S /\ n - x <= n
  BY <1>1, <1>4
<1>6. ASSUME NEW y \in S PROVE n - x <= y
  <2>1. CASE y <= n
    <3>1. n - y \in D
      BY <1>1, <1>6, <2>1
    <3> QED BY <1>1, <1>4, <1>6, <3>1
  <2>2. CASE ~ (y <= n)
    BY <1>1, <1>5, <1>6, <2>2
  <2> QED BY <2>1, <2>2
<1> QED
  BY <1>5, <1>6 DEF Min

-----------------------------------------------------------------------------
(* Pages of recipients.                                                    *)

\* The first n of S are among S, and there are some if S has any and n is not 0.
LEMMA FirstOfSet ==
  ASSUME NEW n \in Nat \ {0}, NEW S \in SUBSET Nat
  PROVE  FirstOf(n, S) \subseteq S /\ (S # {} => FirstOf(n, S) # {})
<1>1. ASSUME S # {} PROVE FirstOf(n, S) # {}
  <2>1. Min(S) \in S /\ \A y \in S : Min(S) <= y
    BY <1>1, MinOf
  <2> DEFINE m == Min(S)
  <2> HIDE DEF m
  <2>2. m \in S /\ \A y \in S : m <= y
    BY <2>1 DEF m
  <2> DEFINE before == {r \in S : r < m}
  <2>3. before = {}
    <3>1. ASSUME NEW r \in S PROVE ~ (r < m)
      BY <2>2
    <3> QED BY <3>1, Zenon
  <2>4. Cardinality(before) < n
    <3> HIDE DEF before
    <3>1. Cardinality(before) = 0
      BY <2>3, FS_EmptySet
    <3> QED BY <3>1
  <2>5. m \in FirstOf(n, S)
    BY <2>2, <2>4, Zenon DEF FirstOf
  <2> QED BY <2>5
<1> QED
  BY <1>1 DEF FirstOf

-----------------------------------------------------------------------------
(* The audience.                                                           *)

ImportRow == [pc : {"idle", "write", "done"}, sub : Supporters \cup {0}, status : Statuses]

\* The stricter of two statuses is one of them.
LEMMA StricterIsStatus ==
  ASSUME NEW a \in Statuses, NEW b \in Statuses
  PROVE  Stricter(a, b) \in Statuses
  BY DEF Stricter

LEMMA AudienceTypes == AudienceTypeOK /\ [AudienceNext]_audienceVars => AudienceTypeOK'
<1> SUFFICES ASSUME AudienceTypeOK, [AudienceNext]_audienceVars PROVE AudienceTypeOK'
  OBVIOUS
<1> USE AudienceAssumption
<1>0. {"subscribed", "unsubscribed", "bounced", "complained"} = Statuses
  BY DEF Statuses, Rank
<1>1. ASSUME NEW s \in Supporters, Bounce(s) \/ Complain(s) \/ Unsubscribe(s)
      PROVE  AudienceTypeOK'
  BY <1>0, <1>1 DEF AudienceTypeOK, Bounce, Complain, Unsubscribe, Notice
<1>2. ASSUME NEW i \in Imports, NEW s \in Supporters, NEW mapped \in Statuses,
             ImportRead(i, s, mapped)
      PROVE  AudienceTypeOK'
  <2> DEFINE status == Stricter(emailStatus[s], mapped)
  <2>1. status \in Statuses
    BY StricterIsStatus DEF AudienceTypeOK
  <2>2. "subscribed" \in Statuses
    BY <1>0
  <2>3. import' = [import EXCEPT ![i] =
          IF status = emailStatus[s] THEN [NoImport EXCEPT !.pc = "done"]
          ELSE [pc |-> "write", sub |-> s, status |-> status]]
        /\ UNCHANGED <<emailStatus, notices>>
    BY <1>2 DEF ImportRead
  <2>4. [NoImport EXCEPT !.pc = "done"] \in ImportRow
    BY <2>2 DEF NoImport, ImportRow
  <2>5. [pc |-> "write", sub |-> s, status |-> status] \in ImportRow
    BY <2>1 DEF ImportRow
  <2> HIDE DEF status
  <2> QED
    BY <2>3, <2>4, <2>5 DEF AudienceTypeOK, ImportRow
<1>3. ASSUME NEW i \in Imports, ImportWrite(i)
      PROVE  AudienceTypeOK'
  <2>1. [NoImport EXCEPT !.pc = "done"] \in ImportRow
    BY <1>0 DEF NoImport, ImportRow
  <2> QED
    BY <1>3, <2>1 DEF AudienceTypeOK, ImportWrite, ImportRow
<1>4. CASE UNCHANGED audienceVars
  BY <1>4 DEF AudienceTypeOK, audienceVars
<1> QED
  BY <1>1, <1>2, <1>3, <1>4 DEF AudienceNext

LEMMA UnchangedAudience == AudienceTypeOK /\ UNCHANGED audienceVars => AudienceTypeOK'
BY DEF AudienceTypeOK, audienceVars

\* What an importer is about to write is stricter than what it read: never "subscribed".
NeverResubscribes == \A i \in Imports : import[i].pc = "write" => import[i].status # "subscribed"

LEMMA ImportsNeverResubscribe ==
  ASSUME AudienceTypeOK, NeverResubscribes, [AudienceNext]_audienceVars
  PROVE  NeverResubscribes'
<1>1. ASSUME NEW s \in Supporters, Bounce(s) \/ Complain(s) \/ Unsubscribe(s)
      PROVE  NeverResubscribes'
  BY <1>1 DEF NeverResubscribes, Bounce, Complain, Unsubscribe, Notice
<1>2. ASSUME NEW i \in Imports, NEW s \in Supporters, NEW mapped \in Statuses,
             ImportRead(i, s, mapped)
      PROVE  NeverResubscribes'
  <2> DEFINE status == Stricter(emailStatus[s], mapped)
  <2>1. emailStatus[s] \in Statuses
    BY DEF AudienceTypeOK
  <2>2. status # emailStatus[s] => status # "subscribed"
    BY <2>1 DEF Stricter, Statuses, Rank
  <2>3. import' = [import EXCEPT ![i] =
          IF status = emailStatus[s] THEN [NoImport EXCEPT !.pc = "done"]
          ELSE [pc |-> "write", sub |-> s, status |-> status]]
    BY <1>2 DEF ImportRead
  <2> HIDE DEF status
  <2> QED
    BY <2>2, <2>3 DEF NeverResubscribes, AudienceTypeOK, NoImport
<1>3. ASSUME NEW i \in Imports, ImportWrite(i)
      PROVE  NeverResubscribes'
  BY <1>3 DEF NeverResubscribes, ImportWrite, AudienceTypeOK, NoImport
<1>4. CASE UNCHANGED audienceVars
  BY <1>4 DEF NeverResubscribes, audienceVars
<1> QED
  BY <1>1, <1>2, <1>3, <1>4 DEF AudienceNext

\* No step of the audience brings anybody back.
LEMMA NobodyComesBack ==
  ASSUME AudienceTypeOK, NeverResubscribes, [AudienceNext]_audienceVars,
         NEW s \in Supporters, s \notin Subscribed
  PROVE  s \notin Subscribed'
<1> USE DEF Subscribed
<1>1. ASSUME NEW t \in Supporters, Bounce(t) \/ Complain(t) \/ Unsubscribe(t)
      PROVE  s \notin Subscribed'
  BY <1>1 DEF AudienceTypeOK, Bounce, Complain, Unsubscribe
<1>2. ASSUME NEW i \in Imports, NEW t \in Supporters, NEW mapped \in Statuses,
             ImportRead(i, t, mapped)
      PROVE  s \notin Subscribed'
  BY <1>2 DEF ImportRead
<1>3. ASSUME NEW i \in Imports, ImportWrite(i)
      PROVE  s \notin Subscribed'
  BY <1>3 DEF NeverResubscribes, ImportWrite, AudienceTypeOK
<1>4. CASE UNCHANGED audienceVars
  BY <1>4 DEF audienceVars
<1> QED
  BY <1>1, <1>2, <1>3, <1>4 DEF AudienceNext

-----------------------------------------------------------------------------
(* The invariant.                                                          *)

BlastRow ==
  [status : {"none", "draft", "sending", "sent", "failed"},
   kind : {"plain", "A", "B", "winner"}, parent : Blasts \cup {0},
   test : SUBSET Supporters, exclude : SUBSET Supporters,
   total : Nat, sent : Nat, bounced : Nat, winnerPicked : BOOLEAN, elapsed : BOOLEAN]

WorkerRow ==
  [pc : {"none", "pair", "claim", "count", "page", "mail", "finish", "fail", "done", "lost"},
   cursor : Supporters \cup {0}, page : SUBSET Supporters,
   result : [Supporters -> {"none", "calling", "sent", "failed"}], sent : Nat, failed : Nat]

CronRow == [pc : {"idle", "mark", "create", "lost"}, test : Blasts \cup {0},
            winner : Blasts \cup {0}]

\* Whom blast b may reach, whatever their status; Selected(b) are those subscribed.
Allowed(b) ==
  {s \in Supporters : (blast[b].test # {} => s \in blast[b].test) /\ s \notin blast[b].exclude}

\* What a row is: plain, a variant of the test named after its variant A, or a
\* winner's, which inherits the recipients that it excludes.
RowInv(b) ==
  /\ blast[b].status = "none" => blast[b] = NoBlast /\ worker[b] = NoWorker
  /\ blast[b].kind = "plain" => blast[b].parent = 0
  /\ blast[b].kind = "A" =>
       blast[b].parent = b /\ blast[b].test # {} /\ blast[b].exclude = {}
  /\ blast[b].kind = "B" =>
       /\ blast[b].parent \in Blasts /\ blast[blast[b].parent].kind = "A"
       /\ worker[blast[b].parent].pc \notin {"none", "pair"}
       /\ blast[b].test # {} /\ blast[b].test \cap blast[blast[b].parent].test = {}
       /\ blast[b].exclude = {}
  /\ blast[b].kind = "winner" => blast[b].test # {} /\ blast[b].test \subseteq blast[b].exclude

OneB ==
  \A a, b \in Blasts :
    blast[a].kind = "B" /\ blast[b].kind = "B" /\ blast[a].parent = blast[b].parent => a = b

\* What a promise has in hand: the second group of a test, or a page behind its cursor;
\* nobody at or before the cursor, or answered for on the page, is mailed again.
WorkerInv(b) ==
  /\ worker[b].pc = "pair" =>
       /\ blast[b].kind = "A" /\ worker[b].page # {}
       /\ worker[b].page \cap blast[b].test = {}
  /\ \A s \in Supporters :
       /\ worker[b].result[s] # "none" => s \in worker[b].page
       /\ worker[b].result[s] = "calling" => worker[b].pc = "mail"
  /\ worker[b].pc = "mail" =>
       /\ worker[b].page # {} /\ worker[b].page \subseteq Allowed(b)
       /\ \A s \in worker[b].page : s > worker[b].cursor
  /\ blast[b].status = "sent" => worker[b].pc = "done"

MailInv(b) ==
  \A s \in Supporters :
    /\ mailed[b][s] <= 1
    /\ mailed[b][s] > 0 =>
         /\ s \in Allowed(b) /\ worker[b].pc \notin {"none", "pair", "claim", "count"}
         /\ worker[b].pc = "page" => s <= worker[b].cursor
         /\ worker[b].pc = "mail" =>
              \/ s <= worker[b].cursor
              \/ s \in worker[b].page /\ worker[b].result[s] \in {"sent", "failed"}

\* Both variants of test t are sent; a mark goes to both.
BothSent(t) ==
  /\ blast[t].kind = "A" /\ blast[t].status = "sent"
  /\ \E b \in Blasts : blast[b].kind = "B" /\ blast[b].parent = t /\ blast[b].status = "sent"

AllPicked(t) == \A v \in VariantsOf(t) : blast[v].winnerPicked

CronInv(c) ==
  /\ cron[c].pc # "idle" =>
       cron[c].test \in Blasts /\ BothSent(cron[c].test) /\ cron[c].winner \in VariantsOf(cron[c].test)
  /\ cron[c].pc \in {"create", "lost"} => AllPicked(cron[c].test)

PickInv(t) ==
  /\ Picked(t) => BothSent(t) /\ AllPicked(t) /\ (WinnersOf(t) # {} \/ Dispatching(t))
  /\ WinnersOf(t) # {} => Picked(t)

IInv ==
  /\ TypeOK
  /\ \A b \in Blasts : RowInv(b) /\ WorkerInv(b) /\ MailInv(b)
  /\ OneB
  /\ \A c \in Crons : CronInv(c)
  /\ \A t \in Blasts : PickInv(t)

-----------------------------------------------------------------------------
(* What the steps do to the rows of one blast.                             *)

\* The rows of b become r and w, the others stay.
Becomes(b, r, w) ==
  /\ r \in BlastRow /\ w \in WorkerRow
  /\ blast' = [blast EXCEPT ![b] = r] /\ worker' = [worker EXCEPT ![b] = w]

LEMMA BecomesIsTyped ==
  ASSUME TypeOK, NEW b \in Blasts, NEW r, NEW w, Becomes(b, r, w)
  PROVE  /\ blast' \in [Blasts -> BlastRow] /\ worker' \in [Blasts -> WorkerRow]
         /\ blast'[b] = r /\ worker'[b] = w
         /\ \A a \in Blasts : a # b => blast'[a] = blast[a] /\ worker'[a] = worker[a]
BY DEF TypeOK, Becomes, BlastRow, WorkerRow

LEMMA RowsAreTyped ==
  ASSUME TypeOK, NEW b \in Blasts
  PROVE  /\ blast[b] \in BlastRow /\ worker[b] \in WorkerRow
         /\ blast = [blast EXCEPT ![b] = blast[b]] /\ worker = [worker EXCEPT ![b] = worker[b]]
BY DEF TypeOK, BlastRow, WorkerRow

LEMMA CardinalitiesAreNatural ==
  ASSUME NEW S \in SUBSET Supporters
  PROVE  IsFiniteSet(S) /\ Cardinality(S) \in Nat
BY BlastAssumption, FS_Subset, FS_CardinalityType

LEMMA SelectedOnes ==
  ASSUME TypeOK, NEW b \in Blasts
  PROVE  Selected(b) \in SUBSET Supporters /\ Selected(b) \subseteq Allowed(b)
BY DEF Selected, Subscribed, Allowed

LEMMA NoWorkerIsTyped == NoWorker \in WorkerRow
BY DEF NoWorker, WorkerRow

LEMMA NoBlastIsTyped == NoBlast \in BlastRow
BY DEF NoBlast, BlastRow

LEMMA TypesAfter ==
  ASSUME TypeOK, NEW b \in Blasts, NEW r, NEW w, Becomes(b, r, w), UNCHANGED audienceVars,
         mailed' \in [Blasts -> [Supporters -> Nat]], cron' \in [Crons -> CronRow]
  PROVE  TypeOK'
<1>1. AudienceTypeOK'
  BY UnchangedAudience DEF TypeOK
<1> QED
  BY <1>1, BecomesIsTyped DEF TypeOK, BlastRow, WorkerRow, CronRow

LEMMA ClaimDoes ==
  ASSUME TypeOK, NEW b \in Blasts, Claim(b)
  PROVE  Becomes(b, [blast[b] EXCEPT !.status = "sending"], [worker[b] EXCEPT !.pc = "count"])
BY RowsAreTyped DEF Becomes, Claim, Goto, BlastRow, WorkerRow

LEMMA CountRecipientsDoes ==
  ASSUME TypeOK, NEW b \in Blasts, CountRecipients(b)
  PROVE  Becomes(b, [blast[b] EXCEPT !.total = Cardinality(Selected(b))],
                 [worker[b] EXCEPT !.pc = IF Selected(b) = {} THEN "finish" ELSE "page"])
<1>1. Cardinality(Selected(b)) \in Nat
  BY SelectedOnes, CardinalitiesAreNatural
<1> QED
  BY <1>1, RowsAreTyped DEF Becomes, CountRecipients, Goto, BlastRow, WorkerRow

\* A page is taken behind the cursor, from those the blast may reach.
LEMMA RestIsBehind ==
  ASSUME TypeOK, NEW b \in Blasts
  PROVE  /\ Rest(b) \in SUBSET Selected(b)
         /\ \A s \in Rest(b) : s > worker[b].cursor
<1> DEFINE from == {s \in Selected(b) : s >= worker[b].cursor}
<1>1. Selected(b) \subseteq Nat \ {0} /\ worker[b].cursor \in Nat
  BY SelectedOnes, RowsAreTyped, AudienceAssumption DEF WorkerRow
<1>2. CASE worker[b].cursor = 0 \/ from = {}
  BY <1>1, <1>2 DEF Rest
<1>3. CASE worker[b].cursor # 0 /\ from # {}
  <2>1. from \in SUBSET Nat
    BY <1>1
  <2>2. Min(from) \in from /\ \A y \in from : Min(from) <= y
    <3> HIDE DEF from
    <3> QED BY <1>3, <2>1, MinOf
  <2>3. Rest(b) = from \ {Min(from)}
    BY <1>3 DEF Rest
  <2> QED BY <1>1, <2>2, <2>3
<1> QED BY <1>2, <1>3

LEMMA TakePageDoes ==
  ASSUME TypeOK, NEW b \in Blasts, TakePage(b)
  PROVE  \E page \in SUBSET Supporters :
    /\ page = FirstOf(BatchSize, Rest(b)) /\ page \subseteq Allowed(b)
    /\ \A s \in page : s > worker[b].cursor
    /\ Rest(b) # {} => page # {}
    /\ Becomes(b, blast[b],
         [worker[b] EXCEPT !.pc = IF Rest(b) = {} THEN "finish" ELSE "mail", !.page = page,
                           !.result = [s \in Supporters |-> "none"]])
<1> DEFINE page == FirstOf(BatchSize, Rest(b))
           w == [worker[b] EXCEPT !.pc = IF Rest(b) = {} THEN "finish" ELSE "mail",
                                  !.page = page, !.result = [s \in Supporters |-> "none"]]
<1>1. Rest(b) \in SUBSET Selected(b) /\ \A s \in Rest(b) : s > worker[b].cursor
  BY RestIsBehind
<1>2. Rest(b) \in SUBSET Nat
  BY <1>1, SelectedOnes, AudienceAssumption
<1>3. page \subseteq Rest(b) /\ (Rest(b) # {} => page # {})
  BY <1>2, FirstOfSet, BlastAssumption
<1>4. page \in SUBSET Supporters /\ page \subseteq Allowed(b)
  BY <1>1, <1>3, SelectedOnes
<1>5. worker' = [worker EXCEPT ![b] = w]
  BY RowsAreTyped DEF TakePage, WorkerRow
<1>6. w \in WorkerRow
  <2> HIDE DEF page
  <2> QED BY <1>4, RowsAreTyped DEF WorkerRow
<1>7. Becomes(b, blast[b], w)
  <2> HIDE DEF w
  <2> QED BY <1>5, <1>6, RowsAreTyped DEF Becomes, TakePage
<1> QED
  <2> HIDE DEF page
  <2> QED BY <1>1, <1>3, <1>4, <1>7 DEF page

LEMMA CheckDoes ==
  ASSUME TypeOK, NEW b \in Blasts, NEW s \in Supporters, Check(b, s)
  PROVE  \E outcome \in {"calling", "failed"} :
    /\ outcome = "calling" => s \in Subscribed
    /\ Becomes(b, blast[b], [worker[b] EXCEPT !.result = [@ EXCEPT ![s] = outcome]])
<1>1. PICK outcome \in {"calling", "failed"} :
        /\ outcome = "calling" => s \in Subscribed
        /\ worker' = [worker EXCEPT ![b].result[s] = outcome]
  BY DEF Check
<1> DEFINE w == [worker[b] EXCEPT !.result = [@ EXCEPT ![s] = outcome]]
<1>2. worker' = [worker EXCEPT ![b] = w]
  BY <1>1, RowsAreTyped DEF WorkerRow
<1>3. w \in WorkerRow
  BY RowsAreTyped DEF WorkerRow
<1>4. Becomes(b, blast[b], w)
  <2> HIDE DEF w
  <2> QED BY <1>2, <1>3, RowsAreTyped DEF Becomes, Check
<1> QED BY <1>1, <1>4

LEMMA SendDoes ==
  ASSUME TypeOK, NEW b \in Blasts, NEW s \in Supporters, Send(b, s)
  PROVE  \E accepted \in BOOLEAN, outcome \in {"sent", "failed"} :
    /\ outcome = "sent" => accepted
    /\ mailed' = IF accepted THEN [mailed EXCEPT ![b][s] = @ + 1] ELSE mailed
    /\ Becomes(b, blast[b], [worker[b] EXCEPT !.result = [@ EXCEPT ![s] = outcome]])
<1>1. PICK accepted \in BOOLEAN, outcome \in {"sent", "failed"} :
        /\ outcome = "sent" => accepted
        /\ mailed' = IF accepted THEN [mailed EXCEPT ![b][s] = @ + 1] ELSE mailed
        /\ worker' = [worker EXCEPT ![b].result[s] = outcome]
  BY DEF Send
<1> DEFINE w == [worker[b] EXCEPT !.result = [@ EXCEPT ![s] = outcome]]
<1>2. worker' = [worker EXCEPT ![b] = w]
  BY <1>1, RowsAreTyped DEF WorkerRow
<1>3. w \in WorkerRow
  BY RowsAreTyped DEF WorkerRow
<1>4. Becomes(b, blast[b], w)
  <2> HIDE DEF w
  <2> QED BY <1>2, <1>3, RowsAreTyped DEF Becomes, Send
<1> QED BY <1>1, <1>4

LEMMA RecordBatchDoes ==
  ASSUME TypeOK, NEW b \in Blasts, WorkerInv(b), RecordBatch(b)
  PROVE  /\ Max(worker[b].page) \in worker[b].page
         /\ \A s \in worker[b].page : s <= Max(worker[b].page)
         /\ Becomes(b, blast[b],
              [worker[b] EXCEPT !.pc = "page", !.page = {}, !.cursor = Max(worker[b].page),
                 !.result = [s \in Supporters |-> "none"],
                 !.sent = @ + Cardinality(Outcome(b, "sent")),
                 !.failed = @ + Cardinality(Outcome(b, "failed"))])
<1> DEFINE page == worker[b].page
           m == Max(page)
           sent == Cardinality(Outcome(b, "sent"))
           failed == Cardinality(Outcome(b, "failed"))
           w == [worker[b] EXCEPT !.pc = "page", !.page = {}, !.cursor = m,
                 !.result = [s \in Supporters |-> "none"], !.sent = @ + sent, !.failed = @ + failed]
<1>1. page \in SUBSET Supporters /\ page # {}
  BY RowsAreTyped DEF WorkerRow, RecordBatch, At, WorkerInv
<1>2. IsFiniteSet(page) /\ page \in SUBSET Nat
  BY <1>1, CardinalitiesAreNatural, AudienceAssumption
<1>3. m \in page /\ \A s \in page : m >= s
  <2> HIDE DEF page
  <2> QED BY <1>1, <1>2, MaxOf
<1>4. Outcome(b, "sent") \in SUBSET Supporters /\ Outcome(b, "failed") \in SUBSET Supporters
  BY <1>1 DEF Outcome
<1>5. sent \in Nat /\ failed \in Nat
  BY <1>4, CardinalitiesAreNatural
<1>6. worker' = [worker EXCEPT ![b] = w]
  <2> HIDE DEF sent, failed, m
  <2>1. worker' = [worker EXCEPT ![b].pc = "page", ![b].page = {}, ![b].cursor = m,
          ![b].result = [s \in Supporters |-> "none"],
          ![b].sent = @ + sent, ![b].failed = @ + failed]
    BY DEF RecordBatch, sent, failed, m
  <2> QED BY <2>1, RowsAreTyped DEF WorkerRow
<1>7. w \in WorkerRow
  <2>1. worker[b] \in WorkerRow
    BY RowsAreTyped
  <2>2. worker[b].sent + sent \in Nat /\ worker[b].failed + failed \in Nat
    BY <1>5, <2>1 DEF WorkerRow
  <2>3. m \in Supporters
    BY <1>1, <1>3
  <2> HIDE DEF sent, failed, m
  <2> QED BY <2>1, <2>2, <2>3 DEF WorkerRow
<1>8. Becomes(b, blast[b], w)
  <2> HIDE DEF w
  <2> QED BY <1>6, <1>7, RowsAreTyped DEF Becomes, RecordBatch
<1>9. \A s \in page : s <= m
  BY <1>2, <1>3
<1> QED
  BY <1>3, <1>8, <1>9

-----------------------------------------------------------------------------
(* Steps of a blast that exists already.                                   *)

\* The rows keep what they are about, and those that are not there yet are not touched.
Kept ==
  \A a \in Blasts :
    /\ blast'[a].kind = blast[a].kind /\ blast'[a].parent = blast[a].parent
    /\ blast'[a].test = blast[a].test /\ blast'[a].exclude = blast[a].exclude
    /\ blast'[a].status = "none" => blast[a].status = "none"
    /\ blast[a].status = "none" => blast'[a] = blast[a] /\ worker'[a] = worker[a]
    /\ worker[a].pc \notin {"none", "pair"} => worker'[a].pc \notin {"none", "pair"}

LEMMA KeptRows ==
  ASSUME \A b \in Blasts : RowInv(b), OneB, Kept
  PROVE  (\A b \in Blasts : RowInv(b)') /\ OneB'
<1>1. OneB'
  BY DEF OneB, Kept
<1>2. ASSUME NEW b \in Blasts PROVE RowInv(b)'
  <2>1. RowInv(b)
    OBVIOUS
  <2>2. blast'[b].status = "none" => blast'[b] = NoBlast /\ worker'[b] = NoWorker
    BY <2>1 DEF RowInv, Kept
  <2>3. CASE blast[b].kind = "B"
    <3>1. blast[b].parent \in Blasts
      BY <2>1, <2>3 DEF RowInv
    <3> QED BY <2>1, <2>2, <2>3, <3>1 DEF RowInv, Kept
  <2>4. CASE blast[b].kind # "B"
    BY <2>1, <2>2, <2>4 DEF RowInv, Kept
  <2> QED BY <2>3, <2>4
<1> QED BY <1>1, <1>2

\* A blast whose own rows do not change keeps what holds of them.
LEMMA SameBlast ==
  ASSUME NEW a \in Blasts, WorkerInv(a), MailInv(a),
         blast'[a] = blast[a], worker'[a] = worker[a], mailed'[a] = mailed[a]
  PROVE  WorkerInv(a)' /\ MailInv(a)'
BY DEF WorkerInv, MailInv, Allowed

\* The crons depend on what belongs to a test, what is sent and what is marked.
Steady ==
  /\ cron' = cron
  /\ \A a \in Blasts :
       /\ blast'[a].kind = blast[a].kind /\ blast'[a].parent = blast[a].parent
       /\ blast'[a].winnerPicked = blast[a].winnerPicked
       /\ blast[a].status = "sent" => blast'[a].status = "sent"

LEMMA SteadyTests ==
  ASSUME Steady, NEW t \in Blasts
  PROVE  /\ VariantsOf(t)' = VariantsOf(t) /\ WinnersOf(t)' = WinnersOf(t)
         /\ BothSent(t) => BothSent(t)'
         /\ AllPicked(t) => AllPicked(t)'
         /\ Picked(t)' = Picked(t) /\ Dispatching(t)' = Dispatching(t)
<1>1. VariantsOf(t)' = VariantsOf(t) /\ WinnersOf(t)' = WinnersOf(t)
  BY DEF Steady, VariantsOf, WinnersOf
<1>2. BothSent(t) => BothSent(t)'
  BY DEF Steady, BothSent
<1>3. VariantsOf(t) \subseteq Blasts
  BY DEF VariantsOf
<1>4. AllPicked(t) => AllPicked(t)'
  BY <1>1, <1>3 DEF Steady, AllPicked
<1>5. Picked(t)' = Picked(t)
  BY <1>1, <1>3 DEF Steady, Picked
<1>6. Dispatching(t)' = Dispatching(t)
  BY DEF Steady, Dispatching
<1> QED BY <1>1, <1>2, <1>4, <1>5, <1>6

LEMMA SteadyCrons ==
  ASSUME Steady, \A c \in Crons : CronInv(c), \A t \in Blasts : PickInv(t)
  PROVE  (\A c \in Crons : CronInv(c)') /\ (\A t \in Blasts : PickInv(t)')
<1>1. ASSUME NEW c \in Crons PROVE CronInv(c)'
  <2>1. CronInv(c) /\ cron' = cron
    BY DEF Steady
  <2>2. CASE cron[c].pc = "idle"
    BY <2>1, <2>2 DEF CronInv
  <2>3. CASE cron[c].pc # "idle"
    <3>1. PICK t \in Blasts : t = cron[c].test
      BY <2>1, <2>3 DEF CronInv
    <3>2. BothSent(t)' /\ VariantsOf(t)' = VariantsOf(t) /\ (AllPicked(t) => AllPicked(t)')
      BY <2>1, <2>3, <3>1, SteadyTests DEF CronInv
    <3>3. cron'[c] = cron[c] /\ t = cron'[c].test /\ cron[c].winner \in VariantsOf(t)
      BY <2>1, <2>3, <3>1 DEF CronInv
    <3>4. cron[c].pc \in {"create", "lost"} => AllPicked(t)
      BY <2>1, <3>1 DEF CronInv
    <3> QED BY <3>1, <3>2, <3>3, <3>4 DEF CronInv
  <2> QED BY <2>2, <2>3
<1>2. ASSUME NEW t \in Blasts PROVE PickInv(t)'
  <2>1. PickInv(t)
    OBVIOUS
  <2> QED BY <2>1, SteadyTests DEF PickInv
<1> QED BY <1>1, <1>2

\* A step that changes the rows of b only, b being there and neither ended nor waiting
\* for its second variant afterwards, preserves the invariant if what it leaves of b does.
LEMMA OrdinaryStep ==
  ASSUME IInv, NEW b \in Blasts, NEW r, NEW w, Becomes(b, r, w),
         UNCHANGED <<audienceVars, cron>>,
         mailed' \in [Blasts -> [Supporters -> Nat]],
         \A a \in Blasts : a # b => mailed'[a] = mailed[a],
         blast[b].status # "none", r.status # "none",
         blast[b].status = "sent" => r.status = "sent",
         r.kind = blast[b].kind, r.parent = blast[b].parent, r.test = blast[b].test,
         r.exclude = blast[b].exclude, r.winnerPicked = blast[b].winnerPicked,
         w.pc \notin {"none", "pair"},
         WorkerInv(b)', MailInv(b)'
  PROVE  IInv'
<1>1. TypeOK /\ cron \in [Crons -> CronRow]
  BY DEF IInv, TypeOK, CronRow
<1>2. /\ blast'[b] = r /\ worker'[b] = w
      /\ \A a \in Blasts : a # b => blast'[a] = blast[a] /\ worker'[a] = worker[a]
  BY <1>1, BecomesIsTyped
<1>3. TypeOK'
  BY <1>1, TypesAfter
<1>4. (\A a \in Blasts : RowInv(a)') /\ OneB'
  <2>1. Kept
    BY <1>2 DEF Kept
  <2> QED BY <2>1, KeptRows DEF IInv
<1>5. ASSUME NEW a \in Blasts PROVE WorkerInv(a)' /\ MailInv(a)'
  <2>1. CASE a = b
    BY <2>1
  <2>2. CASE a # b
    BY <1>2, <2>2, SameBlast DEF IInv
  <2> QED BY <2>1, <2>2
<1>6. (\A c \in Crons : CronInv(c)') /\ (\A t \in Blasts : PickInv(t)')
  <2>1. Steady
    BY <1>2 DEF Steady
  <2> QED BY <2>1, SteadyCrons DEF IInv
<1> QED
  BY <1>3, <1>4, <1>5, <1>6 DEF IInv

LEMMA WorkingBlast ==
  ASSUME IInv, NEW b \in Blasts, worker[b].pc \notin {"none", "done"}
  PROVE  blast[b].status # "none" /\ blast[b].status # "sent"
BY DEF IInv, RowInv, WorkerInv, NoWorker

LEMMA Parts ==
  ASSUME IInv, NEW b \in Blasts
  PROVE  /\ TypeOK /\ WorkerInv(b) /\ MailInv(b)
         /\ blast[b] \in BlastRow /\ worker[b] \in WorkerRow
         /\ mailed \in [Blasts -> [Supporters -> Nat]]
BY RowsAreTyped DEF IInv, TypeOK

LEMMA ClaimStep ==
  ASSUME IInv, NEW b \in Blasts, Claim(b)
  PROVE  IInv'
<1> DEFINE r == [blast[b] EXCEPT !.status = "sending"]
           w == [worker[b] EXCEPT !.pc = "count"]
<1>1. /\ TypeOK /\ WorkerInv(b) /\ MailInv(b) /\ blast[b] \in BlastRow /\ worker[b] \in WorkerRow
      /\ mailed \in [Blasts -> [Supporters -> Nat]]
  BY Parts
<1>2. Becomes(b, r, w)
  BY <1>1, ClaimDoes
<1>3. blast'[b] = r /\ worker'[b] = w
  BY <1>1, <1>2, BecomesIsTyped
<1>4. WorkerInv(b)'
  BY <1>1, <1>3 DEF Claim, At, WorkerInv, BlastRow, WorkerRow
<1>5. MailInv(b)'
  BY <1>1, <1>3 DEF Claim, At, MailInv, BlastRow, WorkerRow
<1>6. blast[b].status = "draft" /\ UNCHANGED <<audienceVars, cron, mailed>>
  BY DEF Claim
<1>7. /\ r.status = "sending" /\ r.kind = blast[b].kind /\ r.parent = blast[b].parent
      /\ r.test = blast[b].test /\ r.exclude = blast[b].exclude
      /\ r.winnerPicked = blast[b].winnerPicked /\ w.pc = "count"
  BY <1>1 DEF BlastRow, WorkerRow
<1> HIDE DEF r, w
<1> QED
  BY <1>1, <1>2, <1>4, <1>5, <1>6, <1>7, OrdinaryStep

LEMMA CountRecipientsStep ==
  ASSUME IInv, NEW b \in Blasts, CountRecipients(b)
  PROVE  IInv'
<1> DEFINE next == IF Selected(b) = {} THEN "finish" ELSE "page"
           r == [blast[b] EXCEPT !.total = Cardinality(Selected(b))]
           w == [worker[b] EXCEPT !.pc = next]
<1>1. /\ TypeOK /\ WorkerInv(b) /\ MailInv(b) /\ blast[b] \in BlastRow /\ worker[b] \in WorkerRow
      /\ mailed \in [Blasts -> [Supporters -> Nat]]
  BY Parts
<1>2. Becomes(b, r, w)
  BY <1>1, CountRecipientsDoes
<1>3. blast'[b] = r /\ worker'[b] = w
  BY <1>1, <1>2, BecomesIsTyped
<1>4. worker[b].pc = "count" /\ UNCHANGED <<audienceVars, cron, mailed>>
  BY DEF CountRecipients, At
<1>5. blast[b].status # "none" /\ blast[b].status # "sent"
  BY <1>4, WorkingBlast
<1>6. next \in {"finish", "page"}
  OBVIOUS
<1> HIDE DEF next
<1>7. /\ r.status = blast[b].status /\ r.kind = blast[b].kind /\ r.parent = blast[b].parent
      /\ r.test = blast[b].test /\ r.exclude = blast[b].exclude
      /\ r.winnerPicked = blast[b].winnerPicked
      /\ w.pc = next /\ w.page = worker[b].page /\ w.result = worker[b].result
  BY <1>1 DEF BlastRow, WorkerRow
<1> HIDE DEF r, w
<1>8. WorkerInv(b)'
  BY <1>1, <1>3, <1>4, <1>5, <1>6, <1>7 DEF WorkerInv
<1>9. MailInv(b)'
  BY <1>1, <1>3, <1>4, <1>7 DEF MailInv
<1> QED
  BY <1>1, <1>2, <1>4, <1>5, <1>6, <1>7, <1>8, <1>9, OrdinaryStep

LEMMA TakePageStep ==
  ASSUME IInv, NEW b \in Blasts, TakePage(b)
  PROVE  IInv'
<1>1. /\ TypeOK /\ WorkerInv(b) /\ MailInv(b) /\ blast[b] \in BlastRow /\ worker[b] \in WorkerRow
      /\ mailed \in [Blasts -> [Supporters -> Nat]]
  BY Parts
<1> DEFINE next == IF Rest(b) = {} THEN "finish" ELSE "mail"
<1>2. PICK page \in SUBSET Supporters :
    /\ page \subseteq Allowed(b) /\ \A s \in page : s > worker[b].cursor
    /\ next = "mail" => page # {}
    /\ Becomes(b, blast[b],
         [worker[b] EXCEPT !.pc = next, !.page = page, !.result = [s \in Supporters |-> "none"]])
  BY <1>1, TakePageDoes
<1> DEFINE w == [worker[b] EXCEPT !.pc = next, !.page = page,
                                  !.result = [s \in Supporters |-> "none"]]
<1>3. next \in {"finish", "mail"}
  OBVIOUS
<1> HIDE DEF next
<1>4. blast'[b] = blast[b] /\ worker'[b] = w
  BY <1>1, <1>2, BecomesIsTyped
<1>5. worker[b].pc = "page" /\ UNCHANGED <<audienceVars, cron, mailed>>
  BY DEF TakePage, At
<1>6. blast[b].status # "none" /\ blast[b].status # "sent"
  BY <1>5, WorkingBlast
<1>7. /\ w.pc = next /\ w.page = page /\ w.cursor = worker[b].cursor
      /\ \A s \in Supporters : w.result[s] = "none"
  BY <1>1 DEF WorkerRow
<1>8. Becomes(b, blast[b], w)
  BY <1>2
<1> HIDE DEF w
<1>9. Allowed(b)' = Allowed(b)
  BY <1>4 DEF Allowed
<1>10. WorkerInv(b)'
  BY <1>2, <1>3, <1>4, <1>6, <1>7, <1>9 DEF WorkerInv
<1>11. MailInv(b)'
  BY <1>1, <1>3, <1>4, <1>5, <1>7, <1>9 DEF MailInv
<1> QED
  BY <1>1, <1>3, <1>5, <1>6, <1>7, <1>8, <1>10, <1>11, OrdinaryStep

LEMMA CheckStep ==
  ASSUME IInv, NEW b \in Blasts, NEW s \in Supporters, Check(b, s)
  PROVE  IInv'
<1>1. /\ TypeOK /\ WorkerInv(b) /\ MailInv(b) /\ blast[b] \in BlastRow /\ worker[b] \in WorkerRow
      /\ mailed \in [Blasts -> [Supporters -> Nat]]
  BY Parts
<1>2. PICK outcome \in {"calling", "failed"} :
        Becomes(b, blast[b], [worker[b] EXCEPT !.result = [@ EXCEPT ![s] = outcome]])
  BY <1>1, CheckDoes
<1> DEFINE w == [worker[b] EXCEPT !.result = [@ EXCEPT ![s] = outcome]]
<1>3. blast'[b] = blast[b] /\ worker'[b] = w
  BY <1>1, <1>2, BecomesIsTyped
<1>4. /\ worker[b].pc = "mail" /\ s \in worker[b].page /\ worker[b].result[s] = "none"
      /\ UNCHANGED <<audienceVars, cron, mailed>>
  BY DEF Check, At
<1>5. blast[b].status # "none" /\ blast[b].status # "sent"
  BY <1>4, WorkingBlast
<1>6. /\ w.pc = "mail" /\ w.page = worker[b].page /\ w.cursor = worker[b].cursor
      /\ w.result[s] = outcome
      /\ \A u \in Supporters : u # s => w.result[u] = worker[b].result[u]
  BY <1>1, <1>4 DEF WorkerRow
<1>7. Becomes(b, blast[b], w)
  BY <1>2
<1> HIDE DEF w
<1>8. Allowed(b)' = Allowed(b)
  BY <1>3 DEF Allowed
<1>9. WorkerInv(b)'
  BY <1>1, <1>3, <1>4, <1>5, <1>6, <1>8 DEF WorkerInv
<1>10. MailInv(b)'
  BY <1>1, <1>3, <1>4, <1>6, <1>8 DEF MailInv
<1> QED
  BY <1>1, <1>4, <1>5, <1>6, <1>7, <1>9, <1>10, OrdinaryStep

\* Whom SES is being called for has no message of the blast yet, and will have one at most.
LEMMA SendStepOfOne ==
  ASSUME IInv, NEW b \in Blasts, NEW s \in Supporters, Send(b, s)
  PROVE  IInv'
<1>1. /\ TypeOK /\ WorkerInv(b) /\ MailInv(b) /\ blast[b] \in BlastRow /\ worker[b] \in WorkerRow
      /\ mailed \in [Blasts -> [Supporters -> Nat]]
  BY Parts
<1>2. PICK accepted \in BOOLEAN, outcome \in {"sent", "failed"} :
        /\ mailed' = IF accepted THEN [mailed EXCEPT ![b][s] = @ + 1] ELSE mailed
        /\ Becomes(b, blast[b], [worker[b] EXCEPT !.result = [@ EXCEPT ![s] = outcome]])
  BY <1>1, SendDoes
<1> DEFINE w == [worker[b] EXCEPT !.result = [@ EXCEPT ![s] = outcome]]
<1>3. blast'[b] = blast[b] /\ worker'[b] = w
  BY <1>1, <1>2, BecomesIsTyped
<1>4. /\ worker[b].pc = "mail" /\ worker[b].result[s] = "calling"
      /\ UNCHANGED <<audienceVars, cron>>
  BY DEF Send, At
<1>5. blast[b].status # "none" /\ blast[b].status # "sent"
  BY <1>4, WorkingBlast
<1>6. /\ w.pc = "mail" /\ w.page = worker[b].page /\ w.cursor = worker[b].cursor
      /\ w.result[s] = outcome
      /\ \A u \in Supporters : u # s => w.result[u] = worker[b].result[u]
  BY <1>1, <1>4 DEF WorkerRow
<1>7. Becomes(b, blast[b], w)
  BY <1>2
<1> HIDE DEF w
<1>8. Allowed(b)' = Allowed(b)
  BY <1>3 DEF Allowed
<1>9. s \in worker[b].page /\ s > worker[b].cursor /\ s \in Allowed(b)
  BY <1>1, <1>4 DEF WorkerInv
<1>10. s \in Nat /\ worker[b].cursor \in Nat
  <2>1. worker[b].cursor \in Supporters \cup {0}
    BY <1>1 DEF WorkerRow
  <2>2. \A u \in Supporters : u \in Nat
    BY AudienceAssumption
  <2> QED BY <2>1, <2>2
<1>11. mailed[b][s] = 0
  BY <1>1, <1>4, <1>9, <1>10 DEF MailInv
<1>12. /\ mailed' \in [Blasts -> [Supporters -> Nat]]
       /\ \A a \in Blasts : a # b => mailed'[a] = mailed[a]
       /\ mailed'[b][s] <= 1
       /\ \A u \in Supporters : u # s => mailed'[b][u] = mailed[b][u]
  <2>1. CASE accepted
    BY <1>1, <1>2, <1>11, <2>1
  <2>2. CASE ~accepted
    BY <1>1, <1>2, <1>11, <2>2
  <2> QED BY <2>1, <2>2
<1>13. WorkerInv(b)'
  BY <1>1, <1>3, <1>4, <1>5, <1>6, <1>8, <1>9 DEF WorkerInv
<1>14. MailInv(b)'
  <2> SUFFICES ASSUME NEW u \in Supporters
               PROVE /\ mailed'[b][u] <= 1
                     /\ mailed'[b][u] > 0 =>
                          /\ u \in Allowed(b)
                          /\ \/ u <= worker[b].cursor
                             \/ u \in worker[b].page /\ w.result[u] \in {"sent", "failed"}
    BY <1>3, <1>6, <1>8 DEF MailInv
  <2>1. CASE u = s
    BY <1>6, <1>9, <1>12, <2>1
  <2>2. CASE u # s
    BY <1>1, <1>4, <1>6, <1>12, <2>2 DEF MailInv
  <2> QED BY <2>1, <2>2
<1> QED
  BY <1>1, <1>4, <1>5, <1>6, <1>7, <1>12, <1>13, <1>14, OrdinaryStep

\* Everybody on a page is at its last recipient or before.
LEMMA RecordBatchStep ==
  ASSUME IInv, NEW b \in Blasts, RecordBatch(b)
  PROVE  IInv'
<1>1. /\ TypeOK /\ WorkerInv(b) /\ MailInv(b) /\ blast[b] \in BlastRow /\ worker[b] \in WorkerRow
      /\ mailed \in [Blasts -> [Supporters -> Nat]]
  BY Parts
<1> DEFINE m == Max(worker[b].page)
           sent == worker[b].sent + Cardinality(Outcome(b, "sent"))
           failed == worker[b].failed + Cardinality(Outcome(b, "failed"))
           w == [worker[b] EXCEPT !.pc = "page", !.page = {}, !.cursor = m,
                   !.result = [s \in Supporters |-> "none"], !.sent = sent, !.failed = failed]
<1>2. m \in worker[b].page /\ (\A s \in worker[b].page : s <= m) /\ Becomes(b, blast[b], w)
  BY <1>1, RecordBatchDoes
<1>3. blast'[b] = blast[b] /\ worker'[b] = w
  <2> HIDE DEF w
  <2> QED BY <1>1, <1>2, BecomesIsTyped
<1>4. worker[b].pc = "mail" /\ UNCHANGED <<audienceVars, cron, mailed>>
  BY DEF RecordBatch, At
<1>5. blast[b].status # "none" /\ blast[b].status # "sent"
  BY <1>4, WorkingBlast
<1>6. w.pc = "page" /\ w.cursor = m /\ \A u \in Supporters : w.result[u] = "none"
  <2> HIDE DEF m, sent, failed
  <2> QED BY <1>1 DEF WorkerRow
<1> HIDE DEF w
<1>7. Allowed(b)' = Allowed(b)
  BY <1>3 DEF Allowed
<1>8. WorkerInv(b)'
  BY <1>3, <1>5, <1>6 DEF WorkerInv
<1>9. MailInv(b)'
  <2>1. m \in Nat /\ worker[b].cursor \in Nat /\ m > worker[b].cursor
    <3>1. worker[b].cursor \in Supporters \cup {0} /\ worker[b].page \in SUBSET Supporters
      BY <1>1 DEF WorkerRow
    <3>2. \A u \in Supporters : u \in Nat
      BY AudienceAssumption
    <3>3. m > worker[b].cursor
      BY <1>1, <1>2, <1>4 DEF WorkerInv
    <3> QED BY <1>2, <3>1, <3>2, <3>3
  <2>2. ASSUME NEW u \in Supporters, mailed[b][u] > 0 PROVE u <= m
    <3>1. u <= worker[b].cursor \/ u \in worker[b].page
      BY <1>1, <1>4, <2>2 DEF MailInv
    <3>2. u \in Nat
      BY AudienceAssumption
    <3> HIDE DEF m
    <3> QED BY <1>2, <2>1, <3>1, <3>2
  <2> HIDE DEF m
  <2> QED BY <1>1, <1>3, <1>4, <1>6, <1>7, <2>2 DEF MailInv
<1> HIDE DEF m
<1> QED
  BY <1>1, <1>2, <1>4, <1>5, <1>6, <1>8, <1>9, OrdinaryStep

\* The steps that end a promise, or are about to, leave the mail alone.
LEMMA EndingStep ==
  ASSUME IInv, NEW b \in Blasts, worker[b].pc \notin {"none", "done"}, NEW r, NEW w,
         Becomes(b, r, w), UNCHANGED <<audienceVars, cron, mailed>>,
         r.status \in {"draft", "sending", "sent", "failed"}, r.status = "sent" => w.pc = "done",
         r.kind = blast[b].kind, r.parent = blast[b].parent, r.test = blast[b].test,
         r.exclude = blast[b].exclude, r.winnerPicked = blast[b].winnerPicked,
         w.pc \in {"fail", "done", "lost"},
         \A s \in Supporters :
           w.result[s] # "none" => s \in w.page /\ w.result[s] # "calling"
  PROVE  IInv'
<1>1. /\ TypeOK /\ WorkerInv(b) /\ MailInv(b) /\ mailed \in [Blasts -> [Supporters -> Nat]]
  BY Parts
<1>2. blast'[b] = r /\ worker'[b] = w
  BY <1>1, BecomesIsTyped
<1>3. blast[b].status # "none" /\ blast[b].status # "sent"
  BY WorkingBlast
<1>4. WorkerInv(b)'
  BY <1>2 DEF WorkerInv
<1>5. MailInv(b)'
  BY <1>1, <1>2 DEF MailInv, Allowed
<1> QED
  BY <1>1, <1>3, <1>4, <1>5, OrdinaryStep

\* A promise that ends has nothing in hand.
LEMMA StopDoes ==
  ASSUME TypeOK, NEW b \in Blasts, NEW pc \in {"done", "lost"}, Stop(b, pc)
  PROVE  \E w \in WorkerRow :
    /\ worker' = [worker EXCEPT ![b] = w]
    /\ w.pc = pc /\ \A s \in Supporters : w.result[s] = "none"
<1> DEFINE w == [NoWorker EXCEPT !.pc = pc]
<1>1. w \in WorkerRow /\ w.pc = pc /\ \A s \in Supporters : w.result[s] = "none"
  BY DEF NoWorker, WorkerRow
<1> QED
  BY <1>1 DEF Stop

LEMMA FinishStep ==
  ASSUME IInv, NEW b \in Blasts, Finish(b)
  PROVE  IInv'
<1>1. TypeOK /\ blast[b] \in BlastRow /\ worker[b] \in WorkerRow
  BY Parts
<1> DEFINE r == [blast[b] EXCEPT !.status = "sent", !.sent = worker[b].sent,
                                 !.bounced = worker[b].failed]
<1>2. r \in BlastRow
  BY <1>1 DEF BlastRow, WorkerRow
<1>3. blast' = [blast EXCEPT ![b] = r]
  BY <1>1 DEF Finish, BlastRow, TypeOK
<1>4. /\ r.status = "sent" /\ r.kind = blast[b].kind /\ r.parent = blast[b].parent
      /\ r.test = blast[b].test /\ r.exclude = blast[b].exclude
      /\ r.winnerPicked = blast[b].winnerPicked
  BY <1>1 DEF BlastRow
<1>5. worker[b].pc = "finish" /\ Stop(b, "done") /\ UNCHANGED <<audienceVars, cron, mailed>>
  BY DEF Finish, At
<1>6. PICK w \in WorkerRow :
        /\ worker' = [worker EXCEPT ![b] = w]
        /\ w.pc = "done" /\ \A s \in Supporters : w.result[s] = "none"
  BY <1>1, <1>5, StopDoes
<1> HIDE DEF r
<1>7. Becomes(b, r, w)
  BY <1>2, <1>3, <1>6 DEF Becomes
<1> QED
  BY <1>4, <1>5, <1>6, <1>7, EndingStep

LEMMA RecordFailureStep ==
  ASSUME IInv, NEW b \in Blasts, RecordFailure(b)
  PROVE  IInv'
<1>1. TypeOK /\ blast[b] \in BlastRow
  BY Parts
<1> DEFINE r == [blast[b] EXCEPT !.status = "failed"]
<1>2. r \in BlastRow /\ blast' = [blast EXCEPT ![b] = r]
  BY <1>1 DEF RecordFailure, BlastRow, TypeOK
<1>3. /\ r.status = "failed" /\ r.kind = blast[b].kind /\ r.parent = blast[b].parent
      /\ r.test = blast[b].test /\ r.exclude = blast[b].exclude
      /\ r.winnerPicked = blast[b].winnerPicked
  BY <1>1 DEF BlastRow
<1>4. worker[b].pc = "fail" /\ Stop(b, "done") /\ UNCHANGED <<audienceVars, cron, mailed>>
  BY DEF RecordFailure, At
<1>5. PICK w \in WorkerRow :
        /\ worker' = [worker EXCEPT ![b] = w]
        /\ w.pc = "done" /\ \A s \in Supporters : w.result[s] = "none"
  BY <1>1, <1>4, StopDoes
<1> HIDE DEF r
<1>6. Becomes(b, r, w)
  BY <1>2, <1>5 DEF Becomes
<1> QED
  BY <1>3, <1>4, <1>5, <1>6, EndingStep

LEMMA DbErrorStep ==
  ASSUME IInv, NEW b \in Blasts, DbError(b)
  PROVE  IInv'
<1>1. TypeOK /\ WorkerInv(b) /\ blast[b] \in BlastRow /\ worker[b] \in WorkerRow
  BY Parts
<1>2. worker[b].pc \notin {"none", "done"} /\ UNCHANGED <<audienceVars, blast, cron, mailed>>
  BY DEF DbError, At
<1>3. blast' = [blast EXCEPT ![b] = blast[b]]
  BY <1>1, <1>2, RowsAreTyped
<1>4. blast[b].status \in {"draft", "sending", "failed"}
  BY <1>1, <1>2, WorkingBlast DEF BlastRow
<1>5. PICK w \in WorkerRow :
        /\ worker' = [worker EXCEPT ![b] = w] /\ w.pc \in {"fail", "lost"}
        /\ \A s \in Supporters :
             w.result[s] # "none" => s \in w.page /\ w.result[s] # "calling"
  <2>1. CASE Goto(b, "fail")
    <3> DEFINE w == [worker[b] EXCEPT !.pc = "fail"]
    <3>1. w \in WorkerRow /\ w.pc = "fail"
      BY <1>1 DEF WorkerRow
    <3>2. worker' = [worker EXCEPT ![b] = w]
      BY <1>1, <2>1 DEF Goto, WorkerRow, TypeOK
    <3>3. w.result = worker[b].result /\ w.page = worker[b].page
      BY <1>1 DEF WorkerRow
    <3>4. \A s \in Supporters :
            worker[b].result[s] # "none" => s \in worker[b].page /\ worker[b].result[s] # "calling"
      <4>1. CASE worker[b].pc = "mail"
        <5>1. Settled(b)
          BY <2>1, <4>1 DEF DbError, Stop, Goto, At
        <5> QED BY <1>1, <5>1 DEF WorkerInv, Settled
      <4> QED BY <1>1, <4>1 DEF WorkerInv
    <3> HIDE DEF w
    <3> QED BY <3>1, <3>2, <3>3, <3>4
  <2>2. CASE Stop(b, "lost")
    BY <1>1, <2>2, StopDoes
  <2> QED BY <2>1, <2>2 DEF DbError
<1>6. Becomes(b, blast[b], w)
  BY <1>1, <1>3, <1>5 DEF Becomes
<1> QED
  BY <1>2, <1>4, <1>5, <1>6, EndingStep

LEMMA TestElapsesStep ==
  ASSUME IInv, NEW b \in Blasts, TestElapses(b)
  PROVE  IInv'
<1>1. /\ TypeOK /\ WorkerInv(b) /\ MailInv(b) /\ blast[b] \in BlastRow /\ worker[b] \in WorkerRow
      /\ mailed \in [Blasts -> [Supporters -> Nat]]
  BY Parts
<1> DEFINE r == [blast[b] EXCEPT !.elapsed = TRUE]
<1>2. r \in BlastRow /\ blast' = [blast EXCEPT ![b] = r]
  BY <1>1 DEF TestElapses, BlastRow, TypeOK
<1>3. /\ r.status = blast[b].status /\ r.kind = blast[b].kind /\ r.parent = blast[b].parent
      /\ r.test = blast[b].test /\ r.exclude = blast[b].exclude
      /\ r.winnerPicked = blast[b].winnerPicked
  BY <1>1 DEF BlastRow
<1>4. blast[b].status = "sent" /\ UNCHANGED <<audienceVars, worker, cron, mailed>>
  BY DEF TestElapses
<1> HIDE DEF r
<1>5. Becomes(b, r, worker[b])
  BY <1>1, <1>2, <1>4, RowsAreTyped DEF Becomes
<1>6. blast'[b] = r /\ worker'[b] = worker[b]
  BY <1>1, <1>5, BecomesIsTyped
<1>7. worker[b].pc = "done"
  BY <1>1, <1>4 DEF WorkerInv
<1>8. WorkerInv(b)' /\ MailInv(b)'
  BY <1>1, <1>3, <1>4, <1>6, <1>7 DEF WorkerInv, MailInv, Allowed
<1> QED
  BY <1>1, <1>3, <1>4, <1>5, <1>7, <1>8, OrdinaryStep

-----------------------------------------------------------------------------
(* An isolate goes.                                                        *)

\* A message that was out may have been accepted; nobody will send it again.
LEMMA CrashStep ==
  ASSUME IInv, NEW b \in Blasts, Crash(b)
  PROVE  IInv'
<1> DEFINE lost == [NoWorker EXCEPT !.pc = "lost"]
           gone == {a \in Isolate(b) : Running(a)}
<1>1. TypeOK /\ mailed \in [Blasts -> [Supporters -> Nat]] /\ cron \in [Crons -> CronRow]
  <2> HIDE DEF lost, gone
  <2> QED BY DEF IInv, TypeOK, CronRow
<1>2. UNCHANGED <<audienceVars, blast, cron>>
  BY Zenon DEF Crash
<1>3. worker' = [a \in Blasts |-> IF a \in gone THEN lost ELSE worker[a]]
  BY Zenon DEF Crash
<1>4. PICK accepted \in SUBSET {p \in gone \X Supporters : p[2] \in Out(p[1])} :
        mailed' = [a \in Blasts |-> [s \in Supporters |->
                     mailed[a][s] + (IF <<a, s>> \in accepted THEN 1 ELSE 0)]]
  BY DEF Crash
<1>5. lost \in WorkerRow /\ lost.pc = "lost" /\ \A s \in Supporters : lost.result[s] = "none"
  BY DEF NoWorker, WorkerRow
<1> HIDE DEF lost
<1>6. ASSUME NEW a \in Blasts PROVE
        /\ \/ worker'[a] = worker[a]
           \/ worker'[a] = lost /\ worker[a].pc \notin {"none", "done", "lost"}
        /\ a \notin gone => worker'[a] = worker[a]
        /\ a \in gone => worker'[a] = lost
  BY <1>3 DEF Running
<1>7. ASSUME NEW a \in Blasts, NEW s \in Supporters
      PROVE  /\ \/ mailed'[a][s] = mailed[a][s]
                \/ a \in gone /\ s \in Out(a) /\ mailed'[a][s] = mailed[a][s] + 1
             /\ mailed'[a][s] \in Nat
  BY <1>1, <1>4
<1>8. mailed' \in [Blasts -> [Supporters -> Nat]]
  <2>1. \A a \in Blasts, s \in Supporters :
          mailed[a][s] + (IF <<a, s>> \in accepted THEN 1 ELSE 0) \in Nat
    BY <1>1
  <2> QED BY <1>4, <2>1
<1>9. TypeOK'
  <2>1. worker' \in [Blasts -> WorkerRow]
    <3>1. worker \in [Blasts -> WorkerRow]
      BY <1>1 DEF TypeOK, WorkerRow
    <3> HIDE DEF gone
    <3> QED BY <1>3, <1>5, <3>1
  <2>2. AudienceTypeOK'
    BY <1>1, <1>2, UnchangedAudience DEF TypeOK
  <2> QED BY <1>1, <1>2, <1>8, <2>1, <2>2 DEF TypeOK, WorkerRow
<1>10. (\A a \in Blasts : RowInv(a)') /\ OneB'
  <2>1. ASSUME NEW a \in Blasts, blast[a].status = "none" PROVE worker'[a] = worker[a]
    <3>1. worker[a].pc = "none"
      BY <2>1 DEF IInv, RowInv, NoWorker
    <3> QED BY <1>6, <3>1
  <2>2. Kept
    BY <1>2, <1>5, <1>6, <2>1 DEF Kept
  <2> QED BY <2>2, KeptRows DEF IInv
<1>11. (\A c \in Crons : CronInv(c)') /\ (\A t \in Blasts : PickInv(t)')
  <2>1. Steady
    BY <1>2 DEF Steady
  <2> QED BY <2>1, SteadyCrons DEF IInv
<1>12. ASSUME NEW a \in Blasts PROVE WorkerInv(a)' /\ MailInv(a)'
  <2>1. WorkerInv(a) /\ MailInv(a) /\ blast'[a] = blast[a] /\ Allowed(a)' = Allowed(a)
    BY <1>2 DEF IInv, Allowed
  <2>2. CASE a \in gone
    <3>1. worker'[a] = lost /\ worker[a].pc \notin {"none", "done"}
      BY <1>6, <2>2 DEF Running
    <3>2. blast[a].status # "sent"
      BY <3>1, WorkingBlast
    <3>3. WorkerInv(a)'
      BY <1>5, <2>1, <3>1, <3>2 DEF WorkerInv
    <3>4. ASSUME NEW s \in Supporters PROVE mailed'[a][s] <= 1 /\ (mailed'[a][s] > 0 => s \in Allowed(a))
      <4>1. CASE s \in Out(a)
        <5>1. /\ s \in worker[a].page /\ worker[a].result[s] = "calling" /\ worker[a].pc = "mail"
              /\ s \in Allowed(a) /\ s > worker[a].cursor
          BY <2>1, <4>1 DEF Out, WorkerInv
        <5>2. s \in Nat /\ worker[a].cursor \in Nat
          <6>1. worker[a].cursor \in Supporters \cup {0}
            BY <1>1, RowsAreTyped DEF WorkerRow
          <6>2. \A u \in Supporters : u \in Nat
            BY AudienceAssumption
          <6> QED BY <6>1, <6>2
        <5>3. mailed[a][s] = 0
          BY <1>1, <2>1, <5>1, <5>2 DEF MailInv
        <5> QED BY <1>7, <5>1, <5>3
      <4>2. CASE s \notin Out(a)
        BY <1>7, <2>1, <4>2 DEF MailInv
      <4> QED BY <4>1, <4>2
    <3> QED BY <1>5, <2>1, <3>1, <3>3, <3>4 DEF MailInv
  <2>3. CASE a \notin gone
    <3>1. worker'[a] = worker[a]
      BY <1>6, <2>3
    <3>2. \A s \in Supporters : mailed'[a][s] = mailed[a][s]
      BY <1>7, <2>3
    <3> HIDE DEF gone
    <3> QED BY <2>1, <3>1, <3>2 DEF WorkerInv, MailInv
  <2> QED BY <2>2, <2>3
<1> QED
  BY <1>9, <1>10, <1>11, <1>12 DEF IInv

-----------------------------------------------------------------------------
(* Steps that create a blast.                                              *)

LEMMA FreshBlast ==
  ASSUME IInv, NEW b \in Blasts, NextBlast(b)
  PROVE  /\ blast[b] = NoBlast /\ blast[b].status = "none" /\ blast[b].kind = "plain"
         /\ blast[b].parent = 0 /\ blast[b].winnerPicked = FALSE
         /\ worker[b] = NoWorker /\ worker[b].pc = "none"
         /\ \A s \in Supporters : mailed[b][s] = 0
<1>1. blast[b] = NoBlast /\ worker[b] = NoWorker
  BY DEF IInv, RowInv, NextBlast
<1>2. worker[b].pc = "none"
  BY <1>1 DEF NoWorker
<1>3. ASSUME NEW s \in Supporters PROVE mailed[b][s] = 0
  <2>1. ~ (mailed[b][s] > 0) /\ mailed[b][s] \in Nat
    BY <1>2 DEF IInv, MailInv, TypeOK
  <2> QED BY <2>1
<1> QED BY <1>1, <1>2, <1>3 DEF NoBlast

\* A new blast does not disturb what the rows that were there say.
LEMMA OldRows ==
  ASSUME \A a \in Blasts : RowInv(a), NEW b \in Blasts, blast[b].kind = "plain",
         \A a \in Blasts : a # b =>
           /\ blast'[a] = blast[a]
           /\ blast[a].status = "none" => worker'[a] = worker[a]
           /\ worker[a].pc \notin {"none", "pair"} => worker'[a].pc \notin {"none", "pair"},
         NEW a \in Blasts, a # b
  PROVE  RowInv(a)'
<1>1. RowInv(a) /\ blast'[a] = blast[a] /\ (blast[a].status = "none" => worker'[a] = worker[a])
  OBVIOUS
<1>2. CASE blast[a].kind = "B"
  <2>1. PICK p \in Blasts : p = blast[a].parent
    BY <1>1, <1>2 DEF RowInv
  <2>2. p # b /\ worker[p].pc \notin {"none", "pair"}
    BY <1>1, <1>2, <2>1 DEF RowInv
  <2>3. blast'[p] = blast[p] /\ worker'[p].pc \notin {"none", "pair"}
    BY <2>2
  <2> QED BY <1>1, <1>2, <2>1, <2>3 DEF RowInv
<1>3. CASE blast[a].kind # "B"
  BY <1>1, <1>3 DEF RowInv
<1> QED BY <1>2, <1>3

\* Nor what belongs to the tests it is no part of.
LEMMA OtherTests ==
  ASSUME NEW b \in Blasts, blast[b].kind = "plain",
         \A a \in Blasts : a # b => blast'[a] = blast[a],
         NEW t \in Blasts, blast'[b].parent # t
  PROVE  /\ VariantsOf(t)' = VariantsOf(t) /\ (blast[b].parent # t => WinnersOf(t)' = WinnersOf(t))
         /\ BothSent(t) => BothSent(t)'
         /\ AllPicked(t) => AllPicked(t)'
         /\ Picked(t)' = Picked(t)
<1>1. VariantsOf(t)' = VariantsOf(t) /\ (blast[b].parent # t => WinnersOf(t)' = WinnersOf(t))
  BY DEF VariantsOf, WinnersOf
<1>2. BothSent(t) => BothSent(t)'
  BY DEF BothSent
<1>3. \A v \in VariantsOf(t) : v \in Blasts /\ v # b
  BY DEF VariantsOf
<1>4. (AllPicked(t) => AllPicked(t)') /\ Picked(t)' = Picked(t)
  BY <1>1, <1>3 DEF AllPicked, Picked
<1> QED BY <1>1, <1>2, <1>4

LEMMA NewBlastCrons ==
  ASSUME IInv, NEW b \in Blasts, NextBlast(b), cron' = cron,
         \A a \in Blasts : a # b => blast'[a] = blast[a],
         blast'[b].kind # "winner", blast'[b].winnerPicked = FALSE,
         \A t \in Blasts : blast'[b].parent = t => ~ BothSent(t)
  PROVE  (\A c \in Crons : CronInv(c)') /\ (\A t \in Blasts : PickInv(t)')
<1>1. blast[b].kind = "plain" /\ blast[b].parent = 0
  BY FreshBlast
<1>2. 0 \notin Blasts
  BY BlastAssumption
<1>3. ASSUME NEW c \in Crons PROVE CronInv(c)'
  <2>1. CronInv(c)
    BY DEF IInv
  <2>2. CASE cron[c].pc = "idle"
    BY <2>1, <2>2 DEF CronInv
  <2>3. CASE cron[c].pc # "idle"
    <3>1. PICK t \in Blasts : t = cron[c].test
      BY <2>1, <2>3 DEF CronInv
    <3>2. BothSent(t) /\ cron[c].winner \in VariantsOf(t)
          /\ (cron[c].pc \in {"create", "lost"} => AllPicked(t))
      BY <2>1, <2>3, <3>1 DEF CronInv
    <3>3. blast'[b].parent # t
      BY <3>2
    <3>4. BothSent(t)' /\ VariantsOf(t)' = VariantsOf(t) /\ (AllPicked(t) => AllPicked(t)')
      BY <1>1, <3>2, <3>3, OtherTests
    <3>5. cron'[c] = cron[c] /\ t = cron'[c].test
      BY <3>1
    <3> QED BY <3>1, <3>2, <3>4, <3>5 DEF CronInv
  <2> QED BY <2>2, <2>3
<1>4. ASSUME NEW t \in Blasts PROVE PickInv(t)'
  <2>1. PickInv(t) /\ Dispatching(t)' = Dispatching(t)
    BY DEF IInv, Dispatching
  <2>2. CASE blast'[b].parent # t
    BY <1>1, <1>2, <2>1, <2>2, OtherTests DEF PickInv
  <2>3. CASE blast'[b].parent = t
    <3>1. ~ Picked(t) /\ WinnersOf(t) = {}
      BY <2>1, <2>3 DEF PickInv
    <3>2. ~ Picked(t)'
      BY <3>1 DEF Picked, VariantsOf
    <3>3. WinnersOf(t)' = {}
      BY <3>1 DEF WinnersOf
    <3> QED BY <3>2, <3>3 DEF PickInv
  <2> QED BY <2>2, <2>3
<1> QED BY <1>3, <1>4

LEMMA NewBlastStep ==
  ASSUME IInv, NEW b \in Blasts, NextBlast(b), NEW r, NEW w, Becomes(b, r, w),
         UNCHANGED <<audienceVars, cron, mailed>>,
         r.status = "draft", r.kind \in {"plain", "A"}, r.winnerPicked = FALSE,
         w.pc \in {"pair", "claim"},
         \A t \in Blasts : r.parent = t => ~ BothSent(t),
         RowInv(b)', WorkerInv(b)'
  PROVE  IInv'
<1>1. /\ TypeOK /\ mailed \in [Blasts -> [Supporters -> Nat]] /\ cron \in [Crons -> CronRow]
  BY DEF IInv, TypeOK, CronRow
<1>2. /\ blast'[b] = r /\ worker'[b] = w
      /\ \A a \in Blasts : a # b => blast'[a] = blast[a] /\ worker'[a] = worker[a]
  BY <1>1, BecomesIsTyped
<1>3. blast[b].kind = "plain" /\ \A s \in Supporters : mailed[b][s] = 0
  BY FreshBlast
<1>4. TypeOK'
  BY <1>1, TypesAfter
<1>5. ASSUME NEW a \in Blasts PROVE RowInv(a)' /\ WorkerInv(a)' /\ MailInv(a)'
  <2>1. CASE a # b
    <3>1. RowInv(a)'
      BY <1>2, <1>3, <2>1, OldRows DEF IInv
    <3> QED BY <1>2, <2>1, <3>1, SameBlast DEF IInv
  <2>2. CASE a = b
    BY <1>3, <2>2 DEF MailInv
  <2> QED BY <2>1, <2>2
<1>6. OneB'
  <2>1. OneB /\ r.kind # "B"
    BY DEF IInv
  <2> QED BY <1>2, <2>1 DEF OneB
<1>7. (\A c \in Crons : CronInv(c)') /\ (\A t \in Blasts : PickInv(t)')
  BY <1>2, NewBlastCrons
<1> QED
  BY <1>4, <1>5, <1>6, <1>7 DEF IInv

LEMMA SendPlainStep ==
  ASSUME IInv, NEW b \in Blasts, SendPlain(b)
  PROVE  IInv'
<1>1. TypeOK /\ NextBlast(b) /\ UNCHANGED <<audienceVars, cron, mailed>>
  BY DEF IInv, SendPlain
<1>2. worker[b] = NoWorker
  BY <1>1, FreshBlast
<1> DEFINE total == Cardinality(Subscribed)
           r == [NoBlast EXCEPT !.status = "draft", !.total = total]
           w == [NoWorker EXCEPT !.pc = "claim"]
<1>3. total \in Nat
  <2>1. Subscribed \in SUBSET Supporters
    BY DEF Subscribed
  <2> QED BY <2>1, CardinalitiesAreNatural
<1>4. blast' = [blast EXCEPT ![b] = r]
  BY DEF SendPlain
<1>5. worker' = [worker EXCEPT ![b] = w]
  BY <1>1, <1>2 DEF SendPlain, Goto, TypeOK
<1> HIDE DEF total
<1>6. /\ r \in BlastRow /\ r.status = "draft" /\ r.kind = "plain" /\ r.winnerPicked = FALSE
      /\ r.parent = 0
  BY <1>3 DEF NoBlast, BlastRow
<1>7. /\ w \in WorkerRow /\ w.pc = "claim" /\ \A s \in Supporters : w.result[s] = "none"
  BY DEF NoWorker, WorkerRow
<1> HIDE DEF r, w
<1>8. Becomes(b, r, w)
  BY <1>4, <1>5, <1>6, <1>7 DEF Becomes
<1>9. blast'[b] = r /\ worker'[b] = w
  BY <1>1, <1>8, BecomesIsTyped
<1>10. RowInv(b)' /\ WorkerInv(b)'
  BY <1>6, <1>7, <1>9 DEF RowInv, WorkerInv
<1>11. \A t \in Blasts : r.parent # t
  BY <1>6, BlastAssumption
<1> QED
  BY <1>1, <1>6, <1>7, <1>8, <1>10, <1>11, NewBlastStep

LEMMA SendAbTestStep ==
  ASSUME IInv, NEW a \in Blasts, SendAbTest(a)
  PROVE  IInv'
<1>1. TypeOK /\ NextBlast(a) /\ UNCHANGED <<audienceVars, cron, mailed>>
  BY DEF IInv, SendAbTest
<1>2. worker[a] = NoWorker /\ blast[a].kind = "plain"
  BY <1>1, FreshBlast
<1>3. PICK groups \in Groups(Subscribed) :
       /\ blast' = [blast EXCEPT ![a] =
            [NoBlast EXCEPT !.status = "draft", !.kind = "A", !.parent = a,
                            !.test = groups[1], !.total = Cardinality(groups[1])]]
       /\ worker' = [worker EXCEPT ![a].pc = "pair", ![a].page = groups[2]]
  BY DEF SendAbTest
<1> DEFINE first == groups[1]
           second == groups[2]
           total == Cardinality(first)
           r == [NoBlast EXCEPT !.status = "draft", !.kind = "A", !.parent = a,
                                !.test = first, !.total = total]
           w == [NoWorker EXCEPT !.pc = "pair", !.page = second]
<1>4. /\ first \in SUBSET Supporters /\ second \in SUBSET Supporters
      /\ first # {} /\ second # {} /\ second \cap first = {}
  BY DEF Groups, Subscribed
<1>5. total \in Nat
  BY <1>4, CardinalitiesAreNatural
<1>6. blast' = [blast EXCEPT ![a] = r]
  BY <1>3
<1>7. worker' = [worker EXCEPT ![a] = w]
  BY <1>1, <1>2, <1>3 DEF TypeOK
<1> HIDE DEF total, first, second
<1>8. /\ r \in BlastRow /\ r.status = "draft" /\ r.kind = "A" /\ r.winnerPicked = FALSE
      /\ r.parent = a /\ r.test = first /\ r.exclude = {}
  BY <1>4, <1>5 DEF NoBlast, BlastRow
<1>9. /\ w \in WorkerRow /\ w.pc = "pair" /\ w.page = second
      /\ \A s \in Supporters : w.result[s] = "none"
  BY <1>4 DEF NoWorker, WorkerRow
<1> HIDE DEF r, w
<1>10. Becomes(a, r, w)
  BY <1>6, <1>7, <1>8, <1>9 DEF Becomes
<1>11. blast'[a] = r /\ worker'[a] = w
  BY <1>1, <1>10, BecomesIsTyped
<1>12. RowInv(a)' /\ WorkerInv(a)'
  BY <1>4, <1>8, <1>9, <1>11 DEF RowInv, WorkerInv
<1>13. \A t \in Blasts : r.parent = t => ~ BothSent(t)
  BY <1>2, <1>8 DEF BothSent
<1> QED
  BY <1>1, <1>8, <1>9, <1>10, <1>12, <1>13, NewBlastStep

\* The test waits for its second variant, so it has none yet and was never sent.
LEMMA CreateVariantBStep ==
  ASSUME IInv, NEW a \in Blasts, NEW b \in Blasts, CreateVariantB(a, b)
  PROVE  IInv'
<1>1. /\ TypeOK /\ NextBlast(b) /\ UNCHANGED <<audienceVars, cron, mailed>>
      /\ worker[a].pc = "pair" /\ worker[a] \in WorkerRow /\ mailed \in [Blasts -> [Supporters -> Nat]]
      /\ cron \in [Crons -> CronRow]
  BY RowsAreTyped DEF IInv, CreateVariantB, At, TypeOK, CronRow
<1>2. /\ worker[b] = NoWorker /\ blast[b].kind = "plain" /\ a # b
      /\ \A s \in Supporters : mailed[b][s] = 0
  BY <1>1, FreshBlast DEF NoWorker
<1>3. /\ blast[a].kind = "A" /\ blast[a].status # "sent" /\ blast[a].status # "none"
      /\ blast[a].parent = a
      /\ worker[a].page # {} /\ worker[a].page \cap blast[a].test = {}
  BY <1>1, WorkingBlast DEF IInv, WorkerInv, RowInv
<1>4. ASSUME NEW p \in Blasts, blast[p].kind = "B" PROVE blast[p].parent # a
  BY <1>1, <1>4 DEF IInv, RowInv
<1> DEFINE page == worker[a].page
           total == Cardinality(page)
           r == [NoBlast EXCEPT !.status = "draft", !.kind = "B", !.parent = a,
                                !.test = page, !.total = total]
           w == [NoWorker EXCEPT !.pc = "claim"]
<1>5. page \in SUBSET Supporters /\ total \in Nat
  <2>1. page \in SUBSET Supporters
    BY <1>1 DEF WorkerRow
  <2> QED BY <2>1, CardinalitiesAreNatural
<1>6. blast' = [blast EXCEPT ![b] = r]
  BY DEF CreateVariantB
<1>7. /\ worker'[a] = w /\ worker'[b] = w
      /\ \A p \in Blasts : p # a /\ p # b => worker'[p] = worker[p]
      /\ \A p \in Blasts \ {a, b} : worker'[p] = worker[p]
      /\ worker' = [worker EXCEPT ![a] = w, ![b] = w]
  BY <1>1, <1>2 DEF CreateVariantB, TypeOK
<1> HIDE DEF total, page
<1>8. /\ r \in BlastRow /\ r.status = "draft" /\ r.kind = "B" /\ r.winnerPicked = FALSE
      /\ r.parent = a /\ r.test = page /\ r.exclude = {}
  BY <1>5 DEF NoBlast, BlastRow
<1>9. w \in WorkerRow /\ w.pc = "claim" /\ \A s \in Supporters : w.result[s] = "none"
  BY DEF NoWorker, WorkerRow
<1> HIDE DEF r, w
<1>10. /\ blast' \in [Blasts -> BlastRow] /\ worker' \in [Blasts -> WorkerRow]
       /\ blast'[b] = r /\ \A p \in Blasts : p # b => blast'[p] = blast[p]
  BY <1>1, <1>6, <1>7, <1>8, <1>9 DEF TypeOK, BlastRow, WorkerRow
<1>11. TypeOK'
  <2>1. AudienceTypeOK'
    BY <1>1, UnchangedAudience DEF TypeOK
  <2> QED BY <1>1, <1>10, <2>1 DEF TypeOK, BlastRow, WorkerRow, CronRow
<1>12. ASSUME NEW p \in Blasts PROVE RowInv(p)'
  <2>1. CASE p # b
    <3>1. \A q \in Blasts : q # b =>
            /\ blast'[q] = blast[q]
            /\ blast[q].status = "none" => worker'[q] = worker[q]
            /\ worker[q].pc \notin {"none", "pair"} => worker'[q].pc \notin {"none", "pair"}
      BY <1>3, <1>7, <1>9, <1>10
    <3>2. \A q \in Blasts : RowInv(q)
      BY DEF IInv
    <3> QED BY <1>2, <2>1, <3>1, <3>2, OldRows
  <2>2. CASE p = b
    BY <1>2, <1>3, <1>7, <1>8, <1>9, <1>10, <2>2 DEF RowInv, page
  <2> QED BY <2>1, <2>2
<1>13. ASSUME NEW p \in Blasts PROVE WorkerInv(p)' /\ MailInv(p)'
  <2>1. CASE p # a /\ p # b
    BY <1>1, <1>7, <1>10, <2>1, SameBlast DEF IInv
  <2>2. CASE p = b
    BY <1>1, <1>2, <1>7, <1>8, <1>9, <1>10, <2>2 DEF WorkerInv, MailInv
  <2>3. CASE p = a
    <3>1. \A s \in Supporters : mailed[a][s] = 0
      BY <1>1 DEF IInv, MailInv
    <3> QED BY <1>1, <1>2, <1>3, <1>7, <1>9, <1>10, <2>3, <3>1 DEF WorkerInv, MailInv
  <2> QED BY <2>1, <2>2, <2>3
<1>14. OneB'
  <2>1. OneB
    BY DEF IInv
  <2> QED BY <1>4, <1>8, <1>10, <2>1 DEF OneB
<1>15. (\A c \in Crons : CronInv(c)') /\ (\A t \in Blasts : PickInv(t)')
  <2>1. \A t \in Blasts : r.parent = t => ~ BothSent(t)
    BY <1>3, <1>8 DEF BothSent
  <2> QED BY <1>1, <1>8, <1>10, <2>1, NewBlastCrons
<1> QED
  BY <1>11, <1>12, <1>13, <1>14, <1>15 DEF IInv

\* The winner's blast inherits recipients that it excludes, and its test is marked.
LEMMA CreateWinnerStep ==
  ASSUME IInv, NEW c \in Crons, NEW b \in Blasts, CreateWinner(c, b)
  PROVE  IInv'
<1> DEFINE t == cron[c].test
           win == cron[c].winner
           test == blast[win].test
           exclude == UNION {blast[v].test : v \in VariantsOf(t)}
           r == [NoBlast EXCEPT !.status = "draft", !.kind = "winner", !.parent = t,
                                !.test = test, !.exclude = exclude]
           w == [NoWorker EXCEPT !.pc = "claim"]
<1>1. /\ TypeOK /\ NextBlast(b) /\ UNCHANGED <<audienceVars, mailed>> /\ cron[c].pc = "create"
      /\ mailed \in [Blasts -> [Supporters -> Nat]] /\ cron \in [Crons -> CronRow]
      /\ cron' = [cron EXCEPT ![c] = NoCron]
  BY DEF IInv, CreateWinner, CronAt, TypeOK, CronRow
<1>2. /\ worker[b] = NoWorker /\ blast[b].kind = "plain" /\ blast[b].parent = 0
      /\ \A s \in Supporters : mailed[b][s] = 0
  BY <1>1, FreshBlast
<1>3. t \in Blasts /\ BothSent(t) /\ win \in VariantsOf(t) /\ AllPicked(t)
  BY <1>1 DEF IInv, CronInv
<1>4. win \in Blasts /\ blast[win].kind \in {"A", "B"}
  BY <1>3 DEF VariantsOf
<1>5. test \in SUBSET Supporters /\ test # {} /\ test \subseteq exclude
  <2>1. test \in SUBSET Supporters /\ test # {}
    BY <1>1, <1>4, RowsAreTyped DEF IInv, RowInv, BlastRow
  <2> QED BY <1>3, <2>1
<1>6. exclude \in SUBSET Supporters
  <2>1. \A v \in VariantsOf(t) : blast[v].test \in SUBSET Supporters
    BY <1>1, RowsAreTyped DEF VariantsOf, BlastRow
  <2> QED BY <2>1
<1>7. blast' = [blast EXCEPT ![b] = r]
  BY DEF CreateWinner
<1>8. worker' = [worker EXCEPT ![b] = w]
  <2> HIDE DEF r, t
  <2> QED BY <1>1, <1>2 DEF CreateWinner, Goto, TypeOK
<1>9. NoCron \in CronRow /\ NoCron.pc = "idle"
  BY DEF NoCron, CronRow
<1>10. t # 0 /\ 0 \notin Blasts
  BY <1>3, BlastAssumption
<1> HIDE DEF test, exclude, win
<1>11. t \in Blasts /\ \A x \in Crons : x # c => cron'[x] = cron[x]
  BY <1>1, <1>3
<1> HIDE DEF t
<1>12. /\ r \in BlastRow /\ r.status = "draft" /\ r.kind = "winner" /\ r.winnerPicked = FALSE
       /\ r.parent = t /\ r.test = test /\ r.exclude = exclude
  BY <1>5, <1>6, <1>11 DEF NoBlast, BlastRow
<1>13. w \in WorkerRow /\ w.pc = "claim" /\ \A s \in Supporters : w.result[s] = "none"
  BY DEF NoWorker, WorkerRow
<1> HIDE DEF r, w
<1>14. Becomes(b, r, w)
  BY <1>7, <1>8, <1>12, <1>13 DEF Becomes
<1>15. /\ blast'[b] = r /\ worker'[b] = w
       /\ \A a \in Blasts : a # b => blast'[a] = blast[a] /\ worker'[a] = worker[a]
  BY <1>1, <1>14, BecomesIsTyped
<1>16. cron' \in [Crons -> CronRow] /\ cron'[c] = NoCron
  BY <1>1, <1>9
<1>17. TypeOK'
  BY <1>1, <1>14, <1>16, TypesAfter
<1>18. ASSUME NEW a \in Blasts PROVE RowInv(a)' /\ WorkerInv(a)' /\ MailInv(a)'
  <2>1. CASE a # b
    <3>1. RowInv(a)'
      BY <1>2, <1>15, <2>1, OldRows DEF IInv
    <3> QED BY <1>1, <1>15, <2>1, <3>1, SameBlast DEF IInv
  <2>2. CASE a = b
    BY <1>1, <1>2, <1>5, <1>12, <1>13, <1>15, <2>2 DEF RowInv, WorkerInv, MailInv
  <2> QED BY <2>1, <2>2
<1>19. OneB'
  <2>1. OneB
    BY DEF IInv
  <2> QED BY <1>12, <1>15, <2>1 DEF OneB
\* The variants of every test stay what they were.
<1>20. ASSUME NEW u \in Blasts
       PROVE  /\ VariantsOf(u)' = VariantsOf(u) /\ (BothSent(u) => BothSent(u)')
              /\ (AllPicked(u) => AllPicked(u)') /\ Picked(u)' = Picked(u)
  <2>1. VariantsOf(u)' = VariantsOf(u)
    BY <1>2, <1>12, <1>15 DEF VariantsOf
  <2>2. BothSent(u) => BothSent(u)'
    BY <1>2, <1>15 DEF BothSent
  <2>3. \A v \in VariantsOf(u) : blast'[v] = blast[v]
    BY <1>2, <1>15 DEF VariantsOf
  <2> QED BY <2>1, <2>2, <2>3 DEF AllPicked, Picked
<1>21. ASSUME NEW x \in Crons PROVE CronInv(x)'
  <2>1. CASE x = c
    BY <1>9, <1>16, <2>1 DEF CronInv
  <2>2. CASE x # c
    <3>1. cron'[x] = cron[x] /\ CronInv(x)
      BY <1>11, <2>2 DEF IInv
    <3>2. CASE cron[x].pc = "idle"
      BY <3>1, <3>2 DEF CronInv
    <3>3. CASE cron[x].pc # "idle"
      <4>1. PICK u \in Blasts : u = cron[x].test
        BY <3>1, <3>3 DEF CronInv
      <4>2. BothSent(u) /\ cron[x].winner \in VariantsOf(u)
            /\ (cron[x].pc \in {"create", "lost"} => AllPicked(u))
        BY <3>1, <3>3, <4>1 DEF CronInv
      <4>3. BothSent(u)' /\ VariantsOf(u)' = VariantsOf(u) /\ (AllPicked(u) => AllPicked(u)')
        BY <1>20, <4>2
      <4>4. u = cron'[x].test
        BY <3>1, <4>1
      <4> QED BY <3>1, <4>2, <4>3, <4>4 DEF CronInv
    <3> QED BY <3>2, <3>3
  <2> QED BY <2>1, <2>2
<1>22. ASSUME NEW u \in Blasts PROVE PickInv(u)'
  <2>1. /\ PickInv(u) /\ Picked(u)' = Picked(u) /\ (BothSent(u) => BothSent(u)')
        /\ (AllPicked(u) => AllPicked(u)')
    BY <1>20 DEF IInv
  <2>2. CASE u = t
    <3>1. b \in WinnersOf(u)'
      BY <1>12, <1>15, <2>2 DEF WinnersOf
    <3>2. Picked(u)
      <4>1. u \in VariantsOf(u)
        BY <1>3, <2>2 DEF t, BothSent, IInv, RowInv, VariantsOf
      <4> QED BY <1>3, <2>2, <4>1 DEF t, AllPicked, Picked
    <3> QED BY <2>1, <3>1, <3>2 DEF PickInv
  <2>3. CASE u # t
    <3>1. WinnersOf(u)' = WinnersOf(u)
      BY <1>2, <1>10, <1>12, <1>15, <2>3 DEF WinnersOf
    <3>2. Dispatching(u) => Dispatching(u)'
      <4> SUFFICES ASSUME NEW x \in Crons, cron[x].test = u, cron[x].pc \in {"create", "lost"}
                   PROVE  Dispatching(u)'
        BY DEF Dispatching
      <4>1. x # c
        BY <2>3 DEF t
      <4>2. cron'[x] = cron[x]
        BY <1>11, <4>1
      <4> QED BY <4>2 DEF Dispatching
    <3> QED BY <2>1, <3>1, <3>2 DEF PickInv
  <2> QED BY <2>2, <2>3
<1> QED
  BY <1>17, <1>18, <1>19, <1>21, <1>22 DEF IInv

-----------------------------------------------------------------------------
(* The other steps of the cron.                                            *)

\* The cron's steps leave the promises and the mail alone.
LEMMA CronRows ==
  ASSUME IInv, UNCHANGED <<audienceVars, worker, mailed>>, blast' \in [Blasts -> BlastRow],
         cron' \in [Crons -> CronRow],
         \A a \in Blasts :
           /\ blast'[a].kind = blast[a].kind /\ blast'[a].parent = blast[a].parent
           /\ blast'[a].test = blast[a].test /\ blast'[a].exclude = blast[a].exclude
           /\ blast'[a].status = blast[a].status
           /\ blast[a].status = "none" => blast'[a] = blast[a]
  PROVE  TypeOK' /\ (\A a \in Blasts : RowInv(a)' /\ WorkerInv(a)' /\ MailInv(a)') /\ OneB'
<1>1. TypeOK'
  <2>1. TypeOK /\ AudienceTypeOK'
    BY UnchangedAudience DEF IInv, TypeOK
  <2> QED BY <2>1 DEF TypeOK, BlastRow, CronRow
<1>2. (\A a \in Blasts : RowInv(a)') /\ OneB'
  <2>1. Kept
    BY DEF Kept
  <2> QED BY <2>1, KeptRows DEF IInv
<1>3. ASSUME NEW a \in Blasts PROVE WorkerInv(a)' /\ MailInv(a)'
  <2>1. WorkerInv(a) /\ MailInv(a) /\ Allowed(a)' = Allowed(a)
    BY DEF IInv, Allowed
  <2> QED BY <2>1 DEF WorkerInv, MailInv
<1> QED BY <1>1, <1>2, <1>3

\* The test that a cron takes up has both variants sent.
LEMMA PickWinnerStep ==
  ASSUME IInv, NEW c \in Crons, NEW t \in Blasts, PickWinner(c, t)
  PROVE  IInv'
<1>1. /\ TypeOK /\ blast \in [Blasts -> BlastRow] /\ cron \in [Crons -> CronRow]
      /\ UNCHANGED <<audienceVars, blast, worker, mailed>> /\ cron[c].pc = "idle"
  BY DEF IInv, TypeOK, PickWinner, CronAt, BlastRow, CronRow
<1>2. PICK v \in VariantsOf(t) : cron' = [cron EXCEPT ![c] = [pc |-> "mark", test |-> t, winner |-> v]]
  BY DEF PickWinner
<1> DEFINE k == [pc |-> "mark", test |-> t, winner |-> v]
<1>3. v \in Blasts /\ k \in CronRow /\ k.pc = "mark" /\ k.test = t /\ k.winner = v
  BY DEF VariantsOf, CronRow
<1> HIDE DEF k
<1>4. /\ cron' \in [Crons -> CronRow] /\ cron'[c] = k
      /\ \A x \in Crons : x # c => cron'[x] = cron[x]
  BY <1>1, <1>2, <1>3 DEF k
<1>5. TypeOK' /\ (\A a \in Blasts : RowInv(a)' /\ WorkerInv(a)' /\ MailInv(a)') /\ OneB'
  BY <1>1, <1>4, CronRows
<1>6. BothSent(t)
  BY DEF PickWinner, Due, VariantsOf, BothSent
<1>7. ASSUME NEW u \in Blasts
      PROVE  /\ BothSent(u)' = BothSent(u) /\ VariantsOf(u)' = VariantsOf(u)
             /\ WinnersOf(u)' = WinnersOf(u) /\ AllPicked(u)' = AllPicked(u)
             /\ Picked(u)' = Picked(u)
  BY <1>1 DEF BothSent, VariantsOf, WinnersOf, AllPicked, Picked
<1>8. ASSUME NEW x \in Crons PROVE CronInv(x)'
  <2>1. CASE x = c
    <3>1. cron'[x].pc = "mark" /\ cron'[x].test = t /\ cron'[x].winner = v
      BY <1>3, <1>4, <2>1
    <3> QED BY <1>6, <1>7, <3>1 DEF CronInv
  <2>2. CASE x # c
    <3>1. CronInv(x) /\ cron'[x] = cron[x] /\ blast' = blast
      BY <1>1, <1>4, <2>2 DEF IInv
    <3> QED BY <3>1 DEF CronInv, BothSent, AllPicked, VariantsOf
  <2> QED BY <2>1, <2>2
<1>9. ASSUME NEW u \in Blasts PROVE PickInv(u)'
  <2>1. PickInv(u)
    BY DEF IInv
  <2>2. Dispatching(u) => Dispatching(u)'
    BY <1>1, <1>4 DEF Dispatching
  <2> QED BY <1>7, <2>1, <2>2 DEF PickInv
<1> QED
  BY <1>5, <1>8, <1>9 DEF IInv

LEMMA CronFailsStep ==
  ASSUME IInv, NEW c \in Crons, CronFails(c)
  PROVE  IInv'
<1>1. /\ TypeOK /\ blast \in [Blasts -> BlastRow] /\ cron \in [Crons -> CronRow]
      /\ UNCHANGED <<audienceVars, blast, worker, mailed>> /\ cron[c].pc \in {"mark", "create"}
  BY DEF IInv, TypeOK, CronFails, BlastRow, CronRow
<1> DEFINE gone == [cron[c] EXCEPT !.pc = "lost"]
           k == IF cron[c].pc = "create" THEN gone ELSE NoCron
<1>2. NoCron \in CronRow /\ NoCron.pc = "idle"
  BY DEF NoCron, CronRow
<1>3. gone \in CronRow /\ gone.pc = "lost" /\ gone.test = cron[c].test /\ gone.winner = cron[c].winner
  BY <1>1 DEF CronRow
<1>4. cron' = [cron EXCEPT ![c] = k]
  BY DEF CronFails, CronAt
<1> HIDE DEF gone
<1>5. /\ cron' \in [Crons -> CronRow] /\ cron'[c] = k
      /\ \A x \in Crons : x # c => cron'[x] = cron[x]
  BY <1>1, <1>2, <1>3, <1>4
<1>6. TypeOK' /\ (\A a \in Blasts : RowInv(a)' /\ WorkerInv(a)' /\ MailInv(a)') /\ OneB'
  BY <1>1, <1>5, CronRows
<1>7. ASSUME NEW u \in Blasts
      PROVE  /\ BothSent(u)' = BothSent(u) /\ VariantsOf(u)' = VariantsOf(u)
             /\ WinnersOf(u)' = WinnersOf(u) /\ AllPicked(u)' = AllPicked(u)
             /\ Picked(u)' = Picked(u)
  BY <1>1 DEF BothSent, VariantsOf, WinnersOf, AllPicked, Picked
<1>8. ASSUME NEW x \in Crons PROVE CronInv(x)'
  <2>1. CronInv(x) /\ blast' = blast
    BY <1>1 DEF IInv
  <2>2. CASE x = c /\ cron[c].pc # "create"
    BY <1>2, <1>5, <2>2 DEF CronInv
  <2>3. CASE x = c /\ cron[c].pc = "create"
    <3>1. cron'[x] = gone
      BY <1>5, <2>3
    <3>2. PICK u \in Blasts : u = cron[c].test
      BY <2>1, <2>3 DEF CronInv
    <3>3. BothSent(u) /\ cron[c].winner \in VariantsOf(u) /\ AllPicked(u)
      BY <2>1, <2>3, <3>2 DEF CronInv
    <3>4. cron'[x].test = u /\ cron'[x].winner = cron[c].winner
      BY <1>3, <3>1, <3>2
    <3> QED BY <1>7, <3>3, <3>4 DEF CronInv
  <2>4. CASE x # c
    <3>1. cron'[x] = cron[x]
      BY <1>5, <2>4
    <3> QED BY <2>1, <3>1 DEF CronInv, BothSent, AllPicked, VariantsOf
  <2> QED BY <2>2, <2>3, <2>4
<1>9. ASSUME NEW u \in Blasts PROVE PickInv(u)'
  <2>1. PickInv(u)
    BY DEF IInv
  <2>2. Dispatching(u) => Dispatching(u)'
    <3> SUFFICES ASSUME NEW x \in Crons, cron[x].test = u, cron[x].pc \in {"create", "lost"}
                 PROVE  cron'[x].test = u /\ cron'[x].pc \in {"create", "lost"}
      BY DEF Dispatching
    <3>1. CASE x = c
      BY <1>1, <1>3, <1>5, <3>1
    <3>2. CASE x # c
      BY <1>5, <3>2
    <3> QED BY <3>1, <3>2
  <2> QED BY <1>7, <2>1, <2>2 DEF PickInv
<1> QED
  BY <1>6, <1>8, <1>9 DEF IInv

\* Both variants are marked in one statement.
LEMMA MarkPickedStep ==
  ASSUME IInv, NEW c \in Crons, MarkPicked(c)
  PROVE  IInv'
<1> DEFINE t == cron[c].test
<1>1. /\ TypeOK /\ blast \in [Blasts -> BlastRow] /\ cron \in [Crons -> CronRow]
      /\ UNCHANGED <<audienceVars, worker, mailed>> /\ cron[c].pc = "mark"
      /\ cron' = [cron EXCEPT ![c].pc = "create"]
  BY DEF IInv, TypeOK, MarkPicked, CronAt, CronGoto, BlastRow, CronRow
<1>2. t \in Blasts /\ BothSent(t) /\ cron[c].winner \in VariantsOf(t)
  BY <1>1 DEF IInv, CronInv
<1>3. blast' = [b \in Blasts |-> IF b \in VariantsOf(t)
                                 THEN [blast[b] EXCEPT !.winnerPicked = TRUE] ELSE blast[b]]
  BY DEF MarkPicked
<1> HIDE DEF t
<1>4. ASSUME NEW a \in Blasts
      PROVE  /\ blast'[a] \in BlastRow
             /\ blast'[a].kind = blast[a].kind /\ blast'[a].parent = blast[a].parent
             /\ blast'[a].test = blast[a].test /\ blast'[a].exclude = blast[a].exclude
             /\ blast'[a].status = blast[a].status
             /\ blast'[a].winnerPicked = IF a \in VariantsOf(t) THEN TRUE ELSE blast[a].winnerPicked
             /\ a \notin VariantsOf(t) => blast'[a] = blast[a]
  <2>1. blast[a] \in BlastRow
    BY <1>1
  <2>2. CASE a \in VariantsOf(t)
    <3>1. blast'[a] = [blast[a] EXCEPT !.winnerPicked = TRUE]
      BY <1>3, <2>2
    <3> QED BY <2>1, <2>2, <3>1 DEF BlastRow
  <2>3. CASE a \notin VariantsOf(t)
    BY <1>3, <2>1, <2>3
  <2> QED BY <2>2, <2>3
<1>5. blast' \in [Blasts -> BlastRow]
  <2>1. blast' = [a \in Blasts |-> blast'[a]]
    BY <1>3
  <2> QED BY <1>4, <2>1
<1>6. /\ cron' \in [Crons -> CronRow] /\ cron'[c].pc = "create" /\ cron'[c].test = t
      /\ cron'[c].winner = cron[c].winner
      /\ \A x \in Crons : x # c => cron'[x] = cron[x]
  BY <1>1 DEF CronRow, t
<1>7. TypeOK' /\ (\A a \in Blasts : RowInv(a)' /\ WorkerInv(a)' /\ MailInv(a)') /\ OneB'
  <2>1. ASSUME NEW a \in Blasts, blast[a].status = "none" PROVE blast'[a] = blast[a]
    <3>1. blast[a].kind = "plain"
      BY <2>1 DEF IInv, RowInv, NoBlast
    <3>2. a \notin VariantsOf(t)
      BY <3>1 DEF VariantsOf
    <3> QED BY <1>4, <3>2
  <2> QED BY <1>1, <1>4, <1>5, <1>6, <2>1, CronRows
<1>8. ASSUME NEW u \in Blasts
      PROVE  /\ BothSent(u)' = BothSent(u) /\ VariantsOf(u)' = VariantsOf(u)
             /\ WinnersOf(u)' = WinnersOf(u)
             /\ AllPicked(u) \/ u = t => AllPicked(u)'
             /\ u # t => Picked(u)' = Picked(u)
  <2>1. BothSent(u)' = BothSent(u) /\ VariantsOf(u)' = VariantsOf(u) /\ WinnersOf(u)' = WinnersOf(u)
    <3>1. \A a \in Blasts : /\ blast'[a].kind = blast[a].kind /\ blast'[a].parent = blast[a].parent
                            /\ blast'[a].status = blast[a].status
      BY <1>4
    <3>2. VariantsOf(u)' = VariantsOf(u) /\ WinnersOf(u)' = WinnersOf(u)
      BY <3>1 DEF VariantsOf, WinnersOf
    <3>3. BothSent(u)' <=> BothSent(u)
      BY <3>1 DEF BothSent
    <3>4. BothSent(u)' = BothSent(u)
      BY <3>3 DEF BothSent
    <3> QED BY <3>2, <3>4
  <2>2. \A v \in VariantsOf(u) : v \in Blasts /\ (u # t => v \notin VariantsOf(t))
    BY DEF VariantsOf
  <2>3. AllPicked(u) \/ u = t => AllPicked(u)'
    BY <1>4, <2>1, <2>2 DEF AllPicked
  <2>4. u # t => Picked(u)' = Picked(u)
    BY <1>4, <2>1, <2>2 DEF Picked
  <2> QED BY <2>1, <2>3, <2>4
<1>9. ASSUME NEW x \in Crons PROVE CronInv(x)'
  <2>1. CronInv(x)
    BY DEF IInv
  <2>2. CASE x = c
    BY <1>2, <1>6, <1>8, <2>2 DEF CronInv
  <2>3. CASE x # c
    <3>1. cron'[x] = cron[x]
      BY <1>6, <2>3
    <3>2. CASE cron[x].pc = "idle"
      BY <3>1, <3>2 DEF CronInv
    <3>3. CASE cron[x].pc # "idle"
      <4>1. PICK u \in Blasts : u = cron[x].test
        BY <2>1, <3>3 DEF CronInv
      <4>2. BothSent(u) /\ cron[x].winner \in VariantsOf(u)
            /\ (cron[x].pc \in {"create", "lost"} => AllPicked(u))
        BY <2>1, <3>3, <4>1 DEF CronInv
      <4>3. u = cron'[x].test
        BY <3>1, <4>1
      <4> QED BY <1>8, <3>1, <4>2, <4>3 DEF CronInv
    <3> QED BY <3>2, <3>3
  <2> QED BY <2>2, <2>3
<1>10. ASSUME NEW u \in Blasts PROVE PickInv(u)'
  <2>1. PickInv(u)
    BY DEF IInv
  <2>2. CASE u = t
    <3>1. Dispatching(u)'
      BY <1>6, <2>2 DEF Dispatching
    <3>2. BothSent(u)' /\ AllPicked(u)'
      BY <1>2, <1>8, <2>2
    <3>3. u \in VariantsOf(u)'
      BY <1>2, <1>8, <2>2 DEF BothSent, IInv, RowInv, VariantsOf
    <3>4. Picked(u)'
      BY <3>2, <3>3 DEF AllPicked, Picked
    <3> QED BY <3>1, <3>2, <3>4 DEF PickInv
  <2>3. CASE u # t
    <3>1. Dispatching(u) => Dispatching(u)'
      <4> SUFFICES ASSUME NEW x \in Crons, cron[x].test = u, cron[x].pc \in {"create", "lost"}
                   PROVE  cron'[x] = cron[x]
        BY DEF Dispatching
      <4> QED BY <1>1, <1>6
    <3> QED BY <1>8, <2>1, <2>3, <3>1 DEF PickInv
  <2> QED BY <2>2, <2>3
<1> QED
  BY <1>7, <1>9, <1>10 DEF IInv

-----------------------------------------------------------------------------
(* The invariant holds.                                                    *)

\* Nothing but the statuses of supporters is the audience's, and whom a blast may reach
\* does not depend on them.
LEMMA AudienceStep ==
  ASSUME IInv, AudienceNext, UNCHANGED <<blast, worker, cron, mailed>>
  PROVE  IInv'
<1>1. TypeOK'
  <2>1. AudienceTypeOK'
    BY AudienceTypes DEF IInv, TypeOK
  <2> QED BY <2>1 DEF IInv, TypeOK
<1>2. ASSUME NEW b \in Blasts PROVE RowInv(b)' /\ WorkerInv(b)' /\ MailInv(b)' /\ PickInv(b)'
  BY DEF IInv, RowInv, WorkerInv, MailInv, Allowed, PickInv, Picked, BothSent, AllPicked,
         VariantsOf, WinnersOf, Dispatching
<1>3. OneB'
  BY DEF IInv, OneB
<1>4. ASSUME NEW c \in Crons PROVE CronInv(c)'
  BY DEF IInv, CronInv, BothSent, AllPicked, VariantsOf
<1> QED BY <1>1, <1>2, <1>3, <1>4 DEF IInv

LEMMA StutteringStep ==
  ASSUME IInv, UNCHANGED vars
  PROVE  IInv'
<1>1. TypeOK'
  BY UnchangedAudience DEF vars, audienceVars, IInv, TypeOK
<1>2. ASSUME NEW b \in Blasts PROVE RowInv(b)' /\ WorkerInv(b)' /\ MailInv(b)' /\ PickInv(b)'
  BY DEF vars, IInv, RowInv, WorkerInv, MailInv, Allowed, PickInv, Picked, BothSent, AllPicked,
         VariantsOf, WinnersOf, Dispatching
<1>3. OneB'
  BY DEF vars, IInv, OneB
<1>4. ASSUME NEW c \in Crons PROVE CronInv(c)'
  BY DEF vars, IInv, CronInv, BothSent, AllPicked, VariantsOf
<1> QED BY <1>1, <1>2, <1>3, <1>4 DEF IInv

LEMMA InitStep == Init => IInv
<1> SUFFICES ASSUME Init PROVE IInv
  OBVIOUS
<1>1. AudienceTypeOK
  <2>1. "subscribed" \in Statuses
    BY DEF Statuses, Rank
  <2>2. NoImport \in ImportRow
    BY <2>1 DEF NoImport, ImportRow
  <2>3. /\ emailStatus = [s \in Supporters |-> "subscribed"]
        /\ import = [i \in Imports |-> NoImport] /\ notices = 0
    BY DEF Init, AudienceInit
  <2>4. notices \in 0..MaxNotices
    BY <2>3, AudienceAssumption
  <2> QED BY <2>1, <2>2, <2>3, <2>4 DEF AudienceTypeOK, ImportRow
<1>2. /\ blast = [b \in Blasts |-> NoBlast] /\ worker = [b \in Blasts |-> NoWorker]
      /\ cron = [c \in Crons |-> NoCron] /\ mailed = [b \in Blasts |-> [s \in Supporters |-> 0]]
  BY DEF Init
<1>3. NoCron \in CronRow /\ NoCron.pc = "idle"
  BY DEF NoCron, CronRow
<1>4. NoBlast.kind = "plain" /\ NoBlast.parent = 0 /\ NoBlast.status = "none"
  BY DEF NoBlast
<1>5. NoWorker.pc = "none" /\ \A s \in Supporters : NoWorker.result[s] = "none"
  BY DEF NoWorker
<1>6. TypeOK
  <2>1. blast \in [Blasts -> BlastRow] /\ worker \in [Blasts -> WorkerRow]
        /\ cron \in [Crons -> CronRow] /\ mailed \in [Blasts -> [Supporters -> Nat]]
    BY <1>2, <1>3, NoBlastIsTyped, NoWorkerIsTyped
  <2> QED BY <1>1, <2>1 DEF TypeOK, BlastRow, WorkerRow, CronRow
<1>7. ASSUME NEW b \in Blasts PROVE RowInv(b) /\ WorkerInv(b) /\ MailInv(b) /\ PickInv(b)
  <2>1. blast[b] = NoBlast /\ worker[b] = NoWorker /\ \A s \in Supporters : mailed[b][s] = 0
    BY <1>2
  <2>2. RowInv(b) /\ WorkerInv(b) /\ MailInv(b)
    BY <1>4, <1>5, <2>1 DEF RowInv, WorkerInv, MailInv
  <2>3. VariantsOf(b) = {} /\ WinnersOf(b) = {}
    BY <1>2, <1>4 DEF VariantsOf, WinnersOf
  <2> QED BY <2>2, <2>3 DEF PickInv, Picked
<1>8. OneB
  BY <1>2, <1>4 DEF OneB
<1>9. ASSUME NEW c \in Crons PROVE CronInv(c)
  BY <1>2, <1>3 DEF CronInv
<1> QED BY <1>6, <1>7, <1>8, <1>9 DEF IInv

LEMMA EveryStep ==
  ASSUME IInv, [Next]_vars
  PROVE  IInv'
<1>1. ASSUME NEW b \in Blasts, SendStep(b) PROVE IInv'
  <2>1. ASSUME NEW s \in Supporters, Check(b, s) \/ Send(b, s) PROVE IInv'
    BY <2>1, CheckStep, SendStepOfOne
  <2>2. ASSUME NEW other \in Blasts, CreateVariantB(b, other) PROVE IInv'
    BY <2>2, CreateVariantBStep
  <2> QED
    BY <1>1, <2>1, <2>2, ClaimStep, CountRecipientsStep, TakePageStep, RecordBatchStep,
       FinishStep, DbErrorStep, RecordFailureStep DEF SendStep
<1>2. ASSUME NEW c \in Crons, CronStep(c) PROVE IInv'
  <2>1. ASSUME NEW b \in Blasts, PickWinner(c, b) \/ CreateWinner(c, b) PROVE IInv'
    BY <2>1, PickWinnerStep, CreateWinnerStep
  <2> QED
    BY <1>2, <2>1, MarkPickedStep, CronFailsStep DEF CronStep, CronGoesOn
<1>3. ASSUME NEW b \in Blasts, SendPlain(b) \/ SendAbTest(b) \/ Crash(b) \/ TestElapses(b)
      PROVE  IInv'
  BY <1>3, SendPlainStep, SendAbTestStep, CrashStep, TestElapsesStep
<1>4. CASE AudienceNext /\ UNCHANGED <<blast, worker, cron, mailed>>
  BY <1>4, AudienceStep
<1>5. CASE UNCHANGED vars
  BY <1>5, StutteringStep
<1> QED
  BY <1>1, <1>2, <1>3, <1>4, <1>5 DEF Next

\* The invariant that the properties rest on.
THEOREM BlastInvariant == Spec => []IInv
<1>1. IInv /\ [Next]_vars => IInv'
  BY EveryStep
<1> QED
  BY InitStep, <1>1, PTL DEF Spec

\* The rows and promises stay within their types (engine.ts:200-403).
THEOREM BlastTypes == Spec => []TypeOK
<1>1. IInv => TypeOK
  BY DEF IInv
<1> QED
  BY BlastInvariant, <1>1, PTL

-----------------------------------------------------------------------------
(* What follows.                                                           *)

\* A winner's blast reaches nobody.
LEMMA WinnerReachesNobody ==
  ASSUME NEW b \in Blasts, RowInv(b), blast[b].kind = "winner"
  PROVE  Allowed(b) = {}
BY DEF RowInv, Allowed

\* Two blasts of one test have nobody in common.
LEMMA TestsAreDisjoint ==
  ASSUME IInv, NEW a \in Blasts, NEW b \in Blasts, a # b, SameTest(a, b)
  PROVE  Allowed(a) \cap Allowed(b) = {}
<1>1. blast[a].parent # 0 /\ blast[a].parent = blast[b].parent
  BY DEF SameTest
<1>2. RowInv(a) /\ RowInv(b) /\ blast[a] \in BlastRow /\ blast[b] \in BlastRow
  BY RowsAreTyped DEF IInv
<1>3. blast[a].kind \in {"A", "B", "winner"} /\ blast[b].kind \in {"A", "B", "winner"}
  BY <1>1, <1>2 DEF RowInv, BlastRow
<1>4. CASE blast[a].kind = "winner" \/ blast[b].kind = "winner"
  BY <1>2, <1>4, WinnerReachesNobody
<1>5. CASE blast[a].kind = "A" /\ blast[b].kind = "B"
  BY <1>1, <1>2, <1>5 DEF RowInv, Allowed
<1>6. CASE blast[a].kind = "B" /\ blast[b].kind = "A"
  BY <1>1, <1>2, <1>6 DEF RowInv, Allowed
<1>7. CASE blast[a].kind = "A" /\ blast[b].kind = "A"
  BY <1>1, <1>2, <1>7 DEF RowInv
<1>8. CASE blast[a].kind = "B" /\ blast[b].kind = "B"
  BY <1>1, <1>8 DEF IInv, OneB
<1> QED
  BY <1>3, <1>4, <1>5, <1>6, <1>7, <1>8

\* For any number of supporters, blasts and crons, any page size and any faults: nobody gets
\* a message of a blast twice, nor of two blasts of one test (engine.ts:343-393,
\* compose/+page.server.ts:283-287, ab-winner.ts:111-134).
THEOREM NobodyIsMailedTwice == Spec => []MailedOnce
<1>1. IInv => MailedOnce
  <2> SUFFICES ASSUME IInv, NEW a \in Blasts, NEW b \in Blasts, NEW s \in Supporters
               PROVE  /\ mailed[a][s] <= 1
                      /\ SameTest(a, b) /\ mailed[a][s] > 0 /\ mailed[b][s] > 0 => a = b
    BY DEF MailedOnce
  <2>1. MailInv(a) /\ MailInv(b)
    BY DEF IInv
  <2>2. mailed[a][s] <= 1
    BY <2>1 DEF MailInv
  <2>3. ASSUME SameTest(a, b), mailed[a][s] > 0, mailed[b][s] > 0, a # b PROVE FALSE
    <3>1. s \in Allowed(a) /\ s \in Allowed(b)
      BY <2>1, <2>3 DEF MailInv
    <3> QED BY <2>3, <3>1, TestsAreDisjoint
  <2> QED BY <2>2, <2>3
<1> QED
  BY BlastInvariant, <1>1, PTL

\* A test with both variants sent has two variants.
LEMMA TwoVariants ==
  ASSUME IInv, NEW t \in Blasts, BothSent(t)
  PROVE  /\ Cardinality(VariantsOf(t)) = 2
         /\ \A v \in VariantsOf(t) : blast[v].status = "sent"
<1>1. PICK b \in Blasts : blast[b].kind = "B" /\ blast[b].parent = t /\ blast[b].status = "sent"
  BY DEF BothSent
<1>2. blast[t].kind = "A" /\ blast[t].status = "sent" /\ blast[t].parent = t
  BY DEF BothSent, IInv, RowInv
<1>3. VariantsOf(t) \subseteq {t, b}
  BY <1>1 DEF IInv, OneB, RowInv, VariantsOf
<1>4. VariantsOf(t) = {t, b} /\ t # b
  BY <1>1, <1>2, <1>3 DEF VariantsOf
<1>5. IsFiniteSet({t}) /\ Cardinality({t}) = 1
  BY FS_Singleton
<1>6. Cardinality({t} \cup {b}) = 2
  BY <1>4, <1>5, FS_AddElement
<1>7. {t} \cup {b} = {t, b}
  OBVIOUS
<1> QED BY <1>1, <1>2, <1>4, <1>6, <1>7

\* For any number of crons that overlap, a marked test has both variants sent and marked and
\* its winner's blast, unless a run of the cron has it in hand or was lost with it
\* (ab-winner.ts:94-142).
THEOREM MarkedTestsAreDispatched == Spec => []PickedIsDispatched
<1>1. IInv => PickedIsDispatched
  <2> SUFFICES ASSUME IInv, NEW t \in Blasts
               PROVE  /\ Picked(t) =>
                           /\ WinnersOf(t) # {} \/ Dispatching(t)
                           /\ Cardinality(VariantsOf(t)) = 2
                           /\ \A v \in VariantsOf(t) :
                                blast[v].winnerPicked /\ blast[v].status = "sent"
                      /\ WinnersOf(t) # {} => Picked(t)
    BY DEF PickedIsDispatched
  <2>1. PickInv(t)
    BY DEF IInv
  <2>2. WinnersOf(t) # {} => Picked(t)
    BY <2>1 DEF PickInv
  <2>3. ASSUME Picked(t)
        PROVE  /\ WinnersOf(t) # {} \/ Dispatching(t)
               /\ Cardinality(VariantsOf(t)) = 2
               /\ \A v \in VariantsOf(t) : blast[v].winnerPicked /\ blast[v].status = "sent"
    <3>1. BothSent(t) /\ AllPicked(t) /\ (WinnersOf(t) # {} \/ Dispatching(t))
      BY <2>1, <2>3 DEF PickInv
    <3>2. Cardinality(VariantsOf(t)) = 2 /\ \A v \in VariantsOf(t) : blast[v].status = "sent"
      BY <3>1, TwoVariants
    <3>3. \A v \in VariantsOf(t) : blast[v].winnerPicked
      BY <3>1 DEF AllPicked
    <3> QED BY <3>1, <3>2, <3>3
  <2> QED BY <2>2, <2>3
<1> QED
  BY BlastInvariant, <1>1, PTL

-----------------------------------------------------------------------------
(* Nobody is mailed after leaving.                                         *)

\* No call of SES begins.
NoNewCall ==
  \A b \in Blasts, s \in Supporters :
    worker'[b].result[s] = "calling" => worker[b].result[s] = "calling"

LEMMA GotoBeginsNoCall ==
  ASSUME TypeOK, NEW a \in Blasts, NEW pc, Goto(a, pc)
  PROVE  NoNewCall
<1>1. \A b \in Blasts : worker'[b].result = worker[b].result
  BY DEF Goto, TypeOK
<1> QED BY <1>1 DEF NoNewCall

LEMMA StopBeginsNoCall ==
  ASSUME TypeOK, NEW a \in Blasts, NEW pc \in {"done", "lost"}, Stop(a, pc)
  PROVE  NoNewCall
<1>1. PICK w \in WorkerRow :
        worker' = [worker EXCEPT ![a] = w] /\ \A s \in Supporters : w.result[s] = "none"
  BY StopDoes
<1> QED BY <1>1 DEF NoNewCall, TypeOK

LEMMA ReplacingBeginsNoCall ==
  ASSUME TypeOK, NEW a \in Blasts, NEW r, NEW w, Becomes(a, r, w),
         \A s \in Supporters : w.result[s] = "calling" => worker[a].result[s] = "calling"
  PROVE  NoNewCall
<1> SUFFICES ASSUME NEW b \in Blasts, NEW s \in Supporters, worker'[b].result[s] = "calling"
             PROVE  worker[b].result[s] = "calling"
  BY DEF NoNewCall
<1>1. worker'[a] = w /\ (b # a => worker'[b] = worker[b])
  BY BecomesIsTyped
<1> QED BY <1>1

\* Only Check begins a call, and only for somebody subscribed.
LEMMA CallsBeginInCheck ==
  ASSUME IInv, [Next]_vars
  PROVE  \/ NoNewCall
         \/ \E b \in Blasts, s \in Supporters : Check(b, s)
<1>0. TypeOK
  BY DEF IInv
<1>1. ASSUME NEW b \in Blasts, SendStep(b), ~ \E s \in Supporters : Check(b, s)
      PROVE  NoNewCall
  <2>1. CASE Claim(b) \/ CountRecipients(b)
    BY <1>0, <2>1, GotoBeginsNoCall DEF Claim, CountRecipients
  <2>2. CASE TakePage(b)
    <3>1. PICK page \in SUBSET Supporters, next \in {"finish", "mail"} :
            Becomes(b, blast[b], [worker[b] EXCEPT !.pc = next, !.page = page,
                                                   !.result = [s \in Supporters |-> "none"]])
      BY <1>0, <2>2, TakePageDoes
    <3> DEFINE w == [worker[b] EXCEPT !.pc = next, !.page = page,
                                      !.result = [s \in Supporters |-> "none"]]
    <3>2. \A s \in Supporters : w.result[s] = "none"
      BY <1>0, RowsAreTyped DEF WorkerRow
    <3> HIDE DEF w
    <3> QED BY <1>0, <3>1, <3>2, ReplacingBeginsNoCall DEF w
  <2>3. CASE RecordBatch(b)
    <3> DEFINE m == Max(worker[b].page)
               sent == worker[b].sent + Cardinality(Outcome(b, "sent"))
               failed == worker[b].failed + Cardinality(Outcome(b, "failed"))
               w == [worker[b] EXCEPT !.pc = "page", !.page = {}, !.cursor = m,
                       !.result = [s \in Supporters |-> "none"], !.sent = sent, !.failed = failed]
    <3>1. Becomes(b, blast[b], w)
      BY <1>0, <2>3, RecordBatchDoes DEF IInv
    <3>2. \A s \in Supporters : w.result[s] = "none"
      <4> HIDE DEF m, sent, failed
      <4> QED BY <1>0, RowsAreTyped DEF WorkerRow
    <3> HIDE DEF w
    <3> QED BY <1>0, <3>1, <3>2, ReplacingBeginsNoCall
  <2>4. CASE Finish(b) \/ RecordFailure(b)
    BY <1>0, <2>4, StopBeginsNoCall DEF Finish, RecordFailure
  <2>5. CASE DbError(b)
    BY <1>0, <2>5, StopBeginsNoCall, GotoBeginsNoCall DEF DbError
  <2>6. ASSUME NEW s \in Supporters, Send(b, s) PROVE NoNewCall
    <3>1. PICK outcome \in {"sent", "failed"} :
            Becomes(b, blast[b], [worker[b] EXCEPT !.result = [@ EXCEPT ![s] = outcome]])
      BY <1>0, <2>6, SendDoes
    <3> DEFINE w == [worker[b] EXCEPT !.result = [@ EXCEPT ![s] = outcome]]
    <3>2. \A u \in Supporters : w.result[u] = "calling" => worker[b].result[u] = "calling"
      BY <1>0, RowsAreTyped DEF WorkerRow
    <3> HIDE DEF w
    <3> QED BY <1>0, <3>1, <3>2, ReplacingBeginsNoCall DEF w
  <2>7. ASSUME NEW other \in Blasts, CreateVariantB(b, other) PROVE NoNewCall
    <3>1. /\ worker[other] = NoWorker /\ worker \in [Blasts -> WorkerRow]
          /\ worker' = [worker EXCEPT ![b] = [NoWorker EXCEPT !.pc = "claim"], ![other].pc = "claim"]
      BY <1>0, <2>7, FreshBlast DEF CreateVariantB, TypeOK, WorkerRow
    <3>2. \A s \in Supporters : NoWorker.result[s] = "none"
      BY DEF NoWorker
    <3>3. [NoWorker EXCEPT !.pc = "claim"] \in WorkerRow
          /\ [NoWorker EXCEPT !.pc = "claim"].result = NoWorker.result
      BY DEF NoWorker, WorkerRow
    <3>4. \A a \in Blasts : worker'[a].result = worker[a].result \/ worker'[a].result = NoWorker.result
      BY <3>1, <3>3
    <3> QED BY <3>2, <3>4 DEF NoNewCall
  <2> QED
    BY <1>1, <2>1, <2>2, <2>3, <2>4, <2>5, <2>6, <2>7 DEF SendStep
<1>2. ASSUME NEW c \in Crons, CronStep(c) PROVE NoNewCall
  <2>1. ASSUME NEW b \in Blasts, CreateWinner(c, b) PROVE NoNewCall
    BY <1>0, <2>1, GotoBeginsNoCall DEF CreateWinner
  <2>2. ASSUME NEW b \in Blasts, PickWinner(c, b) PROVE NoNewCall
    BY <2>2 DEF PickWinner, NoNewCall
  <2> QED
    BY <1>2, <2>1, <2>2 DEF CronStep, CronGoesOn, MarkPicked, CronFails, NoNewCall
<1>3. ASSUME NEW b \in Blasts, SendPlain(b) PROVE NoNewCall
  BY <1>0, <1>3, GotoBeginsNoCall DEF SendPlain
<1>4. ASSUME NEW b \in Blasts, SendAbTest(b) PROVE NoNewCall
  <2>1. \A a \in Blasts : worker'[a].result = worker[a].result
    BY <1>0, <1>4 DEF SendAbTest, TypeOK
  <2> QED BY <2>1 DEF NoNewCall
<1>5. ASSUME NEW b \in Blasts, Crash(b) PROVE NoNewCall
  <2> DEFINE lost == [NoWorker EXCEPT !.pc = "lost"]
  <2>1. \A s \in Supporters : lost.result[s] = "none"
    BY DEF NoWorker
  <2>2. \A a \in Blasts : worker'[a] = lost \/ worker'[a] = worker[a]
    BY <1>5 DEF Crash
  <2> HIDE DEF lost
  <2> QED BY <2>1, <2>2 DEF NoNewCall
<1>6. ASSUME NEW b \in Blasts, TestElapses(b) PROVE NoNewCall
  BY <1>6 DEF TestElapses, NoNewCall
<1>7. CASE UNCHANGED worker
  BY <1>7 DEF NoNewCall
<1> QED
  BY <1>1, <1>2, <1>3, <1>4, <1>5, <1>6, <1>7 DEF Next, vars

\* SES takes a message only in a call that is out.
LEMMA MailIsOut ==
  ASSUME IInv, [Next]_vars, NEW b \in Blasts, NEW s \in Supporters,
         worker[b].result[s] # "calling"
  PROVE  mailed'[b][s] = mailed[b][s]
<1>0. mailed \in [Blasts -> [Supporters -> Nat]]
  BY DEF IInv, TypeOK
<1>1. CASE UNCHANGED mailed
  BY <1>1
<1>2. ASSUME NEW a \in Blasts, NEW u \in Supporters, Send(a, u) PROVE mailed'[b][s] = mailed[b][s]
  <2>1. a # b \/ u # s
    BY <1>2 DEF Send
  <2> QED BY <1>0, <1>2, <2>1 DEF Send
<1>3. ASSUME NEW a \in Blasts, Crash(a) PROVE mailed'[b][s] = mailed[b][s]
  <2> DEFINE gone == {x \in Isolate(a) : Running(x)}
  <2>1. PICK accepted \in SUBSET {p \in gone \X Supporters : p[2] \in Out(p[1])} :
          mailed' = [x \in Blasts |-> [y \in Supporters |->
                       mailed[x][y] + (IF <<x, y>> \in accepted THEN 1 ELSE 0)]]
    BY <1>3 DEF Crash
  <2>2. <<b, s>> \notin accepted
    <3>1. s \notin Out(b)
      BY DEF Out
    <3> QED BY <3>1
  <2> QED BY <1>0, <2>1, <2>2
<1> QED
  BY <1>1, <1>2, <1>3
  DEF Next, vars, SendStep, CronStep, CronGoesOn, Claim, CountRecipients, TakePage, RecordBatch,
      Finish, DbError, RecordFailure, Check, CreateVariantB, MarkPicked, CronFails, PickWinner, CreateWinner,
      SendPlain, SendAbTest, TestElapses

\* Whatever notifications, imports and faults interleave, from the moment a supporter leaves
\* the audience no message is sent to them but those already on their way (engine.ts:241).
THEOREM NobodyIsMailedAfterLeaving == Spec => NoMailAfterLeaving
<1> DEFINE Quiet == \A b \in Blasts, s \in Supporters :
             s \notin Subscribed /\ s \notin Out(b) =>
               s \notin Out(b)' /\ mailed'[b][s] = mailed[b][s]
<1>1. IInv /\ [Next]_vars => [Quiet]_vars
  <2> SUFFICES ASSUME IInv, [Next]_vars, NEW b \in Blasts, NEW s \in Supporters,
                      s \notin Subscribed, s \notin Out(b)
               PROVE  s \notin Out(b)' /\ mailed'[b][s] = mailed[b][s]
    OBVIOUS
  <2>1. worker[b].result[s] # "calling"
    BY DEF IInv, WorkerInv, Out
  <2>2. worker'[b].result[s] # "calling"
    <3>1. CASE NoNewCall
      BY <2>1, <3>1 DEF NoNewCall
    <3>2. ASSUME NEW a \in Blasts, NEW u \in Supporters, Check(a, u)
          PROVE  worker'[b].result[s] # "calling"
      <4>1. TypeOK
        BY DEF IInv
      <4>2. PICK outcome \in {"calling", "failed"} :
              /\ outcome = "calling" => u \in Subscribed
              /\ Becomes(a, blast[a], [worker[a] EXCEPT !.result = [@ EXCEPT ![u] = outcome]])
        BY <3>2, <4>1, CheckDoes
      <4> DEFINE w == [worker[a] EXCEPT !.result = [@ EXCEPT ![u] = outcome]]
      <4>3. \A x \in Supporters : w.result[x] = IF x = u THEN outcome ELSE worker[a].result[x]
        BY <4>1, RowsAreTyped DEF WorkerRow
      <4>4. worker'[a] = w /\ (b # a => worker'[b] = worker[b])
        BY <4>1, <4>2, BecomesIsTyped
      <4> HIDE DEF w
      <4> QED BY <2>1, <4>2, <4>3, <4>4
    <3> QED BY <3>1, <3>2, CallsBeginInCheck
  <2>3. s \notin Out(b)'
    BY <2>2 DEF Out
  <2> QED BY <2>1, <2>3, MailIsOut
<1> QED
  BY BlastInvariant, <1>1, PTL DEF Spec, NoMailAfterLeaving

-----------------------------------------------------------------------------
(* The numbers of a blast.                                                 *)

\* Parts of a finite set without anybody in common.
LEMMA PartsCount ==
  ASSUME NEW X, IsFiniteSet(X), NEW A \in SUBSET X, NEW B \in SUBSET X, A \cap B = {}
  PROVE  /\ Cardinality(A) \in Nat /\ Cardinality(B) \in Nat /\ Cardinality(X) \in Nat
         /\ Cardinality(A) + Cardinality(B) <= Cardinality(X)
         /\ A \cup B = X => Cardinality(A) + Cardinality(B) = Cardinality(X)
<1>1. IsFiniteSet(A) /\ IsFiniteSet(B) /\ A \cup B \in SUBSET X
  BY FS_Subset
<1>2. Cardinality(A) \in Nat /\ Cardinality(B) \in Nat /\ Cardinality(X) \in Nat
  BY <1>1, FS_CardinalityType
<1>3. Cardinality(A \cap B) = 0
  BY FS_EmptySet
<1>4. Cardinality(A \cup B) = Cardinality(A) + Cardinality(B)
  <2>1. Cardinality(A \cup B) = Cardinality(A) + Cardinality(B) - Cardinality(A \cap B)
    BY <1>1, FS_Union
  <2> QED BY <1>2, <1>3, <2>1
<1>5. Cardinality(A \cup B) <= Cardinality(X)
  BY <1>1, FS_Subset
<1> QED BY <1>2, <1>4, <1>5

\* What FirstOf leaves behind comes after what it takes.
LEMMA FirstOfIsFirst ==
  ASSUME NEW n \in Nat \ {0}, NEW S \in SUBSET Nat, IsFiniteSet(S),
         NEW p \in FirstOf(n, S), NEW s \in S, s \notin FirstOf(n, S)
  PROVE  s > p
<1>1. p \in S /\ s \in Nat /\ p \in Nat
  BY DEF FirstOf
<1> DEFINE before(x) == {r \in S : r < x}
<1>2. Cardinality(before(p)) < n /\ ~ (Cardinality(before(s)) < n)
  BY Zenon DEF FirstOf
<1> SUFFICES ASSUME s <= p PROVE FALSE
  BY <1>1
<1>3. before(s) \in SUBSET before(p)
  <2> SUFFICES ASSUME NEW r \in S, r < s PROVE r < p
    OBVIOUS
  <2> QED BY <1>1
<1>4. before(p) \in SUBSET S
  OBVIOUS
<1> HIDE DEF before
<1>5. IsFiniteSet(before(p))
  BY <1>4, FS_Subset
<1>6. Cardinality(before(s)) <= Cardinality(before(p))
  BY <1>3, <1>5, FS_Subset
<1>7. Cardinality(before(s)) \in Nat /\ Cardinality(before(p)) \in Nat
  <2>1. IsFiniteSet(before(s))
    BY <1>3, <1>5, FS_Subset
  <2> QED BY <1>5, <2>1, FS_CardinalityType
<1> QED BY <1>2, <1>6, <1>7

\* The counts. Ahead(b, n) are the selected recipients behind n; with everybody still
\* subscribed the numbers are exact.
Ahead(b, n) == {s \in Selected(b) : s > n}
Reached(b) == {s \in Supporters : mailed[b][s] > 0 /\ s <= worker[b].cursor}
Handled(b) == worker[b].sent + worker[b].failed

Adds(b, n) == n <= blast[b].total /\ (Subscribed = Supporters => n = blast[b].total)

LEMMA AheadIsFinite ==
  ASSUME TypeOK, NEW b \in Blasts, NEW n
  PROVE  /\ Ahead(b, n) \in SUBSET Supporters
         /\ IsFiniteSet(Ahead(b, n)) /\ Cardinality(Ahead(b, n)) \in Nat
<1>1. Ahead(b, n) \in SUBSET Supporters
  BY SelectedOnes DEF Ahead
<1> QED BY <1>1, CardinalitiesAreNatural

LEMMA SupportersAreNumbers ==
  ASSUME TypeOK, NEW b \in Blasts
  PROVE  /\ \A s \in Supporters : s \in Nat /\ s > 0
         /\ worker[b].cursor \in Nat /\ worker[b].sent \in Nat /\ worker[b].failed \in Nat
         /\ worker[b].page \in SUBSET Supporters /\ blast[b].total \in Nat
         /\ worker[b].result \in [Supporters -> {"none", "calling", "sent", "failed"}]
<1>1. \A s \in Supporters : s \in Nat /\ s > 0
  BY AudienceAssumption
<1>2. /\ worker[b].cursor \in Supporters \cup {0} /\ worker[b].sent \in Nat
      /\ worker[b].failed \in Nat /\ worker[b].page \in SUBSET Supporters
      /\ worker[b].result \in [Supporters -> {"none", "calling", "sent", "failed"}]
  BY RowsAreTyped DEF WorkerRow
<1>3. blast[b].total \in Nat
  BY RowsAreTyped DEF BlastRow
<1> QED BY <1>1, <1>2, <1>3

\* Nobody is skipped while the cursor's own row still matches the filter.
LEMMA RestIsAll ==
  ASSUME TypeOK, NEW b \in Blasts, worker[b].cursor = 0 \/ worker[b].cursor \in Selected(b)
  PROVE  Rest(b) = Ahead(b, worker[b].cursor)
<1> DEFINE cursor == worker[b].cursor
           from == {s \in Selected(b) : s >= cursor}
<1>1. cursor \in Nat /\ \A s \in Selected(b) : s \in Nat /\ s > 0
  BY SupportersAreNumbers, SelectedOnes
<1>2. CASE cursor = 0
  <2>1. Rest(b) = from
    BY <1>2 DEF Rest
  <2> QED BY <1>1, <1>2, <2>1 DEF Ahead
<1>3. CASE cursor # 0
  <2>1. cursor \in from /\ from \in SUBSET Nat
    BY <1>1, <1>3
  <2>2. Min(from) \in from /\ \A y \in from : Min(from) <= y
    <3> HIDE DEF from
    <3> QED BY <2>1, MinOf
  <2>3. Min(from) = cursor
    <3> DEFINE min == Min(from)
    <3> HIDE DEF min
    <3>1. min \in from /\ min <= cursor
      BY <2>1, <2>2 DEF min
    <3>2. min \in Nat /\ min >= cursor
      BY <1>1, <3>1
    <3>3. min = cursor
      BY <1>1, <3>1, <3>2
    <3> QED BY <3>3 DEF min
  <2>4. Rest(b) = from \ {cursor}
    BY <1>3, <2>1, <2>3 DEF Rest
  <2> QED BY <1>1, <2>4 DEF Ahead
<1> QED BY <1>2, <1>3

\* A page and those behind its last recipient are those behind the cursor.
LEMMA PageDivides ==
  ASSUME TypeOK, NEW b \in Blasts, NEW page, page = FirstOf(BatchSize, Rest(b)), page # {}
  PROVE  /\ Max(page) \in page
         /\ Cardinality(page) \in Nat
         /\ Cardinality(page) + Cardinality(Ahead(b, Max(page)))
              <= Cardinality(Ahead(b, worker[b].cursor))
         /\ worker[b].cursor = 0 \/ worker[b].cursor \in Selected(b) =>
              Cardinality(page) + Cardinality(Ahead(b, Max(page)))
                = Cardinality(Ahead(b, worker[b].cursor))
<1> DEFINE cursor == worker[b].cursor
           m == Max(page)
           rest == Rest(b)
<1>1. rest \in SUBSET Selected(b) /\ \A s \in rest : s > cursor
  BY RestIsBehind
<1>2. cursor \in Nat /\ Selected(b) \in SUBSET Supporters /\ \A s \in Supporters : s \in Nat
  BY SupportersAreNumbers, SelectedOnes
<1>3. rest \in SUBSET Nat /\ IsFiniteSet(rest)
  <2>1. rest \in SUBSET Supporters
    BY <1>1, <1>2
  <2> QED BY <1>2, <2>1, CardinalitiesAreNatural
<1>4. page \subseteq rest
  BY <1>3, FirstOfSet, BlastAssumption
<1>5. m \in page /\ \A y \in page : m >= y
  <2>1. page \in SUBSET Nat /\ IsFiniteSet(page)
    BY <1>3, <1>4, FS_Subset
  <2> QED BY <2>1, MaxOf
<1> HIDE DEF m
<1>6. m \in Nat /\ m > cursor
  BY <1>1, <1>2, <1>4, <1>5
<1>7. IsFiniteSet(Ahead(b, cursor))
  BY AheadIsFinite
<1>8. page \in SUBSET Ahead(b, cursor)
  BY <1>1, <1>4 DEF Ahead
<1>9. Ahead(b, m) \in SUBSET Ahead(b, cursor)
  BY <1>2, <1>6 DEF Ahead
<1>10. page \cap Ahead(b, m) = {}
  <2> SUFFICES ASSUME NEW s \in page, s > m PROVE FALSE
    BY DEF Ahead
  <2> QED BY <1>3, <1>4, <1>5, <1>6
<1>11. ASSUME cursor = 0 \/ cursor \in Selected(b) PROVE page \cup Ahead(b, m) = Ahead(b, cursor)
  <2>1. rest = Ahead(b, cursor)
    BY <1>11, RestIsAll
  <2>2. ASSUME NEW s \in Ahead(b, cursor), s \notin page PROVE s > m
    BY <1>3, <1>5, <2>1, <2>2, FirstOfIsFirst, BlastAssumption
  <2> QED BY <1>8, <1>9, <2>2 DEF Ahead
<1>12. /\ Cardinality(page) \in Nat
       /\ Cardinality(page) + Cardinality(Ahead(b, m)) <= Cardinality(Ahead(b, cursor))
       /\ page \cup Ahead(b, m) = Ahead(b, cursor) =>
            Cardinality(page) + Cardinality(Ahead(b, m)) = Cardinality(Ahead(b, cursor))
  BY <1>7, <1>8, <1>9, <1>10, PartsCount
<1> QED BY <1>5, <1>11, <1>12 DEF m

\* The numbers that a sent blast shows.
SentRight(b) ==
  /\ blast[b].sent <= Cardinality(Recipients(b))
  /\ Cardinality(Recipients(b)) <= blast[b].sent + blast[b].bounced
  /\ Adds(b, blast[b].sent + blast[b].bounced)

CountInv(b) ==
  /\ worker[b].pc \in {"claim", "count"} =>
       worker[b].cursor = 0 /\ worker[b].sent = 0 /\ worker[b].failed = 0
  /\ worker[b].pc \in {"page", "mail", "finish"} =>
       /\ worker[b].sent <= Cardinality(Reached(b)) /\ Cardinality(Reached(b)) <= Handled(b)
       /\ Subscribed = Supporters => worker[b].cursor = 0 \/ worker[b].cursor \in Selected(b)
  /\ worker[b].pc = "page" => Adds(b, Handled(b) + Cardinality(Ahead(b, worker[b].cursor)))
  /\ worker[b].pc = "mail" =>
       /\ Adds(b, Handled(b) + Cardinality(worker[b].page)
                    + Cardinality(Ahead(b, Max(worker[b].page))))
       /\ Subscribed = Supporters => worker[b].page \subseteq Selected(b)
       /\ \A s \in worker[b].page : worker[b].result[s] = "sent" => mailed[b][s] > 0
  /\ worker[b].pc = "finish" => Adds(b, Handled(b)) /\ Reached(b) = Recipients(b)
  /\ blast[b].status = "sent" => SentRight(b)

CInv == IInv /\ NeverResubscribes /\ \A b \in Blasts : CountInv(b)

LEMMA SameCounts ==
  ASSUME NEW b \in Blasts, CountInv(b), Subscribed' = Subscribed,
         worker'[b] = worker[b], mailed'[b] = mailed[b],
         blast'[b].test = blast[b].test, blast'[b].exclude = blast[b].exclude,
         blast'[b].total = blast[b].total, blast'[b].sent = blast[b].sent,
         blast'[b].bounced = blast[b].bounced,
         blast'[b].status = "sent" => blast[b].status = "sent"
  PROVE  CountInv(b)'
<1>1. Selected(b)' = Selected(b) /\ Reached(b)' = Reached(b) /\ Recipients(b)' = Recipients(b)
  BY DEF Selected, Reached, Recipients
<1>2. /\ Ahead(b, worker[b].cursor)' = Ahead(b, worker[b].cursor)
      /\ Ahead(b, Max(worker[b].page))' = Ahead(b, Max(worker[b].page))
      /\ Handled(b)' = Handled(b)
  BY <1>1 DEF Ahead, Handled
<1> QED BY <1>1, <1>2 DEF CountInv, Adds, SentRight

\* A step of blast b does not touch the counts of the others.
LEMMA OwnCounts ==
  ASSUME CInv, NEW b \in Blasts, NEW r, NEW w, Becomes(b, r, w), UNCHANGED audienceVars,
         \A a \in Blasts : a # b => mailed'[a] = mailed[a], CountInv(b)'
  PROVE  \A a \in Blasts : CountInv(a)'
<1> SUFFICES ASSUME NEW a \in Blasts, a # b PROVE CountInv(a)'
  OBVIOUS
<1>1. blast'[a] = blast[a] /\ worker'[a] = worker[a] /\ mailed'[a] = mailed[a]
  BY BecomesIsTyped DEF CInv, IInv
<1>2. Subscribed' = Subscribed
  BY DEF audienceVars, Subscribed
<1> QED BY <1>1, <1>2, SameCounts DEF CInv

\* Nothing is counted of a promise that has ended or is about to fail.
LEMMA NoCounts ==
  ASSUME NEW b \in Blasts, blast'[b].status # "sent",
         worker'[b].pc \in {"none", "pair", "fail", "done", "lost"}
  PROVE  CountInv(b)'
BY DEF CountInv

LEMMA CountParts ==
  ASSUME CInv, NEW b \in Blasts
  PROVE  /\ TypeOK /\ IInv /\ CountInv(b) /\ WorkerInv(b) /\ MailInv(b)
         /\ blast[b] \in BlastRow /\ worker[b] \in WorkerRow
         /\ mailed \in [Blasts -> [Supporters -> Nat]]
BY Parts DEF CInv

LEMMA SetsOfRecipients ==
  ASSUME TypeOK, NEW b \in Blasts
  PROVE  /\ IsFiniteSet(Reached(b)) /\ Cardinality(Reached(b)) \in Nat
         /\ IsFiniteSet(Recipients(b)) /\ Cardinality(Recipients(b)) \in Nat
<1>1. Reached(b) \in SUBSET Supporters /\ Recipients(b) \in SUBSET Supporters
  BY DEF Reached, Recipients
<1> QED BY <1>1, CardinalitiesAreNatural

LEMMA ClaimCounts ==
  ASSUME CInv, NEW b \in Blasts, Claim(b)
  PROVE  \A a \in Blasts : CountInv(a)'
<1> DEFINE r == [blast[b] EXCEPT !.status = "sending"]
           w == [worker[b] EXCEPT !.pc = "count"]
<1>1. TypeOK /\ CountInv(b) /\ blast[b] \in BlastRow /\ worker[b] \in WorkerRow
  BY CountParts
<1>2. Becomes(b, r, w) /\ UNCHANGED <<audienceVars, mailed>> /\ worker[b].pc = "claim"
  BY <1>1, ClaimDoes DEF Claim, At
<1>3. blast'[b] = r /\ worker'[b] = w
  BY <1>1, <1>2, BecomesIsTyped
<1>4. /\ r.status = "sending" /\ w.pc = "count" /\ w.cursor = worker[b].cursor
      /\ w.sent = worker[b].sent /\ w.failed = worker[b].failed
  BY <1>1 DEF BlastRow, WorkerRow
<1> HIDE DEF r, w
<1>5. CountInv(b)'
  BY <1>1, <1>2, <1>3, <1>4 DEF CountInv
<1> QED BY <1>2, <1>5, OwnCounts

\* Before the first page nobody has a message, and everybody selected is counted.
LEMMA CountRecipientsCounts ==
  ASSUME CInv, NEW b \in Blasts, CountRecipients(b)
  PROVE  \A a \in Blasts : CountInv(a)'
<1> DEFINE next == IF Selected(b) = {} THEN "finish" ELSE "page"
           total == Cardinality(Selected(b))
           r == [blast[b] EXCEPT !.total = total]
           w == [worker[b] EXCEPT !.pc = next]
<1>1. /\ TypeOK /\ IInv /\ CountInv(b) /\ MailInv(b) /\ blast[b] \in BlastRow
      /\ worker[b] \in WorkerRow /\ mailed \in [Blasts -> [Supporters -> Nat]]
  BY CountParts
<1>2. Becomes(b, r, w) /\ UNCHANGED <<audienceVars, mailed>> /\ worker[b].pc = "count"
  BY <1>1, CountRecipientsDoes DEF CountRecipients, At
<1>3. blast'[b] = r /\ worker'[b] = w
  BY <1>1, <1>2, BecomesIsTyped
<1>4. total \in Nat /\ (Selected(b) = {} => total = 0)
  BY <1>1, SelectedOnes, CardinalitiesAreNatural, FS_EmptySet
<1>5. worker[b].cursor = 0 /\ worker[b].sent = 0 /\ worker[b].failed = 0
  BY <1>1, <1>2 DEF CountInv
<1>6. next \in {"finish", "page"} /\ (next = "finish" => Selected(b) = {})
  OBVIOUS
<1>7. total = Cardinality(Selected(b))
  OBVIOUS
<1> HIDE DEF next, total
<1>8. /\ r.status = blast[b].status /\ r.total = total /\ r.test = blast[b].test
      /\ r.exclude = blast[b].exclude
      /\ w.pc = next /\ w.cursor = 0 /\ w.sent = 0 /\ w.failed = 0
  BY <1>1, <1>4, <1>5 DEF BlastRow, WorkerRow
<1> HIDE DEF r, w
<1>9. blast[b].status # "sent"
  BY <1>1, <1>2, WorkingBlast
<1>10. /\ Subscribed' = Subscribed /\ Selected(b)' = Selected(b)
  BY <1>2, <1>3, <1>8 DEF audienceVars, Subscribed, Selected
<1>11. Handled(b)' = 0
  BY <1>3, <1>8 DEF Handled
<1>12. Reached(b)' = {} /\ Recipients(b)' = {}
  <2>1. ASSUME NEW s \in Supporters PROVE ~ (mailed'[b][s] > 0)
    BY <1>1, <1>2 DEF MailInv
  <2> QED BY <2>1 DEF Reached, Recipients
<1>13. Cardinality(Reached(b)') = 0
  BY <1>12, FS_EmptySet
<1>14. Ahead(b, worker[b].cursor)' = Selected(b)
  <2>1. \A s \in Selected(b) : s > 0
    BY <1>1, SupportersAreNumbers, SelectedOnes
  <2> QED BY <1>3, <1>8, <1>10, <2>1 DEF Ahead
<1>15. next = "page" => Adds(b, Handled(b) + Cardinality(Ahead(b, worker[b].cursor)))'
  BY <1>3, <1>4, <1>7, <1>8, <1>11, <1>14 DEF Adds
<1>16. next = "finish" => Adds(b, Handled(b))'
  BY <1>3, <1>4, <1>6, <1>8, <1>11 DEF Adds
<1>17. CountInv(b)'
  BY <1>3, <1>6, <1>8, <1>9, <1>11, <1>12, <1>13, <1>15, <1>16 DEF CountInv
<1> QED BY <1>2, <1>17, OwnCounts

LEMMA TakePageCounts ==
  ASSUME CInv, NEW b \in Blasts, TakePage(b)
  PROVE  \A a \in Blasts : CountInv(a)'
<1>1. /\ TypeOK /\ IInv /\ CountInv(b) /\ MailInv(b) /\ worker[b] \in WorkerRow
      /\ mailed \in [Blasts -> [Supporters -> Nat]]
  BY CountParts
<1> DEFINE next == IF Rest(b) = {} THEN "finish" ELSE "mail"
<1>2. PICK page \in SUBSET Supporters :
    /\ page = FirstOf(BatchSize, Rest(b)) /\ (Rest(b) # {} => page # {})
    /\ Becomes(b, blast[b],
         [worker[b] EXCEPT !.pc = next, !.page = page, !.result = [s \in Supporters |-> "none"]])
  BY <1>1, TakePageDoes
<1> DEFINE w == [worker[b] EXCEPT !.pc = next, !.page = page,
                                  !.result = [s \in Supporters |-> "none"]]
<1>3. /\ next = "finish" => Rest(b) = {}
      /\ next = "mail" => Rest(b) # {}
      /\ next \in {"finish", "mail"}
  OBVIOUS
<1> HIDE DEF next
<1>4. blast'[b] = blast[b] /\ worker'[b] = w
  BY <1>1, <1>2, BecomesIsTyped
<1>5. worker[b].pc = "page" /\ UNCHANGED <<audienceVars, mailed>>
  BY DEF TakePage, At
<1>6. blast[b].status # "sent"
  BY <1>1, <1>5, WorkingBlast
<1>7. /\ w.pc = next /\ w.page = page /\ w.cursor = worker[b].cursor
      /\ w.sent = worker[b].sent /\ w.failed = worker[b].failed
      /\ \A s \in Supporters : w.result[s] = "none"
  BY <1>1 DEF WorkerRow
<1>8. Becomes(b, blast[b], w)
  BY <1>2
<1> HIDE DEF w
<1>9. /\ Subscribed' = Subscribed /\ Selected(b)' = Selected(b) /\ Handled(b)' = Handled(b)
      /\ Reached(b)' = Reached(b) /\ Recipients(b)' = Recipients(b)
  BY <1>4, <1>5, <1>7 DEF audienceVars, Subscribed, Selected, Handled, Reached, Recipients
<1>10. /\ worker[b].sent <= Cardinality(Reached(b)) /\ Cardinality(Reached(b)) <= Handled(b)
       /\ Subscribed = Supporters => worker[b].cursor = 0 \/ worker[b].cursor \in Selected(b)
       /\ Adds(b, Handled(b) + Cardinality(Ahead(b, worker[b].cursor)))
  BY <1>1, <1>5 DEF CountInv
<1>11. /\ Handled(b) \in Nat /\ blast[b].total \in Nat
       /\ Cardinality(Ahead(b, worker[b].cursor)) \in Nat
  BY <1>1, SupportersAreNumbers, AheadIsFinite DEF Handled
<1>12. CASE next = "finish"
  <2>1. Rest(b) = {}
    BY <1>3, <1>12
  <2>2. Subscribed = Supporters => Cardinality(Ahead(b, worker[b].cursor)) = 0
    BY <1>1, <1>10, <2>1, RestIsAll, FS_EmptySet
  <2>3. Adds(b, Handled(b))
    BY <1>10, <1>11, <2>2 DEF Adds
  <2>4. Adds(b, Handled(b))'
    BY <1>4, <1>9, <2>3 DEF Adds
  <2>5. Reached(b) = Recipients(b)
    BY <1>1, <1>5 DEF Reached, Recipients, MailInv
  <2> QED BY <1>4, <1>6, <1>7, <1>8, <1>9, <1>10, <1>12, <1>5, <2>4, <2>5, OwnCounts DEF CountInv
<1>13. CASE next = "mail"
  <2> DEFINE m == Max(page)
  <2>1. page # {} /\ page = FirstOf(BatchSize, Rest(b))
    BY <1>2, <1>3, <1>13
  <2>2. /\ m \in page /\ Cardinality(page) \in Nat
        /\ Cardinality(page) + Cardinality(Ahead(b, m)) <= Cardinality(Ahead(b, worker[b].cursor))
        /\ worker[b].cursor = 0 \/ worker[b].cursor \in Selected(b) =>
             Cardinality(page) + Cardinality(Ahead(b, m)) = Cardinality(Ahead(b, worker[b].cursor))
    BY <1>1, <2>1, PageDivides
  <2>3. Cardinality(Ahead(b, m)) \in Nat
    BY <1>1, AheadIsFinite
  <2>4. Adds(b, Handled(b) + Cardinality(page) + Cardinality(Ahead(b, m)))
    BY <1>10, <1>11, <2>2, <2>3 DEF Adds
  <2>5. Ahead(b, Max(worker[b].page))' = Ahead(b, m)
    BY <1>4, <1>7, <1>9 DEF Ahead
  <2>6. Adds(b, Handled(b) + Cardinality(worker[b].page)
                  + Cardinality(Ahead(b, Max(worker[b].page))))'
    <3> HIDE DEF m
    <3> QED BY <1>4, <1>7, <1>9, <2>4, <2>5 DEF Adds
  <2>7. page \subseteq Selected(b)
    <3>1. Rest(b) \in SUBSET Selected(b) /\ Rest(b) \in SUBSET Nat
      BY <1>1, RestIsBehind, SelectedOnes, SupportersAreNumbers
    <3> QED BY <2>1, <3>1, FirstOfSet, BlastAssumption
  <2>8. CountInv(b)'
    BY <1>4, <1>6, <1>7, <1>9, <1>10, <1>13, <2>6, <2>7 DEF CountInv
  <2> QED BY <1>5, <1>8, <2>8, OwnCounts
<1> QED BY <1>3, <1>12, <1>13

\* While a page is mailed the counts stay: who gets a message is on the page.
LEMMA MailingCounts ==
  ASSUME CInv, NEW b \in Blasts, NEW w, Becomes(b, blast[b], w), UNCHANGED audienceVars,
         worker[b].pc = "mail", w.pc = "mail", w.page = worker[b].page, w.cursor = worker[b].cursor,
         w.sent = worker[b].sent, w.failed = worker[b].failed,
         \A a \in Blasts : a # b => mailed'[a] = mailed[a],
         \A s \in Supporters : mailed'[b][s] = mailed[b][s] \/ s > worker[b].cursor,
         \A s \in worker[b].page : w.result[s] = "sent" => mailed'[b][s] > 0
  PROVE  \A a \in Blasts : CountInv(a)'
<1>1. TypeOK /\ IInv /\ CountInv(b)
  BY CountParts
<1>2. blast'[b] = blast[b] /\ worker'[b] = w
  BY <1>1, BecomesIsTyped
<1>3. blast[b].status # "sent"
  BY <1>1, WorkingBlast
<1>4. /\ Subscribed' = Subscribed /\ Selected(b)' = Selected(b) /\ Handled(b)' = Handled(b)
  BY <1>2 DEF audienceVars, Subscribed, Selected, Handled
<1>5. Ahead(b, Max(worker[b].page))' = Ahead(b, Max(worker[b].page))
  BY <1>2, <1>4 DEF Ahead
<1>6. Reached(b)' = Reached(b)
  <2>1. worker[b].cursor \in Nat /\ \A s \in Supporters : s \in Nat
    BY <1>1, SupportersAreNumbers
  <2> QED BY <1>2, <2>1 DEF Reached
<1>7. CountInv(b)'
  BY <1>1, <1>2, <1>3, <1>4, <1>5, <1>6 DEF CountInv, Adds
<1> QED BY <1>7, OwnCounts

LEMMA CheckCounts ==
  ASSUME CInv, NEW b \in Blasts, NEW s \in Supporters, Check(b, s)
  PROVE  \A a \in Blasts : CountInv(a)'
<1>1. TypeOK /\ CountInv(b) /\ worker[b] \in WorkerRow
  BY CountParts
<1>2. PICK outcome \in {"calling", "failed"} :
        Becomes(b, blast[b], [worker[b] EXCEPT !.result = [@ EXCEPT ![s] = outcome]])
  BY <1>1, CheckDoes
<1> DEFINE w == [worker[b] EXCEPT !.result = [@ EXCEPT ![s] = outcome]]
<1>3. worker[b].pc = "mail" /\ UNCHANGED <<audienceVars, mailed>>
  BY DEF Check, At
<1>4. /\ w.pc = "mail" /\ w.page = worker[b].page /\ w.cursor = worker[b].cursor
      /\ w.sent = worker[b].sent /\ w.failed = worker[b].failed
      /\ \A u \in Supporters : w.result[u] = IF u = s THEN outcome ELSE worker[b].result[u]
  BY <1>1, <1>3 DEF WorkerRow
<1>5. Becomes(b, blast[b], w)
  BY <1>2
<1> HIDE DEF w
<1>6. \A u \in worker[b].page : w.result[u] = "sent" => mailed'[b][u] > 0
  <2>1. worker[b].page \in SUBSET Supporters
    BY <1>1 DEF WorkerRow
  <2> QED BY <1>1, <1>3, <1>4, <2>1 DEF CountInv
<1> QED BY <1>3, <1>4, <1>5, <1>6, MailingCounts

LEMMA SendCounts ==
  ASSUME CInv, NEW b \in Blasts, NEW s \in Supporters, Send(b, s)
  PROVE  \A a \in Blasts : CountInv(a)'
<1>1. /\ TypeOK /\ CountInv(b) /\ WorkerInv(b) /\ worker[b] \in WorkerRow
      /\ mailed \in [Blasts -> [Supporters -> Nat]]
  BY CountParts
<1>2. PICK accepted \in BOOLEAN, outcome \in {"sent", "failed"} :
        /\ outcome = "sent" => accepted
        /\ mailed' = IF accepted THEN [mailed EXCEPT ![b][s] = @ + 1] ELSE mailed
        /\ Becomes(b, blast[b], [worker[b] EXCEPT !.result = [@ EXCEPT ![s] = outcome]])
  BY <1>1, SendDoes
<1> DEFINE w == [worker[b] EXCEPT !.result = [@ EXCEPT ![s] = outcome]]
<1>3. worker[b].pc = "mail" /\ worker[b].result[s] = "calling" /\ UNCHANGED audienceVars
  BY DEF Send, At
<1>4. /\ w.pc = "mail" /\ w.page = worker[b].page /\ w.cursor = worker[b].cursor
      /\ w.sent = worker[b].sent /\ w.failed = worker[b].failed
      /\ \A u \in Supporters : w.result[u] = IF u = s THEN outcome ELSE worker[b].result[u]
  BY <1>1, <1>3 DEF WorkerRow
<1>5. Becomes(b, blast[b], w)
  BY <1>2
<1> HIDE DEF w
<1>6. /\ \A a \in Blasts : a # b => mailed'[a] = mailed[a]
      /\ \A u \in Supporters : u # s => mailed'[b][u] = mailed[b][u]
      /\ accepted => mailed'[b][s] > 0
  <2>1. CASE accepted
    BY <1>1, <1>2, <2>1
  <2>2. CASE ~accepted
    BY <1>2, <2>2
  <2> QED BY <2>1, <2>2
<1>7. s > worker[b].cursor
  BY <1>1, <1>3 DEF WorkerInv
<1>8. \A u \in worker[b].page : w.result[u] = "sent" => mailed'[b][u] > 0
  <2>1. worker[b].page \in SUBSET Supporters
    BY <1>1 DEF WorkerRow
  <2> QED BY <1>1, <1>2, <1>3, <1>4, <1>6, <2>1 DEF CountInv
<1> QED BY <1>3, <1>4, <1>5, <1>6, <1>7, <1>8, MailingCounts

\* A page that is answered for: as many recipients as answers, and whoever is counted as
\* sent has the message.
LEMMA RecordBatchCounts ==
  ASSUME CInv, NEW b \in Blasts, RecordBatch(b)
  PROVE  \A a \in Blasts : CountInv(a)'
<1>1. /\ TypeOK /\ IInv /\ CountInv(b) /\ WorkerInv(b) /\ MailInv(b) /\ worker[b] \in WorkerRow
      /\ mailed \in [Blasts -> [Supporters -> Nat]]
  BY CountParts
<1> DEFINE page == worker[b].page
           m == Max(page)
           oks == Outcome(b, "sent")
           fails == Outcome(b, "failed")
           sent == worker[b].sent + Cardinality(oks)
           failed == worker[b].failed + Cardinality(fails)
           w == [worker[b] EXCEPT !.pc = "page", !.page = {}, !.cursor = m,
                   !.result = [s \in Supporters |-> "none"], !.sent = sent, !.failed = failed]
<1>2. m \in page /\ (\A s \in page : s <= m) /\ Becomes(b, blast[b], w)
  BY <1>1, RecordBatchDoes
<1>3. blast'[b] = blast[b] /\ worker'[b] = w
  <2> HIDE DEF w
  <2> QED BY <1>1, <1>2, BecomesIsTyped
<1>4. worker[b].pc = "mail" /\ Settled(b) /\ UNCHANGED <<audienceVars, mailed>>
  BY DEF RecordBatch, At
<1>5. blast[b].status # "sent"
  BY <1>1, <1>4, WorkingBlast
<1>6. w.pc = "page" /\ w.cursor = m /\ w.sent = sent /\ w.failed = failed
  <2> HIDE DEF m, sent, failed
  <2> QED BY <1>1 DEF WorkerRow
<1>7. Becomes(b, blast[b], w)
  BY <1>2
<1> HIDE DEF w
<1>8. /\ worker[b].cursor \in Nat /\ worker[b].sent \in Nat /\ worker[b].failed \in Nat
      /\ blast[b].total \in Nat /\ page \in SUBSET Supporters /\ \A s \in Supporters : s \in Nat
  BY <1>1, SupportersAreNumbers
<1>9. IsFiniteSet(page)
  BY <1>8, CardinalitiesAreNatural
\* Every answer is one of two.
<1>10. /\ Cardinality(oks) \in Nat /\ Cardinality(fails) \in Nat /\ Cardinality(page) \in Nat
       /\ Cardinality(oks) + Cardinality(fails) = Cardinality(page)
  <2>1. oks \in SUBSET page /\ fails \in SUBSET page /\ oks \cap fails = {} /\ oks \cup fails = page
    BY <1>4 DEF Outcome, Settled
  <2> HIDE DEF oks, fails, page
  <2> QED BY <1>9, <2>1, PartsCount
\* Those reached on the page.
<1> DEFINE new == {s \in page : mailed[b][s] > 0}
           reached == Reached(b)
           next == {s \in Supporters : mailed[b][s] > 0 /\ s <= m}
<1>11. Reached(b)' = next
  BY <1>3, <1>4, <1>6 DEF Reached
<1>12. oks \in SUBSET new /\ new \in SUBSET page
  BY <1>1, <1>4 DEF CountInv, Outcome
<1>13. reached \in SUBSET next /\ new \in SUBSET next /\ reached \cap new = {}
       /\ reached \cup new = next
  <2>1. \A s \in page : s > worker[b].cursor
    BY <1>1, <1>4 DEF WorkerInv
  <2>2. \A s \in Supporters : mailed[b][s] > 0 => s <= worker[b].cursor \/ s \in page
    BY <1>1, <1>4 DEF MailInv
  <2>3. m \in Nat /\ m > worker[b].cursor
    BY <1>2, <1>8, <2>1
  <2> HIDE DEF page, m
  <2>4. \A s \in Supporters : s <= worker[b].cursor => s <= m
    BY <1>8, <2>3
  <2>5. \A s \in Supporters : s <= worker[b].cursor => s \notin page
    BY <1>8, <2>1
  <2> QED BY <1>2, <1>8, <2>2, <2>4, <2>5 DEF Reached
<1>14. IsFiniteSet(next) /\ IsFiniteSet(new)
  <2>1. next \in SUBSET Supporters
    OBVIOUS
  <2> HIDE DEF next, new, page
  <2> QED BY <1>9, <1>12, <2>1, CardinalitiesAreNatural, FS_Subset
<1>15. /\ Cardinality(reached) \in Nat /\ Cardinality(new) \in Nat
       /\ Cardinality(next) = Cardinality(reached) + Cardinality(new)
  <2> HIDE DEF next, new, reached
  <2> QED BY <1>13, <1>14, PartsCount
<1>16. Cardinality(oks) <= Cardinality(new) /\ Cardinality(new) <= Cardinality(page)
  <2> HIDE DEF new, oks, page
  <2> QED BY <1>9, <1>12, <1>14, FS_Subset
\* The sums.
<1>17. Subscribed' = Subscribed /\ Selected(b)' = Selected(b)
  BY <1>3, <1>4 DEF audienceVars, Subscribed, Selected
<1>18. Ahead(b, worker[b].cursor)' = Ahead(b, m) /\ Cardinality(Ahead(b, m)) \in Nat
  <2>1. Ahead(b, worker[b].cursor)' = Ahead(b, m)
    BY <1>3, <1>6, <1>17 DEF Ahead
  <2> QED BY <1>1, <2>1, AheadIsFinite
<1>19. Handled(b)' = Handled(b) + Cardinality(page)
  <2>1. Handled(b)' = sent + failed
    BY <1>3, <1>6 DEF Handled
  <2> HIDE DEF page, oks, fails
  <2> QED BY <1>8, <1>10, <2>1 DEF Handled
<1>20. /\ worker[b].sent <= Cardinality(reached) /\ Cardinality(reached) <= Handled(b)
       /\ Adds(b, Handled(b) + Cardinality(page) + Cardinality(Ahead(b, m)))
       /\ Subscribed = Supporters => page \subseteq Selected(b)
  BY <1>1, <1>4 DEF CountInv
<1>21. Adds(b, Handled(b) + Cardinality(Ahead(b, worker[b].cursor)))'
  <2> HIDE DEF page, m
  <2> QED BY <1>3, <1>17, <1>18, <1>19, <1>20 DEF Adds
<1>22. worker'[b].sent <= Cardinality(Reached(b)') /\ Cardinality(Reached(b)') <= Handled(b)'
  <2>1. Handled(b) \in Nat
    BY <1>8 DEF Handled
  <2> HIDE DEF page, reached, new, next, oks
  <2> QED BY <1>3, <1>6, <1>8, <1>10, <1>11, <1>15, <1>16, <1>19, <1>20, <2>1
<1>23. Subscribed' = Supporters => worker'[b].cursor \in Selected(b)'
  <2> HIDE DEF m, page
  <2> QED BY <1>2, <1>3, <1>6, <1>17, <1>20
<1>24. CountInv(b)'
  BY <1>3, <1>5, <1>6, <1>21, <1>22, <1>23 DEF CountInv
<1> QED BY <1>4, <1>7, <1>24, OwnCounts

LEMMA FinishCounts ==
  ASSUME CInv, NEW b \in Blasts, Finish(b)
  PROVE  \A a \in Blasts : CountInv(a)'
<1>1. /\ TypeOK /\ CountInv(b) /\ blast[b] \in BlastRow /\ worker[b] \in WorkerRow
  BY CountParts
<1> DEFINE r == [blast[b] EXCEPT !.status = "sent", !.sent = worker[b].sent,
                                 !.bounced = worker[b].failed]
<1>2. r \in BlastRow
  BY <1>1 DEF BlastRow, WorkerRow
<1>3. blast' = [blast EXCEPT ![b] = r]
  BY <1>1 DEF Finish, BlastRow, TypeOK
<1>4. r.sent = worker[b].sent /\ r.bounced = worker[b].failed /\ r.total = blast[b].total
  BY <1>1 DEF BlastRow
<1>5. worker[b].pc = "finish" /\ Stop(b, "done") /\ UNCHANGED <<audienceVars, mailed>>
  BY DEF Finish, At
<1>6. PICK w \in WorkerRow : worker' = [worker EXCEPT ![b] = w] /\ w.pc = "done"
  BY <1>1, <1>5, StopDoes
<1> HIDE DEF r
<1>7. Becomes(b, r, w)
  BY <1>2, <1>3, <1>6 DEF Becomes
<1>8. blast'[b] = r /\ worker'[b] = w
  BY <1>1, <1>7, BecomesIsTyped
<1>9. Subscribed' = Subscribed /\ Recipients(b)' = Recipients(b)
  BY <1>5 DEF audienceVars, Subscribed, Recipients
<1>10. /\ worker[b].sent <= Cardinality(Recipients(b))
       /\ Cardinality(Recipients(b)) <= Handled(b) /\ Adds(b, Handled(b))
  BY <1>1, <1>5 DEF CountInv
<1>11. SentRight(b)'
  BY <1>4, <1>8, <1>9, <1>10 DEF SentRight, Adds, Handled
<1>12. CountInv(b)'
  BY <1>6, <1>8, <1>11 DEF CountInv
<1> QED BY <1>5, <1>7, <1>12, OwnCounts

\* The other ends of a promise, and the steps that do not concern sending.
LEMMA OtherSendCounts ==
  ASSUME CInv, NEW b \in Blasts, DbError(b) \/ RecordFailure(b)
  PROVE  \A a \in Blasts : CountInv(a)'
<1>1. TypeOK /\ IInv /\ worker \in [Blasts -> WorkerRow] /\ blast \in [Blasts -> BlastRow]
  BY DEF CInv, IInv, TypeOK, WorkerRow, BlastRow
<1>2. worker[b].pc \notin {"none", "done"} /\ UNCHANGED <<audienceVars, mailed>>
  BY DEF DbError, RecordFailure, At
<1>3. blast[b].status # "sent"
  BY <1>1, <1>2, WorkingBlast
<1>4. blast'[b].status # "sent" /\ \A a \in Blasts : a # b => blast'[a] = blast[a]
  <2>1. CASE DbError(b)
    BY <1>3, <2>1 DEF DbError
  <2>2. CASE RecordFailure(b)
    <3>1. blast' = [blast EXCEPT ![b].status = "failed"]
      BY <2>2 DEF RecordFailure
    <3> QED BY <1>1, <3>1 DEF BlastRow
  <2> QED BY <2>1, <2>2
<1>5. /\ worker'[b].pc \in {"fail", "done", "lost"}
      /\ \A a \in Blasts : a # b => worker'[a] = worker[a]
  <2>1. CASE Goto(b, "fail")
    BY <1>1, <2>1 DEF Goto, WorkerRow
  <2>2. ASSUME NEW pc \in {"done", "lost"}, Stop(b, pc)
        PROVE  /\ worker'[b].pc \in {"fail", "done", "lost"}
               /\ \A a \in Blasts : a # b => worker'[a] = worker[a]
    BY <1>1, <2>2, StopDoes
  <2> QED BY <2>1, <2>2 DEF DbError, RecordFailure
<1>6. ASSUME NEW a \in Blasts PROVE CountInv(a)'
  <2>1. CASE a = b
    BY <1>4, <1>5, <2>1, NoCounts
  <2>2. CASE a # b
    BY <1>2, <1>4, <1>5, <2>2, SameCounts DEF CInv, audienceVars, Subscribed
  <2> QED BY <2>1, <2>2
<1> QED BY <1>6

\* A new row counts nothing yet.
LEMMA NewCounts ==
  ASSUME CInv, NEW b \in Blasts, UNCHANGED <<audienceVars, mailed>>,
         \A a \in Blasts : a # b => blast'[a] = blast[a],
         blast'[b].status = "draft",
         worker'[b].pc \in {"pair", "claim"}, worker'[b].cursor = 0,
         worker'[b].sent = 0, worker'[b].failed = 0,
         \A a \in Blasts : a # b => \/ worker'[a] = worker[a]
                                    \/ /\ blast[a].status # "sent"
                                       /\ worker'[a] = [NoWorker EXCEPT !.pc = "claim"]
  PROVE  \A a \in Blasts : CountInv(a)'
<1>1. ASSUME NEW a \in Blasts PROVE CountInv(a)'
  <2>1. CASE a = b
    BY <2>1 DEF CountInv
  <2>2. CASE a # b /\ worker'[a] = worker[a]
    BY <2>2, SameCounts DEF CInv, audienceVars, Subscribed
  <2>3. CASE a # b /\ blast[a].status # "sent" /\ worker'[a] = [NoWorker EXCEPT !.pc = "claim"]
    <3>1. /\ worker'[a].pc = "claim" /\ worker'[a].cursor = 0 /\ worker'[a].sent = 0
          /\ worker'[a].failed = 0
      BY <2>3 DEF NoWorker
    <3> QED BY <2>3, <3>1 DEF CountInv
  <2> QED BY <2>1, <2>2, <2>3
<1> QED BY <1>1

LEMMA CreatingCounts ==
  ASSUME CInv, NEW b \in Blasts, NextBlast(b),
         \/ SendPlain(b) \/ SendAbTest(b)
         \/ \E a \in Blasts : CreateVariantB(a, b)
         \/ \E c \in Crons : CreateWinner(c, b)
  PROVE  \A a \in Blasts : CountInv(a)'
<1>1. /\ TypeOK /\ IInv /\ worker \in [Blasts -> WorkerRow] /\ blast \in [Blasts -> BlastRow]
  BY DEF CInv, IInv, TypeOK, WorkerRow, BlastRow
<1>2. worker[b] = NoWorker
  BY <1>1, FreshBlast
<1>3. /\ NoWorker.cursor = 0 /\ NoWorker.sent = 0 /\ NoWorker.failed = 0
      /\ NoWorker.pc = "none"
  BY DEF NoWorker
<1>4. ASSUME Goto(b, "claim")
      PROVE  /\ worker'[b].pc = "claim" /\ worker'[b].cursor = 0
             /\ worker'[b].sent = 0 /\ worker'[b].failed = 0
             /\ \A a \in Blasts : a # b => worker'[a] = worker[a]
  BY <1>1, <1>2, <1>3, <1>4 DEF Goto, WorkerRow
<1>5. ASSUME SendPlain(b) PROVE \A a \in Blasts : CountInv(a)'
  <2> DEFINE r == [NoBlast EXCEPT !.status = "draft", !.total = Cardinality(Subscribed)]
  <2>1. blast' = [blast EXCEPT ![b] = r] /\ Goto(b, "claim") /\ UNCHANGED <<audienceVars, mailed>>
    BY <1>5 DEF SendPlain
  <2>2. r.status = "draft"
    BY DEF NoBlast
  <2> HIDE DEF r
  <2>3. blast'[b].status = "draft" /\ \A a \in Blasts : a # b => blast'[a] = blast[a]
    BY <1>1, <2>1, <2>2
  <2> QED BY <1>4, <2>1, <2>3, NewCounts
<1>6. ASSUME NEW c \in Crons, CreateWinner(c, b) PROVE \A a \in Blasts : CountInv(a)'
  <2> DEFINE r == [NoBlast EXCEPT !.status = "draft", !.kind = "winner", !.parent = cron[c].test,
                     !.test = blast[cron[c].winner].test,
                     !.exclude = UNION {blast[v].test : v \in VariantsOf(cron[c].test)}]
  <2>1. blast' = [blast EXCEPT ![b] = r] /\ Goto(b, "claim") /\ UNCHANGED <<audienceVars, mailed>>
    BY <1>6 DEF CreateWinner
  <2>2. r.status = "draft"
    BY DEF NoBlast
  <2> HIDE DEF r
  <2>3. blast'[b].status = "draft" /\ \A a \in Blasts : a # b => blast'[a] = blast[a]
    BY <1>1, <2>1, <2>2
  <2> QED BY <1>4, <2>1, <2>3, NewCounts
<1>7. ASSUME SendAbTest(b) PROVE \A a \in Blasts : CountInv(a)'
  <2>1. PICK groups \in Groups(Subscribed) :
         /\ blast' = [blast EXCEPT ![b] =
              [NoBlast EXCEPT !.status = "draft", !.kind = "A", !.parent = b,
                              !.test = groups[1], !.total = Cardinality(groups[1])]]
         /\ worker' = [worker EXCEPT ![b].pc = "pair", ![b].page = groups[2]]
    BY <1>7 DEF SendAbTest
  <2> DEFINE r == [NoBlast EXCEPT !.status = "draft", !.kind = "A", !.parent = b,
                              !.test = groups[1], !.total = Cardinality(groups[1])]
  <2>2. r.status = "draft"
    BY DEF NoBlast
  <2>3. blast' = [blast EXCEPT ![b] = r]
    BY <2>1
  <2> HIDE DEF r
  <2>4. blast'[b].status = "draft" /\ \A a \in Blasts : a # b => blast'[a] = blast[a]
    BY <1>1, <2>2, <2>3
  <2>5. /\ worker'[b].pc = "pair" /\ worker'[b].cursor = 0
        /\ worker'[b].sent = 0 /\ worker'[b].failed = 0
        /\ \A a \in Blasts : a # b => worker'[a] = worker[a]
    BY <1>1, <1>2, <1>3, <2>1 DEF WorkerRow
  <2>6. UNCHANGED <<audienceVars, mailed>>
    BY <1>7 DEF SendAbTest
  <2> QED BY <2>4, <2>5, <2>6, NewCounts
<1>8. ASSUME NEW a \in Blasts, CreateVariantB(a, b) PROVE \A x \in Blasts : CountInv(x)'
  <2> DEFINE r == [NoBlast EXCEPT !.status = "draft", !.kind = "B", !.parent = a,
                     !.test = worker[a].page, !.total = Cardinality(worker[a].page)]
             w == [NoWorker EXCEPT !.pc = "claim"]
  <2>1. /\ blast' = [blast EXCEPT ![b] = r] /\ worker[a].pc = "pair"
        /\ worker' = [worker EXCEPT ![a] = w, ![b].pc = "claim"]
        /\ UNCHANGED <<audienceVars, mailed>>
    BY <1>8 DEF CreateVariantB, At
  <2>2. r.status = "draft"
    BY DEF NoBlast
  <2> HIDE DEF r
  <2>3. blast'[b].status = "draft" /\ \A x \in Blasts : x # b => blast'[x] = blast[x]
    BY <1>1, <2>1, <2>2
  <2>4. a # b /\ blast[a].status # "sent"
    BY <1>1, <1>2, <1>3, <2>1, WorkingBlast
  <2>5. worker[b].pc = "none" /\ worker[b].cursor = 0 /\ worker[b].sent = 0 /\ worker[b].failed = 0
    BY <1>2, <1>3
  <2>6. worker'[b].pc = "claim" /\ worker'[b].cursor = 0 /\ worker'[b].sent = 0 /\ worker'[b].failed = 0
    <3> HIDE DEF w
    <3> QED BY <1>1, <2>1, <2>4, <2>5 DEF WorkerRow
  <2>7. worker'[a] = w /\ \A x \in Blasts : x # a /\ x # b => worker'[x] = worker[x]
    <3> HIDE DEF w
    <3> QED BY <1>1, <2>1, <2>4
  <2>8. \A x \in Blasts : x # b => \/ worker'[x] = worker[x]
                                  \/ /\ blast[x].status # "sent"
                                     /\ worker'[x] = [NoWorker EXCEPT !.pc = "claim"]
    BY <2>4, <2>7
  <2>9. UNCHANGED <<audienceVars, mailed>> /\ blast'[b].status = "draft"
        /\ worker'[b].pc \in {"pair", "claim"}
    BY <2>1, <2>3, <2>6
  <2> HIDE DEF w
  <2> QED BY <2>3, <2>6, <2>8, <2>9, NewCounts
<1> QED BY <1>5, <1>6, <1>7, <1>8

LEMMA CrashCounts ==
  ASSUME CInv, NEW b \in Blasts, Crash(b)
  PROVE  \A a \in Blasts : CountInv(a)'
<1> DEFINE lost == [NoWorker EXCEPT !.pc = "lost"]
           gone == {a \in Isolate(b) : Running(a)}
<1>1. TypeOK /\ IInv /\ mailed \in [Blasts -> [Supporters -> Nat]]
  BY DEF CInv, IInv, TypeOK
<1>2. /\ UNCHANGED <<audienceVars, blast>>
      /\ worker' = [a \in Blasts |-> IF a \in gone THEN lost ELSE worker[a]]
  BY Zenon DEF Crash
<1>3. PICK accepted \in SUBSET {p \in gone \X Supporters : p[2] \in Out(p[1])} :
        mailed' = [a \in Blasts |-> [s \in Supporters |->
                     mailed[a][s] + (IF <<a, s>> \in accepted THEN 1 ELSE 0)]]
  BY DEF Crash
<1>4. lost.pc = "lost"
  BY DEF NoWorker
<1> HIDE DEF lost
<1>5. ASSUME NEW a \in Blasts PROVE CountInv(a)'
  <2>1. CASE a \in gone
    <3>1. blast[a].status # "sent"
      BY <1>1, <2>1, WorkingBlast DEF Running
    <3> QED BY <1>2, <1>4, <2>1, <3>1, NoCounts
  <2>2. CASE a \notin gone
    <3>1. \A s \in Supporters : mailed'[a][s] = mailed[a][s]
      BY <1>1, <1>3, <2>2
    <3>2. mailed'[a] = [s \in Supporters |-> mailed[a][s]]
      BY <1>1, <1>3, <3>1
    <3>3. mailed'[a] = mailed[a]
      BY <1>1, <3>2
    <3> HIDE DEF gone
    <3> QED BY <1>2, <2>2, <3>3, SameCounts DEF CInv, audienceVars, Subscribed
  <2> QED BY <2>1, <2>2
<1> QED BY <1>5

LEMMA QuietCounts ==
  ASSUME CInv, UNCHANGED <<audienceVars, worker, mailed>>,
         \A a \in Blasts :
           /\ blast'[a].status = blast[a].status /\ blast'[a].test = blast[a].test
           /\ blast'[a].exclude = blast[a].exclude /\ blast'[a].total = blast[a].total
           /\ blast'[a].sent = blast[a].sent /\ blast'[a].bounced = blast[a].bounced
  PROVE  \A a \in Blasts : CountInv(a)'
BY SameCounts DEF CInv, audienceVars, Subscribed

LEMMA ElapsingCounts ==
  ASSUME CInv, NEW t \in Blasts, TestElapses(t)
  PROVE  \A a \in Blasts : CountInv(a)'
<1>1. blast \in [Blasts -> BlastRow]
  BY DEF CInv, IInv, TypeOK, BlastRow
<1>2. blast' = [blast EXCEPT ![t].elapsed = TRUE] /\ UNCHANGED <<audienceVars, worker, mailed>>
  BY DEF TestElapses
<1> QED BY <1>1, <1>2, QuietCounts DEF BlastRow

LEMMA CronCounts ==
  ASSUME CInv, NEW c \in Crons,
         MarkPicked(c) \/ CronFails(c) \/ \E t \in Blasts : PickWinner(c, t)
  PROVE  \A a \in Blasts : CountInv(a)'
<1>1. blast \in [Blasts -> BlastRow]
  BY DEF CInv, IInv, TypeOK, BlastRow
<1>2. CASE MarkPicked(c)
  <2>1. /\ UNCHANGED <<audienceVars, worker, mailed>>
        /\ \A a \in Blasts :
             blast'[a] = blast[a] \/ blast'[a] = [blast[a] EXCEPT !.winnerPicked = TRUE]
    BY <1>2 DEF MarkPicked
  <2>2. ASSUME NEW a \in Blasts
        PROVE  /\ blast'[a].status = blast[a].status /\ blast'[a].test = blast[a].test
               /\ blast'[a].exclude = blast[a].exclude /\ blast'[a].total = blast[a].total
               /\ blast'[a].sent = blast[a].sent /\ blast'[a].bounced = blast[a].bounced
    <3>1. blast[a] \in BlastRow
      BY <1>1
    <3> QED BY <2>1, <3>1 DEF BlastRow
  <2> QED BY <2>1, <2>2, QuietCounts
<1>3. CASE CronFails(c) \/ \E t \in Blasts : PickWinner(c, t)
  BY <1>3, QuietCounts DEF PickWinner, CronFails
<1> QED BY <1>2, <1>3

\* Whoever leaves the audience is passed over, or already counted.
LEMMA AudienceCounts ==
  ASSUME CInv, [AudienceNext]_audienceVars, UNCHANGED <<blast, worker, mailed>>
  PROVE  \A b \in Blasts : CountInv(b)'
<1>1. TypeOK /\ AudienceTypeOK /\ NeverResubscribes
  BY DEF CInv, IInv, TypeOK
<1>2. Subscribed' \subseteq Subscribed /\ Subscribed \subseteq Supporters
  <2>1. ASSUME NEW s \in Subscribed' PROVE s \in Subscribed
    BY <1>1, <2>1, NobodyComesBack DEF Subscribed
  <2> QED BY <2>1 DEF Subscribed
<1>3. Subscribed' = Supporters => Subscribed' = Subscribed
  BY <1>2
<1> SUFFICES ASSUME NEW b \in Blasts PROVE CountInv(b)'
  OBVIOUS
<1>4. CASE Subscribed' = Subscribed
  BY <1>4, SameCounts DEF CInv
<1>5. CASE Subscribed' # Supporters
  <2>1. /\ Reached(b)' = Reached(b) /\ Recipients(b)' = Recipients(b)
        /\ Handled(b)' = Handled(b) /\ Handled(b) \in Nat
    BY <1>1, SupportersAreNumbers DEF Reached, Recipients, Handled
  <2>2. /\ blast[b].total \in Nat /\ blast[b].sent \in Nat /\ blast[b].bounced \in Nat
        /\ Cardinality(worker[b].page) \in Nat
    BY <1>1, SupportersAreNumbers, CardinalitiesAreNatural, RowsAreTyped DEF BlastRow
  <2>3. ASSUME NEW n
        PROVE  /\ Cardinality(Ahead(b, n)') \in Nat /\ Cardinality(Ahead(b, n)) \in Nat
               /\ Cardinality(Ahead(b, n)') <= Cardinality(Ahead(b, n))
    <3> DEFINE then == {s \in Selected(b)' : s > n}
    <3>1. then \subseteq Ahead(b, n)
      BY <1>2 DEF Ahead, Selected
    <3>2. Ahead(b, n)' = then
      BY DEF Ahead
    <3>3. IsFiniteSet(Ahead(b, n)) /\ Cardinality(Ahead(b, n)) \in Nat
      BY <1>1, AheadIsFinite
    <3> HIDE DEF then
    <3>4. /\ IsFiniteSet(then)
          /\ Cardinality(then) <= Cardinality(Ahead(b, n))
      BY <3>1, <3>3, FS_Subset
    <3>5. Cardinality(then) \in Nat
      BY <3>4, FS_CardinalityType
    <3> QED BY <3>2, <3>3, <3>4, <3>5
  <2>4. ASSUME NEW n \in Nat, NEW m \in Nat, m <= n, Adds(b, n) PROVE Adds(b, m)'
    BY <1>5, <2>2, <2>4 DEF Adds
  <2>5. CountInv(b)
    BY DEF CInv
  <2>6. worker'[b].pc = "page" =>
          Adds(b, Handled(b) + Cardinality(Ahead(b, worker[b].cursor)))'
    <3> DEFINE n == worker[b].cursor
    <3>1. Ahead(b, worker[b].cursor)' = {s \in Selected(b)' : s > n}
      BY DEF Ahead
    <3> QED BY <2>1, <2>3, <2>4, <2>5, <3>1 DEF CountInv
  <2>7. worker'[b].pc = "mail" =>
          Adds(b, Handled(b) + Cardinality(worker[b].page)
                    + Cardinality(Ahead(b, Max(worker[b].page))))'
    BY <2>1, <2>2, <2>3, <2>4, <2>5 DEF CountInv
  <2>8. blast'[b].status = "sent" => SentRight(b)'
    BY <1>5, <2>1, <2>2, <2>5 DEF CountInv, SentRight, Adds
  <2>9. worker'[b].pc = "finish" => Adds(b, Handled(b))' /\ Reached(b)' = Recipients(b)'
    BY <1>5, <2>1, <2>5 DEF CountInv, Adds
  <2> QED BY <1>5, <2>1, <2>5, <2>6, <2>7, <2>8, <2>9 DEF CountInv
<1> QED BY <1>3, <1>4, <1>5

\* Every step keeps the counts.
LEMMA EveryStepCounts ==
  ASSUME CInv, [Next]_vars
  PROVE  \A b \in Blasts : CountInv(b)'
<1>1. ASSUME NEW b \in Blasts, SendStep(b) PROVE \A x \in Blasts : CountInv(x)'
  <2>1. ASSUME NEW s \in Supporters, Check(b, s) \/ Send(b, s)
        PROVE  \A x \in Blasts : CountInv(x)'
    BY <2>1, CheckCounts, SendCounts
  <2>2. ASSUME NEW other \in Blasts, CreateVariantB(b, other)
        PROVE  \A x \in Blasts : CountInv(x)'
    BY <2>2, CreatingCounts DEF CreateVariantB
  <2> QED
    BY <1>1, <2>1, <2>2, ClaimCounts, CountRecipientsCounts, TakePageCounts, RecordBatchCounts,
       FinishCounts, OtherSendCounts DEF SendStep
<1>2. ASSUME NEW c \in Crons, CronStep(c) PROVE \A x \in Blasts : CountInv(x)'
  <2>1. ASSUME NEW b \in Blasts, PickWinner(c, b) PROVE \A x \in Blasts : CountInv(x)'
    BY <2>1, CronCounts
  <2>2. ASSUME NEW b \in Blasts, CreateWinner(c, b) PROVE \A x \in Blasts : CountInv(x)'
    BY <2>2, CreatingCounts DEF CreateWinner
  <2>3. CASE MarkPicked(c) \/ CronFails(c)
    BY <2>3, CronCounts
  <2> QED
    BY <1>2, <2>1, <2>2, <2>3 DEF CronStep, CronGoesOn
<1>3. ASSUME NEW b \in Blasts, SendPlain(b) \/ SendAbTest(b)
      PROVE  \A x \in Blasts : CountInv(x)'
  BY <1>3, CreatingCounts DEF SendPlain, SendAbTest
<1>4. ASSUME NEW b \in Blasts, Crash(b)
      PROVE  \A x \in Blasts : CountInv(x)'
  BY <1>4, CrashCounts
<1>5. ASSUME NEW b \in Blasts, TestElapses(b)
      PROVE  \A x \in Blasts : CountInv(x)'
  BY <1>5, ElapsingCounts
<1>6. CASE AudienceNext /\ UNCHANGED <<blast, worker, cron, mailed>>
  BY <1>6, AudienceCounts
<1>7. CASE UNCHANGED vars
  BY <1>7, AudienceCounts DEF vars, audienceVars
<1> QED
  BY <1>1, <1>2, <1>3, <1>4, <1>5, <1>6, <1>7 DEF Next

\* Only the audience touches the importers.
LEMMA OnlyTheAudience == [Next]_vars => [AudienceNext]_audienceVars
BY ZenonT(30) DEF Next, vars, audienceVars, SendStep, CronStep, CronGoesOn, Claim, CountRecipients, TakePage, RecordBatch,
       Finish, DbError, RecordFailure, Check, Send, CreateVariantB, MarkPicked, CronFails,
       PickWinner, CreateWinner, SendPlain, SendAbTest, TestElapses, Crash

\* The numbers of a sent blast account for its recipients, whatever is lost, refused or
\* crashes, and they are exact while nobody leaves (engine.ts:303-403).
THEOREM NumbersAccountForRecipients == Spec => []SentIsAccountedFor
<1>1. Init => CInv
  <2> SUFFICES ASSUME Init PROVE CInv
    OBVIOUS
  <2>1. NeverResubscribes
    BY DEF Init, AudienceInit, NoImport, NeverResubscribes
  <2>2. NoBlast.status = "none" /\ NoWorker.pc = "none"
    BY DEF NoBlast, NoWorker
  <2>3. \A b \in Blasts : blast[b] = NoBlast /\ worker[b] = NoWorker
    BY DEF Init
  <2>4. \A b \in Blasts : CountInv(b)
    BY <2>2, <2>3 DEF CountInv
  <2> QED BY <2>1, <2>4, InitStep DEF CInv
<1>2. CInv /\ [Next]_vars => CInv'
  <2> SUFFICES ASSUME CInv, [Next]_vars PROVE CInv'
    OBVIOUS
  <2>1. IInv'
    BY EveryStep DEF CInv
  <2>2. NeverResubscribes'
    BY OnlyTheAudience, ImportsNeverResubscribe DEF CInv, IInv, TypeOK
  <2> QED BY <2>1, <2>2, EveryStepCounts DEF CInv
<1>3. CInv => SentIsAccountedFor
  BY DEF CInv, CountInv, SentRight, Adds, SentIsAccountedFor
<1> QED
  BY <1>1, <1>2, <1>3, PTL DEF Spec

=============================================================================
