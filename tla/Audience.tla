------------------------------ MODULE Audience ------------------------------
(***************************************************************************)
(* Whether a supporter may be mailed: the email_status column, written by  *)
(* the notifications of SES (routes/api/ses-webhook), by the unsubscribe   *)
(* link and by the two importers, which look a supporter up and write the  *)
(* stricter of two statuses in a later statement.                          *)
(***************************************************************************)
EXTENDS Integers

CONSTANTS
  Supporters,  \* supporters of one organisation, by id; ids are ordered
  Imports,     \* rows an importer processes
  MaxNotices   \* bound: notifications and unsubscribe requests

ASSUME AudienceAssumption ==
  /\ Supporters \subseteq Nat \ {0}
  /\ MaxNotices \in Nat

VARIABLES
  emailStatus,  \* emailStatus[s]: email_status
  import,       \* import[i]: what an importer's row has read and is about to write
  notices       \* how many notifications and requests have come

audienceVars == <<emailStatus, import, notices>>

Rank == [subscribed |-> 0, unsubscribed |-> 1, bounced |-> 2, complained |-> 3]
Statuses == DOMAIN Rank

Subscribed == {s \in Supporters : emailStatus[s] = "subscribed"}

NoImport == [pc |-> "idle", sub |-> 0, status |-> "subscribed"]

AudienceInit ==
  /\ emailStatus = [s \in Supporters |-> "subscribed"]
  /\ import = [i \in Imports |-> NoImport]
  /\ notices = 0

Notice ==
  /\ notices < MaxNotices
  /\ notices' = notices + 1
  /\ UNCHANGED import

\* A permanent bounce; it does not weaken a complaint.
Bounce(s) ==
  /\ Notice
  /\ emailStatus' = IF emailStatus[s] = "complained" THEN emailStatus
                    ELSE [emailStatus EXCEPT ![s] = "bounced"]

Complain(s) ==
  /\ Notice
  /\ emailStatus' = [emailStatus EXCEPT ![s] = "complained"]

Unsubscribe(s) ==
  /\ Notice
  /\ emailStatus' = [emailStatus EXCEPT ![s] = "unsubscribed"]

\* Mutant of Stricter: the file's word counts.
FileWins(a, b) == b

Stricter(a, b) == IF Rank[a] >= Rank[b] THEN a ELSE b

\* The row of a file says `mapped' about s. Nothing is written if that is no stricter
\* than what the importer reads.
ImportRead(i, s, mapped) ==
  LET status == Stricter(emailStatus[s], mapped)
  IN /\ import[i].pc = "idle"
     /\ import' = [import EXCEPT ![i] =
          IF status = emailStatus[s] THEN [NoImport EXCEPT !.pc = "done"]
          ELSE [pc |-> "write", sub |-> s, status |-> status]]
     /\ UNCHANGED <<emailStatus, notices>>

\* The update goes by id alone, whatever the status has become.
ImportWrite(i) ==
  /\ import[i].pc = "write"
  /\ emailStatus' = [emailStatus EXCEPT ![import[i].sub] = import[i].status]
  /\ import' = [import EXCEPT ![i] = [NoImport EXCEPT !.pc = "done"]]
  /\ UNCHANGED notices

AudienceNext ==
  \/ \E s \in Supporters : Bounce(s) \/ Complain(s) \/ Unsubscribe(s)
  \/ \E i \in Imports, s \in Supporters, mapped \in Statuses : ImportRead(i, s, mapped)
  \/ \E i \in Imports : ImportWrite(i)

AudienceTypeOK ==
  /\ emailStatus \in [Supporters -> Statuses]
  /\ import \in [Imports -> [pc : {"idle", "write", "done"}, sub : Supporters \cup {0},
                             status : Statuses]]
  /\ notices \in 0..MaxNotices

\* Nobody who bounced, complained or unsubscribed comes back: not by the other
\* notifications, nor by an importer that wrote what it had read before
\* (ses-webhook/+server.ts:121-146, an/importer.ts:359-379).
SuppressedForever ==
  [][\A s \in Supporters : s \notin Subscribed => s \notin Subscribed']_audienceVars
=============================================================================
