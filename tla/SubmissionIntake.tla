-------------------------- MODULE SubmissionIntake --------------------------
(***************************************************************************)
(* How a submission gets into the table: POST /api/submissions/create and  *)
(* the legislative endpoint's handleSubmission. Each looks before it       *)
(* inserts, one statement at a time and at READ COMMITTED, so that another *)
(* request may insert in between; the unique indexes on nullifier and      *)
(* idempotency key have the last word.                                     *)
(***************************************************************************)
EXTENDS FiniteSets

CONSTANTS
  Users, Nullifiers,
  Keys,      \* idempotency keys
  Bodies,    \* the requests clients send, see BodyType
  Requests,  \* requests in flight
  None

\* `via' is the endpoint; only create looks at the idempotency key.
BodyType == [via : {"create", "legislative"}, user : Users, nullifier : Nullifiers,
             key : Keys \cup {None}]

\* A client draws a key for one request and repeats it only to repeat that request.
KeysNameOneRequest ==
  \A a, b \in Bodies :
    a.key = b.key /\ a.key # None => a.user = b.user /\ a.nullifier = b.nullifier

ASSUME IntakeAssumption ==
  /\ Bodies \subseteq BodyType
  /\ \A b \in Bodies : b.via = "legislative" => b.key = None
  /\ None \notin Users \cup Nullifiers \cup Keys
  /\ None \notin [user : Users, nullifier : Nullifiers]

VARIABLES
  rows,  \* rows[n]: owner and key of the submission with nullifier n
  req    \* req[r]: where request r is, and its body

vars == <<rows, req>>

NoRow == [owner |-> None, key |-> None]
Exists(n) == rows[n].owner # None
KeyTaken(k) == k # None /\ \E n \in Nullifiers : rows[n].key = k

NoRequest == [pc |-> "idle", body |-> None]

Init ==
  /\ rows = [n \in Nullifiers |-> NoRow]
  /\ req = [r \in Requests |-> NoRequest]

At(r, pc) == req[r].pc = pc
Goto(r, pc) == req' = [req EXCEPT ![r].pc = pc]
Body(r) == req[r].body

\* Authentication and the checks of the body are behind the request.
Receive(r, b) ==
  /\ At(r, "idle")
  /\ req' = [req EXCEPT ![r] =
       [pc |-> IF b.key # None THEN "key" ELSE "nullifier", body |-> b]]
  /\ UNCHANGED rows

CheckKey(r) ==
  /\ At(r, "key")
  /\ Goto(r, IF KeyTaken(Body(r).key) THEN "stored" ELSE "nullifier")
  /\ UNCHANGED rows

\* create returns a row to its owner; the legislative endpoint refuses any row.
CheckNullifier(r) ==
  LET row == rows[Body(r).nullifier]
  IN /\ At(r, "nullifier")
     /\ Goto(r, CASE row.owner = None -> "insert"
                  [] Body(r).via = "create" /\ row.owner = Body(r).user -> "stored"
                  [] OTHER -> "refused")
     /\ UNCHANGED rows

\* Mutant of Insert: nullifier is not unique.
InsertWithoutIndex(r) ==
  /\ At(r, "insert")
  /\ ~KeyTaken(Body(r).key)
  /\ rows' = [rows EXCEPT ![Body(r).nullifier] =
                [owner |-> Body(r).user, key |-> Body(r).key]]
  /\ Goto(r, "stored")

Insert(r) ==
  /\ At(r, "insert")
  /\ ~Exists(Body(r).nullifier) /\ ~KeyTaken(Body(r).key)
  /\ rows' = [rows EXCEPT ![Body(r).nullifier] =
                [owner |-> Body(r).user, key |-> Body(r).key]]
  /\ Goto(r, "stored")

\* The unique index on nullifier or on idempotency_key refuses the row: a 500.
InsertViolatesIndex(r) ==
  /\ At(r, "insert")
  /\ Exists(Body(r).nullifier) \/ KeyTaken(Body(r).key)
  /\ Goto(r, "error")
  /\ UNCHANGED rows

\* The isolate is evicted or the database fails before the commit.
Abort(r) ==
  /\ req[r].pc \in {"key", "nullifier", "insert"}
  /\ Goto(r, "aborted")
  /\ UNCHANGED rows

Next ==
  \E r \in Requests :
    \/ \E b \in Bodies : Receive(r, b)
    \/ CheckKey(r) \/ CheckNullifier(r)
    \/ Insert(r) \/ InsertViolatesIndex(r) \/ Abort(r)

Spec == Init /\ [][Next]_vars

-----------------------------------------------------------------------------
(* Properties.                                                             *)

Pcs == {"idle", "key", "nullifier", "insert", "stored", "refused", "error", "aborted"}

TypeOK ==
  /\ rows \in [Nullifiers -> [owner : Users \cup {None}, key : Keys \cup {None}]]
  /\ req \in [Requests -> [pc : Pcs, body : Bodies \cup {None}]]

\* The registry that the table and the requests in flight stand for: an aborted request
\* is one that failed, and a request is open until it has its reply.
ownerBar == [n \in Nullifiers |-> rows[n].owner]

askBar ==
  [r \in Requests |->
     IF At(r, "idle") THEN None
     ELSE [user |-> Body(r).user, nullifier |-> Body(r).nullifier]]

replyBar ==
  [r \in Requests |->
     CASE req[r].pc \in {"stored", "refused", "error"} -> req[r].pc
       [] At(r, "aborted") -> "error"
       [] OTHER -> "none"]

Registry == INSTANCE NullifierRegistry WITH
  owner <- ownerBar, ask <- askBar, reply <- replyBar

\* Whatever requests race, every one of them is served as if alone and a nullifier
\* keeps its first owner ("Transaction ensures no race conditions on duplicate
\* submissions", submissions/create/+server.ts:119).
ImplementsRegistry == Registry!Spec

=============================================================================
