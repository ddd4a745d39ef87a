----------------------- MODULE SubmissionIntakeProofs -----------------------
(***************************************************************************)
(* For any number of users, nullifiers, keys and concurrent requests: if   *)
(* clients reuse an idempotency key only to repeat a request, the looks    *)
(* and the insert of the intake, taken one statement at a time, implement  *)
(* the registry that serves every request at one moment.                   *)
(***************************************************************************)
EXTENDS SubmissionIntake, TLAPS

\* Once received, a request has a body.
BodyOK ==
  /\ DOMAIN req = Requests
  /\ \A r \in Requests :
       /\ req[r] = [pc |-> req[r].pc, body |-> req[r].body]
       /\ req[r].pc \in Pcs
       /\ req[r].pc # "idle" => req[r].body \in Bodies

\* A row is the row of one of the clients' requests: who finds it by its key finds
\* the user and the nullifier of that request.
RowOK ==
  /\ rows \in [Nullifiers -> [owner : Users \cup {None}, key : Keys \cup {None}]]
  /\ \A n \in Nullifiers :
       rows[n].key # None =>
         \E b \in Bodies : b.key = rows[n].key /\ b.user = rows[n].owner /\ b.nullifier = n

IntakeInv == BodyOK /\ RowOK

\* The empty table with no request received.
LEMMA InitIntake == Init => IntakeInv
  BY DEF Init, IntakeInv, BodyOK, RowOK, NoRequest, NoRow, Pcs

\* What a step to another place does to the requests.
LEMMA GotoKeepsBody ==
  ASSUME BodyOK, NEW r \in Requests, NEW pc \in Pcs, Goto(r, pc)
  PROVE  /\ req'[r].pc = pc
         /\ \A q \in Requests : req'[q].body = req[q].body
         /\ \A q \in Requests : q # r => req'[q] = req[q]
  BY DEF BodyOK, Goto

\* Every step keeps requests and rows what they are.
LEMMA IntakeStep == IntakeInv /\ [Next]_vars => IntakeInv'
<1> SUFFICES ASSUME IntakeInv, [Next]_vars
             PROVE  IntakeInv'
  OBVIOUS
<1>0. BodyOK /\ RowOK
  BY DEF IntakeInv
<1>1. ASSUME NEW r \in Requests, NEW b \in Bodies, Receive(r, b)
      PROVE  IntakeInv'
  <2>1. BodyOK'
    BY <1>0, <1>1 DEF BodyOK, Receive, Pcs, At
  <2> QED  BY <1>0, <1>1, <2>1 DEF IntakeInv, RowOK, Receive
<1>2. ASSUME NEW r \in Requests, NEW pc \in Pcs, Goto(r, pc), ~At(r, "idle")
      PROVE  BodyOK'
  BY <1>0, <1>2 DEF BodyOK, Goto, At
<1>3. ASSUME NEW r \in Requests,
             CheckKey(r) \/ CheckNullifier(r) \/ InsertViolatesIndex(r) \/ Abort(r)
      PROVE  IntakeInv'
  <2>1. ~At(r, "idle") /\ UNCHANGED rows
    BY <1>3 DEF CheckKey, CheckNullifier, InsertViolatesIndex, Abort, At
  <2>2. \E pc \in Pcs : Goto(r, pc)
    BY <1>3 DEF CheckKey, CheckNullifier, InsertViolatesIndex, Abort, Pcs
  <2>3. BodyOK'
    BY <1>2, <2>1, <2>2
  <2> QED  BY <1>0, <2>1, <2>3 DEF IntakeInv, RowOK
<1>4. ASSUME NEW r \in Requests, Insert(r)
      PROVE  IntakeInv'
  <2>1. BodyOK'
    BY <1>2, <1>4 DEF Insert, At, Pcs
  <2>2. Body(r) \in Bodies /\ Body(r).user \in Users /\ Body(r).key \in Keys \cup {None}
    BY <1>0, <1>4, IntakeAssumption DEF Insert, At, Body, BodyOK, BodyType
  <2>3. RowOK'
    BY <1>0, <1>4, <2>2 DEF RowOK, Insert
  <2> QED  BY <2>1, <2>3 DEF IntakeInv
<1>5. CASE UNCHANGED vars
  BY <1>0, <1>5 DEF vars, IntakeInv, BodyOK, RowOK
<1> QED
  BY <1>1, <1>3, <1>4, <1>5 DEF Next

-----------------------------------------------------------------------------
(* The refinement.                                                         *)

\* A request that was received and is not answered is pending in the registry, with
\* the user and nullifier of its body.
LEMMA PendingBar ==
  ASSUME IntakeInv, NEW r \in Requests, req[r].pc \in {"key", "nullifier", "insert"}
  PROVE  /\ Registry!Pending(r)
         /\ askBar[r].user = Body(r).user /\ askBar[r].nullifier = Body(r).nullifier
         /\ Body(r) \in BodyType
<1>1. Body(r) \in Bodies
  BY DEF IntakeInv, BodyOK, Body
<1>2. Body(r) \in BodyType
  BY <1>1, IntakeAssumption
<1>3. askBar[r] = [user |-> Body(r).user, nullifier |-> Body(r).nullifier]
  BY DEF askBar, At
<1>4. askBar[r] # None
  BY <1>2, <1>3, IntakeAssumption DEF BodyType
<1>5. replyBar[r] = "none"
  BY DEF replyBar, At
<1> QED
  BY <1>2, <1>3, <1>4, <1>5 DEF Registry!Pending

\* A step that answers a request answers it in the registry, and asks nothing.
LEMMA AnswerBar ==
  ASSUME IntakeInv, NEW r \in Requests, ~At(r, "idle"),
         NEW pc \in {"stored", "refused", "error"}, Goto(r, pc)
  PROVE  /\ UNCHANGED askBar
         /\ replyBar' = [replyBar EXCEPT ![r] = pc]
<1>0. BodyOK /\ pc \in Pcs
  BY DEF IntakeInv, Pcs
<1>1. /\ req'[r].pc = pc
      /\ \A q \in Requests : req'[q].body = req[q].body
      /\ \A q \in Requests : q # r => req'[q] = req[q]
  BY <1>0, GotoKeepsBody
<1>2. \A q \in Requests : askBar'[q] = askBar[q]
  BY <1>1 DEF askBar, At, Body
<1>3. \A q \in Requests : replyBar'[q] = IF q = r THEN pc ELSE replyBar[q]
  BY <1>1 DEF replyBar, At
<1>4. askBar' = askBar
  BY <1>2 DEF askBar
<1>5. replyBar' = [replyBar EXCEPT ![r] = pc]
  BY <1>3, ZenonT(30) DEF replyBar
<1> QED
  BY <1>4, <1>5

\* A look that finds nothing is not visible in the registry.
LEMMA StutterBar ==
  ASSUME IntakeInv, NEW r \in Requests, req[r].pc \in {"key", "nullifier", "insert"},
         NEW pc \in {"nullifier", "insert"}, Goto(r, pc)
  PROVE  UNCHANGED <<askBar, replyBar>>
<1>0. BodyOK /\ pc \in Pcs
  BY DEF IntakeInv, Pcs
<1>1. /\ req'[r].pc = pc
      /\ \A q \in Requests : req'[q].body = req[q].body
      /\ \A q \in Requests : q # r => req'[q] = req[q]
  BY <1>0, GotoKeepsBody
<1>2. \A q \in Requests : askBar'[q] = askBar[q]
  BY <1>1 DEF askBar, At, Body
<1>3. \A q \in Requests : replyBar'[q] = replyBar[q]
  BY <1>1 DEF replyBar, At
<1> QED
  BY <1>2, <1>3 DEF askBar, replyBar

\* The row a key finds is the row of the request that repeats the key.
LEMMA KeyFindsOwnRow ==
  ASSUME KeysNameOneRequest, IntakeInv, NEW r \in Requests, At(r, "key"),
         KeyTaken(Body(r).key)
  PROVE  rows[Body(r).nullifier].owner = Body(r).user
<1>1. Body(r) \in Bodies
  BY DEF IntakeInv, BodyOK, Body, At
<1>2. PICK n \in Nullifiers : rows[n].key = Body(r).key /\ Body(r).key # None
  BY DEF KeyTaken
<1>3. PICK b \in Bodies : b.key = rows[n].key /\ b.user = rows[n].owner /\ b.nullifier = n
  BY <1>2 DEF IntakeInv, RowOK
<1>4. b.user = Body(r).user /\ b.nullifier = Body(r).nullifier
  BY <1>1, <1>2, <1>3 DEF KeysNameOneRequest
<1> QED
  BY <1>3, <1>4

\* Every step of the intake is a step of the registry or none.
LEMMA RegistryStep ==
  ASSUME KeysNameOneRequest, IntakeInv, [Next]_vars
  PROVE  [Registry!Next]_(Registry!vars)
<1>0. BodyOK /\ RowOK
  BY DEF IntakeInv
<1>1. ASSUME NEW r \in Requests, NEW b \in Bodies, Receive(r, b)
      PROVE  Registry!Ask(r, [user |-> b.user, nullifier |-> b.nullifier])
  <2>1. /\ req'[r].pc \in {"key", "nullifier"} /\ req'[r].body = b
        /\ \A q \in Requests : q # r => req'[q] = req[q]
    BY <1>0, <1>1 DEF Receive, BodyOK
  <2>2. \A q \in Requests :
          askBar'[q] = IF q = r THEN [user |-> b.user, nullifier |-> b.nullifier]
                       ELSE askBar[q]
    BY <2>1 DEF askBar, At, Body
  <2>3. \A q \in Requests : replyBar'[q] = replyBar[q]
    BY <1>1, <2>1 DEF replyBar, At, Receive
  <2>4. askBar' = [askBar EXCEPT ![r] = [user |-> b.user, nullifier |-> b.nullifier]]
    BY <2>2 DEF askBar
  <2>5. ownerBar' = ownerBar /\ replyBar' = replyBar
    BY <1>1, <2>3 DEF ownerBar, replyBar, Receive
  <2>6. askBar[r] = None
    BY <1>1 DEF askBar, Receive
  <2> QED  BY <2>4, <2>5, <2>6 DEF Registry!Ask
<1>2. ASSUME NEW r \in Requests, CheckKey(r)
      PROVE  Registry!Return(r) \/ UNCHANGED Registry!vars
  <2>1. ownerBar' = ownerBar
    BY <1>2 DEF CheckKey, ownerBar
  <2>2. CASE KeyTaken(Body(r).key)
    <3>1. Registry!Pending(r) /\ askBar[r].user = Body(r).user
          /\ askBar[r].nullifier = Body(r).nullifier /\ Body(r) \in BodyType
      BY <1>2, PendingBar DEF CheckKey, At
    <3>2. ownerBar[askBar[r].nullifier] = askBar[r].user
      BY <1>2, <2>2, <3>1, KeyFindsOwnRow DEF CheckKey, ownerBar, BodyType
    <3>3. UNCHANGED askBar /\ replyBar' = [replyBar EXCEPT ![r] = "stored"]
      BY <1>2, <2>2, AnswerBar DEF CheckKey, At
    <3> QED  BY <2>1, <3>1, <3>2, <3>3 DEF Registry!Return, Registry!Answer
  <2>3. CASE ~KeyTaken(Body(r).key)
    BY <1>2, <2>1, <2>3, StutterBar DEF CheckKey, At, Registry!vars
  <2> QED  BY <2>2, <2>3
<1>3. ASSUME NEW r \in Requests, CheckNullifier(r)
      PROVE  Registry!Return(r) \/ Registry!Refuse(r) \/ UNCHANGED Registry!vars
  <2>0. req[r].pc = "nullifier" /\ ~At(r, "idle")
    BY <1>3 DEF CheckNullifier, At
  <2>1. ownerBar' = ownerBar
    BY <1>3 DEF CheckNullifier, ownerBar
  <2>2. Registry!Pending(r) /\ askBar[r].user = Body(r).user
        /\ askBar[r].nullifier = Body(r).nullifier /\ Body(r) \in BodyType
    BY <2>0, PendingBar
  <2>3. ownerBar[askBar[r].nullifier] = rows[Body(r).nullifier].owner
    BY <2>2 DEF ownerBar, BodyType
  <2>4. CASE Goto(r, "stored") /\ rows[Body(r).nullifier].owner = Body(r).user
    <3>1. UNCHANGED askBar /\ replyBar' = [replyBar EXCEPT ![r] = "stored"]
      BY <2>0, <2>4, AnswerBar
    <3> QED  BY <2>1, <2>2, <2>3, <2>4, <3>1 DEF Registry!Return, Registry!Answer
  <2>5. CASE Goto(r, "refused") /\ rows[Body(r).nullifier].owner # None
    <3>1. UNCHANGED askBar /\ replyBar' = [replyBar EXCEPT ![r] = "refused"]
      BY <2>0, <2>5, AnswerBar
    <3> QED  BY <2>1, <2>2, <2>3, <2>5, <3>1 DEF Registry!Refuse, Registry!Answer
  <2>6. CASE Goto(r, "insert")
    BY <2>0, <2>1, <2>6, StutterBar DEF Registry!vars
  <2> QED  BY <1>3, <2>4, <2>5, <2>6 DEF CheckNullifier
<1>4. ASSUME NEW r \in Requests, Insert(r)
      PROVE  Registry!Claim(r)
  <2>1. Registry!Pending(r) /\ askBar[r].user = Body(r).user
        /\ askBar[r].nullifier = Body(r).nullifier /\ Body(r) \in BodyType
    BY <1>4, PendingBar DEF Insert, At
  <2>2. UNCHANGED askBar /\ replyBar' = [replyBar EXCEPT ![r] = "stored"]
    BY <1>4, AnswerBar DEF Insert, At
  <2>3. ownerBar[askBar[r].nullifier] = None
    BY <1>4, <2>1 DEF Insert, ownerBar, BodyType, Exists
  <2>4. ownerBar' = [ownerBar EXCEPT ![askBar[r].nullifier] = askBar[r].user]
    <3>1. \A n \in Nullifiers :
            rows'[n].owner = IF n = Body(r).nullifier THEN Body(r).user ELSE rows[n].owner
      BY <1>0, <1>4 DEF Insert, RowOK
    <3>2. \A n \in Nullifiers : ownerBar'[n] = [ownerBar EXCEPT
            ![askBar[r].nullifier] = askBar[r].user][n]
      BY <2>1, <3>1 DEF ownerBar
    <3> QED  BY <3>2 DEF ownerBar
  <2> QED  BY <2>1, <2>2, <2>3, <2>4 DEF Registry!Claim, Registry!Answer
<1>5. ASSUME NEW r \in Requests, InsertViolatesIndex(r) \/ Abort(r)
      PROVE  Registry!Fail(r)
  <2>1. Registry!Pending(r) /\ ownerBar' = ownerBar
    BY <1>5, PendingBar DEF InsertViolatesIndex, Abort, At, ownerBar
  <2>2. UNCHANGED askBar /\ replyBar' = [replyBar EXCEPT ![r] = "error"]
    <3>1. CASE InsertViolatesIndex(r)
      BY <3>1, AnswerBar DEF InsertViolatesIndex, At
    <3>2. CASE Abort(r)
      <4>1. /\ req'[r].pc = "aborted"
            /\ \A q \in Requests : req'[q].body = req[q].body
            /\ \A q \in Requests : q # r => req'[q] = req[q]
        BY <1>0, <3>2, GotoKeepsBody DEF Abort, Pcs
      <4>2. \A q \in Requests : askBar'[q] = askBar[q]
        BY <3>2, <4>1 DEF askBar, At, Body, Abort
      <4>3. \A q \in Requests : replyBar'[q] = IF q = r THEN "error" ELSE replyBar[q]
        BY <4>1 DEF replyBar, At
      <4>4. askBar' = askBar
        BY <4>2 DEF askBar
      <4>5. replyBar' = [replyBar EXCEPT ![r] = "error"]
        BY <4>3 DEF replyBar
      <4> QED  BY <4>4, <4>5
    <3> QED  BY <1>5, <3>1, <3>2
  <2> QED  BY <2>1, <2>2 DEF Registry!Fail, Registry!Answer
<1>6. ASSUME NEW b \in Bodies
      PROVE  [user |-> b.user, nullifier |-> b.nullifier] \in Registry!Asks
  BY IntakeAssumption DEF Registry!Asks, BodyType
<1>7. CASE UNCHANGED vars
  BY <1>7 DEF vars, Registry!vars, ownerBar, askBar, replyBar, At, Body
<1> QED
  BY <1>1, <1>2, <1>3, <1>4, <1>5, <1>6, <1>7 DEF Next, Registry!Next

\* The intake implements the registry: however requests to both endpoints race, each
\* is answered as if it had been served alone, and a nullifier keeps its first owner
\* (create/+server.ts:120-177, lib/core/legislative/submission.ts:60-86).
THEOREM IntakeImplementsRegistry == KeysNameOneRequest => (Spec => ImplementsRegistry)
<1> SUFFICES ASSUME KeysNameOneRequest
             PROVE  Spec => Registry!Spec
  BY DEF ImplementsRegistry
<1>1. Init => IntakeInv /\ Registry!Init
  <2>1. Init => Registry!Init
    BY DEF Init, Registry!Init, ownerBar, askBar, replyBar, At, NoRow, NoRequest
  <2> QED  BY <2>1, InitIntake
<1>2. IntakeInv /\ [Next]_vars => IntakeInv' /\ [Registry!Next]_(Registry!vars)
  BY IntakeStep, RegistryStep
<1> QED
  BY <1>1, <1>2, PTL DEF Spec, Registry!Spec
=============================================================================
