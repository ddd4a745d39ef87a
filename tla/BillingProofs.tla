----------------------------- MODULE BillingProofs -----------------------------
(***************************************************************************)
(* For any number of donations, events, replays, failed deliveries and     *)
(* executions of the webhook: where Stripe does not deliver an event while *)
(* a delivery of it runs, a refund is never taken back, although the       *)
(* webhook reads a donation and updates it by id in another statement, and *)
(* a campaign's counters are exact up to what a delivery, or the trace of  *)
(* one that failed, has still to add or take off.                          *)
(***************************************************************************)
EXTENDS Billing, TLAPS, FiniteSetTheorems, WellFoundedInduction

Paid(d) == Event("checkout.session.completed", d, 0, "none")
Refunded(d) == Event("charge.refunded", d, 0, "none")

\* Stripe has one event at most of a donation's payment, and of its refund.
DonationEvent(e) ==
  /\ e.type = "checkout.session.completed" /\ e.about \in Donations => e = Paid(e.about)
  /\ e.type = "charge.refunded" => e.about \in Donations /\ e = Refunded(e.about)

\* Two executions never have the same event in hand; one that is about to complete a
\* donation finds it pending, one about to refund it completed or refunded.
Exclusive ==
  \A v, w \in Deliveries :
    ~At(v, "idle") /\ ~At(w, "idle") /\ InHand(v) = InHand(w) => v = w

Completes(w) ==
  At(w, "complete") =>
    /\ InHand(w).about \in Donations /\ InHand(w) = Paid(InHand(w).about)
    /\ donation[InHand(w).about] = "pending"

Refunds(w) ==
  At(w, "refund") =>
    /\ InHand(w).about \in Donations
    /\ donation[InHand(w).about] \in {"completed", "refunded"}

Known == events.due \cup events.answered
Statuses == {"none", "active", "ending", "past_due", "unpaid", "canceled"}
Pcs == {"idle", "read", "complete", "count", "refund", "uncount", "upsert", "limits", "reset"}
Rows == [pc : Pcs, event : Known \cup {None}, status : Statuses]

EventsTyped == events = [due |-> events.due, answered |-> events.answered]

Typed ==
  /\ donation \in [Donations -> {"none", "pending", "completed", "refunded"}]
  /\ stripe \in [status : Statuses, changes : Nat]
  /\ EventsTyped
  /\ delivery \in [Deliveries -> Rows]

\* RefundedIsFinal rests on what a delivery knows between its two statements.
BInv ==
  /\ Typed
  /\ \A e \in Known : DonationEvent(e)
  /\ \A w \in Deliveries : ~At(w, "idle") => InHand(w) \in Known
  /\ \A w \in Deliveries : Completes(w) /\ Refunds(w)
  /\ Exclusive

USE DEF At, InHand, Goto

LEMMA InitBInv == Init => BInv
<1> SUFFICES ASSUME Init PROVE BInv
  OBVIOUS
<1>1. Known = {} /\ EventsTyped
  <2>1. events = [due |-> {}, answered |-> {}]
    BY DEF Init
  <2>2. Known = {}
    BY <2>1 DEF Known
  <2> QED
    BY <2>1, <2>2 DEF EventsTyped
<1>2. Idle \in Rows
  BY DEF Idle, Rows, Statuses, Pcs
<1>3. Typed
  BY <1>1, <1>2 DEF Init, Typed, Statuses
<1>4. \A w \in Deliveries : delivery[w].pc = "idle"
  BY DEF Init, Idle
<1> QED
  BY <1>1, <1>3, <1>4 DEF BInv, Exclusive, Completes, Refunds

\* How the rows and the events change.
LEMMA GotoTyped ==
  ASSUME Typed, NEW w \in Deliveries, NEW pc \in Pcs, Goto(w, pc), events' = events
  PROVE  /\ delivery' \in [Deliveries -> Rows'] /\ Known' = Known
         /\ delivery'[w].pc = pc /\ delivery'[w].event = delivery[w].event
         /\ \A v \in Deliveries \ {w} : delivery'[v] = delivery[v]
  BY DEF Typed, Rows, Known

LEMMA AnswerTyped ==
  ASSUME Typed, NEW w \in Deliveries, InHand(w) \in Known, Answer(w)
  PROVE  /\ EventsTyped' /\ Known' = Known
         /\ delivery' \in [Deliveries -> Rows']
         /\ delivery'[w].pc = "idle"
         /\ \A v \in Deliveries \ {w} : delivery'[v] = delivery[v]
<1>1. events' = [due |-> events.due \ {InHand(w)}, answered |-> events.answered \cup {InHand(w)}]
      /\ delivery' = [delivery EXCEPT ![w] = Idle]
  BY DEF Answer
<1>2. Known' = Known
  <2>1. Known' = (events.due \ {InHand(w)}) \cup (events.answered \cup {InHand(w)})
    BY <1>1 DEF Known
  <2> QED
    BY <2>1 DEF Known
<1>3. Idle \in Rows'
  BY DEF Idle, Rows, Statuses, Pcs
<1>4. Rows' = Rows
  BY <1>2 DEF Rows
<1>5. EventsTyped'
  BY <1>1 DEF EventsTyped
<1> QED
  BY <1>1, <1>2, <1>3, <1>4, <1>5 DEF Typed, Idle

LEMMA EmitTyped ==
  ASSUME Typed, NEW new, Emit(new), delivery' = delivery
  PROVE  /\ EventsTyped'
         /\ Known' = Known \cup new
         /\ delivery' \in [Deliveries -> Rows']
<1>1. events' = [due |-> events.due \cup new, answered |-> events.answered]
  BY DEF Emit, Typed, EventsTyped
<1>2. Known' = Known \cup new
  BY <1>1 DEF Known
<1>3. \A row \in Rows : row \in Rows'
  BY <1>2 DEF Rows
<1> QED
  BY <1>1, <1>2, <1>3 DEF Typed, EventsTyped

\* When no donation and no delivery changes, new events need only be like the others.
LEMMA StripeInv ==
  ASSUME BInv, NEW new, Emit(new), UNCHANGED <<donation, delivery>>,
         stripe' \in [status : Statuses, changes : Nat],
         \A e \in new : DonationEvent(e)
  PROVE  BInv'
<1>1. /\ Known' = Known \cup new
      /\ Typed'
  BY EmitTyped DEF BInv, Typed
<1>2. \A e \in Known' : DonationEvent(e)'
  BY <1>1 DEF BInv, DonationEvent
<1>3. \A w \in Deliveries : ~At(w, "idle")' => InHand(w)' \in Known'
  BY <1>1 DEF BInv
<1>4. Exclusive' /\ \A w \in Deliveries : Completes(w)' /\ Refunds(w)'
  BY DEF BInv, Exclusive, Completes, Refunds
<1> QED
  BY <1>1, <1>2, <1>3, <1>4 DEF BInv

LEMMA OutsideInv ==
  ASSUME BInv,
         \/ \E d \in Donations : CreateDonation(d) \/ CreateSession(d) \/ Pay(d) \/ Refund(d)
         \/ Subscribe \/ DeleteSubscription
         \/ \E status \in {"active", "past_due", "unpaid", "ending"} : ChangeSubscription(status)
  PROVE  BInv'
<1>1. ASSUME NEW d \in Donations, CreateDonation(d)
      PROVE  BInv'
  <2>1. /\ donation' = [donation EXCEPT ![d] = "pending"] /\ donation[d] = "none"
        /\ UNCHANGED <<stripe, events, delivery>>
    BY <1>1 DEF CreateDonation
  <2>2. Typed' /\ Known' = Known
    BY <2>1 DEF BInv, Typed, EventsTyped, Known, Rows
  <2>3. \A w \in Deliveries : Completes(w)' /\ Refunds(w)'
    BY <2>1 DEF BInv, Typed, Completes, Refunds, Paid
  <2> QED
    BY <2>1, <2>2, <2>3 DEF BInv, Exclusive, DonationEvent
<1>2. ASSUME NEW d \in Donations, CreateSession(d)
      PROVE  BInv'
  BY <1>2 DEF CreateSession, BInv, Typed, EventsTyped, Known, Rows, Exclusive, Completes, Refunds, DonationEvent
<1>3. ASSUME NEW d \in Donations, Pay(d)
      PROVE  BInv'
  <2>1. DonationEvent(Paid(d))
    BY DEF DonationEvent, Paid, Refunded, Event
  <2>2. Emit({Paid(d)}) /\ UNCHANGED <<donation, delivery, stripe>>
    BY <1>3 DEF Pay, Paid
  <2> QED
    BY <2>1, <2>2, StripeInv DEF BInv, Typed
<1>4. ASSUME NEW d \in Donations, Refund(d)
      PROVE  BInv'
  <2>1. DonationEvent(Refunded(d))
    BY DEF DonationEvent, Paid, Refunded, Event
  <2>2. Emit({Refunded(d)}) /\ UNCHANGED <<donation, delivery, stripe>>
    BY <1>4 DEF Refund, Refunded
  <2> QED
    BY <2>1, <2>2, StripeInv DEF BInv, Typed
<1>5. ASSUME NEW status \in Statuses, NEW types, "charge.refunded" \notin types,
             StripeStep(status, types)
      PROVE  BInv'
  <2> DEFINE new == {Event(type, None, stripe'.changes, status) : type \in types}
  <2>1. Emit(new) /\ UNCHANGED <<donation, delivery>>
    BY <1>5 DEF StripeStep, donationVars
  <2>2. \A e \in new : DonationEvent(e)
    BY <1>5, BillingAssumption DEF DonationEvent, Event
  <2>3. stripe' \in [status : Statuses, changes : Nat]
    BY <1>5 DEF StripeStep, BInv, Typed
  <2> HIDE DEF new
  <2> QED
    BY <2>1, <2>2, <2>3, StripeInv
<1>6. CASE Subscribe
  BY <1>5, <1>6 DEF Subscribe, Statuses
<1>7. CASE DeleteSubscription
  BY <1>5, <1>7 DEF DeleteSubscription, Statuses
<1>8. ASSUME NEW status \in {"active", "past_due", "unpaid", "ending"}, ChangeSubscription(status)
      PROVE  BInv'
  <2>1. "charge.refunded" \notin {"customer.subscription.updated"} \cup
           (IF status = "past_due" THEN {"invoice.payment_failed"} ELSE {})
    OBVIOUS
  <2>2. status \in Statuses
    BY DEF Statuses
  <2> QED
    BY <1>5, <1>8, <2>1, <2>2 DEF ChangeSubscription
<1> QED
  BY <1>1, <1>2, <1>3, <1>4, <1>6, <1>7, <1>8

-----------------------------------------------------------------------------
(* The webhook.                                                            *)

\* A delivery moves, and only its donation may change.
Moves(w) ==
  /\ Known' = Known /\ stripe' = stripe /\ EventsTyped'
  /\ delivery' \in [Deliveries -> Rows]
  /\ \A v \in Deliveries \ {w} : delivery'[v] = delivery[v]
  /\ \/ delivery'[w].pc = "idle"
     \/ delivery'[w].event = delivery[w].event /\ delivery[w].pc # "idle"

Writes(w, from, to) ==
  /\ delivery[w].pc = from
  /\ \E d \in Donations : d = delivery[w].event.about /\ donation' = [donation EXCEPT ![d] = to]

MayWrite(w) ==
  donation' = donation \/ Writes(w, "complete", "completed") \/ Writes(w, "refund", "refunded")

LEMMA MoveInv ==
  ASSUME BInv, NEW w \in Deliveries, Moves(w), MayWrite(w), Completes(w)', Refunds(w)'
  PROVE  BInv'
<1>1. Rows' = Rows
  BY DEF Rows, Moves
<1>2. donation' \in [Donations -> {"none", "pending", "completed", "refunded"}]
  BY DEF BInv, Typed, MayWrite, Writes
<1>3. Typed'
  BY <1>1, <1>2 DEF BInv, Typed, Moves
<1>4. Exclusive' /\ \A v \in Deliveries : ~At(v, "idle")' => InHand(v)' \in Known'
  BY DEF BInv, Exclusive, Moves
<1>5. ASSUME NEW v \in Deliveries, v # w
      PROVE  Completes(v)' /\ Refunds(v)'
  <2>1. delivery'[v] = delivery[v] /\ Completes(v) /\ Refunds(v)
    BY <1>5 DEF BInv, Moves
  <2>2. CASE donation' = donation
    BY <2>1, <2>2 DEF Completes, Refunds
  <2>3. ASSUME NEW d \in Donations, donation' = [donation EXCEPT ![d] = "completed"],
               At(w, "complete"), d = InHand(w).about
        PROVE  Completes(v)' /\ Refunds(v)'
    <3>1. InHand(w) = Paid(d) /\ donation[d] = "pending"
      BY <2>3 DEF BInv, Completes
    <3>2. CASE At(v, "complete")
      <4>1. InHand(v) = Paid(InHand(v).about) /\ InHand(v) # InHand(w)
        BY <1>5, <2>1, <2>3, <3>2 DEF BInv, Completes, Exclusive
      <4>2. InHand(v).about # d
        BY <3>1, <4>1
      <4> QED
        BY <2>1, <2>3, <3>2, <4>2 DEF Completes, Refunds, BInv, Typed
    <3>3. CASE ~At(v, "complete")
      BY <2>1, <2>3, <3>3 DEF Completes, Refunds, BInv, Typed
    <3> QED
      BY <3>2, <3>3
  <2>4. ASSUME NEW d \in Donations, donation' = [donation EXCEPT ![d] = "refunded"],
               At(w, "refund"), d = InHand(w).about
        PROVE  Completes(v)' /\ Refunds(v)'
    <3>1. donation[d] # "pending"
      BY <2>4 DEF BInv, Refunds
    <3> QED
      BY <2>1, <2>4, <3>1 DEF Completes, Refunds, BInv, Typed
  <2> QED
    BY <2>2, <2>3, <2>4 DEF MayWrite, Writes
<1>6. \A e \in Known' : DonationEvent(e)'
  BY DEF BInv, DonationEvent, Moves
<1> QED
  BY <1>3, <1>4, <1>5, <1>6 DEF BInv

\* Goto and Answer move a delivery.
LEMMA GotoMoves ==
  ASSUME BInv, NEW w \in Deliveries, ~At(w, "idle"), NEW pc \in Pcs, Goto(w, pc),
         events' = events, stripe' = stripe
  PROVE  /\ Moves(w)
         /\ delivery'[w].pc = pc /\ delivery'[w].event = delivery[w].event
<1>1. /\ delivery' \in [Deliveries -> Rows'] /\ Known' = Known
      /\ delivery'[w].pc = pc /\ delivery'[w].event = delivery[w].event
      /\ \A v \in Deliveries \ {w} : delivery'[v] = delivery[v]
  BY GotoTyped DEF BInv
<1>2. Rows' = Rows
  BY <1>1 DEF Rows
<1>3. EventsTyped'
  BY DEF BInv, Typed, EventsTyped
<1> QED
  BY <1>1, <1>2, <1>3 DEF Moves

LEMMA AnswerInv ==
  ASSUME BInv, NEW w \in Deliveries, ~At(w, "idle"), Answer(w),
         UNCHANGED <<stripe, donation>>
  PROVE  BInv'
<1>1. InHand(w) \in Known
  BY DEF BInv
<1>2. /\ EventsTyped' /\ Known' = Known
      /\ delivery' \in [Deliveries -> Rows']
      /\ delivery'[w].pc = "idle"
      /\ \A v \in Deliveries \ {w} : delivery'[v] = delivery[v]
  BY <1>1, AnswerTyped DEF BInv
<1>3. Rows' = Rows
  BY <1>2 DEF Rows
<1>4. Moves(w) /\ MayWrite(w)
  BY <1>2, <1>3 DEF Moves, MayWrite
<1>5. Completes(w)' /\ Refunds(w)'
  BY <1>2 DEF Completes, Refunds
<1> QED
  BY <1>4, <1>5, MoveInv

LEMMA GotoInv ==
  ASSUME BInv, NEW w \in Deliveries, ~At(w, "idle"), NEW pc \in Pcs, Goto(w, pc),
         events' = events, stripe' = stripe, MayWrite(w),
         pc \notin {"complete", "refund"}
  PROVE  BInv'
<1>1. Moves(w) /\ delivery'[w].pc = pc
  BY GotoMoves
<1>2. Completes(w)' /\ Refunds(w)'
  BY <1>1 DEF Completes, Refunds
<1> QED
  BY <1>1, <1>2, MoveInv

\* The statements of a delivery.
LEMMA StepInv ==
  ASSUME BInv, NEW w \in Deliveries, Step(w)
  PROVE  BInv'
<1>0. ~At(w, "idle") /\ stripe' = stripe
  BY DEF Step, ReadPaid, CompleteDonation, Count, ReadRefunded, RefundDonation, Uncount,
         RetrieveSubscription, UpsertSubscription, RaiseLimits, UpdateSubscription, ResetLimits,
         Reads, Quiet, stripeVars
<1>1. DonationEvent(InHand(w))
  BY <1>0 DEF BInv
<1>2. CASE ReadPaid(w)
  <2>1. CASE donation[InHand(w).about] = "pending"
    <3>1. /\ Goto(w, "complete") /\ events' = events /\ donation' = donation
          /\ InHand(w).about \in Donations /\ InHand(w) = Paid(InHand(w).about)
      BY <1>1, <1>2, <2>1 DEF ReadPaid, Reads, DonationEvent
    <3>2. Moves(w) /\ delivery'[w].pc = "complete" /\ delivery'[w].event = delivery[w].event
      BY <1>0, <3>1, GotoMoves DEF Pcs
    <3>3. Completes(w)' /\ Refunds(w)'
      BY <2>1, <3>1, <3>2 DEF Completes, Refunds, Paid
    <3> QED
      BY <3>1, <3>2, <3>3, MoveInv DEF MayWrite
  <2>2. CASE donation[InHand(w).about] # "pending"
    BY <1>0, <1>2, <2>2, AnswerInv DEF ReadPaid
  <2> QED
    BY <2>1, <2>2
<1>3. CASE ReadRefunded(w)
  <2>1. CASE Refundable(InHand(w).about)
    <3>1. /\ Goto(w, "refund") /\ events' = events /\ donation' = donation
          /\ InHand(w).about \in Donations /\ donation[InHand(w).about] = "completed"
      BY <1>1, <1>3, <2>1 DEF ReadRefunded, Reads, DonationEvent, Refundable
    <3>2. Moves(w) /\ delivery'[w].pc = "refund" /\ delivery'[w].event = delivery[w].event
      BY <1>0, <3>1, GotoMoves DEF Pcs
    <3>3. Completes(w)' /\ Refunds(w)'
      BY <3>1, <3>2 DEF Completes, Refunds
    <3> QED
      BY <3>1, <3>2, <3>3, MoveInv DEF MayWrite
  <2>2. CASE ~Refundable(InHand(w).about)
    BY <1>0, <1>3, <2>2, AnswerInv DEF ReadRefunded
  <2> QED
    BY <2>1, <2>2
<1>4. CASE CompleteDonation(w)
  <2>1. Writes(w, "complete", "completed")
    BY <1>4 DEF CompleteDonation, BInv, Completes, Writes
  <2> QED
    BY <1>0, <1>4, <2>1, GotoInv DEF CompleteDonation, MayWrite, Pcs
<1>5. CASE RefundDonation(w)
  <2>1. Writes(w, "refund", "refunded")
    BY <1>5 DEF RefundDonation, BInv, Refunds, Writes
  <2> QED
    BY <1>0, <1>5, <2>1, GotoInv DEF RefundDonation, MayWrite, Pcs
<1>6. CASE RetrieveSubscription(w)
  <2> DEFINE row == [delivery[w] EXCEPT !.pc = "upsert", !.status = stripe.status]
  <2>1. delivery' = [delivery EXCEPT ![w] = row] /\ events' = events /\ donation' = donation
    BY <1>6 DEF RetrieveSubscription
  <2>2. stripe.status \in Statuses /\ delivery[w] \in Rows
    BY DEF BInv, Typed
  <2>3. row \in Rows /\ row.pc = "upsert" /\ row.event = delivery[w].event
    BY <2>2 DEF Rows, Pcs
  <2> HIDE DEF row
  <2>4. Known' = Known /\ EventsTyped'
    BY <2>1 DEF Known, EventsTyped, BInv, Typed
  <2>5. delivery' \in [Deliveries -> Rows] /\ delivery'[w] = row
    BY <2>1, <2>3 DEF BInv, Typed
  <2>6. Moves(w) /\ MayWrite(w)
    BY <1>0, <2>1, <2>3, <2>4, <2>5 DEF Moves, MayWrite, BInv, Typed
  <2>7. Completes(w)' /\ Refunds(w)'
    BY <2>3, <2>5 DEF Completes, Refunds
  <2> QED
    BY <2>6, <2>7, MoveInv
<1>7. CASE UpsertSubscription(w)
  BY <1>0, <1>7, GotoInv DEF UpsertSubscription, MayWrite, Pcs
<1>8. CASE UpdateSubscription(w)
  BY <1>0, <1>8, GotoInv, AnswerInv DEF UpdateSubscription, MayWrite, Pcs
<1>9. CASE Count(w) \/ Uncount(w) \/ RaiseLimits(w) \/ ResetLimits(w)
  BY <1>0, <1>9, AnswerInv DEF Count, Uncount, RaiseLimits, ResetLimits
<1> QED
  BY <1>2, <1>3, <1>4, <1>5, <1>6, <1>7, <1>8, <1>9 DEF Step

\* A delivery begins: no other one has the event in hand. Or it fails.
LEMMA BeginInv ==
  ASSUME BInv, ~Overlapping, NEW w \in Deliveries, Begin(w) \/ Fail(w)
  PROVE  BInv'
<1>1. UNCHANGED <<donation, stripe, events>>
  BY DEF Begin, Deliver, Fail, donationVars
<1>2. Known' = Known /\ Rows' = Rows
  BY <1>1 DEF Known, Rows
<1>3. CASE Fail(w)
  <2>1. Idle \in Rows
    BY DEF Idle, Rows, Statuses, Pcs
  <2>2. delivery' = [delivery EXCEPT ![w] = Idle]
    BY <1>3 DEF Fail
  <2>3. /\ delivery' \in [Deliveries -> Rows] /\ delivery'[w].pc = "idle"
        /\ \A v \in Deliveries \ {w} : delivery'[v] = delivery[v]
    BY <2>1, <2>2 DEF BInv, Typed, Idle
  <2>4. Moves(w) /\ MayWrite(w) /\ Completes(w)' /\ Refunds(w)'
    BY <1>1, <1>2, <2>3 DEF Moves, MayWrite, BInv, Typed, EventsTyped, Completes, Refunds
  <2> QED
    BY <2>4, MoveInv
<1>4. ASSUME NEW e \in events.due \cup events.answered, Deliver(w, e)
      PROVE  BInv'
  <2> DEFINE row == [Idle EXCEPT !.pc = "read", !.event = e]
  <2>1. delivery' = [delivery EXCEPT ![w] = row] /\ \A v \in Deliveries : InHand(v) # e
    BY <1>4 DEF Deliver
  <2>2. row \in Rows /\ e \in Known
    BY DEF Idle, Rows, Statuses, Known, Pcs
  <2>3. /\ delivery' \in [Deliveries -> Rows] /\ delivery'[w] = row
        /\ \A v \in Deliveries \ {w} : delivery'[v] = delivery[v]
    BY <2>1, <2>2 DEF BInv, Typed
  <2>4. row.pc = "read" /\ row.event = e
    BY DEF Idle
  <2> HIDE DEF row
  <2>5. Typed'
    BY <1>1, <1>2, <2>3 DEF BInv, Typed, EventsTyped
  <2>6. Exclusive' /\ \A v \in Deliveries : ~At(v, "idle")' => InHand(v)' \in Known'
    BY <1>2, <2>1, <2>2, <2>3, <2>4 DEF BInv, Exclusive
  <2>7. \A v \in Deliveries : Completes(v)' /\ Refunds(v)'
    BY <1>1, <2>3, <2>4 DEF BInv, Completes, Refunds
  <2> QED
    BY <1>2, <2>5, <2>6, <2>7 DEF BInv, DonationEvent
<1> QED
  BY <1>3, <1>4 DEF Begin

\* The invariant is kept where deliveries of one event do not overlap.
OneAtATime == ~Overlapping => BInv

LEMMA NextInv == OneAtATime /\ [Next]_vars => OneAtATime'
<1> SUFFICES ASSUME ~Overlapping, BInv, [Next]_vars PROVE BInv'
  BY DEF OneAtATime
<1>1. CASE UNCHANGED vars
  BY <1>1 DEF vars, BInv, Typed, EventsTyped, Known, Rows, Exclusive, Completes, Refunds, DonationEvent
<1> QED
  BY <1>1, OutsideInv, StepInv, BeginInv DEF Next

LEMMA AlwaysOneAtATime == Spec => []OneAtATime
  BY InitBInv, NextInv, PTL DEF Spec, OneAtATime

-----------------------------------------------------------------------------
(* Refunds.                                                                *)

\* What a checkout that comes again finds refunded stays refunded
\* (webhook/+server.ts:60, 221-234).
THEOREM RefundsAreFinal == Spec => RefundedIsFinal
<1>1. ASSUME BInv, [Next]_vars, NEW d \in Donations, donation[d] = "refunded"
      PROVE  donation'[d] = "refunded"
  <2>1. ASSUME NEW w \in Deliveries, CompleteDonation(w)
        PROVE  donation'[d] = "refunded"
    <3>1. donation[InHand(w).about] = "pending"
      BY <1>1, <2>1 DEF CompleteDonation, BInv, Completes
    <3>2. InHand(w).about # d
      BY <1>1, <3>1
    <3>3. donation' = [donation EXCEPT ![InHand(w).about] = "completed"]
      BY <2>1 DEF CompleteDonation
    <3> QED
      BY <1>1, <3>2, <3>3 DEF BInv, Typed
  <2>2. ASSUME NEW w \in Deliveries, RefundDonation(w)
        PROVE  donation'[d] = "refunded"
    BY <1>1, <2>2 DEF RefundDonation, BInv, Typed
  <2>3. ASSUME NEW w \in Deliveries, Step(w), ~CompleteDonation(w), ~RefundDonation(w)
        PROVE  donation' = donation
    BY <2>3 DEF Step, ReadPaid, Count, ReadRefunded, Uncount, RetrieveSubscription,
                UpsertSubscription, RaiseLimits, UpdateSubscription, ResetLimits
  <2>4. ASSUME NEW w \in Deliveries, Begin(w) \/ Fail(w)
        PROVE  donation' = donation
    BY <2>4 DEF Begin, Deliver, Fail, donationVars
  <2>5. ASSUME NEW c \in Donations, CreateDonation(c) \/ CreateSession(c) \/ Pay(c) \/ Refund(c)
        PROVE  donation'[d] = "refunded"
    BY <1>1, <2>5 DEF CreateDonation, CreateSession, Pay, Refund, BInv, Typed
  <2>6. ASSUME \/ Subscribe \/ DeleteSubscription
               \/ \E status \in {"active", "past_due", "unpaid", "ending"} : ChangeSubscription(status)
        PROVE  donation' = donation
    BY <2>6 DEF Subscribe, DeleteSubscription, ChangeSubscription, StripeStep, donationVars
  <2> QED
    BY <1>1, <2>1, <2>2, <2>3, <2>4, <2>5, <2>6 DEF Next, vars
<1>2. OneAtATime /\ [Next]_vars =>
        [~Overlapping => \A d \in Donations : donation[d] = "refunded" => donation'[d] = "refunded"]_vars
  BY <1>1 DEF OneAtATime
<1> QED
  BY <1>2, AlwaysOneAtATime, PTL DEF Spec, RefundedIsFinal

-----------------------------------------------------------------------------
(* Sums over finite sets.                                                  *)

\* A non-empty set of finite subsets has a smallest one. Cited with the set of
\* counterexamples to a claim, it stands for induction over finite sets.
LEMMA Smallest ==
  ASSUME NEW S, IsFiniteSet(S), NEW T, T \subseteq SUBSET S, T # {}
  PROVE  \E A \in T : \A B \in SUBSET A : B # A => B \notin T
<1> DEFINE R == StrictSubsetOrdering(S)
<1>1. IsWellFoundedOn(R, SUBSET S)
  BY FS_StrictSubsetOrderingWellFounded, FS_FiniteSubsetsOfFinite
<1>2. PICK A \in T : \A B \in T : ~ (<<B, A>> \in R)
  <2> HIDE DEF R
  <2> QED BY <1>1, WFMin
<1>3. \A B \in SUBSET A : B # A => B \notin T
  BY <1>2 DEF StrictSubsetOrdering
<1> QED BY <1>3

\* The element a fold takes first.
First(s) == CHOOSE x \in s : TRUE

\* h sums f over the subsets of S.
Sums(f, S, h) ==
  h = [s \in SUBSET S |-> IF s = {} THEN 0 ELSE f[First(s)] + h[s \ {First(s)}]]

LEMMA SumIsOfSums ==
  ASSUME NEW f, NEW S
  PROVE  Sum(f, S) = (CHOOSE h : Sums(f, S, h))[S]
BY DEF Sum, MapThenSumSet, MapThenFoldSet, Sums, First

LEMMA FirstIn ==
  ASSUME NEW s, s # {}
  PROVE  First(s) \in s /\ s \ {First(s)} # s
BY DEF First

\* Such functions agree where they are defined.
LEMMA SumsAgree ==
  ASSUME NEW f, NEW S, IsFiniteSet(S), NEW A \in SUBSET S, NEW g, NEW h, Sums(f, S, g), Sums(f, A, h)
  PROVE  g[A] = h[A]
<1> DEFINE T == {s \in SUBSET A : g[s] # h[s]}
<1> SUFFICES ASSUME T # {} PROVE FALSE
  OBVIOUS
<1>1. IsFiniteSet(A)
  BY FS_Subset
<1>2. PICK s \in T : \A B \in SUBSET s : B # s => B \notin T
  <2>1. T \subseteq SUBSET A
    OBVIOUS
  <2> HIDE DEF T
  <2> QED BY <1>1, <2>1, Smallest
<1>3. CASE s = {}
  BY <1>2, <1>3 DEF Sums
<1>4. CASE s # {}
  <2> DEFINE r == s \ {First(s)}
  <2>1. r \in SUBSET s /\ r # s /\ s \in SUBSET A /\ s \in SUBSET S
    BY <1>4, FirstIn
  <2>2. g[r] = h[r]
    BY <1>2, <2>1
  <2>3. g[s] = f[First(s)] + g[r] /\ h[s] = f[First(s)] + h[r]
    BY <1>4, <2>1 DEF Sums
  <2> QED BY <2>2, <2>3
<1> QED BY <1>3, <1>4

\* There is such a function.
LEMMA SumsExist ==
  ASSUME NEW f, NEW S, IsFiniteSet(S)
  PROVE  \E h : Sums(f, S, h)
<1> DEFINE T == {A \in SUBSET S : ~ \E h : Sums(f, A, h)}
<1> SUFFICES ASSUME T # {} PROVE FALSE
  OBVIOUS
<1>1. PICK A \in T : \A B \in SUBSET A : B # A => B \notin T
  <2>1. T \subseteq SUBSET S
    OBVIOUS
  <2> HIDE DEF T
  <2> QED BY <2>1, Smallest
<1> DEFINE V(B) == (CHOOSE h : Sums(f, B, h))[B]
           G == [s \in SUBSET A |-> IF s = {} THEN 0 ELSE f[First(s)] + V(s \ {First(s)})]
<1>2. ASSUME NEW s \in SUBSET A, s # {}
      PROVE  G[s \ {First(s)}] = V(s \ {First(s)})
  <2> DEFINE r == s \ {First(s)}
  <2>1. r \in SUBSET A /\ r # A
    BY <1>2, FirstIn
  <2>2. \E h : Sums(f, r, h)
    BY <1>1, <2>1
  <2> DEFINE h == CHOOSE h : Sums(f, r, h)
  <2>3. Sums(f, r, h)
    BY <2>2
  <2> HIDE DEF h
  <2>4. CASE r = {}
    <3>1. h[r] = 0
      BY <2>3, <2>4 DEF Sums
    <3> QED BY <2>1, <2>4, <3>1 DEF h
  <2>5. CASE r # {}
    <3> DEFINE q == r \ {First(r)}
    <3>1. q \in SUBSET r /\ q # A
      BY <2>1, <2>5, FirstIn
    <3>2. q \in SUBSET A /\ \E k : Sums(f, q, k)
      BY <1>1, <2>1, <3>1
    <3> DEFINE k == CHOOSE k : Sums(f, q, k)
    <3>3. Sums(f, q, k)
      BY <3>2
    <3> HIDE DEF k
    <3>4. IsFiniteSet(r)
      BY <2>1, FS_Subset
    <3>5. h[q] = k[q]
      <4> HIDE DEF q, r
      <4> QED BY <2>3, <3>1, <3>3, <3>4, SumsAgree
    <3>6. h[r] = f[First(r)] + h[q]
      BY <2>3, <2>5 DEF Sums
    <3>7. G[r] = f[First(r)] + V(q)
      BY <2>1, <2>5
    <3> QED BY <3>5, <3>6, <3>7 DEF h, k
  <2> QED BY <2>4, <2>5
<1>3. Sums(f, A, G)
  <2>1. G = [s \in SUBSET A |-> IF s = {} THEN 0 ELSE f[First(s)] + G[s \ {First(s)}]]
    <3> DEFINE old(s) == IF s = {} THEN 0 ELSE f[First(s)] + V(s \ {First(s)})
               new(s) == IF s = {} THEN 0 ELSE f[First(s)] + G[s \ {First(s)}]
    <3>1. G = [s \in SUBSET A |-> old(s)]
      OBVIOUS
    <3>2. \A s \in SUBSET A : old(s) = new(s)
      <4> HIDE DEF G, V
      <4> QED BY <1>2
    <3>3. [s \in SUBSET A |-> old(s)] = [s \in SUBSET A |-> new(s)]
      <4> HIDE DEF old, new
      <4> QED BY <3>2
    <3> HIDE DEF G, V
    <3> QED BY <3>1, <3>3, Zenon
  <2> HIDE DEF G
  <2> QED BY <2>1 DEF Sums
<1> QED BY <1>1, <1>3

\* The sum, one element at a time in the order of the fold.
LEMMA SumFirst ==
  ASSUME NEW f, NEW S, IsFiniteSet(S)
  PROVE  Sum(f, S) = IF S = {} THEN 0 ELSE f[First(S)] + Sum(f, S \ {First(S)})
<1> DEFINE h == CHOOSE h : Sums(f, S, h)
           r == S \ {First(S)}
           k == CHOOSE k : Sums(f, r, k)
<1>1. Sums(f, S, h) /\ Sum(f, S) = h[S]
  BY SumsExist, SumIsOfSums
<1>2. IsFiniteSet(r) /\ r \in SUBSET S
  BY FS_Subset
<1>3. Sums(f, r, k) /\ Sum(f, r) = k[r]
  BY <1>2, SumsExist, SumIsOfSums
<1> HIDE DEF h, k
<1>4. h[r] = k[r]
  BY <1>1, <1>2, <1>3, SumsAgree
<1>5. h[S] = IF S = {} THEN 0 ELSE f[First(S)] + h[r]
  BY <1>1 DEF Sums
<1> QED BY <1>1, <1>3, <1>4, <1>5

\* A sum of integers is one.
LEMMA SumType ==
  ASSUME NEW I, NEW f \in [I -> Int], NEW S \in SUBSET I, IsFiniteSet(S)
  PROVE  Sum(f, S) \in Int
<1> DEFINE T == {s \in SUBSET S : Sum(f, s) \notin Int}
<1> SUFFICES ASSUME T # {} PROVE FALSE
  OBVIOUS
<1>1. PICK s \in T : \A B \in SUBSET s : B # s => B \notin T
  <2>1. T \subseteq SUBSET S
    OBVIOUS
  <2> HIDE DEF T
  <2> QED BY <2>1, Smallest
<1>2. IsFiniteSet(s)
  BY FS_Subset
<1>3. s # {}
  <2>1. Sum(f, {}) = 0
    BY FS_EmptySet, SumFirst
  <2> QED BY <2>1
<1>4. s \ {First(s)} \in SUBSET S /\ Sum(f, s \ {First(s)}) \in Int /\ f[First(s)] \in Int
  BY <1>1, <1>3, FirstIn
<1>5. Sum(f, s) = f[First(s)] + Sum(f, s \ {First(s)})
  BY <1>2, <1>3, SumFirst
<1> HIDE DEF T
<1>6. Sum(f, s) \in Int
  BY <1>4, <1>5
<1> QED BY <1>6 DEF T

LEMMA SumOfZeros ==
  ASSUME NEW I, IsFiniteSet(I), NEW f, \A i \in I : f[i] = 0
  PROVE  Sum(f, I) = 0
<1> DEFINE T == {s \in SUBSET I : Sum(f, s) # 0}
<1> SUFFICES ASSUME T # {} PROVE FALSE
  OBVIOUS
<1>1. PICK s \in T : \A B \in SUBSET s : B # s => B \notin T
  <2>1. T \subseteq SUBSET I
    OBVIOUS
  <2> HIDE DEF T
  <2> QED BY <2>1, Smallest
<1>2. IsFiniteSet(s) /\ Sum(f, s) # 0
  BY FS_Subset
<1>3. s # {}
  BY <1>2, FS_EmptySet, SumFirst
<1>4. Sum(f, s \ {First(s)}) = 0 /\ f[First(s)] = 0
  BY <1>1, <1>3, FirstIn
<1> QED BY <1>2, <1>3, <1>4, SumFirst

\* A sum of which one summand changes.
LEMMA SumOfOne ==
  ASSUME NEW I, IsFiniteSet(I), NEW f \in [I -> Int], NEW g \in [I -> Int],
         NEW x \in I, NEW k \in Int, g[x] = f[x] + k, \A i \in I : i # x => g[i] = f[i]
  PROVE  Sum(g, I) = Sum(f, I) + k
<1> DEFINE Change(s) == IF x \in s THEN k ELSE 0
           T == {s \in SUBSET I : Sum(g, s) # Sum(f, s) + Change(s)}
<1>1. T = {}
  <2> SUFFICES ASSUME T # {} PROVE FALSE
    OBVIOUS
  <2>1. PICK s \in T : \A B \in SUBSET s : B # s => B \notin T
    <3>1. T \subseteq SUBSET I
      OBVIOUS
    <3> HIDE DEF T
    <3> QED BY <3>1, Smallest
  <2>2. IsFiniteSet(s) /\ s \in SUBSET I
    BY FS_Subset
  <2>3. s # {}
    <3>1. Sum(f, {}) = 0 /\ Sum(g, {}) = 0
      BY FS_EmptySet, SumFirst
    <3> QED BY <3>1
  <2> DEFINE c == First(s)
             r == s \ {c}
  <2>4. c \in s /\ r \in SUBSET s /\ r # s /\ r \in SUBSET I /\ IsFiniteSet(r)
    BY <2>2, <2>3, FirstIn, FS_Subset
  <2>5. Sum(f, s) = f[c] + Sum(f, r) /\ Sum(g, s) = g[c] + Sum(g, r)
    BY <2>2, <2>3, SumFirst
  <2>6. Sum(g, r) = Sum(f, r) + Change(r)
    BY <2>1, <2>4
  <2>7. Sum(f, r) \in Int /\ f[c] \in Int /\ g[c] \in Int
    BY <2>2, <2>4, SumType
  <2>8. Sum(g, s) # Sum(f, s) + Change(s)
    BY <2>1
  <2> HIDE DEF T, c
  <2>9. CASE c = x
    <3>1. Change(r) = 0 /\ Change(s) = k
      BY <2>4, <2>9
    <3> HIDE DEF Change, r
    <3> QED BY <2>5, <2>6, <2>7, <2>8, <2>9, <3>1
  <2>10. CASE c # x
    <3>1. Change(r) = Change(s) /\ g[c] = f[c] /\ Change(s) \in Int
      BY <2>2, <2>4, <2>10
    <3> HIDE DEF Change, r
    <3> QED BY <2>5, <2>6, <2>7, <2>8, <3>1
  <2> QED BY <2>9, <2>10
<1> QED BY <1>1

-----------------------------------------------------------------------------
(* The counters. Between its two statements a delivery, or the trace that  *)
(* one left which ended there, stands for what is still to be added.       *)

One(p) == IF p THEN 1 ELSE 0

Owed(d) == Paid(d) \in dropped \/ \E w \in Deliveries : At(w, "count") /\ InHand(w) = Paid(d)

Returned(d) ==
  Refunded(d) \in dropped \/ \E w \in Deliveries : At(w, "uncount") /\ InHand(w) = Refunded(d)

Counting(w) ==
  /\ At(w, "count") => \E d \in Donations :
       InHand(w) = Paid(d) /\ Paid(d) \notin dropped /\ donation[d] \in {"completed", "refunded"}
  /\ At(w, "refund") => \E d \in Donations : InHand(w) = Refunded(d) /\ donation[d] = "completed"
  /\ At(w, "uncount") => \E d \in Donations :
       InHand(w) = Refunded(d) /\ Refunded(d) \notin dropped /\ donation[d] = "refunded"

Dropped(e) ==
  \E d \in Donations : \/ e = Paid(d) /\ donation[d] \in {"completed", "refunded"}
                       \/ e = Refunded(d) /\ donation[d] = "refunded"

Booked ==
  /\ \A w \in Deliveries : Counting(w)
  /\ \A e \in dropped : Dropped(e)

Net == [d \in Donations |-> CountedFor(d)]
Money == [d \in Donations |-> Amount[d] * CountedFor(d)]

Totals ==
  /\ campaign.donors = Sum(Net, Donations)
  /\ campaign.raised = Sum(Money, Donations)

LEMMA EventsDiffer ==
  ASSUME NEW c, NEW d
  PROVE  /\ Paid(c) = Paid(d) => c = d
         /\ Refunded(c) = Refunded(d) => c = d
         /\ Paid(c) # Refunded(d)
         /\ Paid(c).about = c /\ Refunded(c).about = c
         /\ Paid(c).type = "checkout.session.completed" /\ Refunded(c).type = "charge.refunded"
BY DEF Paid, Refunded, Event

\* Two sets that have one element between them at most.
LEMMA OneBetween ==
  ASSUME NEW W, NEW D, \A x, y \in W : x = y, \A x, y \in D : x = y, W = {} \/ D = {}
  PROVE  Cardinality(W) + Cardinality(D) = One(W # {} \/ D # {})
<1>1. ASSUME NEW S, \A x, y \in S : x = y PROVE Cardinality(S) = One(S # {})
  <2>1. CASE S = {}
    BY <2>1, FS_EmptySet DEF One
  <2>2. CASE S # {}
    <3>1. PICK x \in S : TRUE
      BY <2>2
    <3>2. S = {x}
      BY <1>1, <3>1
    <3>3. Cardinality({x}) = 1
      BY FS_Singleton
    <3> QED BY <2>2, <3>2, <3>3 DEF One
  <2> QED BY <2>1, <2>2
<1>2. Cardinality(W) = One(W # {}) /\ Cardinality(D) = One(D # {})
  BY <1>1
<1> QED BY <1>2 DEF One

\* No two deliveries, nor a delivery and a dropped one, are to be added for one event.
Standing(d) == One(donation[d] = "completed") - One(Owed(d)) + One(Returned(d))

StandingIsCounted == \A d \in Donations : CountedFor(d) = Standing(d)

LEMMA CountedForIs == BInv /\ Booked => StandingIsCounted
<1> SUFFICES ASSUME BInv, Booked, NEW d \in Donations PROVE CountedFor(d) = Standing(d)
  BY DEF StandingIsCounted
<1>1. ASSUME NEW pc, NEW type, NEW e, e.type = type, e.about = d, pc # "idle",
             \A w \in Deliveries : At(w, pc) /\ InHand(w).about = d <=> At(w, pc) /\ InHand(w) = e,
             \A w \in Deliveries : At(w, pc) /\ InHand(w) = e => e \notin dropped,
             \A x \in dropped : x.type = type /\ x.about = d => x = e
      PROVE  Outstanding(d, pc, type)
               = One(e \in dropped \/ \E w \in Deliveries : At(w, pc) /\ InHand(w) = e)
  <2> DEFINE W == {w \in Deliveries : At(w, pc) /\ InHand(w).about = d}
             D == {x \in dropped : x.type = type /\ x.about = d}
  <2>1. \A v, w \in W : v = w
    BY <1>1 DEF BInv, Exclusive
  <2>2. \A x, y \in D : x = y
    BY <1>1
  <2>3. W = {} \/ D = {}
    BY <1>1
  <2>4. (W # {} \/ D # {}) <=> (e \in dropped \/ \E w \in Deliveries : At(w, pc) /\ InHand(w) = e)
    BY <1>1
  <2>5. Outstanding(d, pc, type) = Cardinality(W) + Cardinality(D)
    BY DEF Outstanding
  <2> HIDE DEF W, D
  <2>6. Cardinality(W) + Cardinality(D) = One(W # {} \/ D # {})
    BY <2>1, <2>2, <2>3, OneBetween
  <2> QED BY <2>4, <2>5, <2>6 DEF One
<1>2. /\ \A x \in dropped : x.type = "checkout.session.completed" /\ x.about = d => x = Paid(d)
      /\ \A x \in dropped : x.type = "charge.refunded" /\ x.about = d => x = Refunded(d)
  BY EventsDiffer DEF Booked, Dropped
<1>3. /\ \A w \in Deliveries : At(w, "count") /\ InHand(w).about = d
                                 <=> At(w, "count") /\ InHand(w) = Paid(d)
      /\ \A w \in Deliveries : At(w, "count") /\ InHand(w) = Paid(d) => Paid(d) \notin dropped
  BY EventsDiffer DEF Booked, Counting
<1>4. /\ \A w \in Deliveries : At(w, "uncount") /\ InHand(w).about = d
                                 <=> At(w, "uncount") /\ InHand(w) = Refunded(d)
      /\ \A w \in Deliveries : At(w, "uncount") /\ InHand(w) = Refunded(d) => Refunded(d) \notin dropped
  BY EventsDiffer DEF Booked, Counting
<1>5. Outstanding(d, "count", "checkout.session.completed") = One(Owed(d))
  <2> DEFINE e == Paid(d)
  <2>1. e.type = "checkout.session.completed" /\ e.about = d
    BY EventsDiffer
  <2> HIDE DEF e
  <2>2. Outstanding(d, "count", "checkout.session.completed")
          = One(e \in dropped \/ \E w \in Deliveries : At(w, "count") /\ InHand(w) = e)
    <3>1. /\ \A w \in Deliveries : At(w, "count") /\ InHand(w).about = d
                                     <=> At(w, "count") /\ InHand(w) = e
          /\ \A w \in Deliveries : At(w, "count") /\ InHand(w) = e => e \notin dropped
      BY <1>3 DEF e
    <3>2. \A x \in dropped : x.type = "checkout.session.completed" /\ x.about = d => x = e
      BY <1>2 DEF e
    <3> QED BY <1>1, <2>1, <3>1, <3>2
  <2> QED BY <2>2 DEF Owed, e
<1>6. Outstanding(d, "uncount", "charge.refunded") = One(Returned(d))
  BY <1>1, <1>2, <1>4, EventsDiffer DEF Returned
<1> QED BY <1>5, <1>6 DEF CountedFor, Standing, One

LEMMA NetIsTyped ==
  ASSUME BInv, Booked
  PROVE  Net \in [Donations -> Int] /\ Money \in [Donations -> Int]
<1>1. ASSUME NEW d \in Donations PROVE CountedFor(d) \in Int /\ Amount[d] * CountedFor(d) \in Int
  <2>1. CountedFor(d) \in Int
    BY CountedForIs DEF StandingIsCounted, Standing, One
  <2>2. Amount[d] \in Int
    BY BillingAssumption
  <2> HIDE DEF CountedFor
  <2> QED BY <2>1, <2>2
<1> QED BY <1>1 DEF Net, Money

\* What a donation counts changes with the counters.
LEMMA TotalsMove ==
  ASSUME BInv, Booked, Totals, NEW x \in Donations, NEW k \in {-1, 0, 1},
         \A d \in Donations : CountedFor(d)' = CountedFor(d) + (IF d = x THEN k ELSE 0),
         campaign'.donors = campaign.donors + k,
         campaign'.raised = campaign.raised + Amount[x] * k
  PROVE  Totals'
<1>1. Net \in [Donations -> Int] /\ Money \in [Donations -> Int]
  BY NetIsTyped
<1>2. \A d \in Donations : CountedFor(d) \in Int /\ CountedFor(d)' \in Int /\ Amount[d] \in Nat
  <2>1. \A d \in Donations : Net[d] = CountedFor(d)
    BY DEF Net
  <2> QED BY <1>1, <2>1, BillingAssumption
<1>3. Net'[x] = Net[x] + k /\ \A d \in Donations : d # x => Net'[d] = Net[d]
  BY <1>2 DEF Net
<1>4. Money'[x] = Money[x] + Amount[x] * k /\ \A d \in Donations : d # x => Money'[d] = Money[d]
  <2>1. \A d \in Donations : Money[d] = Amount[d] * CountedFor(d)
                             /\ Money'[d] = Amount[d] * CountedFor(d)'
    BY DEF Money
  <2>2. ASSUME NEW a \in Nat, NEW n \in Int PROVE a * (n + k) = a * n + a * k
    BY Z3
  <2>3. Amount[x] * (CountedFor(x) + k) = Amount[x] * CountedFor(x) + Amount[x] * k
    BY <1>2, <2>2
  <2>4. \A d \in Donations : d # x => CountedFor(d)' = CountedFor(d)
    BY <1>2
  <2>5. CountedFor(x)' = CountedFor(x) + k
    OBVIOUS
  <2> QED BY <2>1, <2>3, <2>4, <2>5
<1> DEFINE net == Net'
           money == Money'
<1>7. net \in [Donations -> Int] /\ money \in [Donations -> Int]
  <2>1. \A d \in Donations : Amount[d] * CountedFor(d)' \in Int
    BY <1>2
  <2> QED BY <1>2, <2>1 DEF Net, Money
<1> HIDE DEF net, money
<1>5. Sum(net, Donations) = Sum(Net, Donations) + k
  <2>1. net[x] = Net[x] + k /\ \A d \in Donations : d # x => net[d] = Net[d]
    BY <1>3 DEF net
  <2> QED BY <1>1, <1>7, <2>1, SumOfOne, BillingAssumption
<1>6. Sum(money, Donations) = Sum(Money, Donations) + Amount[x] * k
  <2>1. Amount[x] * k \in Int
    BY BillingAssumption
  <2>2. money[x] = Money[x] + Amount[x] * k /\ \A d \in Donations : d # x => money[d] = Money[d]
    BY <1>4 DEF money
  <2> QED BY <1>1, <1>7, <2>1, <2>2, SumOfOne, BillingAssumption, SMTT(30)
<1>8. Totals'
  BY <1>5, <1>6 DEF Totals, net, money
<1> QED BY <1>8

LEMMA TotalsStay ==
  ASSUME Totals, campaign' = campaign, \A d \in Donations : CountedFor(d)' = CountedFor(d)
  PROVE  Totals'
<1>1. Net' = Net /\ Money' = Money
  BY DEF Net, Money
<1> QED BY <1>1 DEF Totals

LEMMA CountedForThen == BInv' /\ Booked' => StandingIsCounted'
BY CountedForIs, PTL

BookInv == BInv /\ Booked /\ Totals

LEMMA StandingStays ==
  ASSUME BookInv, BInv', Booked', campaign' = campaign,
         \A d \in Donations : Standing(d)' = Standing(d)
  PROVE  BookInv'
<1>1. \A d \in Donations : CountedFor(d) = Standing(d) /\ CountedFor(d)' = Standing(d)'
  BY CountedForIs, CountedForThen DEF BookInv, StandingIsCounted
<1>2. Totals'
  BY <1>1, TotalsStay DEF BookInv
<1> QED BY <1>2 DEF BookInv

LEMMA StandingMoves ==
  ASSUME BookInv, BInv', Booked', NEW x \in Donations, NEW k \in {-1, 0, 1},
         \A d \in Donations : Standing(d)' = Standing(d) + (IF d = x THEN k ELSE 0),
         campaign'.donors = campaign.donors + k,
         campaign'.raised = campaign.raised + Amount[x] * k
  PROVE  BookInv'
<1>1. \A d \in Donations : CountedFor(d) = Standing(d) /\ CountedFor(d)' = Standing(d)'
  BY CountedForIs, CountedForThen DEF BookInv, StandingIsCounted
<1>2. Totals'
  BY <1>1, TotalsMove DEF BookInv
<1> QED BY <1>2 DEF BookInv

\* A step that no delivery takes part in.
LEMMA OutsideBook ==
  ASSUME BookInv, BInv', UNCHANGED <<delivery, dropped, campaign>>,
         \A d \in Donations :
           donation'[d] = donation[d] \/ (donation[d] = "none" /\ donation'[d] = "pending")
  PROVE  BookInv'
<1>1. Booked'
  BY DEF BookInv, Booked, Counting, Dropped
<1>2. \A d \in Donations : Standing(d)' = Standing(d)
  BY DEF Standing, Owed, Returned, One
<1> QED BY <1>1, <1>2, StandingStays

\* A delivery moves that has nothing to add.
LEMMA OtherBook ==
  ASSUME BookInv, BInv', NEW w \in Deliveries, UNCHANGED <<dropped, donation, campaign>>,
         \A v \in Deliveries \ {w} : delivery'[v] = delivery[v],
         delivery[w].pc \notin {"count", "uncount"},
         delivery'[w].pc \notin {"count", "uncount"}, Counting(w)'
  PROVE  BookInv'
<1>1. Booked'
  BY DEF BookInv, Booked, Counting, Dropped
<1>2. \A d \in Donations : (Owed(d)' <=> Owed(d)) /\ (Returned(d)' <=> Returned(d))
  BY DEF Owed, Returned
<1>3. \A d \in Donations : Standing(d)' = Standing(d)
  BY <1>2 DEF Standing, One
<1> QED BY <1>1, <1>3, StandingStays

\* The first statement, after which the second is owed.
LEMMA CompleteBook ==
  ASSUME BookInv, BInv', NEW w \in Deliveries, CompleteDonation(w)
  PROVE  BookInv'
<1>1. PICK x \in Donations : InHand(w) = Paid(x) /\ x = InHand(w).about /\ donation[x] = "pending"
  BY DEF CompleteDonation, BookInv, BInv, Completes
<1>2. /\ donation' = [donation EXCEPT ![x] = "completed"] /\ UNCHANGED <<campaign, dropped>>
      /\ delivery[w].pc = "complete"
  BY <1>1 DEF CompleteDonation, Quiet
<1>3. /\ delivery'[w].pc = "count" /\ InHand(w)' = Paid(x)
      /\ \A v \in Deliveries \ {w} : delivery'[v] = delivery[v]
  BY <1>1, GotoTyped DEF CompleteDonation, BookInv, BInv, Pcs
<1>4. donation'[x] = "completed" /\ \A d \in Donations : d # x => donation'[d] = donation[d]
  BY <1>2 DEF BookInv, BInv, Typed
<1>5. Paid(x) \notin dropped
  BY <1>1, EventsDiffer DEF BookInv, Booked, Dropped
<1>6. ~Owed(x) /\ Owed(x)'
  BY <1>1, <1>2, <1>3, <1>5 DEF Owed, BookInv, BInv, Exclusive
<1>7. \A d \in Donations : (d # x => (Owed(d)' <=> Owed(d))) /\ (Returned(d)' <=> Returned(d))
  BY <1>2, <1>3, EventsDiffer DEF Owed, Returned
<1>8. \A d \in Donations : Standing(d)' = Standing(d)
  BY <1>1, <1>4, <1>6, <1>7 DEF Standing, One
<1>9. Counting(w)'
  BY <1>2, <1>3, <1>4, <1>5 DEF Counting
<1>10. ASSUME NEW v \in Deliveries, v # w PROVE Counting(v)'
  BY <1>1, <1>2, <1>3, <1>4, <1>10 DEF BookInv, Booked, Counting
<1>11. \A e \in dropped' : Dropped(e)'
  BY <1>1, <1>2, <1>4 DEF BookInv, Booked, Dropped
<1> QED BY <1>2, <1>8, <1>9, <1>10, <1>11, StandingStays DEF Booked

LEMMA RefundBook ==
  ASSUME BookInv, BInv', NEW w \in Deliveries, RefundDonation(w)
  PROVE  BookInv'
<1>1. PICK x \in Donations : InHand(w) = Refunded(x) /\ x = InHand(w).about /\ donation[x] = "completed"
  BY EventsDiffer DEF RefundDonation, BookInv, Booked, Counting
<1>2. /\ donation' = [donation EXCEPT ![x] = "refunded"] /\ UNCHANGED <<campaign, dropped>>
      /\ delivery[w].pc = "refund"
  BY <1>1 DEF RefundDonation, Quiet
<1>3. /\ delivery'[w].pc = "uncount" /\ InHand(w)' = Refunded(x)
      /\ \A v \in Deliveries \ {w} : delivery'[v] = delivery[v]
  BY <1>1, GotoTyped DEF RefundDonation, BookInv, BInv, Pcs
<1>4. donation'[x] = "refunded" /\ \A d \in Donations : d # x => donation'[d] = donation[d]
  BY <1>2 DEF BookInv, BInv, Typed
<1>5. Refunded(x) \notin dropped
  BY <1>1, EventsDiffer DEF BookInv, Booked, Dropped
<1>6. ~Returned(x) /\ Returned(x)'
  BY <1>1, <1>2, <1>3, <1>5 DEF Returned, BookInv, BInv, Exclusive
<1>7. \A d \in Donations : (d # x => (Returned(d)' <=> Returned(d))) /\ (Owed(d)' <=> Owed(d))
  BY <1>2, <1>3, EventsDiffer DEF Owed, Returned
<1>8. \A d \in Donations : Standing(d)' = Standing(d)
  BY <1>1, <1>4, <1>6, <1>7 DEF Standing, One
<1>9. Counting(w)'
  BY <1>2, <1>3, <1>4, <1>5 DEF Counting
<1>10. ASSUME NEW v \in Deliveries, v # w PROVE Counting(v)'
  <2>1. At(v, "refund") => InHand(v) # Refunded(x)
    BY <1>1, <1>2, <1>10 DEF BookInv, BInv, Exclusive
  <2> QED BY <1>1, <1>2, <1>3, <1>4, <1>10, <2>1 DEF BookInv, Booked, Counting
<1>11. \A e \in dropped' : Dropped(e)'
  BY <1>1, <1>2, <1>4 DEF BookInv, Booked, Dropped
<1> QED BY <1>2, <1>8, <1>9, <1>10, <1>11, StandingStays DEF Booked

\* The second statement.
LEMMA CountBook ==
  ASSUME BookInv, BInv', NEW w \in Deliveries, Count(w)
  PROVE  BookInv'
<1>1. PICK x \in Donations : InHand(w) = Paid(x) /\ x = InHand(w).about /\ Paid(x) \notin dropped
  BY EventsDiffer DEF Count, BookInv, Booked, Counting
<1>2. /\ campaign' = [raised |-> campaign.raised + Amount[x], donors |-> campaign.donors + 1]
      /\ UNCHANGED <<donation, dropped>> /\ delivery[w].pc = "count"
  BY <1>1 DEF Count, Quiet
<1>3. delivery'[w].pc = "idle" /\ \A v \in Deliveries \ {w} : delivery'[v] = delivery[v]
  <2>1. InHand(w) \in Known
    BY <1>2 DEF BookInv, BInv
  <2> QED BY <2>1, AnswerTyped DEF Count, BookInv, BInv
<1>4. Owed(x) /\ ~Owed(x)'
  BY <1>1, <1>2, <1>3 DEF Owed, BookInv, BInv, Exclusive
<1>5. \A d \in Donations : (d # x => (Owed(d)' <=> Owed(d))) /\ (Returned(d)' <=> Returned(d))
  BY <1>1, <1>2, <1>3, EventsDiffer DEF Owed, Returned
<1>6. \A d \in Donations : Standing(d)' = Standing(d) + (IF d = x THEN 1 ELSE 0)
  BY <1>2, <1>4, <1>5 DEF Standing, One
<1>7. Booked'
  BY <1>2, <1>3 DEF BookInv, Booked, Counting, Dropped
<1>8. campaign'.donors = campaign.donors + 1 /\ campaign'.raised = campaign.raised + Amount[x] * 1
  BY <1>2, BillingAssumption
<1> QED BY <1>6, <1>7, <1>8, StandingMoves

LEMMA UncountBook ==
  ASSUME BookInv, BInv', NEW w \in Deliveries, Uncount(w)
  PROVE  BookInv'
<1>1. PICK x \in Donations :
        InHand(w) = Refunded(x) /\ x = InHand(w).about /\ Refunded(x) \notin dropped
  BY EventsDiffer DEF Uncount, BookInv, Booked, Counting
<1>2. /\ campaign' = [raised |-> campaign.raised - Amount[x], donors |-> campaign.donors - 1]
      /\ UNCHANGED <<donation, dropped>> /\ delivery[w].pc = "uncount"
  BY <1>1 DEF Uncount, Quiet
<1>3. delivery'[w].pc = "idle" /\ \A v \in Deliveries \ {w} : delivery'[v] = delivery[v]
  <2>1. InHand(w) \in Known
    BY <1>2 DEF BookInv, BInv
  <2> QED BY <2>1, AnswerTyped DEF Uncount, BookInv, BInv
<1>4. Returned(x) /\ ~Returned(x)'
  BY <1>1, <1>2, <1>3 DEF Returned, BookInv, BInv, Exclusive
<1>5. \A d \in Donations : (d # x => (Returned(d)' <=> Returned(d))) /\ (Owed(d)' <=> Owed(d))
  BY <1>1, <1>2, <1>3, EventsDiffer DEF Owed, Returned
<1>6. \A d \in Donations : Standing(d)' = Standing(d) + (IF d = x THEN -1 ELSE 0)
  BY <1>2, <1>4, <1>5 DEF Standing, One
<1>7. Booked'
  BY <1>2, <1>3 DEF BookInv, Booked, Counting, Dropped
<1>8. campaign.raised \in Int /\ campaign.donors \in Int
  BY NetIsTyped, SumType, BillingAssumption DEF BookInv, Totals
<1>9. campaign'.donors = campaign.donors + (-1) /\ campaign'.raised = campaign.raised + Amount[x] * (-1)
  BY <1>2, <1>8, BillingAssumption
<1> QED BY <1>6, <1>7, <1>9, StandingMoves

\* A delivery that has nothing to add goes on or is answered.
LEMMA GotoBook ==
  ASSUME BookInv, BInv', NEW w \in Deliveries, NEW pc \in Pcs \ {"count", "uncount"}, Goto(w, pc),
         UNCHANGED <<donation, campaign, dropped, events>>,
         delivery[w].pc \notin {"idle", "count", "uncount"},
         pc = "refund" => \E d \in Donations : InHand(w) = Refunded(d) /\ donation[d] = "completed"
  PROVE  BookInv'
<1>1. /\ delivery'[w].pc = pc /\ delivery'[w].event = delivery[w].event
      /\ \A v \in Deliveries \ {w} : delivery'[v] = delivery[v]
  BY GotoTyped DEF BookInv, BInv
<1>2. Counting(w)'
  BY <1>1 DEF Counting
<1> QED BY <1>1, <1>2, OtherBook

LEMMA AnswerBook ==
  ASSUME BookInv, BInv', NEW w \in Deliveries, Answer(w),
         UNCHANGED <<donation, campaign, dropped>>,
         delivery[w].pc \notin {"idle", "count", "uncount"}
  PROVE  BookInv'
<1>1. InHand(w) \in Known
  BY DEF BookInv, BInv
<1>2. delivery'[w].pc = "idle" /\ \A v \in Deliveries \ {w} : delivery'[v] = delivery[v]
  BY <1>1, AnswerTyped DEF BookInv, BInv
<1>3. Counting(w)'
  BY <1>2 DEF Counting
<1> QED BY <1>2, <1>3, OtherBook

LEMMA StepBook ==
  ASSUME BookInv, BInv', NEW w \in Deliveries, Step(w)
  PROVE  BookInv'
<1>1. CASE CompleteDonation(w) \/ RefundDonation(w) \/ Count(w) \/ Uncount(w)
  BY <1>1, CompleteBook, RefundBook, CountBook, UncountBook
<1>2. CASE ReadPaid(w)
  BY <1>2, GotoBook, AnswerBook DEF ReadPaid, Reads, Quiet, Pcs
<1>3. CASE ReadRefunded(w)
  <2>1. DonationEvent(InHand(w))
    BY <1>3 DEF ReadRefunded, Reads, BookInv, BInv
  <2>2. Refundable(InHand(w).about) =>
          \E d \in Donations : InHand(w) = Refunded(d) /\ donation[d] = "completed"
    BY <1>3, <2>1 DEF ReadRefunded, Reads, DonationEvent, Refundable
  <2> QED BY <1>3, <2>2, GotoBook, AnswerBook DEF ReadRefunded, Reads, Quiet, Pcs
<1>4. CASE RetrieveSubscription(w)
  <2> DEFINE row == [delivery[w] EXCEPT !.pc = "upsert", !.status = stripe.status]
  <2>1. /\ delivery' = [delivery EXCEPT ![w] = row] /\ delivery[w].pc = "read"
        /\ UNCHANGED <<donation, campaign, dropped>>
    BY <1>4 DEF RetrieveSubscription, Reads, Quiet
  <2>2. row.pc = "upsert"
    BY DEF BookInv, BInv, Typed, Rows
  <2> HIDE DEF row
  <2>3. delivery'[w] = row /\ \A v \in Deliveries \ {w} : delivery'[v] = delivery[v]
    BY <2>1 DEF BookInv, BInv, Typed
  <2>4. Counting(w)'
    BY <2>2, <2>3 DEF Counting
  <2> QED BY <2>1, <2>2, <2>3, <2>4, OtherBook
<1>5. CASE UpsertSubscription(w)
  <2>1. /\ Goto(w, "limits") /\ delivery[w].pc = "upsert"
        /\ UNCHANGED <<donation, campaign, dropped, events>>
    BY <1>5 DEF UpsertSubscription, Quiet
  <2>2. "limits" \in Pcs \ {"count", "uncount"}
    BY DEF Pcs
  <2> QED BY <2>1, <2>2, GotoBook
<1>6. CASE RaiseLimits(w) \/ ResetLimits(w)
  BY <1>6, AnswerBook DEF RaiseLimits, ResetLimits, Quiet
<1>7. CASE UpdateSubscription(w)
  BY <1>7, GotoBook, AnswerBook DEF UpdateSubscription, Quiet, Pcs
<1> QED BY <1>1, <1>2, <1>3, <1>4, <1>5, <1>6, <1>7 DEF Step

LEMMA BeginBook ==
  ASSUME BookInv, BInv', NEW w \in Deliveries, Begin(w)
  PROVE  BookInv'
<1>1. PICK e \in events.due \cup events.answered : Deliver(w, e)
  BY DEF Begin
<1> DEFINE row == [Idle EXCEPT !.pc = "read", !.event = e]
<1>2. /\ delivery' = [delivery EXCEPT ![w] = row] /\ delivery[w].pc = "idle"
      /\ UNCHANGED <<donation, campaign, dropped>>
  BY <1>1 DEF Deliver, donationVars
<1>3. row.pc = "read"
  BY DEF Idle
<1> HIDE DEF row
<1>4. delivery'[w] = row /\ \A v \in Deliveries \ {w} : delivery'[v] = delivery[v]
  BY <1>2 DEF BookInv, BInv, Typed
<1>5. Counting(w)'
  BY <1>3, <1>4 DEF Counting
<1> QED BY <1>2, <1>3, <1>4, <1>5, OtherBook

\* A delivery that ends between its two statements leaves its event among the dropped.
LEMMA FailBook ==
  ASSUME BookInv, BInv', NEW w \in Deliveries, Fail(w)
  PROVE  BookInv'
<1>1. /\ delivery'[w].pc = "idle" /\ \A v \in Deliveries \ {w} : delivery'[v] = delivery[v]
      /\ UNCHANGED <<donation, campaign>>
  BY DEF Fail, Idle, BookInv, BInv, Typed, donationVars
<1>2. CASE delivery[w].pc \notin {"count", "uncount"}
  <2>1. dropped' = dropped
    BY <1>2 DEF Fail
  <2>2. Counting(w)'
    BY <1>1 DEF Counting
  <2> QED BY <1>1, <1>2, <2>1, <2>2, OtherBook
<1>3. CASE delivery[w].pc \in {"count", "uncount"}
  <2>1. dropped' = dropped \cup {InHand(w)}
    BY <1>3 DEF Fail
  <2>2. PICK x \in Donations :
          \/ /\ InHand(w) = Paid(x) /\ delivery[w].pc = "count"
             /\ donation[x] \in {"completed", "refunded"}
          \/ /\ InHand(w) = Refunded(x) /\ delivery[w].pc = "uncount"
             /\ donation[x] = "refunded"
    BY <1>3 DEF BookInv, Booked, Counting
  <2>3. \A v \in Deliveries : v # w /\ delivery[v].pc # "idle" => InHand(v) # InHand(w)
    BY <1>3 DEF BookInv, BInv, Exclusive
  <2>4. ASSUME NEW v \in Deliveries PROVE Counting(v)'
    <3>1. CASE v = w
      BY <1>1, <3>1 DEF Counting
    <3>2. CASE v # w
      BY <1>1, <2>1, <2>3, <3>2 DEF BookInv, Booked, Counting
    <3> QED BY <3>1, <3>2
  <2>5. \A e \in dropped' : Dropped(e)'
    BY <1>1, <2>1, <2>2 DEF BookInv, Booked, Dropped
  <2>6. ASSUME NEW d \in Donations PROVE (Owed(d)' <=> Owed(d)) /\ (Returned(d)' <=> Returned(d))
    BY <1>1, <2>1, <2>2, EventsDiffer DEF Owed, Returned
  <2>7. \A d \in Donations : Standing(d)' = Standing(d)
    BY <1>1, <2>6 DEF Standing, One
  <2> QED BY <1>1, <2>4, <2>5, <2>7, StandingStays DEF Booked
<1> QED BY <1>2, <1>3

CountersKept == ~Overlapping => BookInv

LEMMA InitBook == Init => CountersKept
<1> SUFFICES ASSUME Init PROVE BookInv
  BY DEF CountersKept
<1>1. BInv
  BY InitBInv
<1>2. /\ dropped = {} /\ campaign = [raised |-> 0, donors |-> 0]
      /\ \A w \in Deliveries : delivery[w].pc = "idle"
      /\ \A d \in Donations : donation[d] = "none"
  BY DEF Init, Idle
<1>3. Booked
  BY <1>2 DEF Booked, Counting
<1>4. \A d \in Donations : CountedFor(d) = 0
  <2>1. \A d \in Donations : Standing(d) = 0
    BY <1>2 DEF Standing, Owed, Returned, One
  <2> QED BY <1>1, <1>3, <2>1, CountedForIs DEF StandingIsCounted
<1>5. \A d \in Donations : Net[d] = 0 /\ Money[d] = 0
  <2>1. \A d \in Donations : Amount[d] \in Nat
    BY BillingAssumption
  <2> QED BY <1>4, <2>1 DEF Net, Money
<1>6. Sum(Net, Donations) = 0 /\ Sum(Money, Donations) = 0
  <2> DEFINE net == Net
             money == Money
  <2>1. \A d \in Donations : net[d] = 0 /\ money[d] = 0
    BY <1>5
  <2> HIDE DEF net, money
  <2>2. Sum(net, Donations) = 0 /\ Sum(money, Donations) = 0
    BY <2>1, SumOfZeros, BillingAssumption
  <2> QED BY <2>2 DEF net, money
<1> QED BY <1>1, <1>2, <1>3, <1>6 DEF BookInv, Totals

LEMMA NextBook == CountersKept /\ [Next]_vars => CountersKept'
<1> SUFFICES ASSUME ~Overlapping, BookInv, [Next]_vars PROVE BookInv'
  BY DEF CountersKept
<1>1. BInv'
  BY NextInv DEF OneAtATime, BookInv
<1>2. CASE \E w \in Deliveries : Begin(w) \/ Step(w) \/ Fail(w)
  BY <1>1, <1>2, BeginBook, StepBook, FailBook
<1>3. ASSUME \/ \E d \in Donations : CreateSession(d) \/ Pay(d) \/ Refund(d)
             \/ Subscribe \/ DeleteSubscription
             \/ \E status \in {"active", "past_due", "unpaid", "ending"} : ChangeSubscription(status)
             \/ UNCHANGED vars
      PROVE  BookInv'
  <2>1. UNCHANGED <<delivery, dropped, campaign, donation>>
    BY <1>3 DEF CreateSession, Pay, Refund, Subscribe, DeleteSubscription, ChangeSubscription,
                StripeStep, donationVars, vars
  <2> QED BY <1>1, <2>1, OutsideBook
<1>4. ASSUME NEW d \in Donations, CreateDonation(d) PROVE BookInv'
  <2>1. /\ donation' = [donation EXCEPT ![d] = "pending"] /\ donation[d] = "none"
        /\ UNCHANGED <<delivery, dropped, campaign>>
    BY <1>4 DEF CreateDonation
  <2> QED BY <1>1, <2>1, OutsideBook DEF BookInv, BInv, Typed
<1> QED BY <1>2, <1>3, <1>4 DEF Next

\* Where deliveries of one event do not overlap, the campaign's counters are those of its
\* completed donations but for deliveries on their way and those that ended between the two
\* statements, however often and in whatever order events come (webhook/+server.ts:59-79,
\* 221-234).
THEOREM CountersAreRight == Spec => []CampaignTotals
<1>1. CountersKept => CampaignTotals
  BY DEF CountersKept, BookInv, Totals, Net, Money, CampaignTotals
<1> QED BY InitBook, NextBook, <1>1, PTL DEF Spec
=============================================================================
