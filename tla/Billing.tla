------------------------------ MODULE Billing ------------------------------
(***************************************************************************)
(* Donations and subscriptions: the checkout of a donation                 *)
(* (routes/api/d/[campaignId]/checkout), the webhook that Stripe tells     *)
(* what was paid, refunded, changed and deleted                            *)
(* (routes/api/billing/webhook), and Stripe itself.                        *)
(*                                                                         *)
(* Stripe keeps an event until a delivery of it is answered with 200, may  *)
(* deliver it again after that, and delivers events in any order. Every    *)
(* statement of a delivery is a step, and any of them may be its last. One *)
(* campaign and the subscription of one organisation are modelled.         *)
(***************************************************************************)
EXTENDS Integers, FiniteSets, FiniteSetsExt

CONSTANTS
  Donations,    \* requests to the donation checkout; each creates a donation at most
  Amount,       \* Amount[d]: amountCents
  Recurring,    \* donations by the month or year; their session has no payment intent
  Deliveries,   \* executions of the webhook that may run at the same time
  Overlapping,  \* whether Stripe may deliver an event while a delivery of it still runs
  MaxChanges,   \* bound: changes of the subscription at Stripe
  MaxReplays,   \* bound: deliveries of events already answered
  MaxFaults,    \* bound: deliveries that throw or are evicted
  None

ASSUME BillingAssumption ==
  /\ IsFiniteSet(Donations) /\ Amount \in [Donations -> Nat]
  /\ Recurring \subseteq Donations
  /\ None \notin Donations
  /\ Overlapping \in BOOLEAN
  /\ {MaxChanges, MaxReplays, MaxFaults} \subseteq Nat

VARIABLES
  donation,  \* donation[d]: status of the donation row
  campaign,  \* the counters of the campaign row
  session,   \* session[d]: the checkout session of d at Stripe
  stripe,    \* the subscription at Stripe
  org,       \* the subscription row's status and the limits of the organisation
  events,    \* what Stripe still has to deliver, and what was answered
  delivery,  \* delivery[w]: where an execution of the webhook is
  bounds,    \* how often the bounded things have happened
  dropped    \* deliveries that ended between a donation's status and the counters

vars == <<donation, campaign, session, stripe, org, events, delivery, bounds, dropped>>
donationVars == <<donation, campaign, session>>
stripeVars == <<session, stripe>>

\* An event of Stripe. `no' is the number of the subscription's change, `status' the
\* subscription's status then.
Event(type, about, no, status) == [type |-> type, about |-> about, no |-> no, status |-> status]

Idle == [pc |-> "idle", event |-> None, status |-> "none"]

Init ==
  /\ donation = [d \in Donations |-> "none"]
  /\ campaign = [raised |-> 0, donors |-> 0]
  /\ session = [d \in Donations |-> "none"]
  /\ stripe = [status |-> "none", changes |-> 0]
  /\ org = [status |-> "none", limits |-> "free"]
  /\ events = [due |-> {}, answered |-> {}]
  /\ delivery = [w \in Deliveries |-> Idle]
  /\ bounds = [replays |-> 0, faults |-> 0]
  /\ dropped = {}

-----------------------------------------------------------------------------
(* The donation checkout: the row first, then the session that names it.   *)
(* Nothing reads the session's id that a third statement stores.           *)

CreateDonation(d) ==
  /\ donation[d] = "none"
  /\ donation' = [donation EXCEPT ![d] = "pending"]
  /\ UNCHANGED <<campaign, session, stripe, org, events, delivery, bounds, dropped>>

\* Or the request ends before, and the donation is pending for good.
CreateSession(d) ==
  /\ donation[d] = "pending" /\ session[d] = "none"
  /\ session' = [session EXCEPT ![d] = "open"]
  /\ UNCHANGED <<donation, campaign, stripe, org, events, delivery, bounds, dropped>>

-----------------------------------------------------------------------------
(* Stripe.                                                                 *)

Emit(new) == events' = [events EXCEPT !.due = @ \cup new]

Pay(d) ==
  /\ session[d] = "open"
  /\ session' = [session EXCEPT ![d] = "paid"]
  /\ Emit({Event("checkout.session.completed", d, 0, "none")})
  /\ UNCHANGED <<donation, campaign, stripe, org, delivery, bounds, dropped>>

Refund(d) ==
  /\ session[d] = "paid"
  /\ session' = [session EXCEPT ![d] = "refunded"]
  /\ Emit({Event("charge.refunded", d, 0, "none")})
  /\ UNCHANGED <<donation, campaign, stripe, org, delivery, bounds, dropped>>

StripeStep(status, types) ==
  /\ stripe' = [status |-> status, changes |-> stripe.changes + 1]
  /\ Emit({Event(type, None, stripe'.changes, status) : type \in types})
  /\ UNCHANGED <<donationVars, org, delivery, bounds, dropped>>

Subscribe ==
  /\ stripe.status = "none"
  /\ StripeStep("active", {"checkout.session.completed"})

\* A payment fails, a later one succeeds, Stripe gives up on the invoice, or the owner
\* asks in the portal that an active subscription end with its period.
ChangeSubscription(status) ==
  /\ stripe.changes <= MaxChanges
  /\ stripe.status \notin {"none", "canceled", status}
  /\ StripeStep(status, {"customer.subscription.updated"} \cup
                        (IF status = "past_due" THEN {"invoice.payment_failed"} ELSE {}))

DeleteSubscription ==
  /\ stripe.status \notin {"none", "canceled"}
  /\ StripeStep("canceled", {"customer.subscription.deleted"})

-----------------------------------------------------------------------------
(* The webhook.                                                            *)

At(w, pc) == delivery[w].pc = pc
InHand(w) == delivery[w].event
Goto(w, pc) == delivery' = [delivery EXCEPT ![w].pc = pc]

\* Answered with 200.
Answer(w) ==
  /\ events' = [due |-> events.due \ {InHand(w)}, answered |-> events.answered \cup {InHand(w)}]
  /\ delivery' = [delivery EXCEPT ![w] = Idle]

Deliver(w, e) ==
  /\ At(w, "idle")
  /\ Overlapping \/ \A v \in Deliveries : InHand(v) # e
  /\ \/ e \in events.due /\ UNCHANGED bounds
     \/ /\ e \in events.answered /\ bounds.replays < MaxReplays
        /\ bounds' = [bounds EXCEPT !.replays = @ + 1]
  /\ delivery' = [delivery EXCEPT ![w] = [Idle EXCEPT !.pc = "read", !.event = e]]
  /\ UNCHANGED <<donationVars, stripe, org, events, dropped>>

Reads(w, type) == At(w, "read") /\ InHand(w).type = type
Quiet == UNCHANGED <<stripeVars, bounds, dropped>>

\* Mutant of ReadPaid: the status is not looked at.
ReadAnyPaid(w) ==
  /\ Reads(w, "checkout.session.completed") /\ InHand(w).about \in Donations
  /\ Goto(w, "complete") /\ UNCHANGED events
  /\ UNCHANGED <<donation, campaign, org>> /\ Quiet

\* Only a pending donation is completed.
ReadPaid(w) ==
  /\ Reads(w, "checkout.session.completed") /\ InHand(w).about \in Donations
  /\ IF donation[InHand(w).about] = "pending" THEN Goto(w, "complete") /\ UNCHANGED events
                                               ELSE Answer(w)
  /\ UNCHANGED <<donation, campaign, org>> /\ Quiet

CompleteDonation(w) ==
  /\ At(w, "complete")
  /\ donation' = [donation EXCEPT ![InHand(w).about] = "completed"]
  /\ Goto(w, "count")
  /\ UNCHANGED <<campaign, org, events>> /\ Quiet

Count(w) ==
  /\ At(w, "count")
  /\ campaign' = [raised |-> campaign.raised + Amount[InHand(w).about],
                  donors |-> campaign.donors + 1]
  /\ Answer(w)
  /\ UNCHANGED <<donation, org>> /\ Quiet

\* A donation is found by the payment intent that its completion stored, and a session
\* of a recurring one had none. A refund of a donation not completed yet is forgotten.
Refundable(d) == d \notin Recurring /\ donation[d] = "completed"

ReadRefunded(w) ==
  /\ Reads(w, "charge.refunded")
  /\ IF Refundable(InHand(w).about) THEN Goto(w, "refund") /\ UNCHANGED events ELSE Answer(w)
  /\ UNCHANGED <<donation, campaign, org>> /\ Quiet

RefundDonation(w) ==
  /\ At(w, "refund")
  /\ donation' = [donation EXCEPT ![InHand(w).about] = "refunded"]
  /\ Goto(w, "uncount")
  /\ UNCHANGED <<campaign, org, events>> /\ Quiet

Uncount(w) ==
  /\ At(w, "uncount")
  /\ campaign' = [raised |-> campaign.raised - Amount[InHand(w).about],
                  donors |-> campaign.donors - 1]
  /\ Answer(w)
  /\ UNCHANGED <<donation, org>> /\ Quiet

\* A subscription's checkout is read again at Stripe, which answers with its status now.
RetrieveSubscription(w) ==
  /\ Reads(w, "checkout.session.completed") /\ InHand(w).about = None
  /\ delivery' = [delivery EXCEPT ![w].pc = "upsert", ![w].status = stripe.status]
  /\ UNCHANGED <<donation, campaign, org, events>> /\ Quiet

UpsertSubscription(w) ==
  /\ At(w, "upsert")
  /\ org' = [org EXCEPT !.status =
       IF delivery[w].status \in {"active", "ending"} THEN "active" ELSE "trialing"]
  /\ Goto(w, "limits")
  /\ UNCHANGED <<donation, campaign, events>> /\ Quiet

\* Mutant of RaiseLimits: the organisation keeps its limits.
KeepLimits(w) ==
  /\ At(w, "limits")
  /\ Answer(w)
  /\ UNCHANGED <<donation, campaign, org>> /\ Quiet

RaiseLimits(w) ==
  /\ At(w, "limits")
  /\ org' = [org EXCEPT !.limits = "paid"]
  /\ Answer(w)
  /\ UNCHANGED <<donation, campaign>> /\ Quiet

\* cancel_at_period_end reads as canceled; a status that is not known reads as active.
EffectiveStatus(status) ==
  IF status \in {"ending", "canceled"} THEN "canceled"
  ELSE IF status = "past_due" THEN "past_due" ELSE "active"

NewStatus(event) ==
  IF event.type = "customer.subscription.updated" THEN EffectiveStatus(event.status)
  ELSE IF event.type = "invoice.payment_failed" THEN "past_due" ELSE "canceled"

\* The row is looked up by its subscription; a row that is there stays, so that the
\* look-up and the update are one step.
UpdateSubscription(w) ==
  /\ At(w, "read")
  /\ InHand(w).type \in {"customer.subscription.updated", "invoice.payment_failed",
                         "customer.subscription.deleted"}
  /\ IF org.status = "none" THEN Answer(w) /\ UNCHANGED org
     ELSE /\ org' = [org EXCEPT !.status = NewStatus(InHand(w))]
          /\ IF InHand(w).type = "customer.subscription.deleted"
             THEN Goto(w, "reset") /\ UNCHANGED events ELSE Answer(w)
  /\ UNCHANGED <<donation, campaign>> /\ Quiet

ResetLimits(w) ==
  /\ At(w, "reset")
  /\ org' = [org EXCEPT !.limits = "free"]
  /\ Answer(w)
  /\ UNCHANGED <<donation, campaign>> /\ Quiet

\* Mutant of Fail: the event was answered before it was handled.
AnswerAndFail(w) ==
  /\ ~At(w, "idle")
  /\ bounds.faults < MaxFaults
  /\ bounds' = [bounds EXCEPT !.faults = @ + 1]
  /\ Answer(w)
  /\ UNCHANGED <<donationVars, stripe, org, dropped>>

\* A statement throws, or the isolate goes: no 200, and Stripe delivers the event again.
Fail(w) ==
  /\ ~At(w, "idle")
  /\ bounds.faults < MaxFaults
  /\ bounds' = [bounds EXCEPT !.faults = @ + 1]
  /\ delivery' = [delivery EXCEPT ![w] = Idle]
  /\ dropped' = dropped \cup (IF delivery[w].pc \in {"count", "uncount"} THEN {InHand(w)} ELSE {})
  /\ UNCHANGED <<donationVars, stripe, org, events>>

-----------------------------------------------------------------------------
Step(w) ==
  \/ ReadPaid(w) \/ CompleteDonation(w) \/ Count(w)
  \/ ReadRefunded(w) \/ RefundDonation(w) \/ Uncount(w)
  \/ RetrieveSubscription(w) \/ UpsertSubscription(w) \/ RaiseLimits(w)
  \/ UpdateSubscription(w) \/ ResetLimits(w)

Begin(w) == \E e \in events.due \cup events.answered : Deliver(w, e)

Next ==
  \/ \E d \in Donations : CreateDonation(d) \/ CreateSession(d) \/ Pay(d) \/ Refund(d)
  \/ Subscribe \/ DeleteSubscription
  \/ \E status \in {"active", "past_due", "unpaid", "ending"} : ChangeSubscription(status)
  \/ \E w \in Deliveries : Begin(w) \/ Step(w) \/ Fail(w)

Spec == Init /\ [][Next]_vars

\* Stripe delivers what was not answered, and a delivery runs on unless it fails.
Fairness == \A w \in Deliveries : WF_vars(Step(w)) /\ WF_vars(\E e \in events.due : Deliver(w, e))

FairSpec == Spec /\ Fairness

-----------------------------------------------------------------------------
(* Properties. The first two are claimed where Stripe does not deliver an  *)
(* event while a delivery of it runs: the webhook reads a donation and     *)
(* updates it by id in another statement.                                  *)

TypeOK ==
  /\ donation \in [Donations -> {"none", "pending", "completed", "refunded"}]
  /\ campaign \in [raised : Int, donors : Int]
  /\ session \in [Donations -> {"none", "open", "paid", "refunded"}]
  /\ stripe \in [status : {"none", "active", "ending", "past_due", "unpaid", "canceled"},
                 changes : Nat]
  /\ org \in [status : {"none", "active", "trialing", "past_due", "canceled"},
              limits : {"free", "paid"}]
  /\ DOMAIN delivery = Deliveries
  /\ \A w \in Deliveries : At(w, "idle") <=> InHand(w) = None
  /\ bounds.replays <= MaxReplays /\ bounds.faults <= MaxFaults

\* What is still to be added to the counters for d, by a delivery that is on its way or
\* was dropped.
Outstanding(d, pc, type) ==
  Cardinality({w \in Deliveries : At(w, pc) /\ InHand(w).about = d})
    + Cardinality({e \in dropped : e.type = type /\ e.about = d})

CountedFor(d) ==
  (IF donation[d] = "completed" THEN 1 ELSE 0)
    - Outstanding(d, "count", "checkout.session.completed")
    + Outstanding(d, "uncount", "charge.refunded")

Sum(f, S) == MapThenSumSet(LAMBDA i : f[i], S)

\* A campaign's counters are those of its completed donations, but for deliveries on
\* their way and those that ended between the two statements; however often Stripe
\* delivers an event, and in whatever order (webhook/+server.ts:59-79, 221-234).
CampaignTotals ==
  ~Overlapping =>
    /\ campaign.donors = Sum([d \in Donations |-> CountedFor(d)], Donations)
    /\ campaign.raised = Sum([d \in Donations |-> Amount[d] * CountedFor(d)], Donations)

\* A replayed checkout never takes a refund back (webhook/+server.ts:60).
RefundedIsFinal ==
  [][~Overlapping =>
       \A d \in Donations : donation[d] = "refunded" => donation'[d] = "refunded"]_vars

\* Money that was paid is recorded in the end, whichever deliveries fail: the donation
\* exists before its session does, and a delivery that fails is no delivery
\* (checkout/+server.ts:102-146, webhook/+server.ts:58-69).
PaidIsRecorded ==
  \A d \in Donations :
    session[d] \in {"paid", "refunded"} ~> donation[d] \in {"completed", "refunded"}

\* Who subscribes gets the limits of the plan in the end, whichever deliveries fail, or
\* the subscription has been deleted meanwhile (webhook/+server.ts:105-141).
SubscriberGetsPlan == stripe.status = "active" ~> org.limits = "paid" \/ stripe.status = "canceled"
=============================================================================
