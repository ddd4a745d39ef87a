--------------------------- MODULE CircuitBreaker ---------------------------
(***************************************************************************)
(* The RPC circuit breaker of lib/core/blockchain/district-gate-client.ts. *)
(* One breaker, in the module scope of an isolate, guards every call to    *)
(* the chain: verifyOnChain, the debate market client, the operator wallet *)
(* and the retry cron, which asks it once more before it starts a batch.   *)
(*                                                                         *)
(* Times are kept as ages: the code only ever compares now - t with a      *)
(* window or a cooldown, so an age may saturate at the larger of the two   *)
(* and time needs no bound.                                                *)
(***************************************************************************)
EXTENDS Integers, Sequences, FiniteSets

CONSTANTS
  Callers,      \* calls that ask the breaker, call the RPC and report
  Crons,        \* retry batches, which ask before their calls ask again
  Threshold,    \* failures within the window that open the breaker
  Window,       \* CIRCUIT_BREAKER_WINDOW_MS, in ticks
  Cooldown,     \* CIRCUIT_BREAKER_COOLDOWN_MS, in ticks
  SilentExits,  \* may an admitted call return without reporting to the breaker?
  None

ASSUME BreakerAssumption ==
  /\ Threshold \in Nat \ {0}
  /\ Window \in Nat \ {0}
  /\ Cooldown \in Nat \ {0}
  /\ SilentExits \in BOOLEAN
  /\ None \notin Nat
  /\ Callers \cap Crons = {}

VARIABLES
  state,      \* circuitBreaker.state
  failures,   \* circuitBreaker.failures, as the ages of the failures kept
  openedAge,  \* now - circuitBreaker.openedAt, or None
  probing,    \* circuitBreaker.halfOpenAttemptInProgress
  pc,         \* where each caller and cron is
  silent      \* history: the slot is held by one who will never report

vars == <<state, failures, openedAge, probing, pc, silent>>
breaker == <<state, failures, openedAge, probing>>

Processes == Callers \cup Crons

\* An age saturates where no comparison can tell it from an older one.
MaxAge == IF Window > Cooldown THEN Window ELSE Cooldown
Older(age) == IF age < MaxAge THEN age + 1 ELSE age

\* The filter that keeps the failures within the window.
Recent(ages) ==
  LET kept[i \in 0..Len(ages)] ==
        IF i = 0 THEN <<>>
        ELSE IF ages[i] < Window THEN Append(kept[i - 1], ages[i]) ELSE kept[i - 1]
  IN  kept[Len(ages)]

Init ==
  /\ state = "closed"
  /\ failures = <<>>
  /\ openedAge = None
  /\ probing = FALSE
  /\ pc = [p \in Processes |-> "idle"]
  /\ silent = FALSE

-----------------------------------------------------------------------------
(* isCircuitOpen: the answer, and the slot a negative answer consumes.     *)

CoolingDown == state = "open" /\ (openedAge = None \/ openedAge < Cooldown)

IsCircuitOpen == CoolingDown \/ (state = "half_open" /\ probing)

\* What isCircuitOpen does to the breaker when it lets the caller through.
PassCircuit ==
  /\ ~IsCircuitOpen
  /\ IF state = "closed"
       THEN UNCHANGED <<state, probing>>
       ELSE state' = "half_open" /\ probing' = TRUE
  /\ UNCHANGED <<failures, openedAge>>

\* Mutants of RecordRpcFailure: no half-open case; one failure too many; a failed test
\* that does not free the slot.
NoHalfOpenCase ==
  /\ failures' = Append(Recent(failures), 0)
  /\ IF Len(failures') >= Threshold /\ state = "closed"
       THEN state' = "open" /\ openedAge' = 0
       ELSE UNCHANGED <<state, openedAge>>
  /\ UNCHANGED probing

OneFailureTooMany ==
  IF state = "half_open"
    THEN state' = "open" /\ openedAge' = 0 /\ probing' = FALSE /\ UNCHANGED failures
    ELSE /\ failures' = Append(Recent(failures), 0)
         /\ IF Len(failures') > Threshold /\ state = "closed"
              THEN state' = "open" /\ openedAge' = 0
              ELSE UNCHANGED <<state, openedAge>>
         /\ UNCHANGED probing

SlotKept ==
  /\ IF state = "half_open" THEN UNCHANGED failures
                            ELSE failures' = Append(Recent(failures), 0)
  /\ IF state = "half_open" \/ (state = "closed" /\ Len(failures') >= Threshold)
       THEN state' = "open" /\ openedAge' = 0
       ELSE UNCHANGED <<state, openedAge>>
  /\ UNCHANGED probing

RecordRpcFailure ==
  IF state = "half_open"
    THEN /\ state' = "open"
         /\ openedAge' = 0
         /\ probing' = FALSE
         /\ UNCHANGED failures
    ELSE /\ failures' = Append(Recent(failures), 0)
         /\ IF Len(failures') >= Threshold /\ state = "closed"
              THEN state' = "open" /\ openedAge' = 0
              ELSE UNCHANGED <<state, openedAge>>
         /\ UNCHANGED probing

\* Mutant of RecordRpcSuccess: forgets to close.
SuccessDoesNotClose ==
  /\ failures' = <<>>
  /\ probing' = FALSE
  /\ UNCHANGED <<state, openedAge>>

RecordRpcSuccess ==
  /\ state' = "closed"
  /\ failures' = <<>>
  /\ probing' = FALSE
  /\ openedAge' = None

-----------------------------------------------------------------------------
(* The processes that share the breaker.                                   *)

InFlight(p) == pc[p] \in {"calling", "testing"}
Testing == {p \in Processes : pc[p] = "testing"}

\* verifyOnChain is let through; a cron calls it from within a batch. A call let
\* through by a breaker that is not closed is the half-open test.
Call(p) ==
  /\ \/ p \in Callers /\ pc[p] = "idle"
     \/ p \in Crons /\ pc[p] = "batch"
  /\ PassCircuit
  /\ pc' = [pc EXCEPT ![p] = IF state = "closed" THEN "calling" ELSE "testing"]
  /\ UNCHANGED silent

AfterCall(p) == [pc EXCEPT ![p] = IF p \in Crons THEN "batch" ELSE "idle"]

\* The transaction is mined and its receipt arrives.
Succeed(p) ==
  /\ InFlight(p)
  /\ RecordRpcSuccess
  /\ pc' = AfterCall(p)
  /\ silent' = FALSE

\* The balance check throws, or sending fails with an RPC error.
FailRpc(p) ==
  /\ InFlight(p)
  /\ RecordRpcFailure
  /\ pc' = AfterCall(p)
  /\ silent' = FALSE

\* Invalid input, missing configuration, a low balance, a failed signature, an
\* unreadable nonce, a contract revert: the call ends and the breaker is not told.
\* The last test of a half-open breaker to end so leaves its slot to nobody.
ExitSilently(p) ==
  /\ SilentExits
  /\ InFlight(p)
  /\ pc' = AfterCall(p)
  /\ silent' = (silent \/ (state = "half_open" /\ Testing = {p}))
  /\ UNCHANGED breaker

\* processRetryQueue asks the breaker before it reads its batch; a slot it takes by
\* that is refused to the calls of the batch itself, and is never reported on.
StartBatch(p) ==
  /\ p \in Crons /\ pc[p] = "idle"
  /\ PassCircuit
  /\ pc' = [pc EXCEPT ![p] = "batch"]
  /\ silent' = (state # "closed")

\* The batch was empty, or its last row is done.
EndBatch(p) ==
  /\ p \in Crons /\ pc[p] = "batch"
  /\ pc' = [pc EXCEPT ![p] = "idle"]
  /\ UNCHANGED <<breaker, silent>>

Tick ==
  /\ failures' = [i \in DOMAIN failures |-> Older(failures[i])]
  /\ openedAge' = IF openedAge = None THEN None ELSE Older(openedAge)
  /\ UNCHANGED <<state, probing, pc, silent>>

Next ==
  \/ Tick
  \/ \E p \in Processes :
       \/ Call(p) \/ Succeed(p) \/ FailRpc(p) \/ ExitSilently(p)
       \/ StartBatch(p) \/ EndBatch(p)

Spec == Init /\ [][Next]_vars

\* Time passes and every admitted call returns; nobody has to call.
Fairness ==
  /\ WF_vars(Tick)
  /\ \A p \in Processes : WF_vars(Succeed(p) \/ FailRpc(p) \/ ExitSilently(p))

FairSpec == Spec /\ Fairness

-----------------------------------------------------------------------------
(* Properties.                                                             *)

TypeOK ==
  /\ state \in {"closed", "open", "half_open"}
  /\ failures \in Seq(0..MaxAge)
  /\ openedAge \in 0..MaxAge \cup {None}
  /\ probing \in BOOLEAN
  /\ pc \in [Processes -> {"idle", "batch", "calling", "testing"}]

\* A closed breaker has seen fewer failures within the window than open it, so
\* the failure that completes a burst is never let past, whatever the order in
\* which concurrent calls report (recordRpcFailure, lines 110-117).
ClosedMeansQuiet ==
  state = "closed" =>
    /\ Len(Recent(failures)) < Threshold
    /\ openedAge = None
    /\ ~probing

\* An open breaker always has the time its cooldown runs from and no slot taken:
\* without either, no later isCircuitOpen could ever let a test request through.
OpenCanExpire ==
  state = "open" => openedAge # None /\ ~probing

\* A half-open breaker whose slot is taken refuses everybody until a call reports.
\* Only a silent exit or a cron's question can leave the slot to nobody: no report,
\* by whichever of the concurrent calls and in whatever order, ever does.
StrandedOnlyInSilence ==
  state = "half_open" => probing /\ (silent \/ Testing # {})

\* The same without the exception: the tests call the other case unrecoverable
\* (district-gate-client.test.ts:181-183), but the code's silent exits reach it.
NeverStranded ==
  state = "half_open" => probing /\ \E p \in Processes : InFlight(p)

\* A half-open test that somebody will report on comes to an end: the breaker
\* closes or opens again, unless the last tester falls silent.
ProbeResolves ==
  (state = "half_open" /\ ~silent) ~> (state # "half_open" \/ silent)
=============================================================================
