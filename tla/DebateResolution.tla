-------------------------- MODULE DebateResolution --------------------------
(***************************************************************************)
(* How a debate ends: the community's endpoint (api/debates/[debateId]/    *)
(* resolve) and the evaluation by AI models that the daily cron or an      *)
(* operator asks for (.../evaluate), beside the participation that is      *)
(* still under way.                                                        *)
(*                                                                         *)
(* The two share the row of the debate and the contract. The community's   *)
(* last statement is conditional on an active debate, the evaluation's     *)
(* statements are not; its limiter is memory of one isolate. The hourly    *)
(* quota, which only refuses, and the scores of single arguments are left  *)
(* out.                                                                    *)
(***************************************************************************)
EXTENDS DebateParticipation

CONSTANTS
  Resolvers,   \* POSTs to resolve
  Evaluators,  \* POSTs to evaluate
  Isolates     \* isolates that serve evaluate

VARIABLES
  resolution,  \* resolution_method, winning_argument_index, resolved_from_chain of the
               \* debate, and whether it has an ai_resolution
  onChain,     \* the contract's status of the debate, and the winner it drew
  res,         \* res[p]: where resolver p is, and its winner
  ev,          \* ev[e]: where evaluator e is, its isolate, the arguments it read, its winner
  memory       \* memory[i]: activeEvaluations and recentEvaluations of isolate i

resolutionVars == <<resolution, onChain, res, ev, memory>>
allVars == <<vars, resolutionVars>>

NoEvaluation == [pc |-> "idle", isolate |-> None, read |-> {}, winner |-> 0, fromChain |-> FALSE]
Forgotten == [active |-> FALSE, recent |-> FALSE]

DebateInit ==
  /\ Init
  /\ resolution = [method |-> "none", winner |-> 0, fromChain |-> FALSE, ai |-> FALSE]
  /\ onChain = [status |-> "active", winner |-> 0]
  /\ res = [p \in Resolvers |-> [pc |-> "idle", winner |-> 0, fromChain |-> FALSE]]
  /\ ev = [e \in Evaluators |-> NoEvaluation]
  /\ memory = [i \in Isolates |-> Forgotten]

Verified == {k \in DOMAIN argument : argument[k].status = "verified"}
\* Mutant: the verification status is not looked at.
LeadersOfAll ==
  {k \in DOMAIN argument : \A j \in DOMAIN argument : argument[j].score <= argument[k].score}

Leaders == {k \in Verified : \A j \in Verified : argument[j].score <= argument[k].score}

\* The contract resolves an active debate once, by its own tally.
ResolveByContract ==
  /\ Configured /\ onChain.status = "active"
  /\ \E k \in 1..Len(market.arguments) : onChain' = [status |-> "resolved", winner |-> k - 1]

-----------------------------------------------------------------------------
(* The community's resolution.                                             *)

ResolverGoto(p, pc) == res' = [res EXCEPT ![p].pc = pc]

ReadForResolution(p) ==
  /\ res[p].pc = "idle"
  /\ status = "active" /\ expired
  /\ resolution.method = "none" /\ ~resolution.ai
  /\ \E k \in Leaders : res' = [res EXCEPT ![p] = [pc |-> "chain", winner |-> k, fromChain |-> FALSE]]
  /\ UNCHANGED <<vars, resolution, onChain, ev, memory>>

ResolveOnChain(p) ==
  /\ res[p].pc = "chain"
  /\ \/ ResolveByContract /\ ResolverGoto(p, "read")
     \/ ~Configured /\ ResolverGoto(p, "commit") /\ UNCHANGED onChain
  /\ UNCHANGED <<vars, resolution, ev, memory>>

\* Mutant: a failure on chain falls back to the database's winner.
FailsOver(p) ==
  /\ res[p].pc = "chain" /\ Configured
  /\ ResolveByContract \/ UNCHANGED onChain
  /\ ResolverGoto(p, "commit")
  /\ UNCHANGED <<vars, resolution, ev, memory>>

\* Refused, or the receipt lost: 502.
ResolveOnChainFails(p) ==
  /\ res[p].pc = "chain" /\ Configured
  /\ ResolveByContract \/ UNCHANGED onChain
  /\ ResolverGoto(p, "done")
  /\ UNCHANGED <<vars, resolution, ev, memory>>

\* The contract's winner replaces the database's, if it can be read.
ReadChainWinner(p) ==
  /\ res[p].pc = "read"
  /\ \/ res' = [res EXCEPT ![p] = [pc |-> "commit", winner |-> onChain.winner, fromChain |-> TRUE]]
     \/ ResolverGoto(p, "commit")
  /\ UNCHANGED <<vars, resolution, onChain, ev, memory>>

\* Mutant: the update does not ask for an active debate.
CommitAlways(p) ==
  /\ res[p].pc = "commit"
  /\ status' = "resolved"
  /\ resolution' = [resolution EXCEPT !.method = "community_only", !.winner = res[p].winner,
                                      !.fromChain = res[p].fromChain]
  /\ ResolverGoto(p, "won")
  /\ UNCHANGED <<expired, debateVars, onChain, ev, memory>>

CommitCommunity(p) ==
  /\ res[p].pc = "commit" /\ status = "active"
  /\ status' = "resolved"
  /\ resolution' = [resolution EXCEPT !.method = "community_only", !.winner = res[p].winner,
                                      !.fromChain = res[p].fromChain]
  /\ ResolverGoto(p, "won")
  /\ UNCHANGED <<expired, debateVars, onChain, ev, memory>>

\* No row is active any more: 409. Or the database fails, or the isolate is gone.
ResolverLoses(p) ==
  /\ res[p].pc \in {"read", "commit"}
  /\ ResolverGoto(p, "done")
  /\ UNCHANGED <<vars, resolution, onChain, ev, memory>>

-----------------------------------------------------------------------------
(* The evaluation.                                                         *)

EvaluatorGoto(e, pc) == ev' = [ev EXCEPT ![e].pc = pc]
Evaluating(e) == ev[e].pc \in {"panel", "escalate", "govern", "submit", "read", "commit"}

\* checkRateLimit, before the debate is read.
CheckRateLimit(e, i) ==
  /\ ev[e].pc = "idle"
  /\ memory[i] = Forgotten
  /\ ev' = [ev EXCEPT ![e].pc = "limited", ![e].isolate = i]
  /\ UNCHANGED <<vars, resolution, onChain, res, memory>>

\* Mutant: a debate is evaluated whatever its status.
ReadAnyForEvaluation(e) ==
  /\ ev[e].pc = "limited"
  /\ expired /\ Verified # {}
  /\ ev' = [ev EXCEPT ![e].pc = "panel", ![e].read = Verified]
  /\ memory' = [memory EXCEPT ![ev[e].isolate].active = TRUE]
  /\ UNCHANGED <<vars, resolution, onChain, res>>

\* The slot is taken after the read has answered.
ReadForEvaluation(e) ==
  /\ ev[e].pc = "limited"
  /\ status = "active" /\ expired /\ Verified # {}
  /\ ev' = [ev EXCEPT ![e].pc = "panel", ![e].read = Verified]
  /\ memory' = [memory EXCEPT ![ev[e].isolate].active = TRUE]
  /\ UNCHANGED <<vars, resolution, onChain, res>>

RefuseEvaluation(e) ==
  /\ ev[e].pc = "limited"
  /\ EvaluatorGoto(e, "done")
  /\ UNCHANGED <<vars, resolution, onChain, res, memory>>

\* finally: the slot is released and the debounce starts.
Release(e) ==
  /\ EvaluatorGoto(e, "done")
  /\ memory' = [memory EXCEPT ![ev[e].isolate] = [active |-> FALSE, recent |-> TRUE]]

\* The models agree, or not.
RunPanel(e) ==
  /\ ev[e].pc = "panel"
  /\ EvaluatorGoto(e, "escalate") \/ (Configured /\ EvaluatorGoto(e, "submit"))
  /\ UNCHANGED <<vars, resolution, onChain, res, memory>>

\* escalateToGovernance reports a failure, which is ignored.
EscalateToGovernance(e) ==
  /\ ev[e].pc = "escalate"
  /\ \/ Configured /\ onChain.status = "active" /\ onChain' = [onChain EXCEPT !.status = "governance"]
     \/ UNCHANGED onChain
  /\ EvaluatorGoto(e, "govern")
  /\ UNCHANGED <<vars, resolution, res, memory>>

\* Mutant: an escalation is recorded as a resolution by governance.
RecordOverride(e) ==
  /\ ev[e].pc = "govern"
  /\ status' = "awaiting_governance"
  /\ resolution' = [resolution EXCEPT !.ai = TRUE, !.method = "governance_override"]
  /\ Release(e)
  /\ UNCHANGED <<expired, debateVars, onChain, res>>

RecordEscalation(e) ==
  /\ ev[e].pc = "govern"
  /\ status' = "awaiting_governance"
  /\ resolution' = [resolution EXCEPT !.ai = TRUE]
  /\ Release(e)
  /\ UNCHANGED <<expired, debateVars, onChain, res>>

SubmitAndResolve(e) ==
  /\ ev[e].pc = "submit"
  /\ ResolveByContract
  /\ EvaluatorGoto(e, "read")
  /\ UNCHANGED <<vars, resolution, res, memory>>

\* Without the contract's word the winner is the argument with the best score above
\* zero of those that were read, or number 0.
ReadChainResolution(e) ==
  /\ ev[e].pc = "read"
  /\ \/ ev' = [ev EXCEPT ![e].pc = "commit", ![e].winner = onChain.winner, ![e].fromChain = TRUE]
     \/ \E k \in ev[e].read \cup {0} : ev' = [ev EXCEPT ![e].pc = "commit", ![e].winner = k]
  /\ UNCHANGED <<vars, resolution, onChain, res, memory>>

RecordResolution(e) ==
  /\ ev[e].pc = "commit"
  /\ status' = "resolved"
  /\ resolution' = [method |-> "ai_community", winner |-> ev[e].winner,
                    fromChain |-> ev[e].fromChain, ai |-> TRUE]
  /\ Release(e)
  /\ UNCHANGED <<expired, debateVars, onChain, res>>

\* Mutant: a failure returns without the finally block.
FailsHoldingSlot(e) ==
  /\ Evaluating(e)
  /\ (ev[e].pc = "submit" /\ ResolveByContract) \/ UNCHANGED onChain
  /\ EvaluatorGoto(e, "done")
  /\ UNCHANGED <<vars, resolution, res, memory>>

\* The package is missing, the panel, the contract or the database fails. A
\* submission whose receipt was lost has resolved the debate all the same.
EvaluationFails(e) ==
  /\ Evaluating(e)
  /\ (ev[e].pc = "submit" /\ ResolveByContract) \/ UNCHANGED onChain
  /\ Release(e)
  /\ UNCHANGED <<vars, resolution, res>>

\* Five minutes pass.
DebounceElapses(i) ==
  /\ memory[i].recent
  /\ memory' = [memory EXCEPT ![i].recent = FALSE]
  /\ UNCHANGED <<vars, resolution, onChain, res, ev>>

\* An isolate goes, its memory and its evaluations with it.
IsolateLost(i) ==
  /\ \E e \in Evaluators : ev[e].isolate = i /\ Evaluating(e)
  /\ ev' = [e \in Evaluators |-> IF ev[e].isolate = i THEN [ev[e] EXCEPT !.pc = "done"] ELSE ev[e]]
  /\ memory' = [memory EXCEPT ![i] = Forgotten]
  /\ UNCHANGED <<vars, resolution, onChain, res>>

-----------------------------------------------------------------------------
Resolve(p) ==
  \/ ReadForResolution(p) \/ ResolveOnChain(p) \/ ResolveOnChainFails(p)
  \/ ReadChainWinner(p) \/ CommitCommunity(p) \/ ResolverLoses(p)

Evaluate(e) ==
  \/ \E i \in Isolates : CheckRateLimit(e, i)
  \/ ReadForEvaluation(e) \/ RefuseEvaluation(e) \/ RunPanel(e)
  \/ EscalateToGovernance(e) \/ RecordEscalation(e)
  \/ SubmitAndResolve(e) \/ ReadChainResolution(e) \/ RecordResolution(e)
  \/ EvaluationFails(e)

DebateNext ==
  \/ Next /\ UNCHANGED resolutionVars
  \/ \E p \in Resolvers : Resolve(p)
  \/ \E e \in Evaluators : Evaluate(e)
  \/ \E i \in Isolates : DebounceElapses(i) \/ IsolateLost(i)

DebateSpec == DebateInit /\ [][DebateNext]_allVars

-----------------------------------------------------------------------------
(* Properties.                                                             *)

\* The variables of the resolution stay within their types.
ResolutionTypeOK ==
  /\ TypeOK
  /\ resolution \in [method : {"none", "community_only", "ai_community"}, winner : Nat,
                     fromChain : BOOLEAN, ai : BOOLEAN]
  /\ onChain \in [status : {"active", "resolved", "governance"}, winner : Nat]
  /\ res \in [Resolvers -> [pc : {"idle", "chain", "read", "commit", "won", "done"},
                            winner : Nat, fromChain : BOOLEAN]]
  /\ ev \in [Evaluators ->
       [pc : {"idle", "limited", "panel", "escalate", "govern", "submit", "read", "commit", "done"},
        isolate : Isolates \cup {None}, read : SUBSET Nat, winner : Nat, fromChain : BOOLEAN]]
  /\ memory \in [Isolates -> [active : BOOLEAN, recent : BOOLEAN]]

\* Of racing POSTs to resolve, one at most is answered with success.
OneResolver == Cardinality({p \in Resolvers : res[p].pc = "won"}) <= 1

\* What the row says of the contract is so, whichever of resolvers and evaluators wrote
\* it last: a debate read as resolved is resolved there, and a winner marked as read
\* from the chain is the winner there.
MirrorsChain ==
  /\ Configured /\ status = "resolved" => onChain.status = "resolved"
  /\ resolution.fromChain => onChain = [status |-> "resolved", winner |-> resolution.winner]

\* A community winner that is not the contract's is a verified argument, even though
\* verification goes on between the read and the commit.
WinnerIsVerified ==
  resolution.method = "community_only" /\ ~resolution.fromChain => resolution.winner \in Verified

\* A slot that is taken has an evaluation in progress: no failure leaves a debate
\* refused for good.
SlotHasEvaluation ==
  \A i \in Isolates : memory[i].active => \E e \in Evaluators : ev[e].isolate = i /\ Evaluating(e)

\* Once a debate is decided and no evaluation that began before is left, it is so for
\* good: neither a resolver that read an active debate nor a cron that comes late
\* changes the outcome.
Settled == status # "active" /\ \A e \in Evaluators : ~Evaluating(e)
SettledIsFinal == [][Settled => Settled' /\ UNCHANGED <<status, resolution>>]_allVars

=============================================================================
