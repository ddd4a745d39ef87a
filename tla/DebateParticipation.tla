------------------------ MODULE DebateParticipation ------------------------
(***************************************************************************)
(* Taking part in a debate: the endpoints that submit an argument and      *)
(* co-sign one, and the background check of transactions that a client     *)
(* sent itself (api/debates/[debateId]/arguments, .../cosign and           *)
(* lib/core/blockchain/tx-verifier.ts), for one debate.                    *)
(*                                                                         *)
(* A request reads the debate, looks for its nullifier and sends to the    *)
(* DebateMarket contract before it writes its rows in one transaction, so  *)
(* what it read may be old by then; the deadline is only looked at first.  *)
(* Nothing compares the nullifier it names with its proof, or with the     *)
(* transaction that a client says it sent.                                 *)
(***************************************************************************)
EXTENDS Integers, Sequences, FiniteSets, FiniteSetsExt

CONSTANTS
  Identities,  \* participants, by the nullifier of their proof
  Requests,    \* POSTs to the two endpoints
  Stake,       \* Stake[i]: what i stakes
  Weight,      \* Weight[i]: floor(sqrt(stake) * 2^tier)
  Kinds,       \* what is requested, of {"argument", "cosign"}
  Senders,     \* who sends the transaction, of {"wallet", "relayer"}
  Names,       \* whose nullifier the proof names, of {"own", "other"}
  Deployments, \* whether the DebateMarket contract is configured, of {TRUE, FALSE}
  None

ASSUME ParticipationAssumption ==
  /\ Stake \in [Identities -> Nat \ {0}]
  /\ Weight \in [Identities -> Nat \ {0}]
  /\ Kinds \subseteq {"argument", "cosign"}
  /\ Senders \subseteq {"wallet", "relayer"}
  /\ Names \subseteq {"own", "other"}
  /\ Deployments \subseteq BOOLEAN
  /\ None \notin Identities

VARIABLES
  status,     \* debate.status
  expired,    \* the deadline has passed
  totals,     \* argument_count, unique_participants and total_stake of the debate
  argument,   \* argument[k]: the row with argument_index k
  nullifier,  \* nullifier[i]: the debate_nullifier row of i; its tx_hash names a
              \* transaction that records i's nullifier ("own"), another or none
  market,     \* the contract: whether there is one, the authors of its arguments in the
              \* order they were recorded (None: nobody here), and the nullifiers spent
  req         \* where each request is and what it has in hand

debateVars == <<totals, argument, nullifier, market, req>>
vars == <<status, expired, debateVars>>

Configured == market.deployed

NoNullifier == [action |-> "none", status |-> "pending", index |-> 0, tx |-> "none"]

\* `names' is whose nullifier is in the proof, or in the transaction a client sent.
NoRequest == [pc |-> "idle", who |-> None, kind |-> "argument", sender |-> "relayer",
              names |-> "own", index |-> 0, tx |-> "none"]

Init ==
  /\ status = "active"
  /\ expired = FALSE
  /\ totals = [arguments |-> 0, participants |-> 0, stake |-> 0]
  /\ argument = <<>>
  /\ nullifier = [i \in Identities |-> NoNullifier]
  /\ market \in [deployed : Deployments, arguments : {<<>>}, spent : {{}}]
  /\ req = [r \in Requests |-> NoRequest]

At(r, pc) == req[r].pc = pc
Goto(r, pc) == req' = [req EXCEPT ![r].pc = pc]
Who(r) == req[r].who

\* The contract records an argument or a co-signature, once for each nullifier.
Recorded(who, kind) ==
  [market EXCEPT !.arguments = IF kind = "argument" THEN Append(@, who) ELSE @,
                 !.spent = @ \cup ({who} \ {None})]

-----------------------------------------------------------------------------
(* A request.                                                              *)

\* The transaction a request names: none yet, the client's own, or any other's.
Named(sender, names) ==
  IF sender = "relayer" THEN {"none"}
  ELSE IF names = "own" THEN {"sent"} ELSE {"mined", "reverted"}

\* The debate is read: it must be active and its deadline not passed. A new argument
\* takes its index from the count read here; a co-signature names one. A client may
\* have sent a transaction to the contract, or name one that has nothing to do with it.
Receive(r) ==
  /\ At(r, "idle")
  /\ status = "active" /\ ~expired
  /\ \E who \in Identities, kind \in Kinds, sender \in Senders, names \in Names,
        k \in 0..totals.arguments : \E tx \in Named(sender, names) :
       /\ kind = "argument" => k = totals.arguments
       /\ tx = "sent" => Configured
       /\ req' = [req EXCEPT ![r] =
            [pc |-> "check", who |-> who, kind |-> kind, sender |-> sender, names |-> names,
             index |-> k, tx |-> tx]]
  /\ UNCHANGED <<status, expired, totals, argument, nullifier, market>>

\* A wallet's transaction was sent before the request; a relayer's is sent now.
Submit(r) == IF req[r].sender = "wallet" THEN "insert" ELSE "send"

\* The nullifier must be new; a second participation is answered with 409.
CheckNullifier(r) ==
  /\ At(r, "check")
  /\ Goto(r, IF nullifier[Who(r)].action # "none" THEN "done"
             ELSE IF req[r].kind = "cosign" THEN "find" ELSE Submit(r))
  /\ UNCHANGED <<status, expired, totals, argument, nullifier, market>>

FindArgument(r) ==
  /\ At(r, "find")
  /\ Goto(r, IF req[r].index \in DOMAIN argument THEN Submit(r) ELSE "done")
  /\ UNCHANGED <<status, expired, totals, argument, nullifier, market>>

Prover(r) == IF req[r].names = "own" THEN Who(r) ELSE None

Mine(r) ==
  /\ Configured /\ Prover(r) \notin market.spent
  /\ market' = Recorded(Prover(r), req[r].kind)

\* The relayer's transaction is confirmed.
Relay(r) ==
  /\ At(r, "send")
  /\ Mine(r)
  /\ req' = [req EXCEPT ![r].pc = "insert", ![r].tx = "mined"]
  /\ UNCHANGED <<status, expired, totals, argument, nullifier>>

\* No contract is configured, or the client throws before anything is sent (a proof that
\* is not a string, a stake that is not an integer): recorded off chain, as verified.
RecordOffChain(r) ==
  /\ At(r, "send")
  /\ Goto(r, "insert")
  /\ UNCHANGED <<status, expired, totals, argument, nullifier, market>>

\* The breaker, the contract or the RPC refuses: 502. A transaction whose receipt
\* was lost is mined all the same.
RelayFails(r) ==
  /\ At(r, "send") /\ Configured
  /\ Mine(r) \/ UNCHANGED market
  /\ Goto(r, "done")
  /\ UNCHANGED <<status, expired, totals, argument, nullifier>>

\* Mutant: a transaction that a client claims to have sent is taken for confirmed.
AlwaysVerified(r) == "verified"

\* What the relayer did not fail to do counts as confirmed and is not looked at again.
InitialStatus(r) == IF req[r].sender = "relayer" THEN "verified" ELSE "pending"

AfterInsert(r) == IF req[r].sender = "wallet" THEN "verify" ELSE "done"

\* Mutants: one of the two unique indexes is missing.
IndexViolates(r) == req[r].kind = "argument" /\ req[r].index \in DOMAIN argument
NullifierViolates(r) == nullifier[Who(r)].action # "none"

\* The unique indexes on (debate, index) and (debate, nullifier).
Violates(r) ==
  \/ nullifier[Who(r)].action # "none"
  \/ req[r].kind = "argument" /\ req[r].index \in DOMAIN argument

\* What a co-signature adds to its argument a.
Recount(a, weight, stake, n) ==
  [a EXCEPT !.score = @ + weight, !.stake = @ + stake, !.cosigns = @ + n]

\* Whose participation the transaction in hand records.
TxOf(r) == IF req[r].tx = "none" THEN "none" ELSE req[r].names

RecordNullifier(r) ==
  nullifier' = [nullifier EXCEPT ![Who(r)] =
    [action |-> req[r].kind, status |-> InitialStatus(r), index |-> req[r].index, tx |-> TxOf(r)]]

InsertArgument(r) ==
  /\ At(r, "insert") /\ req[r].kind = "argument" /\ ~Violates(r)
  /\ argument' = [k \in DOMAIN argument \cup {req[r].index} |->
       IF k \in DOMAIN argument THEN argument[k]
       ELSE [author |-> Who(r), status |-> InitialStatus(r), score |-> Weight[Who(r)],
             stake |-> Stake[Who(r)], cosigns |-> 0]]
  /\ totals' = [arguments |-> totals.arguments + 1,
                participants |-> totals.participants + 1,
                stake |-> totals.stake + Stake[Who(r)]]
  /\ RecordNullifier(r)
  /\ Goto(r, AfterInsert(r))
  /\ UNCHANGED <<status, expired, market>>

InsertCosign(r) ==
  /\ At(r, "insert") /\ req[r].kind = "cosign" /\ ~Violates(r)
  /\ argument' = [argument EXCEPT ![req[r].index] =
       Recount(@, Weight[Who(r)], Stake[Who(r)], 1)]
  /\ totals' = [totals EXCEPT !.participants = @ + 1, !.stake = @ + Stake[Who(r)]]
  /\ RecordNullifier(r)
  /\ Goto(r, AfterInsert(r))
  /\ UNCHANGED <<status, expired, market>>

\* The transaction is rolled back and the request answered with 500.
InsertFails(r) ==
  /\ At(r, "insert") /\ Violates(r)
  /\ Goto(r, "done")
  /\ UNCHANGED <<status, expired, totals, argument, nullifier, market>>

-----------------------------------------------------------------------------
(* The transactions of wallets, and the background check.                  *)

WalletMined(r) ==
  /\ req[r].tx = "sent"
  /\ \/ Mine(r) /\ req' = [req EXCEPT ![r].tx = "mined"]
     \/ req' = [req EXCEPT ![r].tx = "reverted"] /\ UNCHANGED market
  /\ UNCHANGED <<status, expired, totals, argument, nullifier>>

\* Mutant: only the argument is updated.
MarkArgumentVerified(r) ==
  /\ At(r, "verify") /\ req[r].tx = "mined"
  /\ argument' = IF req[r].kind = "argument"
                   THEN [argument EXCEPT ![req[r].index].status = "verified"]
                   ELSE argument
  /\ Goto(r, "done")
  /\ UNCHANGED <<status, expired, totals, nullifier, market>>

MarkVerified(r) ==
  /\ At(r, "verify") /\ req[r].tx = "mined"
  /\ argument' = IF req[r].kind = "argument"
                   THEN [argument EXCEPT ![req[r].index].status = "verified"]
                   ELSE argument
  /\ nullifier' = [nullifier EXCEPT ![Who(r)].status = "verified"]
  /\ Goto(r, "done")
  /\ UNCHANGED <<status, expired, totals, market>>

\* A rejected co-signature is taken back from its argument; what it staked is taken
\* back by its weight, and the debate's own totals are left alone.
MarkRejected(r) ==
  /\ At(r, "verify") /\ req[r].tx = "reverted"
  /\ argument' = [argument EXCEPT ![req[r].index] =
       IF req[r].kind = "argument" THEN [@ EXCEPT !.status = "rejected"]
       ELSE Recount(@, -Weight[Who(r)], -Weight[Who(r)], -1)]
  /\ nullifier' = [nullifier EXCEPT ![Who(r)].status = "rejected"]
  /\ Goto(r, "done")
  /\ UNCHANGED <<status, expired, totals, market>>

\* The receipt is not there in time, the RPC or a statement fails, or the isolate is
\* evicted: whatever is pending stays pending.
GiveUp(r) ==
  /\ req[r].pc \in {"check", "find", "insert", "verify"}
  /\ Goto(r, "done")
  /\ UNCHANGED <<status, expired, totals, argument, nullifier, market>>

DeadlinePasses ==
  /\ ~expired
  /\ expired' = TRUE
  /\ UNCHANGED <<status, debateVars>>

Participate(r) ==
  \/ Receive(r) \/ CheckNullifier(r) \/ FindArgument(r)
  \/ Relay(r) \/ RecordOffChain(r) \/ RelayFails(r)
  \/ InsertArgument(r) \/ InsertCosign(r) \/ InsertFails(r)
  \/ WalletMined(r) \/ MarkVerified(r) \/ MarkRejected(r) \/ GiveUp(r)

Next == DeadlinePasses \/ \E r \in Requests : Participate(r)

Spec == Init /\ [][Next]_vars

-----------------------------------------------------------------------------
(* Properties.                                                             *)

RowStatus == {"pending", "verified", "rejected"}
Cosigners(k) == {i \in Identities : nullifier[i].action = "cosign" /\ nullifier[i].index = k}
Counted(k) == {i \in Cosigners(k) : nullifier[i].status # "rejected"}
Participants == {i \in Identities : nullifier[i].action # "none"}
Sum(f, S) == MapThenSumSet(LAMBDA i : f[i], S)

\* The variables stay within their types.
TypeOK ==
  /\ status \in {"active", "resolved", "awaiting_governance"} /\ expired \in BOOLEAN
  /\ totals \in [arguments : Nat, participants : Nat, stake : Nat]
  /\ DOMAIN argument \subseteq Nat
  /\ \A k \in DOMAIN argument : argument[k] \in
       [author : Identities, status : RowStatus, score : Nat, stake : Int, cosigns : Nat]
  /\ nullifier \in [Identities ->
       [action : {"none", "argument", "cosign"}, status : RowStatus, index : Nat,
        tx : {"none", "own", "other"}]]
  /\ market \in [deployed : BOOLEAN, arguments : Seq(Identities \cup {None}), spent : SUBSET Identities]
  /\ req \in [Requests ->
       [pc : {"idle", "check", "find", "send", "insert", "verify", "done"},
        who : Identities \cup {None}, kind : {"argument", "cosign"},
        sender : {"wallet", "relayer"}, names : {"own", "other"}, index : Nat,
        tx : {"none", "sent", "mined", "reverted"}]]

\* The index of a new argument is a count read some awaits earlier, and still the
\* arguments are numbered without a gap up to the count.
NumberedWithoutGaps == DOMAIN argument = 0..(totals.arguments - 1)

\* An argument weighs its author and the co-signers whose transaction was not refused,
\* each once. (Its stake is right until a co-signature is rejected: what is taken
\* back then is the weight.)
ScoresMatch ==
  \A k \in DOMAIN argument :
    /\ argument[k].score = Weight[argument[k].author] + Sum(Weight, Counted(k))
    /\ argument[k].cosigns = Cardinality(Counted(k))
    /\ Cosigners(k) = Counted(k) =>
         argument[k].stake = Stake[argument[k].author] + Sum(Stake, Cosigners(k))

\* Each identity counts once, in the debate's totals and in its argument's, however its
\* requests race and whatever is rejected later (arguments/+server.ts:268-292,
\* cosign/+server.ts:188-232, tx-verifier.ts:131-157).
TotalsMatch ==
  /\ totals.participants = Cardinality(Participants)
  /\ totals.stake = Sum(Stake, Participants)
  /\ ScoresMatch

\* An identity has one role in a debate: it wrote the argument its nullifier names and
\* no other, or co-signed one that exists; both rows are of one verification status.
OneRole ==
  /\ \A k \in DOMAIN argument :
       LET row == nullifier[argument[k].author]
       IN row.action = "argument" /\ row.status = argument[k].status /\ row.index = k
  /\ \A i \in Identities : nullifier[i].action = "cosign" => nullifier[i].index \in DOMAIN argument

\* "Server relayer path: already confirmed by receipt" and "verifies the transaction
\* actually succeeded on-chain" (arguments/+server.ts:240, tx-verifier.ts:5): where a
\* contract is configured, a participation that reads verified and names a transaction
\* of its own is recorded there, whether the relayer or a wallet sent it. The two kinds
\* of verified rows that the contract need not know are visible in the row: one names
\* no transaction, since the relayer's client threw (:229-237); the other names one
\* that proves something else, which nothing looks at.
VerifiedIsOnChain ==
  Configured => \A i \in Participants :
    nullifier[i].status = "verified" /\ nullifier[i].tx = "own" => i \in market.spent

\* schema.prisma: argument_index is the "On-chain index in debate.arguments[]". Here
\* where every participation names a transaction of its own.
ArgumentIndexIsOnChain ==
  Configured /\ (\A i \in Participants : nullifier[i].tx = "own") =>
    \A k \in DOMAIN argument : argument[k].status = "verified" =>
      k + 1 \in DOMAIN market.arguments /\ market.arguments[k + 1] = argument[k].author

=============================================================================
