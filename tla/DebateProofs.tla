---------------------------- MODULE DebateProofs ----------------------------
(***************************************************************************)
(* Proofs about DebateParticipation and DebateResolution, for any number   *)
(* of identities, requests, resolvers, evaluators and isolates.            *)
(*                                                                         *)
(* Participation (Inv): the arguments are numbered without gaps because a  *)
(* request never holds an index beyond the count (IndexInHand) and the     *)
(* unique index refuses one below it; the rows agree because the row a     *)
(* background check will touch is the one its request wrote (OwnRow).      *)
(*                                                                         *)
(* Counting (CountInv): a check finds its row pending and is the only one  *)
(* to touch it, so scores and totals are sums over the nullifiers. What a  *)
(* sum over a finite set is follows from its definition as a fold, by the  *)
(* smallest counterexample instead of an induction.                        *)
(*                                                                         *)
(* Resolution (DInv, CommunityInv): one resolver at most wins, what the    *)
(* row says of the contract is so, a slot that is taken has its            *)
(* evaluation, a debate that is settled stays so, and what a resolver read *)
(* as verified is verified when it commits.                                *)
(***************************************************************************)
EXTENDS DebateResolution, TLAPS, FiniteSetTheorems, WellFoundedInduction

-----------------------------------------------------------------------------
(* Sums over finite sets.                                                  *)

\* A non-empty set of finite subsets has a smallest one. Cited with the set of
\* counterexamples to a claim, it stands for induction over finite sets.
LEMMA Smallest ==
  ASSUME NEW S, IsFiniteSet(S), NEW T, T \subseteq SUBSET S, T # {}
  PROVE  \E A \in T : \A B \in SUBSET A : B # A => B \notin T
<1> DEFINE R == StrictSubsetOrdering(S)
<1>1. IsWellFoundedOn(R, SUBSET S)
  BY FS_StrictSubsetOrderingWellFounded, FS_FiniteSubsetsOfFinite
<1>2. PICK A \in T : \A B \in T : ~ (<<B, A>> \in R)
  <2> HIDE DEF R
  <2> QED BY <1>1, WFMin
<1>3. \A B \in SUBSET A : B # A => B \notin T
  BY <1>2 DEF StrictSubsetOrdering
<1> QED BY <1>3

\* The element a fold takes first.
First(s) == CHOOSE x \in s : TRUE

\* h sums f over the subsets of S.
Sums(f, S, h) ==
  h = [s \in SUBSET S |-> IF s = {} THEN 0 ELSE f[First(s)] + h[s \ {First(s)}]]

LEMMA SumIsOfSums ==
  ASSUME NEW f, NEW S
  PROVE  Sum(f, S) = (CHOOSE h : Sums(f, S, h))[S]
BY DEF Sum, MapThenSumSet, MapThenFoldSet, Sums, First

LEMMA FirstIn ==
  ASSUME NEW s, s # {}
  PROVE  First(s) \in s /\ s \ {First(s)} # s
BY DEF First

\* Such functions agree where they are defined.
LEMMA SumsAgree ==
  ASSUME NEW f, NEW S, IsFiniteSet(S), NEW A \in SUBSET S, NEW g, NEW h, Sums(f, S, g), Sums(f, A, h)
  PROVE  g[A] = h[A]
<1> DEFINE T == {s \in SUBSET A : g[s] # h[s]}
<1> SUFFICES ASSUME T # {} PROVE FALSE
  OBVIOUS
<1>1. IsFiniteSet(A)
  BY FS_Subset
<1>2. PICK s \in T : \A B \in SUBSET s : B # s => B \notin T
  <2>1. T \subseteq SUBSET A
    OBVIOUS
  <2> HIDE DEF T
  <2> QED BY <1>1, <2>1, Smallest
<1>3. CASE s = {}
  BY <1>2, <1>3 DEF Sums
<1>4. CASE s # {}
  <2> DEFINE r == s \ {First(s)}
  <2>1. r \in SUBSET s /\ r # s /\ s \in SUBSET A /\ s \in SUBSET S
    BY <1>4, FirstIn
  <2>2. g[r] = h[r]
    BY <1>2, <2>1
  <2>3. g[s] = f[First(s)] + g[r] /\ h[s] = f[First(s)] + h[r]
    BY <1>4, <2>1 DEF Sums
  <2> QED BY <2>2, <2>3
<1> QED BY <1>3, <1>4

\* There is such a function.
LEMMA SumsExist ==
  ASSUME NEW f, NEW S, IsFiniteSet(S)
  PROVE  \E h : Sums(f, S, h)
<1> DEFINE T == {A \in SUBSET S : ~ \E h : Sums(f, A, h)}
<1> SUFFICES ASSUME T # {} PROVE FALSE
  OBVIOUS
<1>1. PICK A \in T : \A B \in SUBSET A : B # A => B \notin T
  <2>1. T \subseteq SUBSET S
    OBVIOUS
  <2> HIDE DEF T
  <2> QED BY <2>1, Smallest
<1> DEFINE V(B) == (CHOOSE h : Sums(f, B, h))[B]
           G == [s \in SUBSET A |-> IF s = {} THEN 0 ELSE f[First(s)] + V(s \ {First(s)})]
<1>2. ASSUME NEW s \in SUBSET A, s # {}
      PROVE  G[s \ {First(s)}] = V(s \ {First(s)})
  <2> DEFINE r == s \ {First(s)}
  <2>1. r \in SUBSET A /\ r # A
    BY <1>2, FirstIn
  <2>2. \E h : Sums(f, r, h)
    BY <1>1, <2>1
  <2> DEFINE h == CHOOSE h : Sums(f, r, h)
  <2>3. Sums(f, r, h)
    BY <2>2
  <2> HIDE DEF h
  <2>4. CASE r = {}
    <3>1. h[r] = 0
      BY <2>3, <2>4 DEF Sums
    <3> QED BY <2>1, <2>4, <3>1 DEF h
  <2>5. CASE r # {}
    <3> DEFINE q == r \ {First(r)}
    <3>1. q \in SUBSET r /\ q # A
      BY <2>1, <2>5, FirstIn
    <3>2. q \in SUBSET A /\ \E k : Sums(f, q, k)
      BY <1>1, <2>1, <3>1
    <3> DEFINE k == CHOOSE k : Sums(f, q, k)
    <3>3. Sums(f, q, k)
      BY <3>2
    <3> HIDE DEF k
    <3>4. IsFiniteSet(r)
      BY <2>1, FS_Subset
    <3>5. h[q] = k[q]
      <4> HIDE DEF q, r
      <4> QED BY <2>3, <3>1, <3>3, <3>4, SumsAgree
    <3>6. h[r] = f[First(r)] + h[q]
      BY <2>3, <2>5 DEF Sums
    <3>7. G[r] = f[First(r)] + V(q)
      BY <2>1, <2>5
    <3> QED BY <3>5, <3>6, <3>7 DEF h, k
  <2> QED BY <2>4, <2>5
<1>3. Sums(f, A, G)
  <2>1. G = [s \in SUBSET A |-> IF s = {} THEN 0 ELSE f[First(s)] + G[s \ {First(s)}]]
    <3> DEFINE old(s) == IF s = {} THEN 0 ELSE f[First(s)] + V(s \ {First(s)})
               new(s) == IF s = {} THEN 0 ELSE f[First(s)] + G[s \ {First(s)}]
    <3>1. G = [s \in SUBSET A |-> old(s)]
      OBVIOUS
    <3>2. \A s \in SUBSET A : old(s) = new(s)
      <4> HIDE DEF G, V
      <4> QED BY <1>2
    <3>3. [s \in SUBSET A |-> old(s)] = [s \in SUBSET A |-> new(s)]
      <4> HIDE DEF old, new
      <4> QED BY <3>2
    <3> HIDE DEF G, V
    <3> QED BY <3>1, <3>3, Zenon
  <2> HIDE DEF G
  <2> QED BY <2>1 DEF Sums
<1> QED BY <1>1, <1>3

\* The sum, one element at a time in the order of the fold.
LEMMA SumFirst ==
  ASSUME NEW f, NEW S, IsFiniteSet(S)
  PROVE  Sum(f, S) = IF S = {} THEN 0 ELSE f[First(S)] + Sum(f, S \ {First(S)})
<1> DEFINE h == CHOOSE h : Sums(f, S, h)
           r == S \ {First(S)}
           k == CHOOSE k : Sums(f, r, k)
<1>1. Sums(f, S, h) /\ Sum(f, S) = h[S]
  BY SumsExist, SumIsOfSums
<1>2. IsFiniteSet(r) /\ r \in SUBSET S
  BY FS_Subset
<1>3. Sums(f, r, k) /\ Sum(f, r) = k[r]
  BY <1>2, SumsExist, SumIsOfSums
<1> HIDE DEF h, k
<1>4. h[r] = k[r]
  BY <1>1, <1>2, <1>3, SumsAgree
<1>5. h[S] = IF S = {} THEN 0 ELSE f[First(S)] + h[r]
  BY <1>1 DEF Sums
<1> QED BY <1>1, <1>3, <1>4, <1>5

\* A sum of naturals is one.
LEMMA SumType ==
  ASSUME NEW I, NEW f \in [I -> Nat], NEW S \in SUBSET I, IsFiniteSet(S)
  PROVE  Sum(f, S) \in Nat
<1> DEFINE T == {s \in SUBSET S : Sum(f, s) \notin Nat}
<1> SUFFICES ASSUME T # {} PROVE FALSE
  OBVIOUS
<1>1. PICK s \in T : \A B \in SUBSET s : B # s => B \notin T
  <2>1. T \subseteq SUBSET S
    OBVIOUS
  <2> HIDE DEF T
  <2> QED BY <2>1, Smallest
<1>2. IsFiniteSet(s)
  BY FS_Subset
<1>3. s # {}
  <2>1. Sum(f, {}) = 0
    BY FS_EmptySet, SumFirst
  <2> QED BY <2>1
<1>4. s \ {First(s)} \in SUBSET S /\ Sum(f, s \ {First(s)}) \in Nat /\ f[First(s)] \in Nat
  BY <1>1, <1>3, FirstIn
<1>5. Sum(f, s) = f[First(s)] + Sum(f, s \ {First(s)})
  BY <1>2, <1>3, SumFirst
<1> HIDE DEF T
<1>6. Sum(f, s) \in Nat
  BY <1>4, <1>5
<1> QED BY <1>6 DEF T

\* The order does not matter.
LEMMA SumRemove ==
  ASSUME NEW I, NEW f \in [I -> Nat], NEW S \in SUBSET I, IsFiniteSet(S), NEW x \in S
  PROVE  Sum(f, S) = f[x] + Sum(f, S \ {x})
<1> DEFINE T == {s \in SUBSET S : \E y \in s : Sum(f, s) # f[y] + Sum(f, s \ {y})}
<1> SUFFICES ASSUME T # {} PROVE FALSE
  OBVIOUS
<1>1. PICK s \in T : \A B \in SUBSET s : B # s => B \notin T
  <2>1. T \subseteq SUBSET S
    OBVIOUS
  <2> HIDE DEF T
  <2> QED BY <2>1, Smallest
<1>2. PICK y \in s : Sum(f, s) # f[y] + Sum(f, s \ {y})
  BY <1>1
<1> DEFINE c == First(s)
           r == s \ {y}
           q == s \ {c}
<1>3. IsFiniteSet(s) /\ c \in s /\ s # {} /\ s \in SUBSET S
  BY <1>2, FS_Subset, FirstIn
<1>4. Sum(f, s) = f[c] + Sum(f, q)
  BY <1>3, SumFirst
<1>5. y # c
  BY <1>2, <1>4
<1>6. q \in SUBSET S /\ q # s /\ y \in q /\ r \in SUBSET S /\ r # s /\ c \in r /\ q \ {y} = r \ {c}
  BY <1>2, <1>3, <1>5
<1>7. Sum(f, q) = f[y] + Sum(f, q \ {y})
  BY <1>1, <1>6
<1>8. Sum(f, r) = f[c] + Sum(f, r \ {c})
  BY <1>1, <1>6
<1>9. f[c] \in Nat /\ f[y] \in Nat /\ Sum(f, r \ {c}) \in Nat
  <2>1. r \ {c} \in SUBSET I /\ IsFiniteSet(r \ {c})
    BY <1>6, FS_Subset
  <2> QED BY <1>3, <1>6, <2>1, SumType
<1> DEFINE rest == Sum(f, r \ {c})
<1>10. Sum(f, s) = f[c] + (f[y] + rest)
  BY <1>4, <1>6, <1>7
<1>11. Sum(f, s) # f[y] + (f[c] + rest)
  BY <1>2, <1>8
<1> HIDE DEF T, c, rest
<1> QED BY <1>9, <1>10, <1>11 DEF rest

LEMMA SumAdd ==
  ASSUME NEW I, NEW f \in [I -> Nat], NEW S \in SUBSET I, IsFiniteSet(S), NEW x \in I \ S
  PROVE  Sum(f, S \cup {x}) = f[x] + Sum(f, S)
<1>1. IsFiniteSet(S \cup {x}) /\ (S \cup {x}) \ {x} = S /\ S \cup {x} \in SUBSET I
  BY FS_AddElement
<1> QED BY <1>1, SumRemove


-----------------------------------------------------------------------------
(* Participation: the invariant.                                           *)

Pcs == {"idle", "check", "find", "send", "insert", "verify", "done"}
NullifierType == [action : {"none", "argument", "cosign"}, status : RowStatus, index : Nat,
                  tx : {"none", "own", "other"}]
MarketType == [deployed : BOOLEAN, arguments : Seq(Identities \cup {None}), spent : SUBSET Identities]
ArgumentType == [author : Identities, status : RowStatus, score : Int, stake : Int, cosigns : Int]
RequestType == [pc : Pcs, who : Identities \cup {None}, kind : {"argument", "cosign"},
                sender : {"wallet", "relayer"}, names : {"own", "other"}, index : Nat,
                tx : {"none", "sent", "mined", "reverted"}]

Types ==
  /\ totals \in [arguments : Nat, participants : Nat, stake : Nat]
  /\ argument \in [0..(totals.arguments - 1) -> ArgumentType]
  /\ nullifier \in [Identities -> NullifierType]
  /\ market \in MarketType
  /\ req \in [Requests -> RequestType]

Known(r) ==
  \/ req[r].who \in Identities
  \/ req[r].pc = "idle" /\ req[r].tx = "none"

IndexInHand(r) ==
  /\ req[r].pc = "find" => req[r].kind = "cosign"
  /\ req[r].kind = "argument" /\ req[r].pc \in {"check", "send", "insert"} =>
       req[r].index <= totals.arguments
  /\ req[r].kind = "cosign" /\ req[r].pc \in {"send", "insert", "verify"} =>
       req[r].index < totals.arguments

OwnRow(r) ==
  req[r].pc = "verify" =>
    /\ nullifier[req[r].who].action = req[r].kind
    /\ nullifier[req[r].who].index = req[r].index
    /\ nullifier[req[r].who].tx = "own" => req[r].names = "own"
    /\ req[r].kind = "argument" =>
         req[r].index < totals.arguments /\ argument[req[r].index].author = req[r].who

ConfirmedIsSpent(r) ==
  /\ req[r].sender = "relayer" => req[r].tx \in {"none", "mined"}
  /\ req[r].tx = "mined" /\ req[r].names = "own" => req[r].who \in market.spent

RequestInv(r) == Known(r) /\ IndexInHand(r) /\ OwnRow(r) /\ ConfirmedIsSpent(r)

RolesInv ==
  /\ \A k \in 0..(totals.arguments - 1) :
       LET row == nullifier[argument[k].author]
       IN row.action = "argument" /\ row.status = argument[k].status /\ row.index = k
  /\ \A i \in Identities :
       nullifier[i].action = "cosign" => nullifier[i].index < totals.arguments

VerifiedInv ==
  market.deployed => \A i \in Identities :
    nullifier[i].action # "none" /\ nullifier[i].status = "verified" /\ nullifier[i].tx = "own" =>
      i \in market.spent

Inv == Types /\ (\A r \in Requests : RequestInv(r)) /\ RolesInv /\ VerifiedInv

-----------------------------------------------------------------------------
\* No rows, nothing spent, no request received.
LEMMA InitInv == Init => Inv
<1> SUFFICES ASSUME Init PROVE Inv
  OBVIOUS
<1> USE ParticipationAssumption
<1>1. totals.arguments = 0 /\ 0..(totals.arguments - 1) = {}
  BY DEF Init
<1>2. argument \in [0..(totals.arguments - 1) -> ArgumentType]
  BY <1>1 DEF Init
<1>3. Types
  <2>1. nullifier \in [Identities -> NullifierType]
    BY DEF Init, NoNullifier, NullifierType, RowStatus
  <2>2. market \in MarketType
    <3>1. <<>> \in Seq(Identities \cup {None}) /\ {} \in SUBSET Identities /\ Deployments \subseteq BOOLEAN
      BY ParticipationAssumption
    <3> QED BY <3>1 DEF Init, MarketType
  <2>3. req \in [Requests -> RequestType]
    BY DEF Init, NoRequest, RequestType, Pcs
  <2>4. totals \in [arguments : Nat, participants : Nat, stake : Nat]
    BY DEF Init
  <2> QED BY <1>2, <2>1, <2>2, <2>3, <2>4 DEF Types
<1>4. \A r \in Requests : RequestInv(r)
  BY DEF Init, RequestInv, Known, IndexInHand, OwnRow, ConfirmedIsSpent, NoRequest
<1>5. RolesInv
  BY <1>1 DEF Init, RolesInv, NoNullifier
<1>6. VerifiedInv
  BY DEF Init, VerifiedInv, NoNullifier
<1> QED BY <1>3, <1>4, <1>5, <1>6 DEF Inv

-----------------------------------------------------------------------------
(* One lemma for each kind of step.                                        *)

\* A step of a request leaves the other requests, and what it asks for, as they are.
OnlyMoves(r) ==
  /\ req' \in [Requests -> RequestType]
  /\ \A q \in Requests \ {r} : req'[q] = req[q]
  /\ req'[r].who = req[r].who /\ req'[r].kind = req[r].kind
  /\ req'[r].sender = req[r].sender /\ req'[r].names = req[r].names
  /\ req'[r].index = req[r].index

\* A step that only moves its request.
LEMMA GotoOnlyMoves ==
  ASSUME Types, NEW r \in Requests, NEW pc \in Pcs, Goto(r, pc)
  PROVE  OnlyMoves(r) /\ req'[r].pc = pc /\ req'[r].tx = req[r].tx
BY DEF Types, RequestType, Goto, OnlyMoves

\* A request is received with an index that is the count, or a co-signature's.
LEMMA ReceiveInv ==
  ASSUME Inv, NEW r \in Requests, Receive(r)
  PROVE  Inv'
<1> USE DEF Inv
<1>0. PICK who \in Identities, kind \in Kinds, sender \in Senders, names \in Names,
           k \in 0..totals.arguments : \E tx \in Named(sender, names) :
        /\ kind = "argument" => k = totals.arguments
        /\ tx = "sent" => Configured
        /\ req' = [req EXCEPT ![r] =
             [pc |-> "check", who |-> who, kind |-> kind, sender |-> sender, names |-> names,
              index |-> k, tx |-> tx]]
  BY DEF Receive
<1>1. PICK tx \in Named(sender, names) :
        /\ kind = "argument" => k = totals.arguments
        /\ req' = [req EXCEPT ![r] =
             [pc |-> "check", who |-> who, kind |-> kind, sender |-> sender, names |-> names,
              index |-> k, tx |-> tx]]
  BY <1>0
<1>2. /\ kind \in {"argument", "cosign"} /\ sender \in {"wallet", "relayer"} /\ k \in Nat
      /\ names \in {"own", "other"} /\ tx \in {"none", "sent", "mined", "reverted"}
      /\ sender = "relayer" => tx = "none"
      /\ names = "own" => tx # "mined"
  BY ParticipationAssumption DEF Types, Named
<1>3. UNCHANGED <<totals, argument, nullifier, market>>
  BY DEF Receive
<1>4. Types'
  BY <1>1, <1>2, <1>3 DEF Types, RequestType, Pcs
<1>5. ASSUME NEW q \in Requests PROVE RequestInv(q)'
  BY <1>1, <1>2, <1>3
     DEF Types, RequestType, RequestInv, Known, IndexInHand, OwnRow, ConfirmedIsSpent
<1> QED BY <1>3, <1>4, <1>5 DEF RolesInv, VerifiedInv

\* A request moves without touching a table.
LEMMA MoveInv ==
  ASSUME Inv, NEW r \in Requests,
         CheckNullifier(r) \/ FindArgument(r) \/ InsertFails(r) \/ GiveUp(r)
  PROVE  Inv'
<1> USE DEF Inv
<1>1. UNCHANGED <<totals, argument, nullifier, market>>
  BY DEF CheckNullifier, FindArgument, InsertFails, GiveUp
<1>2. req[r].pc # "idle"
  BY DEF CheckNullifier, FindArgument, InsertFails, GiveUp, At
<1>3. PICK pc \in Pcs \ {"idle", "verify"} : Goto(r, pc)
  BY DEF CheckNullifier, FindArgument, InsertFails, GiveUp, Submit, Pcs
<1>4. OnlyMoves(r) /\ req'[r].pc = pc /\ req'[r].tx = req[r].tx
  BY <1>3, GotoOnlyMoves
<1>5. /\ pc \in {"send", "insert"} /\ req[r].kind = "cosign" => req[r].index < totals.arguments
      /\ pc \in {"send", "insert"} => req[r].pc \in {"check", "find"}
      /\ pc = "insert" => req[r].sender = "wallet"
      /\ pc = "find" => req[r].kind = "cosign"
      /\ pc # "check"
  <2>1. CASE CheckNullifier(r)
    BY <1>4, <2>1, GotoOnlyMoves DEF CheckNullifier, At, Submit, Types, RequestType, Pcs
  <2>2. CASE FindArgument(r)
    BY <1>4, <2>2, GotoOnlyMoves DEF FindArgument, At, Submit, Types, RequestType, Pcs
  <2>3. CASE InsertFails(r) \/ GiveUp(r)
    BY <1>4, <2>3, GotoOnlyMoves DEF InsertFails, GiveUp, Types, RequestType, Pcs
  <2> QED BY <2>1, <2>2, <2>3
<1>6. Types'
  BY <1>1, <1>4 DEF Types, OnlyMoves
<1>7. ASSUME NEW q \in Requests PROVE RequestInv(q)'
  <2>1. CASE q = r
    BY <1>1, <1>2, <1>4, <1>5, <2>1
       DEF OnlyMoves, Pcs, RequestInv, Known, IndexInHand, OwnRow, ConfirmedIsSpent
  <2>2. CASE q # r
    BY <1>1, <1>4, <2>2
       DEF OnlyMoves, RequestInv, Known, IndexInHand, OwnRow, ConfirmedIsSpent
  <2> QED BY <2>1, <2>2
<1> QED BY <1>1, <1>6, <1>7 DEF RolesInv, VerifiedInv

\* What the contract records adds to its nullifiers and nothing else matters here.
LEMMA MineGrows ==
  ASSUME Types, NEW r \in Requests, req[r].who \in Identities, Mine(r)
  PROVE  /\ market' \in MarketType
         /\ market'.deployed = market.deployed
         /\ market.spent \subseteq market'.spent
         /\ req[r].names = "own" => req[r].who \in market'.spent
<1> DEFINE new == Prover(r)
<1>1. /\ new \in Identities \cup {None} /\ (req[r].names = "own" => new = req[r].who)
      /\ market' = Recorded(new, req[r].kind)
  BY DEF Prover, Who, Mine
<1>2. market.arguments \in Seq(Identities \cup {None}) /\ market \in MarketType
  BY DEF Types, MarketType
<1>3. Append(market.arguments, new) \in Seq(Identities \cup {None})
  BY <1>1, <1>2
<1>4. market.spent \cup ({new} \ {None}) \in SUBSET Identities
  BY <1>1, <1>2 DEF MarketType
<1> HIDE DEF new
<1> QED BY <1>1, <1>2, <1>3, <1>4, ParticipationAssumption DEF Recorded, MarketType

\* The relayer and the wallets send to the contract.
LEMMA SendInv ==
  ASSUME Inv, NEW r \in Requests,
         Relay(r) \/ RecordOffChain(r) \/ RelayFails(r) \/ WalletMined(r)
  PROVE  Inv'
<1> USE DEF Inv
<1>1. UNCHANGED <<totals, argument, nullifier>>
  BY DEF Relay, RecordOffChain, RelayFails, WalletMined
<1>2. req[r].who \in Identities
  BY DEF Relay, RecordOffChain, RelayFails, WalletMined, At, RequestInv, Known
<1>3. Mine(r) \/ market' = market
  BY DEF Relay, RecordOffChain, RelayFails, WalletMined
<1>4. /\ market' \in MarketType
      /\ market'.deployed = market.deployed
      /\ market.spent \subseteq market'.spent
      /\ Mine(r) /\ req[r].names = "own" => req[r].who \in market'.spent
  BY <1>2, <1>3, MineGrows DEF Types
<1>5. /\ OnlyMoves(r)
      /\ \/ req'[r].pc = req[r].pc /\ req[r].tx = "sent"
         \/ req'[r].pc = "insert" /\ req[r].pc = "send"
         \/ req'[r].pc = "done"
      /\ \/ req'[r].tx = req[r].tx
         \/ req'[r].tx = "mined" /\ Mine(r)
         \/ req'[r].tx = "reverted" /\ req[r].tx = "sent"
  <2>1. CASE Relay(r)
    BY <2>1 DEF Relay, At, Types, RequestType, OnlyMoves, Pcs
  <2>4. CASE RecordOffChain(r)
    BY <2>4, GotoOnlyMoves DEF RecordOffChain, At, Pcs
  <2>2. CASE RelayFails(r)
    BY <2>2, GotoOnlyMoves DEF RelayFails, Pcs
  <2>3. CASE WalletMined(r)
    <3>1. PICK tx \in {"mined", "reverted"} :
            req' = [req EXCEPT ![r].tx = tx] /\ (tx = "mined" => Mine(r))
      BY <2>3 DEF WalletMined
    <3>2. OnlyMoves(r) /\ req'[r].tx = tx /\ req'[r].pc = req[r].pc
      BY <3>1 DEF Types, RequestType, OnlyMoves
    <3> QED BY <2>3, <3>1, <3>2 DEF WalletMined
  <2> QED BY <2>1, <2>2, <2>3, <2>4
<1>6. Types'
  BY <1>1, <1>4, <1>5 DEF Types, OnlyMoves
<1>7. ASSUME NEW q \in Requests PROVE RequestInv(q)'
  <2>1. CASE q = r
    BY <1>1, <1>2, <1>4, <1>5, <2>1
       DEF OnlyMoves, RequestInv, Known, IndexInHand, OwnRow, ConfirmedIsSpent
  <2>2. CASE q # r
    BY <1>1, <1>4, <1>5, <2>2
       DEF OnlyMoves, RequestInv, Known, IndexInHand, OwnRow, ConfirmedIsSpent
  <2> QED BY <2>1, <2>2
<1>8. RolesInv' /\ VerifiedInv'
  BY <1>1, <1>4 DEF RolesInv, VerifiedInv
<1> QED BY <1>6, <1>7, <1>8

\* What a request that inserts knows: its identity is new, and its index is the count
\* or, for a co-signature, that of an argument.
LEMMA InsertKnows ==
  ASSUME Inv, NEW r \in Requests, InsertArgument(r) \/ InsertCosign(r)
  PROVE  /\ req[r].who \in Identities /\ nullifier[req[r].who].action = "none"
         /\ req[r].index \in Nat
         /\ InitialStatus(r) \in {"verified", "pending"}
         /\ TxOf(r) \in {"none", "own", "other"} /\ (TxOf(r) = "own" => req[r].names = "own")
         /\ InitialStatus(r) = "verified" /\ TxOf(r) = "own" => req[r].who \in market.spent
         /\ req[r].kind = "argument" => req[r].index = totals.arguments
         /\ req[r].kind = "cosign" => req[r].index < totals.arguments
         /\ OnlyMoves(r) /\ req'[r].pc \in {"verify", "done"} /\ req'[r].tx = req[r].tx
<1> USE DEF Inv
<1>1. At(r, "insert") /\ ~Violates(r) /\ Goto(r, AfterInsert(r))
  BY DEF InsertArgument, InsertCosign
<1>2. OnlyMoves(r) /\ req'[r].pc = AfterInsert(r) /\ req'[r].tx = req[r].tx
  BY <1>1, GotoOnlyMoves DEF AfterInsert, Pcs
<1>3. /\ req[r].index \in Nat /\ totals.arguments \in Nat /\ DOMAIN argument = 0..(totals.arguments - 1)
      /\ req[r].names \in {"own", "other"}
  BY DEF Types, RequestType
<1>4. RequestInv(r)
  OBVIOUS
<1> QED
  BY <1>1, <1>2, <1>3, <1>4
     DEF At, Violates, InitialStatus, TxOf, AfterInsert, Who, RequestInv, Known, IndexInHand,
         ConfirmedIsSpent

\* What another request has in hand stays true when the count grows.
LEMMA OthersUntouched ==
  ASSUME Inv, NEW r \in Requests, NEW q \in Requests, q # r, OnlyMoves(r),
         UNCHANGED market, totals'.arguments \in Nat, totals'.arguments >= totals.arguments
  PROVE  Known(q)' /\ IndexInHand(q)' /\ ConfirmedIsSpent(q)'
BY DEF Inv, Types, RequestType, OnlyMoves, RequestInv, Known, IndexInHand, ConfirmedIsSpent

\* Counting a co-signature, or taking it back, leaves author and status alone.
LEMMA Recounted ==
  ASSUME NEW a \in ArgumentType, NEW weight \in Int, NEW stake \in Int, NEW n \in Int
  PROVE  /\ Recount(a, weight, stake, n) \in ArgumentType
         /\ Recount(a, weight, stake, n).author = a.author
         /\ Recount(a, weight, stake, n).status = a.status
         /\ Recount(a, weight, stake, n).score = a.score + weight
         /\ Recount(a, weight, stake, n).stake = a.stake + stake
         /\ Recount(a, weight, stake, n).cosigns = a.cosigns + n
<1> DEFINE s == a.score + weight
           t == a.stake + stake
           c == a.cosigns + n
           b == [a EXCEPT !.score = s, !.stake = t, !.cosigns = c]
<1>1. s \in Int /\ t \in Int /\ c \in Int
  BY DEF ArgumentType
<1>2. Recount(a, weight, stake, n) = b
  BY DEF Recount
<1> HIDE DEF s, t, c
<1>3. b \in ArgumentType
  BY <1>1 DEF ArgumentType
<1>4. b.author = a.author
  BY <1>1 DEF ArgumentType
<1>5. b.status = a.status
  BY <1>1 DEF ArgumentType
<1>6. b.score = s /\ b.stake = t /\ b.cosigns = c
  BY <1>1 DEF ArgumentType
<1> QED BY <1>2, <1>3, <1>4, <1>5, <1>6 DEF s, t, c

\* What the rows say of the author of argument k; who has no nullifier yet is not one.
LEMMA AuthorIsNoNewcomer ==
  ASSUME Types, RolesInv, NEW k \in 0..(totals.arguments - 1)
  PROVE  /\ argument[k] \in ArgumentType /\ argument[k].author \in Identities
         /\ nullifier[argument[k].author].action = "argument"
         /\ nullifier[argument[k].author].index = k
         /\ nullifier[argument[k].author].status = argument[k].status
<1>1. argument[k] \in ArgumentType
  BY DEF Types
<1>2. LET row == nullifier[argument[k].author]
      IN row.action = "argument" /\ row.status = argument[k].status /\ row.index = k
  BY DEF RolesInv
<1> QED BY <1>1, <1>2 DEF ArgumentType

\* A new argument takes the index that is the count, and the count moves on.
LEMMA InsertArgumentInv ==
  ASSUME Inv, NEW r \in Requests, InsertArgument(r)
  PROVE  Inv'
<1> USE DEF Inv
<1> DEFINE n == totals.arguments
           who == req[r].who
           new == [author |-> who, status |-> InitialStatus(r), score |-> Weight[who],
                   stake |-> Stake[who], cosigns |-> 0]
<1>1. /\ n \in Nat /\ n' = n + 1 /\ UNCHANGED market
      /\ 0..(n' - 1) = (0..(n - 1)) \cup {n}
  BY DEF Types, InsertArgument
<1>2. /\ who \in Identities /\ nullifier[who].action = "none" /\ req[r].kind = "argument"
      /\ req[r].index = n /\ InitialStatus(r) \in {"verified", "pending"}
      /\ TxOf(r) \in {"none", "own", "other"} /\ (TxOf(r) = "own" => req[r].names = "own")
      /\ InitialStatus(r) = "verified" /\ TxOf(r) = "own" => who \in market.spent
      /\ OnlyMoves(r) /\ req'[r].pc \in {"verify", "done"} /\ req'[r].tx = req[r].tx
  BY InsertKnows DEF InsertArgument
<1>3. new \in ArgumentType
  BY <1>2, ParticipationAssumption DEF ArgumentType, RowStatus
<1>4. /\ argument' \in [0..(n' - 1) -> ArgumentType]
      /\ \A k \in 0..(n - 1) : argument'[k] = argument[k]
      /\ argument'[n] = new
  <2>1. DOMAIN argument = 0..(n - 1) /\ argument \in [0..(n - 1) -> ArgumentType]
    BY DEF Types
  <2>2. argument' = [k \in 0..(n' - 1) |-> IF k \in 0..(n - 1) THEN argument[k] ELSE new]
    BY <1>1, <1>2, <2>1 DEF InsertArgument, Who
  <2>3. n \notin 0..(n - 1) /\ n \in 0..(n' - 1)
    BY <1>1
  <2> QED BY <1>1, <1>3, <2>1, <2>2, <2>3
<1>5. nullifier' = [nullifier EXCEPT ![who] =
        [action |-> "argument", status |-> InitialStatus(r), index |-> n, tx |-> TxOf(r)]]
  BY <1>2 DEF InsertArgument, RecordNullifier, Who
<1>6. Types'
  <2>1. totals' \in [arguments : Nat, participants : Nat, stake : Nat]
    BY <1>2, ParticipationAssumption DEF InsertArgument, Who, Types
  <2>2. nullifier' \in [Identities -> NullifierType]
    BY <1>1, <1>2, <1>5 DEF Types, NullifierType, RowStatus
  <2> QED BY <1>1, <1>2, <1>4, <2>1, <2>2 DEF Types, OnlyMoves
<1>7. ASSUME NEW q \in Requests PROVE RequestInv(q)'
  <2>1. CASE q = r
    <3>1. OwnRow(r)'
      BY <1>1, <1>2, <1>4, <1>5 DEF OwnRow, OnlyMoves, Types
    <3>2. Known(r)' /\ IndexInHand(r)' /\ ConfirmedIsSpent(r)'
      BY <1>1, <1>2 DEF OnlyMoves, RequestInv, Known, IndexInHand, ConfirmedIsSpent
    <3> QED BY <2>1, <3>1, <3>2 DEF RequestInv
  <2>2. CASE q # r
    <3>1. Known(q)' /\ IndexInHand(q)' /\ ConfirmedIsSpent(q)'
      BY <1>1, <1>2, <2>2, OthersUntouched
    <3>2. OwnRow(q)'
      <4>1. req'[q] = req[q] /\ OwnRow(q) /\ Known(q)
        BY <1>2, <2>2 DEF OnlyMoves, RequestInv
      <4>2. req[q].pc = "verify" => req[q].who \in Identities /\ req[q].who # who
        BY <1>2, <4>1 DEF OwnRow, Known, Types, RequestType
      <4>3. req[q].index \in Nat
        BY DEF Types, RequestType
      <4> QED BY <1>1, <1>2, <1>4, <1>5, <4>1, <4>2, <4>3 DEF OwnRow, Types
    <3> QED BY <3>1, <3>2 DEF RequestInv
  <2> QED BY <2>1, <2>2
<1>8. RolesInv'
  <2>1. ASSUME NEW k \in 0..(n' - 1)
        PROVE  LET row == nullifier'[argument'[k].author]
               IN row.action = "argument" /\ row.status = argument'[k].status /\ row.index = k
    <3>1. CASE k = n
      BY <1>2, <1>4, <1>5, <3>1 DEF Types
    <3>2. CASE k \in 0..(n - 1)
      <4>1. argument[k].author \in Identities /\ argument[k].author # who
        BY <1>2, <3>2, AuthorIsNoNewcomer
      <4> QED BY <1>2, <1>4, <1>5, <3>2, <4>1 DEF Types, RolesInv
    <3> QED BY <1>1, <3>1, <3>2
  <2>2. ASSUME NEW i \in Identities, nullifier'[i].action = "cosign"
        PROVE  nullifier'[i].index < n'
    <3>1. i # who /\ nullifier'[i] = nullifier[i]
      BY <1>2, <1>5, <2>2 DEF Types
    <3>2. nullifier[i].index \in Nat
      BY DEF Types, NullifierType
    <3> QED BY <1>1, <2>2, <3>1, <3>2 DEF RolesInv
  <2> QED BY <2>1, <2>2 DEF RolesInv
<1>9. VerifiedInv'
  BY <1>1, <1>2, <1>5 DEF VerifiedInv, Types
<1> QED BY <1>6, <1>7, <1>8, <1>9

\* A co-signature adds to an argument that exists.
LEMMA InsertCosignInv ==
  ASSUME Inv, NEW r \in Requests, InsertCosign(r)
  PROVE  Inv'
<1> USE DEF Inv
<1> DEFINE n == totals.arguments
           who == req[r].who
           x == req[r].index
<1>1. n \in Nat /\ n' = n /\ UNCHANGED market
  BY DEF Types, InsertCosign
<1>2. /\ who \in Identities /\ nullifier[who].action = "none" /\ req[r].kind = "cosign"
      /\ x \in 0..(n - 1) /\ InitialStatus(r) \in {"verified", "pending"}
      /\ TxOf(r) \in {"none", "own", "other"} /\ (TxOf(r) = "own" => req[r].names = "own")
      /\ InitialStatus(r) = "verified" /\ TxOf(r) = "own" => who \in market.spent
      /\ OnlyMoves(r) /\ req'[r].pc \in {"verify", "done"} /\ req'[r].tx = req[r].tx
  <2>1. req[r].kind = "cosign"
    BY DEF InsertCosign
  <2>2. x \in Nat /\ x < n
    BY <2>1, InsertKnows
  <2> QED BY <1>1, <2>1, <2>2, InsertKnows
<1>3. /\ argument' \in [0..(n' - 1) -> ArgumentType]
      /\ \A k \in 0..(n - 1) : argument'[k].author = argument[k].author
                             /\ argument'[k].status = argument[k].status
  <2> DEFINE old == argument[x]
             weight == Weight[who]
             stake == Stake[who]
             cosigned == Recount(old, weight, stake, 1)
  <2>1. stake \in Int /\ weight \in Int
    BY <1>2, ParticipationAssumption
  <2>2. argument \in [0..(n - 1) -> ArgumentType] /\ old \in ArgumentType
    BY <1>2 DEF Types
  <2>3. /\ cosigned \in ArgumentType
        /\ cosigned.author = old.author /\ cosigned.status = old.status
    <3>1. old \in ArgumentType /\ stake \in Int /\ weight \in Int /\ 1 \in Int
      BY <2>1, <2>2
    <3> HIDE DEF old, stake, weight, Inv
    <3> QED BY <3>1, Recounted
  <2>4. argument' = [argument EXCEPT ![x] = cosigned]
    BY DEF InsertCosign, Who
  <2> HIDE DEF cosigned
  <2> QED BY <1>1, <1>2, <2>2, <2>3, <2>4
<1>4. nullifier' = [nullifier EXCEPT ![who] =
        [action |-> "cosign", status |-> InitialStatus(r), index |-> x, tx |-> TxOf(r)]]
  BY <1>2 DEF InsertCosign, RecordNullifier, Who
<1>5. Types'
  <2>1. totals' \in [arguments : Nat, participants : Nat, stake : Nat]
    <3>1. totals' = [totals EXCEPT !.participants = @ + 1, !.stake = @ + Stake[who]]
      BY DEF InsertCosign, Who
    <3>2. Stake[who] \in Nat
      BY <1>2, ParticipationAssumption
    <3>3. totals = [arguments |-> n, participants |-> totals.participants, stake |-> totals.stake]
      BY DEF Types
    <3>4. totals.participants + 1 \in Nat /\ totals.stake + Stake[who] \in Nat
      BY <3>2 DEF Types
    <3>5. totals' = [arguments |-> n, participants |-> totals.participants + 1,
                     stake |-> totals.stake + Stake[who]]
      BY <3>1, <3>3
    <3> QED BY <1>1, <3>4, <3>5
  <2>2. nullifier' \in [Identities -> NullifierType]
    BY <1>1, <1>2, <1>4 DEF Types, NullifierType, RowStatus
  <2> QED BY <1>1, <1>2, <1>3, <2>1, <2>2 DEF Types, OnlyMoves
<1>6. ASSUME NEW q \in Requests PROVE RequestInv(q)'
  <2>1. CASE q = r
    <3>1. OwnRow(r)'
      BY <1>1, <1>2, <1>4 DEF OwnRow, OnlyMoves, Types
    <3>2. Known(r)' /\ IndexInHand(r)' /\ ConfirmedIsSpent(r)'
      BY <1>1, <1>2 DEF OnlyMoves, RequestInv, Known, IndexInHand, ConfirmedIsSpent
    <3> QED BY <2>1, <3>1, <3>2 DEF RequestInv
  <2>2. CASE q # r
    <3>1. Known(q)' /\ IndexInHand(q)' /\ ConfirmedIsSpent(q)'
      BY <1>1, <1>2, <2>2, OthersUntouched
    <3>2. OwnRow(q)'
      <4>1. req'[q] = req[q] /\ OwnRow(q) /\ Known(q) /\ req[q].index \in Nat
        BY <1>2, <2>2 DEF OnlyMoves, RequestInv, Types, RequestType
      <4>2. req[q].pc = "verify" => req[q].who \in Identities /\ req[q].who # who
        BY <1>2, <4>1 DEF OwnRow, Known, Types, RequestType
      <4> QED BY <1>1, <1>2, <1>3, <1>4, <4>1, <4>2 DEF OwnRow, Types
    <3> QED BY <3>1, <3>2 DEF RequestInv
  <2> QED BY <2>1, <2>2
<1>7. RolesInv'
  <2>1. ASSUME NEW k \in 0..(n' - 1)
        PROVE  LET row == nullifier'[argument'[k].author]
               IN row.action = "argument" /\ row.status = argument'[k].status /\ row.index = k
    <3>1. argument[k].author \in Identities /\ argument[k].author # who
      BY <1>1, <1>2, AuthorIsNoNewcomer
    <3> QED BY <1>1, <1>2, <1>3, <1>4, <3>1 DEF Types, RolesInv
  <2>2. ASSUME NEW i \in Identities, nullifier'[i].action = "cosign"
        PROVE  nullifier'[i].index < n'
    BY <1>1, <1>2, <1>4, <2>2 DEF Types, RolesInv
  <2> QED BY <2>1, <2>2 DEF RolesInv
<1>8. VerifiedInv'
  BY <1>1, <1>2, <1>4 DEF VerifiedInv, Types
<1> QED BY <1>5, <1>6, <1>7, <1>8

\* The background check changes the verification status of the rows its request
\* wrote: of the argument, if it was one, and of the nullifier.
Marks(r, new) ==
  /\ UNCHANGED <<totals, market>>
  /\ OnlyMoves(r) /\ req'[r].pc = "done" /\ req'[r].tx = req[r].tx
  /\ argument' \in [0..(totals.arguments - 1) -> ArgumentType]
  /\ \A k \in 0..(totals.arguments - 1) :
       /\ argument'[k].author = argument[k].author
       /\ argument'[k].status = IF req[r].kind = "argument" /\ k = req[r].index THEN new
                               ELSE argument[k].status
  /\ nullifier' = [nullifier EXCEPT ![req[r].who].status = new]

\* Marking both rows of a request alike keeps them in agreement.
LEMMA MarkInv ==
  ASSUME Inv, NEW r \in Requests, req[r].pc = "verify", NEW new \in {"verified", "rejected"},
         Marks(r, new),
         new = "verified" /\ nullifier[req[r].who].tx = "own" => req[r].who \in market.spent
  PROVE  Inv'
<1> USE DEF Inv
<1> DEFINE n == totals.arguments
           who == req[r].who
           x == req[r].index
<1>1. n \in Nat /\ n' = n /\ UNCHANGED <<totals, market>>
  BY DEF Types, Marks
<1>2. /\ who \in Identities /\ x \in Nat
      /\ nullifier[who].action = req[r].kind /\ nullifier[who].index = x
      /\ req[r].kind = "argument" => x \in 0..(n - 1) /\ argument[x].author = who
  BY <1>1 DEF RequestInv, Known, OwnRow, Types, RequestType
<1>3. nullifier' \in [Identities -> NullifierType]
  <2>1. nullifier[who] \in NullifierType /\ nullifier \in [Identities -> NullifierType]
    BY <1>2 DEF Types
  <2>2. [nullifier[who] EXCEPT !.status = new] \in NullifierType
    BY <2>1 DEF NullifierType, RowStatus
  <2> QED BY <1>2, <2>1, <2>2 DEF Marks
<1>4. \A i \in Identities :
        /\ nullifier'[i].action = nullifier[i].action /\ nullifier'[i].index = nullifier[i].index
        /\ nullifier'[i].tx = nullifier[i].tx
        /\ nullifier'[i].status = IF i = who THEN new ELSE nullifier[i].status
  BY DEF Marks, Types, NullifierType
<1>5. Types'
  BY <1>1, <1>3 DEF Types, Marks, OnlyMoves
<1>6. ASSUME NEW q \in Requests PROVE RequestInv(q)'
  <2>1. CASE q = r
    BY <1>1, <2>1 DEF Marks, OnlyMoves, RequestInv, Known, IndexInHand, OwnRow, ConfirmedIsSpent
  <2>2. CASE q # r
    <3>1. req'[q] = req[q] /\ RequestInv(q) /\ req[q].index \in Nat
      BY <2>2 DEF Marks, OnlyMoves, Types, RequestType
    <3>2. Known(q)' /\ IndexInHand(q)' /\ ConfirmedIsSpent(q)'
      BY <1>1, <3>1 DEF RequestInv, Known, IndexInHand, ConfirmedIsSpent
    <3>3. OwnRow(q)'
      BY <1>1, <1>4, <3>1 DEF Marks, RequestInv, Known, OwnRow
    <3> QED BY <3>2, <3>3 DEF RequestInv
  <2> QED BY <2>1, <2>2
<1>7. RolesInv'
  <2>1. ASSUME NEW k \in 0..(n' - 1)
        PROVE  LET row == nullifier'[argument'[k].author]
               IN row.action = "argument" /\ row.status = argument'[k].status /\ row.index = k
    <3> DEFINE a == argument[k].author
    <3>1. /\ a \in Identities /\ argument'[k].author = a
          /\ nullifier[a].action = "argument" /\ nullifier[a].index = k
          /\ nullifier[a].status = argument[k].status
      BY <1>1, <2>1, AuthorIsNoNewcomer DEF Marks
    <3>2. a = who <=> req[r].kind = "argument" /\ k = x
      BY <1>2, <3>1
    <3>3. nullifier'[a].status = argument'[k].status
      BY <1>1, <1>4, <2>1, <3>1, <3>2 DEF Marks
    <3>4. nullifier'[a] \in NullifierType
      BY <1>3, <3>1
    <3> HIDE DEF a
    <3> QED BY <1>4, <3>1, <3>3, <3>4 DEF NullifierType
  <2>2. ASSUME NEW i \in Identities, nullifier'[i].action = "cosign"
        PROVE  nullifier'[i].index < n'
    BY <1>1, <1>4, <2>2 DEF RolesInv
  <2> QED BY <2>1, <2>2 DEF RolesInv
<1>8. VerifiedInv'
  BY <1>1, <1>4 DEF VerifiedInv
<1> QED BY <1>5, <1>6, <1>7, <1>8

\* A mined transaction marks its rows verified.
LEMMA MarkVerifiedInv ==
  ASSUME Inv, NEW r \in Requests, MarkVerified(r)
  PROVE  Inv'
<1> USE DEF Inv
<1>1. /\ req[r].pc = "verify"
      /\ nullifier[req[r].who].tx = "own" => req[r].who \in market.spent
      /\ req[r].kind = "argument" => req[r].index \in 0..(totals.arguments - 1)
  BY DEF MarkVerified, At, RequestInv, OwnRow, ConfirmedIsSpent, Types, RequestType
<1>2. OnlyMoves(r) /\ req'[r].pc = "done" /\ req'[r].tx = req[r].tx
  BY GotoOnlyMoves DEF MarkVerified, Pcs
<1>3. Marks(r, "verified")
  BY <1>1, <1>2 DEF MarkVerified, Marks, Who, Types, ArgumentType, RowStatus
<1> QED BY <1>1, <1>3, MarkInv

\* A reverted transaction marks its rows rejected, or takes a co-signature back.
LEMMA MarkRejectedInv ==
  ASSUME Inv, NEW r \in Requests, MarkRejected(r)
  PROVE  Inv'
<1> USE DEF Inv
<1> DEFINE x == req[r].index
           who == req[r].who
<1>1. /\ req[r].pc = "verify" /\ x \in 0..(totals.arguments - 1) /\ who \in Identities
      /\ req[r].kind \in {"argument", "cosign"}
  BY DEF MarkRejected, At, RequestInv, Known, OwnRow, IndexInHand, Types, RequestType
<1>2. OnlyMoves(r) /\ req'[r].pc = "done" /\ req'[r].tx = req[r].tx
  BY GotoOnlyMoves DEF MarkRejected, Pcs
<1>3. argument[x] \in ArgumentType /\ argument \in [0..(totals.arguments - 1) -> ArgumentType]
  BY <1>1 DEF Types
<1>4. PICK a \in ArgumentType :
        /\ argument' = [argument EXCEPT ![x] = a]
        /\ a.author = argument[x].author
        /\ a.status = IF req[r].kind = "argument" THEN "rejected" ELSE argument[x].status
  <2>1. CASE req[r].kind = "argument"
    <3>1. [argument[x] EXCEPT !.status = "rejected"] \in ArgumentType
      BY <1>3 DEF ArgumentType, RowStatus
    <3> QED BY <1>3, <2>1, <3>1 DEF MarkRejected, ArgumentType
  <2>2. CASE req[r].kind = "cosign"
    <3>1. -Weight[who] \in Int
      BY <1>1, ParticipationAssumption
    <3> DEFINE a == Recount(argument[x], -Weight[who], -Weight[who], -1)
    <3>2. argument' = [argument EXCEPT ![x] = a]
      BY <2>2 DEF MarkRejected, Who
    <3>3. a \in ArgumentType /\ a.author = argument[x].author /\ a.status = argument[x].status
      BY <1>3, <3>1, Recounted
    <3> HIDE DEF a
    <3> QED BY <2>2, <3>2, <3>3
  <2> QED BY <1>1, <2>1, <2>2
<1>5. Marks(r, "rejected")
  BY <1>1, <1>2, <1>3, <1>4 DEF MarkRejected, Marks, Who
<1> QED BY <1>1, <1>5, MarkInv

-----------------------------------------------------------------------------
\* Every step keeps the invariant.
LEMMA NextInv ==
  ASSUME Inv, Next \/ UNCHANGED debateVars
  PROVE  Inv'
<1>1. ASSUME NEW r \in Requests, Participate(r) PROVE Inv'
  BY <1>1, ReceiveInv, MoveInv, SendInv, InsertArgumentInv, InsertCosignInv, MarkVerifiedInv,
     MarkRejectedInv DEF Participate
<1>2. CASE UNCHANGED debateVars
  BY <1>2 DEF debateVars, Inv, Types, RequestInv, Known, IndexInHand, OwnRow, ConfirmedIsSpent,
     RolesInv, VerifiedInv
<1> QED BY <1>1, <1>2 DEF Next, DeadlinePasses

\* The invariant holds throughout.
LEMMA Invariant == Spec => []Inv
<1>1. Inv /\ [Next]_vars => Inv'
  BY NextInv DEF vars
<1> QED BY <1>1, InitInv, PTL DEF Spec

\* The arguments of a debate are numbered without gaps, for any number of racing
\* requests that took their index from a count read earlier (arguments/+server.ts:183).
THEOREM ArgumentsNumbered == Spec => []NumberedWithoutGaps
<1>1. Inv => NumberedWithoutGaps
  BY DEF Inv, Types, NumberedWithoutGaps
<1> QED BY <1>1, Invariant, PTL

\* An identity has one role in a debate, and argument and nullifier agree on it and on
\* its verification, whatever the background check does.
THEOREM OneRolePerIdentity == Spec => []OneRole
<1>1. Inv => OneRole
  BY DEF Inv, Types, RolesInv, OneRole, NullifierType
<1> QED BY <1>1, Invariant, PTL

\* A participation that reads verified and names a transaction of its own has been
\* recorded by the contract (arguments/+server.ts:240-243, tx-verifier.ts:72-113).
THEOREM OwnTransactionIsRecorded == Spec => []VerifiedIsOnChain
<1>1. Inv => VerifiedIsOnChain
  BY DEF Inv, VerifiedInv, VerifiedIsOnChain, Participants, Configured
<1> QED BY <1>1, Invariant, PTL

-----------------------------------------------------------------------------
(* Counting. A background check finds the row it will touch pending, and   *)
(* is the only one to touch it, so a co-signature is taken back once.      *)

Waiting ==
  /\ \A r \in Requests : req[r].pc = "verify" => nullifier[req[r].who].status = "pending"
  /\ \A r, q \in Requests :
       req[r].pc = "verify" /\ req[q].pc = "verify" /\ req[r].who = req[q].who => r = q

ScoreOK(k) ==
  /\ argument[k].score = Weight[argument[k].author] + Sum(Weight, Counted(k))
  /\ argument[k].cosigns = Cardinality(Counted(k))
  /\ Cosigners(k) = Counted(k) =>
       argument[k].stake = Stake[argument[k].author] + Sum(Stake, Cosigners(k))

Counts ==
  /\ IsFiniteSet(Participants)
  /\ totals.participants = Cardinality(Participants)
  /\ totals.stake = Sum(Stake, Participants)
  /\ \A k \in 0..(totals.arguments - 1) : ScoreOK(k)

CountInv == Waiting /\ Counts

LEMMA InitCounts == Init => CountInv
<1> SUFFICES ASSUME Init PROVE CountInv
  OBVIOUS
<1>1. Participants = {} /\ totals = [arguments |-> 0, participants |-> 0, stake |-> 0]
  BY DEF Init, Participants, NoNullifier
<1>2. IsFiniteSet({}) /\ Cardinality({}) = 0 /\ Sum(Stake, {}) = 0
  BY FS_EmptySet, SumFirst
<1>3. 0..(totals.arguments - 1) = {}
  BY <1>1
<1>4. Counts
  BY <1>1, <1>2, <1>3 DEF Counts
<1>5. Waiting
  BY DEF Init, Waiting, NoRequest
<1> QED BY <1>4, <1>5 DEF CountInv

\* The co-signers of an argument are finitely many, and those counted are among them.
LEMMA CosignersFinite ==
  ASSUME Counts, NEW k
  PROVE  /\ Counted(k) \subseteq Cosigners(k) /\ Cosigners(k) \in SUBSET Identities
         /\ IsFiniteSet(Counted(k)) /\ IsFiniteSet(Cosigners(k))
<1>1. Counted(k) \subseteq Cosigners(k) /\ Cosigners(k) \subseteq Participants
      /\ Participants \subseteq Identities
  BY DEF Counted, Cosigners, Participants
<1> QED BY <1>1, FS_Subset DEF Counts

\* An argument nobody touches keeps its score.
LEMMA ScoreKept ==
  ASSUME NEW k, ScoreOK(k), Counted(k)' = Counted(k), Cosigners(k)' = Cosigners(k),
         argument'[k].author = argument[k].author, argument'[k].score = argument[k].score,
         argument'[k].stake = argument[k].stake, argument'[k].cosigns = argument[k].cosigns
  PROVE  ScoreOK(k)'
BY DEF ScoreOK

\* A step that touches no row, and after which nobody waits who did not wait before.
LEMMA NothingCounted ==
  ASSUME CountInv, UNCHANGED <<totals, argument, nullifier>>,
         \A q \in Requests : req'[q].pc = "verify" => req[q].pc = "verify" /\ req'[q].who = req[q].who
  PROVE  CountInv'
<1>1. Participants' = Participants
  BY DEF Participants
<1>2. \A k : Cosigners(k)' = Cosigners(k) /\ Counted(k)' = Counted(k)
  BY DEF Cosigners, Counted
<1>3. \A k \in 0..(totals.arguments - 1) : ScoreOK(k)'
  BY <1>2, ScoreKept DEF CountInv, Counts
<1>4. Counts'
  BY <1>1, <1>3 DEF CountInv, Counts
<1>5. Waiting'
  BY DEF CountInv, Waiting
<1> QED BY <1>4, <1>5 DEF CountInv

\* Who waits after an insertion waited before, or has just inserted the row of an
\* identity that nobody waits for.
LEMMA InsertWaits ==
  ASSUME Inv, CountInv, NEW r \in Requests, InsertArgument(r) \/ InsertCosign(r)
  PROVE  Waiting'
<1>1. /\ req[r].who \in Identities /\ nullifier[req[r].who].action = "none"
      /\ OnlyMoves(r) /\ req'[r].pc \in {"verify", "done"}
  BY InsertKnows
<1>2. ASSUME NEW q \in Requests, q # r, req'[q].pc = "verify"
      PROVE  /\ req[q].pc = "verify" /\ req'[q].who = req[q].who
             /\ req[q].who \in Identities /\ req[q].who # req[r].who
  BY <1>1, <1>2 DEF OnlyMoves, Inv, RequestInv, OwnRow, Known, Types, RequestType
<1>3. req'[r].pc = "verify" => InitialStatus(r) = "pending"
  BY <1>1, GotoOnlyMoves
     DEF InsertArgument, InsertCosign, AfterInsert, InitialStatus, Goto, Pcs, Inv, Types, RequestType
<1>4. /\ nullifier' = [nullifier EXCEPT ![req[r].who] =
           [action |-> req[r].kind, status |-> InitialStatus(r), index |-> req[r].index,
            tx |-> TxOf(r)]]
      /\ DOMAIN nullifier = Identities
  BY DEF InsertArgument, InsertCosign, RecordNullifier, Who, Inv, Types
<1>5. ASSUME NEW q \in Requests, req'[q].pc = "verify"
      PROVE  nullifier'[req'[q].who].status = "pending"
  BY <1>1, <1>2, <1>3, <1>4, <1>5 DEF OnlyMoves, CountInv, Waiting
<1>6. ASSUME NEW q \in Requests, NEW p \in Requests, req'[q].pc = "verify", req'[p].pc = "verify",
             req'[q].who = req'[p].who
      PROVE  q = p
  BY <1>1, <1>2, <1>6 DEF OnlyMoves, CountInv, Waiting
<1> QED BY <1>5, <1>6 DEF Waiting

\* A new nullifier adds its identity to the participants, and to the co-signers of the
\* argument it names if it is a co-signature.
LEMMA InsertedSets ==
  ASSUME Types, NEW who \in Identities, nullifier[who].action = "none",
         NEW kind \in {"argument", "cosign"}, NEW state \in {"verified", "pending"}, NEW x, NEW tx,
         nullifier' =
           [nullifier EXCEPT ![who] = [action |-> kind, status |-> state, index |-> x, tx |-> tx]]
  PROVE  /\ who \notin Participants /\ Participants' = Participants \cup {who}
         /\ \A k : kind = "argument" \/ k # x =>
              Cosigners(k)' = Cosigners(k) /\ Counted(k)' = Counted(k)
         /\ kind = "cosign" =>
              /\ who \notin Cosigners(x)
              /\ Cosigners(x)' = Cosigners(x) \cup {who} /\ Counted(x)' = Counted(x) \cup {who}
<1>1. /\ \A i \in Identities : i # who => nullifier'[i] = nullifier[i]
      /\ nullifier'[who].action = kind /\ nullifier'[who].status = state
      /\ nullifier'[who].index = x
  BY DEF Types
<1>2. who \notin Participants /\ Participants' = Participants \cup {who}
  BY <1>1 DEF Participants
<1>3. \A k : kind = "argument" \/ k # x => Cosigners(k)' = Cosigners(k)
  BY <1>1 DEF Cosigners
<1>4. \A k : kind = "argument" \/ k # x => Counted(k)' = Counted(k)
  BY <1>1, <1>3 DEF Counted, Cosigners
<1>5. ASSUME kind = "cosign"
      PROVE  /\ who \notin Cosigners(x)
             /\ Cosigners(x)' = Cosigners(x) \cup {who} /\ Counted(x)' = Counted(x) \cup {who}
  <2>1. who \notin Cosigners(x) /\ Cosigners(x)' = Cosigners(x) \cup {who}
    BY <1>1, <1>5 DEF Cosigners
  <2> QED BY <1>1, <2>1 DEF Counted
<1> QED BY <1>2, <1>3, <1>4, <1>5

\* The debate's own totals count one more participant and its stake.
LEMMA TotalsGrow ==
  ASSUME Counts, NEW who \in Identities, who \notin Participants,
         Participants' = Participants \cup {who},
         totals'.participants = totals.participants + 1,
         totals'.stake = totals.stake + Stake[who]
  PROVE  /\ IsFiniteSet(Participants')
         /\ totals'.participants = Cardinality(Participants')
         /\ totals'.stake = Sum(Stake, Participants')
<1>1. IsFiniteSet(Participants) /\ Participants \in SUBSET Identities /\ who \in Identities \ Participants
  BY DEF Counts, Participants
<1>2. IsFiniteSet(Participants \cup {who})
      /\ Cardinality(Participants \cup {who}) = Cardinality(Participants) + 1
  BY <1>1, FS_AddElement
<1>3. Stake \in [Identities -> Nat] /\ Stake[who] \in Nat
  BY ParticipationAssumption
<1>4. Sum(Stake, Participants \cup {who}) = Stake[who] + Sum(Stake, Participants)
  BY <1>1, <1>3, SumAdd
<1>5. Sum(Stake, Participants) \in Nat
  BY <1>1, <1>3, SumType
<1> QED BY <1>2, <1>3, <1>4, <1>5 DEF Counts

\* A new argument weighs its author; nobody has co-signed it.
LEMMA InsertArgumentCounts ==
  ASSUME Inv, CountInv, NEW r \in Requests, InsertArgument(r)
  PROVE  CountInv'
<1>0. PICK n \in Nat, who \in Identities : n = totals.arguments /\ who = req[r].who
  BY InsertKnows DEF Inv, Types
<1>1. /\ nullifier[who].action = "none" /\ req[r].kind = "argument"
      /\ req[r].index = n /\ InitialStatus(r) \in {"verified", "pending"}
  BY <1>0, InsertKnows DEF InsertArgument
<1>2. /\ totals'.arguments = n + 1 /\ totals'.participants = totals.participants + 1
      /\ totals'.stake = totals.stake + Stake[who]
  BY <1>0 DEF InsertArgument, Who
<1>3. nullifier' = [nullifier EXCEPT ![who] =
        [action |-> "argument", status |-> InitialStatus(r), index |-> n, tx |-> TxOf(r)]]
  BY <1>0, <1>1 DEF InsertArgument, RecordNullifier, Who
<1>4. /\ who \notin Participants /\ Participants' = Participants \cup {who}
      /\ \A k : Cosigners(k)' = Cosigners(k) /\ Counted(k)' = Counted(k)
  BY <1>1, <1>3, InsertedSets DEF Inv
<1>5. /\ \A k \in 0..(n - 1) : argument'[k] = argument[k]
      /\ argument'[n] = [author |-> who, status |-> InitialStatus(r), score |-> Weight[who],
                         stake |-> Stake[who], cosigns |-> 0]
  BY <1>0, <1>1 DEF InsertArgument, Who, Inv, Types
<1>6. ASSUME NEW k \in 0..(n - 1) PROVE ScoreOK(k)'
  BY <1>0, <1>4, <1>5, ScoreKept DEF CountInv, Counts
<1>7. ScoreOK(n)'
  <2>1. Cosigners(n) = {} /\ Counted(n) = {}
    BY <1>0 DEF Inv, RolesInv, Cosigners, Counted
  <2>2. Cosigners(n)' = {} /\ Counted(n)' = {}
    BY <1>4, <2>1
  <2>3. Sum(Weight, {}) = 0 /\ Sum(Stake, {}) = 0 /\ Cardinality({}) = 0
    BY FS_EmptySet, SumFirst
  <2>4. Weight[who] \in Nat /\ Stake[who] \in Nat
    BY ParticipationAssumption
  <2>5. /\ argument'[n].author = who /\ argument'[n].score = Weight[who]
        /\ argument'[n].stake = Stake[who] /\ argument'[n].cosigns = 0
    BY <1>5
  <2> QED BY <2>2, <2>3, <2>4, <2>5 DEF ScoreOK
<1>8. \A k \in 0..(totals'.arguments - 1) : ScoreOK(k)'
  <2>1. 0..(totals'.arguments - 1) = (0..(n - 1)) \cup {n}
    BY <1>2
  <2> QED BY <1>6, <1>7, <2>1
<1>9. Counts'
  BY <1>2, <1>4, <1>8, TotalsGrow DEF CountInv, Counts
<1> QED BY <1>9, InsertWaits DEF CountInv

\* A co-signature adds its weight to its argument.
LEMMA InsertCosignCounts ==
  ASSUME Inv, CountInv, NEW r \in Requests, InsertCosign(r)
  PROVE  CountInv'
<1>0. PICK n \in Nat, who \in Identities, x \in Nat :
        n = totals.arguments /\ who = req[r].who /\ x = req[r].index /\ x \in 0..(n - 1)
  <2>1. req[r].who \in Identities /\ req[r].index \in Nat /\ req[r].index < totals.arguments
    BY InsertKnows DEF InsertCosign
  <2>2. totals.arguments \in Nat
    BY DEF Inv, Types
  <2> QED BY <2>1, <2>2
<1> DEFINE a == argument[x]
<1>1. /\ nullifier[who].action = "none" /\ req[r].kind = "cosign"
      /\ InitialStatus(r) \in {"verified", "pending"}
  BY <1>0, InsertKnows DEF InsertCosign
<1>2. /\ totals'.arguments = n /\ totals'.participants = totals.participants + 1
      /\ totals'.stake = totals.stake + Stake[who]
  BY <1>0 DEF InsertCosign, Who, Inv, Types
<1>3. nullifier' = [nullifier EXCEPT ![who] =
        [action |-> "cosign", status |-> InitialStatus(r), index |-> x, tx |-> TxOf(r)]]
  BY <1>0, <1>1 DEF InsertCosign, RecordNullifier, Who
<1>4. /\ who \notin Participants /\ Participants' = Participants \cup {who}
      /\ \A k : k # x => Cosigners(k)' = Cosigners(k) /\ Counted(k)' = Counted(k)
      /\ who \notin Cosigners(x)
      /\ Cosigners(x)' = Cosigners(x) \cup {who} /\ Counted(x)' = Counted(x) \cup {who}
  BY <1>1, <1>3, InsertedSets DEF Inv
<1>5. Weight[who] \in Nat /\ Stake[who] \in Nat /\ Weight \in [Identities -> Nat] /\ Stake \in [Identities -> Nat]
  BY ParticipationAssumption
<1>6. a \in ArgumentType /\ DOMAIN argument = 0..(n - 1)
  BY <1>0 DEF Inv, Types
<1>7. /\ \A k \in 0..(n - 1) : k # x => argument'[k] = argument[k]
      /\ argument'[x].author = a.author /\ argument'[x].score = a.score + Weight[who]
      /\ argument'[x].stake = a.stake + Stake[who] /\ argument'[x].cosigns = a.cosigns + 1
  <2> DEFINE b == Recount(a, Weight[who], Stake[who], 1)
  <2>1. /\ b.author = a.author /\ b.score = a.score + Weight[who]
        /\ b.stake = a.stake + Stake[who] /\ b.cosigns = a.cosigns + 1
    <3> DEFINE weight == Weight[who]
               stake == Stake[who]
    <3>1. a \in ArgumentType /\ weight \in Int /\ stake \in Int
      BY <1>5, <1>6
    <3> HIDE DEF a, weight, stake
    <3>2. /\ Recount(a, weight, stake, 1).author = a.author
          /\ Recount(a, weight, stake, 1).score = a.score + weight
          /\ Recount(a, weight, stake, 1).stake = a.stake + stake
          /\ Recount(a, weight, stake, 1).cosigns = a.cosigns + 1
      BY <3>1, Recounted
    <3> QED BY <3>2 DEF weight, stake
  <2>2. argument' = [argument EXCEPT ![x] = b]
    BY <1>0 DEF InsertCosign, Who
  <2>3. x \in DOMAIN argument
    BY <1>0, <1>6
  <2> HIDE DEF a, b
  <2> QED BY <1>6, <2>1, <2>2, <2>3
<1>8. ASSUME NEW k \in 0..(n - 1), k # x PROVE ScoreOK(k)'
  BY <1>0, <1>4, <1>7, <1>8, ScoreKept DEF CountInv, Counts
<1>9. ScoreOK(x)'
  <2>1. ScoreOK(x) /\ Counts
    BY <1>0 DEF CountInv, Counts
  <2>2. /\ Counted(x) \subseteq Cosigners(x) /\ Cosigners(x) \in SUBSET Identities
        /\ IsFiniteSet(Counted(x)) /\ IsFiniteSet(Cosigners(x))
        /\ Counted(x) \in SUBSET Identities
        /\ who \in Identities \ Counted(x) /\ who \in Identities \ Cosigners(x)
    BY <1>4, <2>1, CosignersFinite
  <2>3. /\ Sum(Weight, Counted(x) \cup {who}) = Weight[who] + Sum(Weight, Counted(x))
        /\ Sum(Stake, Cosigners(x) \cup {who}) = Stake[who] + Sum(Stake, Cosigners(x))
    BY <1>5, <2>2, SumAdd
  <2>4. Sum(Weight, Counted(x)) \in Nat /\ Sum(Stake, Cosigners(x)) \in Nat
    BY <1>5, <2>2, SumType
  <2>5. Cardinality(Counted(x) \cup {who}) = Cardinality(Counted(x)) + 1
    BY <2>2, FS_AddElement
  <2>6. Weight[a.author] \in Nat /\ Stake[a.author] \in Nat
    BY <1>6, ParticipationAssumption DEF ArgumentType
  <2>7. Cosigners(x)' = Counted(x)' => Cosigners(x) = Counted(x)
    BY <1>4, <2>2
  <2> QED BY <1>4, <1>5, <1>7, <2>1, <2>3, <2>4, <2>5, <2>6, <2>7 DEF ScoreOK
<1>10. Counts'
  <2>1. \A k \in 0..(totals'.arguments - 1) : ScoreOK(k)'
    BY <1>2, <1>8, <1>9
  <2> QED BY <1>2, <1>4, <2>1, TotalsGrow DEF CountInv, Counts
<1> QED BY <1>10, InsertWaits DEF CountInv

\* A background check ends the wait of its request and of no other.
LEMMA MarkWaits ==
  ASSUME Inv, CountInv, NEW r \in Requests, req[r].pc = "verify", NEW new,
         OnlyMoves(r), req'[r].pc = "done",
         nullifier' = [nullifier EXCEPT ![req[r].who].status = new]
  PROVE  Waiting'
<1>1. ASSUME NEW q \in Requests, req'[q].pc = "verify"
      PROVE  /\ q # r /\ req'[q] = req[q] /\ req[q].who \in Identities
             /\ req[q].who # req[r].who /\ nullifier'[req[q].who] = nullifier[req[q].who]
  <2>1. q # r /\ req'[q] = req[q] /\ req[q].pc = "verify"
    BY <1>1 DEF OnlyMoves
  <2>2. req[q].who \in Identities /\ req[q].who # req[r].who
    BY <2>1 DEF CountInv, Waiting, Inv, RequestInv, Known
  <2> QED BY <2>1, <2>2 DEF Inv, Types
<1> QED BY <1>1 DEF CountInv, Waiting

\* A changed status leaves participants and co-signers as they are.
LEMMA MarkedSets ==
  ASSUME Types, NEW who \in Identities, nullifier[who].status = "pending",
         NEW new \in {"verified", "rejected"},
         nullifier' = [nullifier EXCEPT ![who].status = new]
  PROVE  /\ Participants' = Participants
         /\ \A k : Cosigners(k)' = Cosigners(k)
         /\ \A k : new = "verified" \/ who \notin Cosigners(k) => Counted(k)' = Counted(k)
         /\ \A k : new = "rejected" /\ who \in Cosigners(k) =>
              who \in Counted(k) /\ Counted(k)' = Counted(k) \ {who}
<1>1. \A i \in Identities :
        /\ nullifier'[i].action = nullifier[i].action /\ nullifier'[i].index = nullifier[i].index
        /\ nullifier'[i].status = IF i = who THEN new ELSE nullifier[i].status
  BY DEF Types, NullifierType
<1>2. Participants' = Participants
  BY <1>1 DEF Participants
<1>3. \A k : Cosigners(k)' = Cosigners(k)
  BY <1>1 DEF Cosigners
<1>4. ASSUME NEW k
      PROVE  /\ new = "verified" \/ who \notin Cosigners(k) => Counted(k)' = Counted(k)
             /\ new = "rejected" /\ who \in Cosigners(k) =>
                  who \in Counted(k) /\ Counted(k)' = Counted(k) \ {who}
  <2>1. Cosigners(k) \subseteq Identities
    BY DEF Cosigners
  <2> QED BY <1>1, <1>3, <2>1 DEF Counted
<1> QED BY <1>2, <1>3, <1>4

\* A confirmation changes no count; a rejected argument stays where it is.
LEMMA ArgumentMarkedCounts ==
  ASSUME Inv, CountInv, NEW r \in Requests,
         MarkVerified(r) \/ (MarkRejected(r) /\ req[r].kind = "argument")
  PROVE  CountInv'
<1>0. PICK who \in Identities : who = req[r].who
  BY DEF MarkVerified, MarkRejected, At, Inv, RequestInv, Known
<1> DEFINE n == totals.arguments
           x == req[r].index
<1>1. PICK new \in {"verified", "rejected"} :
        /\ nullifier' = [nullifier EXCEPT ![who].status = new]
        /\ argument' = IF req[r].kind = "argument" THEN [argument EXCEPT ![x].status = new] ELSE argument
        /\ new = "rejected" => req[r].kind = "argument"
        /\ req[r].pc = "verify" /\ Goto(r, "done") /\ totals' = totals
  <2>1. CASE MarkVerified(r)
    BY <1>0, <2>1 DEF MarkVerified, Who, At
  <2>2. CASE MarkRejected(r) /\ req[r].kind = "argument"
    BY <1>0, <2>2 DEF MarkRejected, Who, At
  <2> QED BY <2>1, <2>2
<1>2. OnlyMoves(r) /\ req'[r].pc = "done"
  BY <1>1, GotoOnlyMoves DEF Inv, Pcs
<1>3. nullifier[who].status = "pending" /\ nullifier[who].action = req[r].kind
  BY <1>0, <1>1 DEF Inv, RequestInv, Known, OwnRow, CountInv, Waiting
<1>4. Participants' = Participants /\ \A k : Cosigners(k)' = Cosigners(k) /\ Counted(k)' = Counted(k)
  <2>1. new = "rejected" => \A k : who \notin Cosigners(k)
    BY <1>1, <1>3 DEF Cosigners
  <2> QED BY <1>1, <1>3, <2>1, MarkedSets DEF Inv
<1>5. \A k \in 0..(n - 1) :
        /\ argument'[k].author = argument[k].author /\ argument'[k].score = argument[k].score
        /\ argument'[k].stake = argument[k].stake /\ argument'[k].cosigns = argument[k].cosigns
  BY <1>1 DEF Inv, Types, ArgumentType
<1>6. \A k \in 0..(n - 1) : ScoreOK(k)'
  BY <1>4, <1>5, ScoreKept DEF CountInv, Counts
<1>7. Counts'
  BY <1>1, <1>4, <1>6 DEF CountInv, Counts
<1> QED BY <1>0, <1>1, <1>2, <1>7, MarkWaits DEF CountInv

\* A rejected co-signature takes its weight back.
LEMMA CosignRejectedCounts ==
  ASSUME Inv, CountInv, NEW r \in Requests, MarkRejected(r), req[r].kind = "cosign"
  PROVE  CountInv'
<1>0. PICK n \in Nat, who \in Identities, x \in Nat :
        n = totals.arguments /\ who = req[r].who /\ x = req[r].index /\ x \in 0..(n - 1)
  BY DEF MarkRejected, At, Inv, RequestInv, Known, OwnRow, IndexInHand, Types, RequestType
<1> DEFINE a == argument[x]
<1>1. /\ nullifier' = [nullifier EXCEPT ![who].status = "rejected"]
      /\ argument' = [argument EXCEPT ![x] = Recount(a, -Weight[who], -Weight[who], -1)]
      /\ req[r].pc = "verify" /\ Goto(r, "done") /\ totals' = totals
  BY <1>0 DEF MarkRejected, Who, At
<1>2. OnlyMoves(r) /\ req'[r].pc = "done"
  BY <1>1, GotoOnlyMoves DEF Inv, Pcs
<1>3. /\ nullifier[who].status = "pending"
      /\ nullifier[who].action = "cosign" /\ nullifier[who].index = x
  BY <1>0, <1>1 DEF Inv, RequestInv, OwnRow, CountInv, Waiting
<1>4. /\ Participants' = Participants /\ \A k : Cosigners(k)' = Cosigners(k)
      /\ \A k : k # x => Counted(k)' = Counted(k)
      /\ who \in Cosigners(x) /\ who \in Counted(x) /\ Counted(x)' = Counted(x) \ {who}
  <2>1. who \in Cosigners(x) /\ \A k : k # x => who \notin Cosigners(k)
    BY <1>3 DEF Cosigners
  <2> QED BY <1>1, <1>3, <2>1, MarkedSets DEF Inv
<1>5. Weight[who] \in Nat /\ -Weight[who] \in Int /\ Weight \in [Identities -> Nat]
  BY ParticipationAssumption
<1>6. a \in ArgumentType /\ DOMAIN argument = 0..(n - 1)
  BY <1>0 DEF Inv, Types
<1>7. /\ \A k \in 0..(n - 1) : k # x => argument'[k] = argument[k]
      /\ argument'[x].author = a.author /\ argument'[x].score = a.score - Weight[who]
      /\ argument'[x].cosigns = a.cosigns - 1
  <2> DEFINE b == Recount(a, -Weight[who], -Weight[who], -1)
  <2>1. /\ b.author = a.author /\ b.score = a.score + (-Weight[who])
        /\ b.cosigns = a.cosigns + (-1)
    BY <1>5, <1>6, Recounted
  <2>2. argument' = [argument EXCEPT ![x] = b]
    BY <1>1
  <2>3. a.score \in Int /\ a.cosigns \in Int
    BY <1>6 DEF ArgumentType
  <2>4. x \in DOMAIN argument
    BY <1>0, <1>6
  <2> HIDE DEF a, b
  <2> QED BY <1>5, <1>6, <2>1, <2>2, <2>3, <2>4
<1>8. ASSUME NEW k \in 0..(n - 1), k # x PROVE ScoreOK(k)'
  BY <1>0, <1>4, <1>7, <1>8, ScoreKept DEF CountInv, Counts
<1>9. ScoreOK(x)'
  <2>1. ScoreOK(x) /\ Counts
    BY <1>0 DEF CountInv, Counts
  <2>2. IsFiniteSet(Counted(x)) /\ Counted(x) \in SUBSET Identities
    BY <2>1, CosignersFinite
  <2>3. Sum(Weight, Counted(x)) = Weight[who] + Sum(Weight, Counted(x) \ {who})
    BY <1>4, <1>5, <2>2, SumRemove
  <2>4. Sum(Weight, Counted(x) \ {who}) \in Nat
    <3>1. Counted(x) \ {who} \in SUBSET Identities /\ IsFiniteSet(Counted(x) \ {who})
      BY <2>2, FS_Subset
    <3> QED BY <1>5, <3>1, SumType
  <2>5. Cardinality(Counted(x) \ {who}) = Cardinality(Counted(x)) - 1
    BY <1>4, <2>2, FS_RemoveElement
  <2>6. Weight[a.author] \in Nat
    BY <1>6, ParticipationAssumption DEF ArgumentType
  <2>7. Cosigners(x)' # Counted(x)'
    BY <1>4
  <2> QED BY <1>4, <1>5, <1>7, <2>1, <2>3, <2>4, <2>5, <2>6, <2>7 DEF ScoreOK
<1>10. Counts'
  <2>1. \A k \in 0..(totals'.arguments - 1) : ScoreOK(k)'
    BY <1>0, <1>1, <1>8, <1>9
  <2> QED BY <1>1, <1>4, <2>1 DEF CountInv, Counts
<1> QED BY <1>0, <1>1, <1>2, <1>10, MarkWaits DEF CountInv

\* The other steps of a request touch no row, and none of them starts a wait.
LEMMA MoveCounts ==
  ASSUME Inv, CountInv, NEW r \in Requests,
         \/ Receive(r) \/ CheckNullifier(r) \/ FindArgument(r) \/ Relay(r)
         \/ RecordOffChain(r) \/ RelayFails(r) \/ InsertFails(r) \/ WalletMined(r) \/ GiveUp(r)
  PROVE  CountInv'
<1>1. UNCHANGED <<totals, argument, nullifier>>
  BY DEF Receive, CheckNullifier, FindArgument, Relay, RecordOffChain, RelayFails, InsertFails,
         WalletMined, GiveUp
<1>2. PICK row :
        /\ req' = [req EXCEPT ![r] = row]
        /\ row.pc # "verify" \/ (row.pc = req[r].pc /\ row.who = req[r].who)
  <2>1. CASE Receive(r)
    <3>1. PICK who \in Identities, kind \in Kinds, sender \in Senders, names \in Names,
             k \in 0..totals.arguments : \E tx \in Named(sender, names) :
            /\ kind = "argument" => k = totals.arguments
            /\ tx = "sent" => Configured
            /\ req' = [req EXCEPT ![r] =
                 [pc |-> "check", who |-> who, kind |-> kind, sender |-> sender, names |-> names,
                  index |-> k, tx |-> tx]]
      BY <2>1 DEF Receive
    <3>2. PICK tx \in Named(sender, names) :
            req' = [req EXCEPT ![r] =
              [pc |-> "check", who |-> who, kind |-> kind, sender |-> sender, names |-> names,
               index |-> k, tx |-> tx]]
      BY <3>1
    <3> DEFINE row == [pc |-> "check", who |-> who, kind |-> kind, sender |-> sender,
                       names |-> names, index |-> k, tx |-> tx]
    <3>3. req' = [req EXCEPT ![r] = row] /\ row.pc = "check"
      BY <3>2
    <3> HIDE DEF row
    <3> QED BY <3>3
  <2>2. ASSUME NEW pc \in Pcs \ {"verify"}, Goto(r, pc)
        PROVE  req' = [req EXCEPT ![r] = [req[r] EXCEPT !.pc = pc]] /\ [req[r] EXCEPT !.pc = pc].pc = pc
    BY <2>2 DEF Goto, Inv, Types, RequestType
  <2>3. ASSUME NEW tx, req' = [req EXCEPT ![r].tx = tx]
        PROVE  /\ req' = [req EXCEPT ![r] = [req[r] EXCEPT !.tx = tx]]
               /\ [req[r] EXCEPT !.tx = tx].pc = req[r].pc /\ [req[r] EXCEPT !.tx = tx].who = req[r].who
    BY <2>3 DEF Inv, Types, RequestType
  <2>4. CASE WalletMined(r)
    <3>1. PICK tx \in {"mined", "reverted"} : req' = [req EXCEPT ![r].tx = tx]
      BY <2>4 DEF WalletMined
    <3> QED BY <2>3, <3>1
  <2>5. CASE Relay(r)
    <3> DEFINE row == [req[r] EXCEPT !.pc = "insert", !.tx = "mined"]
    <3>1. req' = [req EXCEPT ![r] = row]
      BY <2>5 DEF Relay
    <3>2. row.pc = "insert"
      BY DEF Inv, Types, RequestType
    <3> HIDE DEF row
    <3> QED BY <3>1, <3>2
  <2>6. CASE ~Receive(r) /\ ~WalletMined(r) /\ ~Relay(r)
    <3>1. PICK pc \in Pcs \ {"verify"} : Goto(r, pc)
      BY <2>6 DEF CheckNullifier, FindArgument, RecordOffChain, RelayFails, InsertFails, GiveUp, Submit, Pcs
    <3>2. pc # "verify"
      OBVIOUS
    <3> QED BY <2>2, <3>1, <3>2, Zenon
  <2> QED BY <2>1, <2>4, <2>5, <2>6
<1>3. \A q \in Requests : req'[q].pc = "verify" => req[q].pc = "verify" /\ req'[q].who = req[q].who
  BY <1>2 DEF Inv, Types
<1> QED BY <1>1, <1>3, NothingCounted

LEMMA NextCounts ==
  ASSUME Inv, CountInv, Next \/ UNCHANGED debateVars
  PROVE  CountInv'
<1>1. ASSUME NEW r \in Requests, Participate(r) PROVE CountInv'
  <2>1. req[r].kind \in {"argument", "cosign"}
    BY DEF Inv, Types, RequestType
  <2> QED
    BY <1>1, <2>1, MoveCounts, InsertArgumentCounts, InsertCosignCounts, ArgumentMarkedCounts,
       CosignRejectedCounts DEF Participate
<1>2. CASE UNCHANGED debateVars
  BY <1>2, NothingCounted DEF debateVars
<1> QED BY <1>1, <1>2 DEF Next, DeadlinePasses

LEMMA Counting == Spec => [](Inv /\ CountInv)
<1>1. Inv /\ CountInv /\ [Next]_vars => (Inv /\ CountInv)'
  BY NextInv, NextCounts DEF vars
<1> QED BY <1>1, InitInv, InitCounts, PTL DEF Spec

\* Each identity counts once, in the debate's totals and in its argument's, however its
\* requests race and whatever is rejected later (arguments/+server.ts:268-292,
\* cosign/+server.ts:188-232, tx-verifier.ts:131-157).
THEOREM TotalsAreRight == Spec => []TotalsMatch
<1>1. Inv /\ CountInv => TotalsMatch
  BY DEF Inv, Types, CountInv, Counts, ScoreOK, TotalsMatch, ScoresMatch
<1> QED BY <1>1, Counting, PTL

-----------------------------------------------------------------------------
(* Resolution: what resolvers, evaluators and the row know of the contract. *)

\* The fields of the rows.
ResRow(row) == row = [pc |-> row.pc, winner |-> row.winner, fromChain |-> row.fromChain]
EvRow(row) == row = [pc |-> row.pc, isolate |-> row.isolate, read |-> row.read,
                     winner |-> row.winner, fromChain |-> row.fromChain]

Typed ==
  /\ "deployed" \in DOMAIN market
  /\ resolution = [method |-> resolution.method, winner |-> resolution.winner,
                   fromChain |-> resolution.fromChain, ai |-> resolution.ai]
  /\ onChain = [status |-> onChain.status, winner |-> onChain.winner]
  /\ DOMAIN res = Resolvers /\ \A p \in Resolvers : ResRow(res[p])
  /\ DOMAIN ev = Evaluators /\ \A e \in Evaluators : EvRow(ev[e])
  /\ memory \in [Isolates -> [active : BOOLEAN, recent : BOOLEAN]]
  /\ \A e \in Evaluators : ev[e].pc # "idle" => ev[e].isolate \in Isolates

\* Who committed found an active debate, and nobody makes one active again.
Winners == \A p, q \in Resolvers :
  res[p].pc = "won" => status # "active" /\ (res[q].pc = "won" => p = q)

\* What resolvers and evaluators on their way to commit know of the contract.
Resolved == onChain.status = "resolved"
Drawn(winner) == Resolved /\ onChain.winner = winner

ResolverKnows(p) ==
  /\ res[p].pc = "read" => Resolved
  /\ res[p].pc = "commit" /\ Configured => Resolved
  /\ res[p].pc \in {"chain", "read"} => ~res[p].fromChain
  /\ res[p].fromChain => Drawn(res[p].winner)

EvaluatorKnows(e) ==
  /\ ev[e].pc \in {"read", "commit"} => Resolved
  /\ ev[e].fromChain => Drawn(ev[e].winner) /\ ev[e].pc \in {"commit", "done"}

RowKnows ==
  /\ Configured /\ status = "resolved" => Resolved
  /\ resolution.fromChain => Drawn(resolution.winner)

DInv ==
  /\ Typed
  /\ Winners
  /\ \A p \in Resolvers : ResolverKnows(p)
  /\ \A e \in Evaluators : EvaluatorKnows(e)
  /\ RowKnows
  /\ SlotHasEvaluation

USE DEF ResolverGoto, EvaluatorGoto, Evaluating, Configured, resolutionVars, vars, debateVars

LEMMA InitDInv == DebateInit => DInv
<1> SUFFICES ASSUME DebateInit PROVE DInv
  OBVIOUS
<1>1. /\ resolution = [method |-> "none", winner |-> 0, fromChain |-> FALSE, ai |-> FALSE]
      /\ onChain = [status |-> "active", winner |-> 0]
      /\ res = [p \in Resolvers |-> [pc |-> "idle", winner |-> 0, fromChain |-> FALSE]]
      /\ ev = [e \in Evaluators |-> NoEvaluation]
      /\ memory = [i \in Isolates |-> Forgotten]
      /\ status = "active"
      /\ market \in [deployed : Deployments, arguments : {<<>>}, spent : {{}}]
  BY DEF DebateInit, Init
<1>2. Typed
  BY <1>1 DEF Typed, ResRow, EvRow, NoEvaluation, Forgotten
<1>3. Winners /\ RowKnows /\ SlotHasEvaluation
  BY <1>1 DEF Winners, RowKnows, SlotHasEvaluation, Forgotten
<1>4. \A p \in Resolvers : ResolverKnows(p)
  BY <1>1 DEF ResolverKnows
<1>5. \A e \in Evaluators : EvaluatorKnows(e)
  BY <1>1 DEF EvaluatorKnows, NoEvaluation
<1> QED
  BY <1>2, <1>3, <1>4, <1>5 DEF DInv

-----------------------------------------------------------------------------
(* Participation goes on beside, and leaves the resolution alone.          *)

LEMMA ParticipationQuiet ==
  ASSUME "deployed" \in DOMAIN market, Next
  PROVE  status' = status /\ "deployed" \in DOMAIN market' /\ market'.deployed = market.deployed
<1>1. CASE DeadlinePasses
  BY <1>1 DEF DeadlinePasses
<1>2. ASSUME NEW r \in Requests, Participate(r)
      PROVE  status' = status /\ (market' = market \/ \E who, kind : market' = Recorded(who, kind))
  BY <1>2 DEF Participate, Receive, CheckNullifier, FindArgument, Relay, RecordOffChain, RelayFails,
       InsertArgument, InsertCosign, InsertFails, WalletMined, MarkVerified, MarkRejected, GiveUp, Mine
<1>3. ASSUME NEW who, NEW kind, market' = Recorded(who, kind)
      PROVE  "deployed" \in DOMAIN market' /\ market'.deployed = market.deployed
  BY <1>3 DEF Recorded
<1> QED
  BY <1>1, <1>2, <1>3 DEF Next

LEMMA ParticipationInv ==
  ASSUME DInv, Next \/ UNCHANGED vars, UNCHANGED resolutionVars
  PROVE  DInv'
<1>1. status' = status /\ "deployed" \in DOMAIN market' /\ market'.deployed = market.deployed
  BY ParticipationQuiet DEF DInv, Typed
<1>2. Typed'
  BY <1>1 DEF DInv, Typed, ResRow, EvRow
<1> QED
  BY <1>1, <1>2 DEF DInv, Winners, ResolverKnows, EvaluatorKnows, RowKnows, SlotHasEvaluation,
                    Resolved, Drawn

-----------------------------------------------------------------------------
(* The contract draws a winner once.                                       *)

LEMMA ContractKeeps ==
  ASSUME Typed, ResolveByContract
  PROVE  /\ onChain' = [status |-> onChain'.status, winner |-> onChain'.winner]
         /\ Resolved' /\ ~Resolved
  BY DEF ResolveByContract, Resolved

\* Whatever happens to the contract, what was known of it stays so.
ChainGrows == Resolved => onChain' = onChain

ChainRow == onChain = [status |-> onChain.status, winner |-> onChain.winner]

-----------------------------------------------------------------------------
(* Resolvers.                                                              *)

\* p moves without writing the debate's row.
LEMMA ResolverMoves ==
  ASSUME DInv, NEW p \in Resolvers,
         DOMAIN res' = Resolvers, ResRow(res'[p]), \A q \in Resolvers \ {p} : res'[q] = res[q],
         UNCHANGED <<vars, resolution, ev, memory>>, ChainGrows, ChainRow',
         ResolverKnows(p)', res'[p].pc # "won"
  PROVE  DInv'
<1>2. Resolved => Resolved'
  BY DEF ChainGrows, Resolved
<1>3. Typed'
  BY DEF DInv, Typed, ChainRow, ResRow, EvRow
<1>4. Winners'
  BY DEF DInv, Winners
<1>5. \A q \in Resolvers : ResolverKnows(q)'
  <2>1. ASSUME NEW q \in Resolvers, q # p PROVE ResolverKnows(q)'
    <3>1. ResolverKnows(q) /\ res'[q] = res[q]
      BY <2>1 DEF DInv
    <3>2. res'[q].fromChain => Resolved' /\ onChain'.winner = res'[q].winner
      BY <3>1 DEF ResolverKnows, Drawn, Resolved, ChainGrows
    <3> QED
      BY <1>2, <3>1, <3>2 DEF ResolverKnows, Drawn
  <2> QED
    BY <2>1
<1>6. \A e \in Evaluators : EvaluatorKnows(e)'
  BY DEF DInv, EvaluatorKnows, Drawn, Resolved, ChainGrows
<1>7. RowKnows' /\ SlotHasEvaluation'
  BY DEF DInv, RowKnows, SlotHasEvaluation, Drawn, Resolved, ChainGrows
<1> QED
  BY <1>3, <1>4, <1>5, <1>6, <1>7 DEF DInv

\* p wins: it wrote the row of a debate that was active.
LEMMA CommitInv ==
  ASSUME DInv, NEW p \in Resolvers, CommitCommunity(p)
  PROVE  DInv'
<1>1. /\ res' = [res EXCEPT ![p].pc = "won"] /\ res[p].pc = "commit" /\ status = "active"
      /\ status' = "resolved"
      /\ resolution' = [resolution EXCEPT !.method = "community_only", !.winner = res[p].winner,
                                          !.fromChain = res[p].fromChain]
      /\ UNCHANGED <<expired, debateVars, onChain, ev, memory>>
  BY DEF CommitCommunity
<1>2. /\ resolution'.winner = res[p].winner /\ resolution'.fromChain = res[p].fromChain
      /\ resolution' = [method |-> resolution'.method, winner |-> resolution'.winner,
                        fromChain |-> resolution'.fromChain, ai |-> resolution'.ai]
  BY <1>1 DEF DInv, Typed
<1>3. /\ DOMAIN res' = Resolvers /\ res'[p].pc = "won"
      /\ res'[p].winner = res[p].winner /\ res'[p].fromChain = res[p].fromChain /\ ResRow(res'[p])
      /\ \A q \in Resolvers \ {p} : res'[q] = res[q]
  BY <1>1 DEF DInv, Typed, ResRow
<1>4. Typed'
  BY <1>1, <1>2, <1>3 DEF DInv, Typed, ResRow, EvRow
<1>5. Winners'
  BY <1>1, <1>3 DEF DInv, Winners
<1>6. \A q \in Resolvers : ResolverKnows(q)'
  BY <1>1, <1>3 DEF DInv, ResolverKnows, Drawn, Resolved
<1>7. \A e \in Evaluators : EvaluatorKnows(e)'
  BY <1>1 DEF DInv, EvaluatorKnows, Drawn, Resolved
<1>8. RowKnows'
  BY <1>1, <1>2 DEF DInv, RowKnows, ResolverKnows, Drawn, Resolved
<1>9. SlotHasEvaluation'
  BY <1>1 DEF DInv, SlotHasEvaluation
<1> QED
  BY <1>4, <1>5, <1>6, <1>7, <1>8, <1>9 DEF DInv

LEMMA ResolveInv ==
  ASSUME DInv, NEW p \in Resolvers, Resolve(p)
  PROVE  DInv'
<1>0. ResRow(res[p]) /\ ResolverKnows(p) /\ Typed /\ ChainRow /\ p \in DOMAIN res
  BY DEF DInv, Typed, ChainRow
<1>1. CASE ReadForResolution(p)
  <2>1. PICK k : res' = [res EXCEPT ![p] = [pc |-> "chain", winner |-> k, fromChain |-> FALSE]]
    BY <1>1 DEF ReadForResolution
  <2>2. /\ res'[p] = [pc |-> "chain", winner |-> k, fromChain |-> FALSE]
        /\ DOMAIN res' = Resolvers /\ \A q \in Resolvers \ {p} : res'[q] = res[q]
    BY <2>1 DEF DInv, Typed
  <2>3. UNCHANGED <<vars, resolution, onChain, ev, memory>>
    BY <1>1 DEF ReadForResolution
  <2>4. ResRow(res'[p]) /\ ResolverKnows(p)'
    BY <2>2 DEF ResRow, ResolverKnows
  <2>5. ChainGrows /\ ChainRow'
    BY <1>0, <2>3 DEF ChainGrows, ChainRow
  <2>6. res'[p].pc # "won"
    BY <2>2
  <2> QED
    BY <2>2, <2>3, <2>4, <2>5, <2>6, ResolverMoves
<1>2. CASE ResolveOnChain(p) \/ ResolveOnChainFails(p) \/ ResolverLoses(p)
  <2>1. PICK pc \in {"read", "commit", "done"} :
          /\ res' = [res EXCEPT ![p].pc = pc]
          /\ pc = "read" => ResolveByContract /\ res[p].pc = "chain"
          /\ pc = "commit" => ~Configured
    BY <1>2 DEF ResolveOnChain, ResolveOnChainFails, ResolverLoses
  <2>2. /\ res'[p].pc = pc /\ res'[p].winner = res[p].winner /\ res'[p].fromChain = res[p].fromChain
        /\ ResRow(res'[p])
        /\ DOMAIN res' = Resolvers /\ \A q \in Resolvers \ {p} : res'[q] = res[q]
    BY <1>0, <2>1 DEF DInv, Typed, ResRow
  <2>3. UNCHANGED <<vars, resolution, ev, memory>>
    BY <1>2 DEF ResolveOnChain, ResolveOnChainFails, ResolverLoses
  <2>4. ResolveByContract \/ onChain' = onChain
    BY <1>2 DEF ResolveOnChain, ResolveOnChainFails, ResolverLoses
  <2>5. ChainGrows /\ ChainRow'
    BY <1>0, <2>4, ContractKeeps DEF ChainGrows, ChainRow
  <2>6. pc = "read" => ResolveByContract /\ ~res[p].fromChain
    BY <1>0, <2>1 DEF ResolverKnows
  <2>8. res'[p].fromChain => Drawn(res[p].winner)'
    BY <1>0, <2>2, <2>5 DEF ResolverKnows, Drawn, Resolved, ChainGrows
  <2>9. ResolverKnows(p)'
    BY <1>0, <2>1, <2>2, <2>3, <2>6, <2>8, ContractKeeps DEF ResolverKnows, Drawn
  <2> QED
    BY <2>1, <2>2, <2>3, <2>5, <2>9, ResolverMoves
<1>3. CASE ReadChainWinner(p)
  <2>1. Resolved /\ ~res[p].fromChain
    BY <1>0, <1>3 DEF ReadChainWinner, ResolverKnows
  <2>2. UNCHANGED <<vars, resolution, onChain, ev, memory>>
    BY <1>3 DEF ReadChainWinner
  <2>3. ChainGrows /\ ChainRow'
    BY <1>0, <2>2 DEF ChainGrows, ChainRow
  <2>4. CASE res' = [res EXCEPT ![p] = [pc |-> "commit", winner |-> onChain.winner, fromChain |-> TRUE]]
    <3>1. /\ res'[p] = [pc |-> "commit", winner |-> onChain.winner, fromChain |-> TRUE]
          /\ DOMAIN res' = Resolvers /\ \A q \in Resolvers \ {p} : res'[q] = res[q]
      BY <2>4 DEF DInv, Typed
    <3>2. ResRow(res'[p]) /\ ResolverKnows(p)' /\ res'[p].pc # "won"
      BY <2>1, <2>2, <3>1 DEF ResRow, ResolverKnows, Drawn, Resolved
    <3> QED
      BY <2>2, <2>3, <3>1, <3>2, ResolverMoves
  <2>5. CASE res' = [res EXCEPT ![p].pc = "commit"]
    <3>1. /\ res'[p].pc = "commit" /\ ~res'[p].fromChain /\ ResRow(res'[p])
          /\ DOMAIN res' = Resolvers /\ \A q \in Resolvers \ {p} : res'[q] = res[q]
      BY <1>0, <2>1, <2>5 DEF DInv, Typed, ResRow
    <3>2. ResolverKnows(p)' /\ res'[p].pc # "won"
      BY <2>1, <2>2, <3>1 DEF ResolverKnows, Drawn, Resolved
    <3> QED
      BY <2>2, <2>3, <3>1, <3>2, ResolverMoves
  <2> QED
    BY <1>3, <2>4, <2>5 DEF ReadChainWinner
<1> QED
  BY <1>1, <1>2, <1>3, CommitInv DEF Resolve

-----------------------------------------------------------------------------
(* Evaluators.                                                             *)

\* e moves; other evaluators do not. What it writes, it knows, and it keeps its slot or
\* releases it.
EvaluatorMoves(e) ==
  /\ DOMAIN ev' = Evaluators /\ EvRow(ev'[e])
  /\ \A f \in Evaluators \ {e} : ev'[f] = ev[f]
  /\ ev'[e].pc # "idle" => ev'[e].isolate \in Isolates
  /\ ev[e].pc # "idle" => ev'[e].isolate = ev[e].isolate
  /\ UNCHANGED <<expired, debateVars, res>>

KeepsSlot(e) ==
  \/ memory' = memory /\ (Evaluating(e) => Evaluating(e)')
  \/ memory' = [memory EXCEPT ![ev[e].isolate] = [active |-> FALSE, recent |-> TRUE]]
  \/ memory' = [memory EXCEPT ![ev[e].isolate].active = TRUE] /\ Evaluating(e)' /\ ev[e].pc # "idle"

Rewrites(e) ==
  \/ UNCHANGED <<status, resolution>>
  \/ /\ status' = "awaiting_governance" /\ resolution' = [resolution EXCEPT !.ai = TRUE]
  \/ /\ status' = "resolved" /\ ev[e].pc = "commit"
     /\ resolution' = [method |-> "ai_community", winner |-> ev[e].winner,
                       fromChain |-> ev[e].fromChain, ai |-> TRUE]

LEMMA EvaluatorInv ==
  ASSUME DInv, NEW e \in Evaluators, EvaluatorMoves(e), ChainGrows, ChainRow',
         EvaluatorKnows(e)', KeepsSlot(e), Rewrites(e), ev[e].pc # "idle" \/ memory' = memory
  PROVE  DInv'
<1>1. memory' \in [Isolates -> [active : BOOLEAN, recent : BOOLEAN]]
  <2>1. memory \in [Isolates -> [active : BOOLEAN, recent : BOOLEAN]]
    BY DEF DInv, Typed
  <2>2. CASE memory' = [memory EXCEPT ![ev[e].isolate] = [active |-> FALSE, recent |-> TRUE]]
    BY <2>1, <2>2
  <2>3. CASE memory' = [memory EXCEPT ![ev[e].isolate].active = TRUE]
    BY <2>1, <2>3
  <2> QED
    BY <2>1, <2>2, <2>3 DEF KeepsSlot
<1>2. resolution' = [method |-> resolution'.method, winner |-> resolution'.winner,
                     fromChain |-> resolution'.fromChain, ai |-> resolution'.ai]
  BY DEF DInv, Typed, Rewrites
<1>3. Typed'
  <2>1. "deployed" \in DOMAIN market' /\ ChainRow'
    BY DEF DInv, Typed, EvaluatorMoves
  <2>2. DOMAIN res' = Resolvers /\ \A p \in Resolvers : ResRow(res'[p])
    BY DEF DInv, Typed, EvaluatorMoves, ResRow
  <2>3. /\ DOMAIN ev' = Evaluators /\ \A f \in Evaluators : EvRow(ev'[f])
        /\ \A f \in Evaluators : ev'[f].pc # "idle" => ev'[f].isolate \in Isolates
    BY DEF DInv, Typed, EvaluatorMoves
  <2> QED
    BY <1>1, <1>2, <2>1, <2>2, <2>3 DEF Typed, ChainRow
<1>4. Winners'
  BY DEF DInv, Winners, EvaluatorMoves, Rewrites
<1>5. \A p \in Resolvers : ResolverKnows(p)'
  BY DEF DInv, ResolverKnows, Drawn, Resolved, ChainGrows, EvaluatorMoves
<1>6. \A f \in Evaluators : EvaluatorKnows(f)'
  BY DEF DInv, EvaluatorKnows, Drawn, Resolved, ChainGrows, EvaluatorMoves
<1>7. RowKnows'
  <2>1. CASE UNCHANGED <<status, resolution>>
    BY <2>1 DEF DInv, RowKnows, Drawn, Resolved, ChainGrows, EvaluatorMoves
  <2>2. CASE status' = "awaiting_governance" /\ resolution' = [resolution EXCEPT !.ai = TRUE]
    <3>1. resolution'.winner = resolution.winner /\ resolution'.fromChain = resolution.fromChain
      BY <2>2 DEF DInv, Typed
    <3> QED
      BY <2>2, <3>1 DEF DInv, RowKnows, Drawn, Resolved, ChainGrows
  <2>3. ASSUME status' = "resolved", ev[e].pc = "commit",
               resolution' = [method |-> "ai_community", winner |-> ev[e].winner,
                              fromChain |-> ev[e].fromChain, ai |-> TRUE]
        PROVE  RowKnows'
    <3>1. EvaluatorKnows(e)
      BY DEF DInv
    <3> QED
      BY <2>3, <3>1 DEF RowKnows, EvaluatorKnows, Drawn, Resolved, ChainGrows
  <2> QED
    BY <2>1, <2>2, <2>3 DEF Rewrites
<1>8. SlotHasEvaluation'
  <2> SUFFICES ASSUME NEW i \in Isolates, memory'[i].active
               PROVE  \E f \in Evaluators : ev'[f].isolate = i /\ Evaluating(f)'
    BY DEF SlotHasEvaluation
  <2>1. CASE memory[i].active
    <3>1. PICK f \in Evaluators : ev[f].isolate = i /\ Evaluating(f)
      BY <2>1 DEF DInv, SlotHasEvaluation
    <3>2. CASE f # e
      BY <3>1, <3>2 DEF EvaluatorMoves
    <3>3. CASE f = e
      <4>1. ev[e].pc # "idle" /\ ev'[e].isolate = i
        BY <3>1, <3>3 DEF EvaluatorMoves
      <4>2. Evaluating(e)'
        BY <3>1, <3>3 DEF KeepsSlot, DInv, Typed
      <4> QED
        BY <4>1, <4>2
    <3> QED
      BY <3>2, <3>3
  <2>2. CASE ~memory[i].active
    <3>1. i = ev[e].isolate /\ Evaluating(e)' /\ ev[e].pc # "idle"
      BY <2>2 DEF KeepsSlot, DInv, Typed
    <3> QED
      BY <3>1 DEF EvaluatorMoves
  <2> QED
    BY <2>1, <2>2
<1> QED
  BY <1>3, <1>4, <1>5, <1>6, <1>7, <1>8 DEF DInv

LEMMA RefuseInv ==
  ASSUME DInv, NEW e \in Evaluators,
         (\E i \in Isolates : CheckRateLimit(e, i)) \/ RefuseEvaluation(e)
  PROVE  DInv'
<1>0. EvRow(ev[e]) /\ EvaluatorKnows(e) /\ ChainRow /\ e \in DOMAIN ev
  BY DEF DInv, Typed, ChainRow
<1>1. PICK pc \in {"limited", "done"}, i \in Isolates :
        /\ ev' = [ev EXCEPT ![e] = [ev[e] EXCEPT !.pc = pc, !.isolate = i]]
        /\ ev[e].pc \in {"idle", "limited"}
        /\ ev[e].pc # "idle" => i = ev[e].isolate
        /\ UNCHANGED <<vars, resolution, onChain, res, memory>>
  <2>1. CASE RefuseEvaluation(e)
    BY <1>0, <2>1 DEF RefuseEvaluation, DInv, Typed, EvRow
  <2>2. ASSUME NEW i \in Isolates, CheckRateLimit(e, i)
        PROVE  ev' = [ev EXCEPT ![e] = [ev[e] EXCEPT !.pc = "limited", !.isolate = i]]
    BY <1>0, <2>2 DEF CheckRateLimit
  <2> QED
    BY <2>1, <2>2 DEF CheckRateLimit
<1>2. /\ ev'[e].pc = pc /\ ev'[e].isolate = i /\ ev'[e].winner = ev[e].winner
      /\ ev'[e].fromChain = ev[e].fromChain /\ EvRow(ev'[e])
      /\ DOMAIN ev' = Evaluators /\ \A f \in Evaluators \ {e} : ev'[f] = ev[f]
  BY <1>0, <1>1 DEF EvRow, DInv, Typed
<1>3. EvaluatorMoves(e)
  BY <1>1, <1>2 DEF EvaluatorMoves
<1>4. EvaluatorKnows(e)' /\ ChainGrows /\ ChainRow'
  BY <1>0, <1>1, <1>2 DEF EvaluatorKnows, Drawn, Resolved, ChainGrows, ChainRow
<1>5. KeepsSlot(e) /\ Rewrites(e)
  BY <1>1, <1>2 DEF KeepsSlot, Rewrites
<1> QED
  BY <1>1, <1>3, <1>4, <1>5, EvaluatorInv

LEMMA EvaluateInv ==
  ASSUME DInv, NEW e \in Evaluators, Evaluate(e)
  PROVE  DInv'
<1>0. EvRow(ev[e]) /\ EvaluatorKnows(e) /\ ChainRow /\ Typed /\ e \in DOMAIN ev
  BY DEF DInv, Typed, ChainRow
<1> DEFINE Moved(pc, read, winner, fromChain) ==
      /\ ev'[e] = [pc |-> pc, isolate |-> ev[e].isolate, read |-> read, winner |-> winner,
                   fromChain |-> fromChain]
      /\ DOMAIN ev' = Evaluators
      /\ \A f \in Evaluators \ {e} : ev'[f] = ev[f]
<1>1. ASSUME NEW pc, NEW read, NEW winner, NEW fromChain, Moved(pc, read, winner, fromChain),
             ev[e].pc # "idle", UNCHANGED <<expired, debateVars, res>>
      PROVE  EvaluatorMoves(e) /\ ev'[e].pc = pc /\ ev'[e].winner = winner /\ ev'[e].fromChain = fromChain
  BY <1>0, <1>1 DEF EvaluatorMoves, EvRow, DInv, Typed
<1>2. ASSUME NEW pc, EvaluatorGoto(e, pc)
      PROVE  Moved(pc, ev[e].read, ev[e].winner, ev[e].fromChain)
  BY <1>0, <1>2 DEF EvRow, DInv, Typed
<1>3. ASSUME ResolveByContract \/ UNCHANGED onChain
      PROVE  ChainGrows /\ ChainRow'
  BY <1>0, <1>3, ContractKeeps DEF ChainGrows, ChainRow
<1>4. ASSUME ChainGrows, NEW pc, NEW read, Moved(pc, read, ev[e].winner, ev[e].fromChain),
             pc = "read" => Resolved', pc = "commit" => FALSE,
             pc = "done" \/ ev[e].pc \notin {"commit", "done"}
      PROVE  EvaluatorKnows(e)'
  BY <1>0, <1>4 DEF EvaluatorKnows, Drawn, Resolved, ChainGrows
<1> HIDE DEF Moved
<1>5. CASE ReadForEvaluation(e)
  <2>1. Moved("panel", Verified, ev[e].winner, ev[e].fromChain)
    BY <1>0, <1>5 DEF ReadForEvaluation, Moved, EvRow, DInv, Typed
  <2>2. /\ ev[e].pc = "limited" /\ memory' = [memory EXCEPT ![ev[e].isolate].active = TRUE]
        /\ UNCHANGED <<vars, resolution, onChain, res>>
    BY <1>5 DEF ReadForEvaluation
  <2>3. EvaluatorMoves(e) /\ ev'[e].pc = "panel"
    BY <1>1, <2>1, <2>2
  <2>4. EvaluatorKnows(e)' /\ ChainGrows /\ ChainRow'
    BY <1>3, <1>4, <2>1, <2>2
  <2>5. KeepsSlot(e) /\ Rewrites(e)
    BY <2>2, <2>3 DEF KeepsSlot, Rewrites
  <2> QED
    BY <2>2, <2>3, <2>4, <2>5, EvaluatorInv
<1>6. CASE RunPanel(e) \/ EscalateToGovernance(e) \/ SubmitAndResolve(e)
  <2>1. PICK pc \in {"escalate", "submit", "govern", "read"} :
          EvaluatorGoto(e, pc) /\ (pc = "read" => ResolveByContract)
    BY <1>6 DEF RunPanel, EscalateToGovernance, SubmitAndResolve
  <2>2. Evaluating(e) /\ ev[e].pc # "commit" /\ UNCHANGED <<vars, resolution, res, memory>>
    BY <1>6 DEF RunPanel, EscalateToGovernance, SubmitAndResolve
  <2>3. ChainGrows /\ ChainRow'
    <3>1. CASE EscalateToGovernance(e)
      BY <1>0, <3>1 DEF EscalateToGovernance, ChainGrows, ChainRow, Resolved
    <3>2. CASE RunPanel(e) \/ SubmitAndResolve(e)
      BY <1>3, <3>2 DEF RunPanel, SubmitAndResolve
    <3> QED
      BY <1>6, <3>1, <3>2
  <2>4. Moved(pc, ev[e].read, ev[e].winner, ev[e].fromChain)
    BY <1>2, <2>1
  <2>5. EvaluatorMoves(e) /\ ev'[e].pc = pc
    BY <1>1, <2>2, <2>4
  <2>6. EvaluatorKnows(e)'
    BY <1>0, <1>4, <2>1, <2>2, <2>3, <2>4, ContractKeeps
  <2>7. KeepsSlot(e) /\ Rewrites(e)
    BY <2>1, <2>2, <2>5 DEF KeepsSlot, Rewrites
  <2> QED
    BY <2>2, <2>3, <2>5, <2>6, <2>7, EvaluatorInv
<1>7. CASE ReadChainResolution(e)
  <2>1. Resolved /\ ~ev[e].fromChain /\ ev[e].pc = "read" /\ UNCHANGED <<vars, resolution, onChain, res, memory>>
    BY <1>0, <1>7 DEF ReadChainResolution, EvaluatorKnows
  <2>2. PICK winner, fromChain :
          /\ Moved("commit", ev[e].read, winner, fromChain)
          /\ fromChain => winner = onChain.winner
    <3>1. CASE ev' = [ev EXCEPT ![e].pc = "commit", ![e].winner = onChain.winner, ![e].fromChain = TRUE]
      <4>1. Moved("commit", ev[e].read, onChain.winner, TRUE)
        BY <1>0, <3>1 DEF Moved, EvRow, DInv, Typed
      <4> QED
        BY <4>1
    <3>2. ASSUME NEW k, ev' = [ev EXCEPT ![e].pc = "commit", ![e].winner = k]
          PROVE  Moved("commit", ev[e].read, k, ev[e].fromChain)
      BY <1>0, <3>2 DEF Moved, EvRow, DInv, Typed
    <3> QED
      BY <1>7, <2>1, <3>1, <3>2 DEF ReadChainResolution
  <2>3. EvaluatorMoves(e) /\ ev'[e].pc = "commit" /\ ev'[e].winner = winner /\ ev'[e].fromChain = fromChain
    BY <1>1, <2>1, <2>2
  <2>4. EvaluatorKnows(e)' /\ ChainGrows /\ ChainRow'
    BY <1>0, <2>1, <2>2, <2>3 DEF EvaluatorKnows, Drawn, Resolved, ChainGrows, ChainRow
  <2>5. KeepsSlot(e) /\ Rewrites(e)
    BY <2>1, <2>3 DEF KeepsSlot, Rewrites
  <2> QED
    BY <2>1, <2>3, <2>4, <2>5, EvaluatorInv
<1>8. CASE RecordEscalation(e) \/ RecordResolution(e) \/ EvaluationFails(e)
  <2>1. /\ Evaluating(e) /\ EvaluatorGoto(e, "done") /\ UNCHANGED <<expired, debateVars, res>>
        /\ memory' = [memory EXCEPT ![ev[e].isolate] = [active |-> FALSE, recent |-> TRUE]]
    BY <1>8 DEF RecordEscalation, RecordResolution, EvaluationFails, Release
  <2>2. ResolveByContract \/ UNCHANGED onChain
    BY <1>8 DEF RecordEscalation, RecordResolution, EvaluationFails
  <2>3. Moved("done", ev[e].read, ev[e].winner, ev[e].fromChain)
    BY <1>2, <2>1
  <2>4. EvaluatorMoves(e) /\ ev'[e].pc = "done"
    BY <1>1, <2>1, <2>3
  <2>5. EvaluatorKnows(e)' /\ ChainGrows /\ ChainRow'
    BY <1>3, <1>4, <2>2, <2>3
  <2>6. KeepsSlot(e)
    BY <2>1 DEF KeepsSlot
  <2>7. Rewrites(e)
    BY <1>8 DEF Rewrites, RecordEscalation, RecordResolution, EvaluationFails
  <2> QED
    BY <2>1, <2>4, <2>5, <2>6, <2>7, EvaluatorInv
<1> QED
  BY <1>5, <1>6, <1>7, <1>8, RefuseInv DEF Evaluate

-----------------------------------------------------------------------------
(* Isolates.                                                               *)

LEMMA IsolateInv ==
  ASSUME DInv, NEW i \in Isolates, DebounceElapses(i) \/ IsolateLost(i)
  PROVE  DInv'
<1>0. UNCHANGED <<vars, resolution, onChain, res>>
  BY DEF DebounceElapses, IsolateLost
<1>1. /\ DOMAIN ev' = Evaluators /\ \A e \in Evaluators : EvRow(ev'[e])
      /\ \A e \in Evaluators : ev'[e].isolate = ev[e].isolate /\ ev'[e].winner = ev[e].winner
                               /\ ev'[e].fromChain = ev[e].fromChain
      /\ \A e \in Evaluators : ev'[e].pc = ev[e].pc \/ (ev[e].isolate = i /\ ev'[e].pc = "done")
  BY DEF DebounceElapses, IsolateLost, DInv, Typed, EvRow
<1>2. /\ memory' \in [Isolates -> [active : BOOLEAN, recent : BOOLEAN]]
      /\ \A j \in Isolates : memory'[j].active => memory[j].active
  <2>1. memory \in [Isolates -> [active : BOOLEAN, recent : BOOLEAN]]
    BY DEF DInv, Typed
  <2>2. CASE DebounceElapses(i)
    BY <2>1, <2>2 DEF DebounceElapses
  <2>3. CASE IsolateLost(i)
    BY <2>1, <2>3 DEF IsolateLost, Forgotten
  <2> QED
    BY <2>2, <2>3
<1>3. Typed'
  BY <1>0, <1>1, <1>2 DEF DInv, Typed, ResRow
<1>4. Winners' /\ RowKnows' /\ \A p \in Resolvers : ResolverKnows(p)'
  BY <1>0 DEF DInv, Winners, RowKnows, ResolverKnows, Drawn, Resolved
<1>5. \A e \in Evaluators : EvaluatorKnows(e)'
  BY <1>0, <1>1 DEF DInv, EvaluatorKnows, Drawn, Resolved
<1>6. SlotHasEvaluation'
  <2>1. CASE DebounceElapses(i)
    BY <1>2, <2>1 DEF DInv, SlotHasEvaluation, DebounceElapses
  <2>2. CASE IsolateLost(i)
    <3>1. ~memory'[i].active
      BY <2>2 DEF IsolateLost, Forgotten, DInv, Typed
    <3>2. \A e \in Evaluators : ev[e].isolate # i => ev'[e] = ev[e]
      BY <2>2 DEF IsolateLost
    <3> QED
      BY <1>2, <3>1, <3>2 DEF DInv, SlotHasEvaluation
  <2> QED
    BY <2>1, <2>2
<1> QED
  BY <1>3, <1>4, <1>5, <1>6 DEF DInv

LEMMA NextDInv == DInv /\ [DebateNext]_allVars => DInv'
<1> SUFFICES ASSUME DInv, [DebateNext]_allVars PROVE DInv'
  OBVIOUS
<1>1. CASE Next /\ UNCHANGED resolutionVars
  BY <1>1, ParticipationInv
<1>2. CASE UNCHANGED allVars
  BY <1>2, ParticipationInv DEF allVars
<1> QED
  BY <1>1, <1>2, ResolveInv, EvaluateInv, IsolateInv DEF DebateNext

\* The invariant that the properties of resolution rest on, whatever participation does
\* meanwhile.
THEOREM Safety == DebateSpec => []DInv
  BY InitDInv, NextDInv, PTL DEF DebateSpec

\* Of racing POSTs to resolve one at most is answered with success: who committed found
\* the debate active, and nothing makes it active again (resolve/+server.ts).
THEOREM OneResolverWins == DebateSpec => []OneResolver
<1>1. DInv => OneResolver
  <2> SUFFICES ASSUME DInv PROVE OneResolver
    OBVIOUS
  <2> DEFINE W == {p \in Resolvers : res[p].pc = "won"}
  <2>1. CASE W = {}
    BY <2>1, FS_EmptySet DEF OneResolver
  <2>2. ASSUME NEW p \in W PROVE Cardinality(W) = 1
    <3>1. W = {p}
      BY <2>2 DEF DInv, Winners
    <3> QED
      BY <3>1, FS_Singleton
  <2> QED
    BY <2>1, <2>2 DEF OneResolver
<1> QED
  BY <1>1, Safety, PTL

\* What the row says of the contract is so: it is called resolved, and its winner read
\* from the chain, by nobody who does not know it of the contract, which resolves once.
THEOREM RowMirrorsChain == DebateSpec => []MirrorsChain
<1>1. DInv => MirrorsChain
  BY DEF DInv, Typed, RowKnows, Drawn, Resolved, MirrorsChain
<1> QED
  BY <1>1, Safety, PTL

\* A slot that is taken has an evaluation in progress, whatever fails and whichever
\* isolate goes (the finally block of evaluate/+server.ts).
THEOREM SlotIsReleased == DebateSpec => []SlotHasEvaluation
<1>1. DInv => SlotHasEvaluation
  BY DEF DInv
<1> QED
  BY <1>1, Safety, PTL

\* A debate that is decided, with no evaluation left that began before, is decided for
\* good: whoever comes later finds it inactive.
THEOREM OutcomeIsFinal == DebateSpec => SettledIsFinal
<1>1. DInv /\ [DebateNext]_allVars => [Settled => Settled' /\ UNCHANGED <<status, resolution>>]_allVars
  <2> SUFFICES ASSUME DInv, DebateNext, Settled
               PROVE  Settled' /\ UNCHANGED <<status, resolution>>
    BY DEF Settled, allVars
  <2>1. CASE Next /\ UNCHANGED resolutionVars
    BY <2>1, ParticipationQuiet DEF Settled, DInv, Typed
  <2>2. ASSUME NEW p \in Resolvers, Resolve(p)
        PROVE  UNCHANGED <<status, resolution, ev>>
    BY <2>2 DEF Settled, Resolve, ReadForResolution, ResolveOnChain, ResolveOnChainFails,
                ReadChainWinner, CommitCommunity, ResolverLoses
  <2>3. ASSUME NEW e \in Evaluators, Evaluate(e)
        PROVE  Settled' /\ UNCHANGED <<status, resolution>>
    <3>1. PICK pc \in {"limited", "done"} :
            /\ UNCHANGED <<status, resolution>>
            /\ \E i : ev' = [ev EXCEPT ![e].pc = pc, ![e].isolate = i] \/ ev' = [ev EXCEPT ![e].pc = pc]
      BY <2>3 DEF Settled, Evaluate, CheckRateLimit, ReadForEvaluation, RefuseEvaluation, RunPanel,
                  EscalateToGovernance, RecordEscalation, SubmitAndResolve, ReadChainResolution,
                  RecordResolution, EvaluationFails
    <3>2. \A f \in Evaluators : ev'[f].pc = ev[f].pc \/ ev'[f].pc = pc
      BY <3>1 DEF DInv, Typed, EvRow
    <3> QED
      BY <3>1, <3>2 DEF Settled
  <2>4. ASSUME NEW i \in Isolates, DebounceElapses(i) \/ IsolateLost(i)
        PROVE  UNCHANGED <<status, resolution>> /\ \A e \in Evaluators : Evaluating(e)' => Evaluating(e)
    BY <2>4 DEF DebounceElapses, IsolateLost, DInv, Typed, EvRow
  <2> QED
    BY <2>1, <2>2, <2>3, <2>4 DEF Settled, DebateNext
<1> QED
  BY <1>1, Safety, PTL DEF DebateSpec, SettledIsFinal

-----------------------------------------------------------------------------
(* The community's winner. What a resolver read as verified stays so,      *)
(* because a check only ever rejects what is pending.                      *)

LEMMA VerifiedGrows ==
  ASSUME Inv, CountInv, Next \/ UNCHANGED debateVars
  PROVE  Verified \subseteq Verified'
<1> SUFFICES ASSUME NEW k \in DOMAIN argument
             PROVE  /\ k \in DOMAIN argument'
                    /\ argument[k].status = "verified" => argument'[k].status = "verified"
  BY DEF Verified
<1>0. argument[k] \in ArgumentType /\ DOMAIN argument = 0..(totals.arguments - 1)
  BY DEF Inv, Types
<1>1. ASSUME NEW r \in Requests, InsertArgument(r)
      PROVE  k \in DOMAIN argument' /\ argument'[k] = argument[k]
  BY <1>1 DEF InsertArgument
<1>2. ASSUME NEW r \in Requests, NEW x, NEW a, argument' = [argument EXCEPT ![x] = a],
             k = x => a.status = argument[k].status
      PROVE  k \in DOMAIN argument' /\ argument'[k].status = argument[k].status
  BY <1>2
<1>3. ASSUME NEW r \in Requests, InsertCosign(r)
      PROVE  k \in DOMAIN argument' /\ argument'[k].status = argument[k].status
  <2> DEFINE x == req[r].index
             a == Recount(argument[x], Weight[Who(r)], Stake[Who(r)], 1)
  <2>1. argument' = [argument EXCEPT ![x] = a]
    BY <1>3 DEF InsertCosign
  <2>2. Weight[Who(r)] \in Int /\ Stake[Who(r)] \in Int
    BY <1>3, InsertKnows, ParticipationAssumption DEF Who
  <2>3. k = x => a.status = argument[k].status
    BY <1>0, <2>2, Recounted
  <2> HIDE DEF x, a
  <2> QED BY <2>1, <2>3
<1>4. ASSUME NEW r \in Requests, MarkVerified(r)
      PROVE  /\ k \in DOMAIN argument'
             /\ argument[k].status = "verified" => argument'[k].status = "verified"
  BY <1>0, <1>4 DEF MarkVerified, ArgumentType
<1>5. ASSUME NEW r \in Requests, MarkRejected(r)
      PROVE  /\ k \in DOMAIN argument'
             /\ argument[k].status = "verified" => argument'[k].status = "verified"
  <2> DEFINE x == req[r].index
             who == req[r].who
  <2>1. /\ req[r].pc = "verify" /\ who \in Identities /\ nullifier[who].status = "pending"
        /\ req[r].kind \in {"argument", "cosign"}
        /\ req[r].kind = "argument" => x \in 0..(totals.arguments - 1) /\ argument[x].author = who
    BY <1>5 DEF MarkRejected, At, Inv, RequestInv, Known, OwnRow, Types, RequestType, CountInv, Waiting
  <2>2. CASE req[r].kind = "argument"
    <3>1. argument[x].status = "pending"
      BY <2>1, <2>2, AuthorIsNoNewcomer DEF Inv
    <3>2. argument' = [argument EXCEPT ![x] = [argument[x] EXCEPT !.status = "rejected"]]
      BY <1>5, <2>2 DEF MarkRejected
    <3> QED BY <3>1, <3>2
  <2>3. CASE req[r].kind = "cosign"
    <3> DEFINE a == Recount(argument[x], -Weight[who], -Weight[who], -1)
    <3>1. argument' = [argument EXCEPT ![x] = a]
      BY <1>5, <2>3 DEF MarkRejected, Who
    <3>2. -Weight[who] \in Int
      BY <2>1, ParticipationAssumption
    <3>3. k = x => a.status = argument[k].status
      BY <1>0, <3>2, Recounted
    <3> HIDE DEF x, a
    <3> QED BY <3>1, <3>3
  <2> QED BY <2>1, <2>2, <2>3
<1>6. ASSUME NEW r \in Requests, Participate(r),
             ~(InsertArgument(r) \/ InsertCosign(r) \/ MarkVerified(r) \/ MarkRejected(r))
      PROVE  argument' = argument
  BY <1>6 DEF Participate, Receive, CheckNullifier, FindArgument, Relay, RecordOffChain, RelayFails, InsertFails,
              WalletMined, GiveUp
<1> QED
  BY <1>1, <1>3, <1>4, <1>5, <1>6 DEF Next, DeadlinePasses, debateVars

ResType == [pc : {"idle", "chain", "read", "commit", "won", "done"}, winner : Nat, fromChain : BOOLEAN]
EvType ==
  [pc : {"idle", "limited", "panel", "escalate", "govern", "submit", "read", "commit", "done"},
   isolate : Isolates \cup {None}, read : SUBSET Nat, winner : Nat, fromChain : BOOLEAN]
RowType == [method : {"none", "community_only", "ai_community"}, winner : Nat,
            fromChain : BOOLEAN, ai : BOOLEAN]
ChainType == [status : {"active", "resolved", "governance"}, winner : Nat]
MemoryType == [active : BOOLEAN, recent : BOOLEAN]

ResolutionTypes ==
  /\ status \in {"active", "resolved", "awaiting_governance"} /\ expired \in BOOLEAN
  /\ resolution \in RowType
  /\ onChain \in ChainType
  /\ res \in [Resolvers -> ResType]
  /\ ev \in [Evaluators -> EvType]
  /\ memory \in [Isolates -> MemoryType]

ReadVerified(p) ==
  res[p].pc \in {"chain", "read", "commit"} /\ ~res[p].fromChain => res[p].winner \in Verified

CommunityInv ==
  /\ ResolutionTypes
  /\ \A p \in Resolvers : ReadVerified(p)
  /\ WinnerIsVerified

LEMMA InitCommunity == DebateInit => CommunityInv
<1> SUFFICES ASSUME DebateInit PROVE CommunityInv
  OBVIOUS
<1>1. ResolutionTypes
  BY DEF DebateInit, Init, ResolutionTypes, RowType, ChainType, ResType, EvType, MemoryType,
         NoEvaluation, Forgotten
<1>2. (\A p \in Resolvers : ReadVerified(p)) /\ WinnerIsVerified
  BY DEF DebateInit, ReadVerified, WinnerIsVerified
<1> QED BY <1>1, <1>2 DEF CommunityInv

\* Participation leaves the resolution alone, and what is verified verified.
LEMMA ParticipationCommunity ==
  ASSUME Inv, CountInv, CommunityInv, Next \/ UNCHANGED vars, UNCHANGED resolutionVars
  PROVE  CommunityInv'
<1>1. Verified \subseteq Verified'
  BY VerifiedGrows
<1>2. status' = status
  BY ParticipationQuiet DEF Inv, Types, MarketType
<1>3. expired' \in BOOLEAN
  <2>1. ASSUME NEW r \in Requests, Participate(r) PROVE expired' = expired
    BY <2>1 DEF Participate, Receive, CheckNullifier, FindArgument, Relay, RecordOffChain, RelayFails,
         InsertArgument, InsertCosign, InsertFails, WalletMined, MarkVerified, MarkRejected, GiveUp
  <2> QED BY <2>1 DEF Next, DeadlinePasses, CommunityInv, ResolutionTypes
<1>4. ResolutionTypes'
  BY <1>2, <1>3 DEF CommunityInv, ResolutionTypes
<1>5. (\A p \in Resolvers : ReadVerified(p)') /\ WinnerIsVerified'
  BY <1>1 DEF CommunityInv, ReadVerified, WinnerIsVerified
<1> QED BY <1>4, <1>5 DEF CommunityInv

LEMMA ContractTypes ==
  ASSUME Inv, ResolutionTypes, ResolveByContract \/ UNCHANGED onChain
  PROVE  onChain' \in ChainType
<1>1. CASE UNCHANGED onChain
  BY <1>1 DEF ResolutionTypes
<1>2. CASE ResolveByContract
  <2>1. Len(market.arguments) \in Nat
    BY DEF Inv, Types
  <2>2. PICK k \in 1..Len(market.arguments) : onChain' = [status |-> "resolved", winner |-> k - 1]
    BY <1>2 DEF ResolveByContract
  <2>3. k - 1 \in Nat
    BY <2>1
  <2> QED BY <2>2, <2>3 DEF ChainType
<1> QED BY <1>1, <1>2

\* A resolver that starts reads a verified leader; the others keep theirs.
LEMMA ResolveCommunity ==
  ASSUME Inv, CommunityInv, NEW p \in Resolvers, Resolve(p)
  PROVE  CommunityInv'
<1>0. /\ ResolutionTypes /\ res[p] \in ResType /\ onChain \in ChainType
      /\ ReadVerified(p) /\ WinnerIsVerified
  BY DEF CommunityInv, ResolutionTypes
<1>1. Verified' = Verified /\ UNCHANGED <<expired, debateVars, ev, memory>>
  BY DEF Resolve, ReadForResolution, ResolveOnChain, ResolveOnChainFails, ReadChainWinner,
         CommitCommunity, ResolverLoses, Verified
<1>2. onChain' \in ChainType
  BY <1>0, ContractTypes
     DEF Resolve, ReadForResolution, ResolveOnChain, ResolveOnChainFails, ReadChainWinner,
         CommitCommunity, ResolverLoses
<1>3. PICK row \in ResType :
        /\ res' = [res EXCEPT ![p] = row]
        /\ row.pc \in {"chain", "read", "commit"} /\ ~row.fromChain => row.winner \in Verified
  <2>1. CASE ReadForResolution(p)
    <3>1. PICK k \in Leaders : res' = [res EXCEPT ![p] = [pc |-> "chain", winner |-> k, fromChain |-> FALSE]]
      BY <2>1 DEF ReadForResolution
    <3>2. k \in Verified /\ k \in Nat
      BY DEF Leaders, Verified, Inv, Types
    <3> DEFINE row == [pc |-> "chain", winner |-> k, fromChain |-> FALSE]
    <3>3. row \in ResType /\ row.winner = k
      BY <3>2 DEF ResType
    <3> QED BY <3>1, <3>2, <3>3
  <2>2. ASSUME NEW pc \in {"read", "commit", "won", "done"}, res' = [res EXCEPT ![p].pc = pc],
               pc \in {"read", "commit"} => res[p].pc \in {"chain", "read"}
        PROVE  \E row \in ResType :
                 /\ res' = [res EXCEPT ![p] = row]
                 /\ row.pc \in {"chain", "read", "commit"} /\ ~row.fromChain => row.winner \in Verified
    <3> DEFINE row == [res[p] EXCEPT !.pc = pc]
    <3>1. res' = [res EXCEPT ![p] = row]
      BY <2>2
    <3>2. /\ row \in ResType /\ row.pc = pc /\ row.winner = res[p].winner
          /\ row.fromChain = res[p].fromChain
      BY <1>0 DEF ResType
    <3>3. row.pc \in {"chain", "read", "commit"} /\ ~row.fromChain => row.winner \in Verified
      <4> HIDE DEF row
      <4> QED BY <1>0, <2>2, <3>2 DEF ReadVerified
    <3> HIDE DEF row
    <3> QED BY <3>1, <3>2, <3>3
  <2>3. CASE res' = [res EXCEPT ![p] = [pc |-> "commit", winner |-> onChain.winner, fromChain |-> TRUE]]
    <3> DEFINE row == [pc |-> "commit", winner |-> onChain.winner, fromChain |-> TRUE]
    <3>1. row \in ResType /\ row.fromChain
      BY <1>0 DEF ResType, ChainType
    <3> QED BY <2>3, <3>1
  <2>4. CASE ResolveOnChain(p)
    <3>1. PICK pc \in {"read", "commit"} : res' = [res EXCEPT ![p].pc = pc] /\ res[p].pc = "chain"
      BY <2>4 DEF ResolveOnChain
    <3> QED BY <2>2, <3>1
  <2>5. CASE ReadChainWinner(p)
    BY <2>2, <2>3, <2>5 DEF ReadChainWinner
  <2>6. CASE ResolveOnChainFails(p) \/ ResolverLoses(p)
    BY <2>2, <2>6 DEF ResolveOnChainFails, ResolverLoses
  <2>7. CASE CommitCommunity(p)
    BY <2>2, <2>7 DEF CommitCommunity
  <2> QED BY <2>1, <2>4, <2>5, <2>6, <2>7 DEF Resolve
<1>4. /\ status' \in {"active", "resolved", "awaiting_governance"} /\ resolution' \in RowType
      /\ WinnerIsVerified'
  <2>1. CASE CommitCommunity(p)
    <3>1. /\ status' = "resolved" /\ res[p].pc = "commit"
          /\ resolution' = [resolution EXCEPT !.method = "community_only", !.winner = res[p].winner,
                                              !.fromChain = res[p].fromChain]
      BY <2>1 DEF CommitCommunity
    <3>2. res[p].winner \in Nat /\ res[p].fromChain \in BOOLEAN /\ resolution \in RowType
      BY <1>0 DEF ResType, ResolutionTypes
    <3>3. resolution' = [method |-> "community_only", winner |-> res[p].winner,
                         fromChain |-> res[p].fromChain, ai |-> resolution.ai]
      BY <3>1, <3>2 DEF RowType
    <3>4. resolution' \in RowType
      BY <3>2, <3>3 DEF RowType
    <3> QED BY <1>0, <1>1, <3>1, <3>3, <3>4 DEF ReadVerified, WinnerIsVerified
  <2>2. CASE ~CommitCommunity(p)
    <3>1. UNCHANGED <<status, resolution>>
      BY <2>2 DEF Resolve, ReadForResolution, ResolveOnChain, ResolveOnChainFails, ReadChainWinner,
                  ResolverLoses
    <3> QED BY <1>0, <1>1, <3>1 DEF ResolutionTypes, WinnerIsVerified
  <2> QED BY <2>1, <2>2
<1>5. ResolutionTypes'
  BY <1>0, <1>1, <1>2, <1>3, <1>4 DEF ResolutionTypes
<1>6. ASSUME NEW q \in Resolvers PROVE ReadVerified(q)'
  <2>1. CASE q = p
    BY <1>0, <1>1, <1>3, <2>1 DEF ReadVerified, ResolutionTypes
  <2>2. CASE q # p
    BY <1>0, <1>1, <1>3, <2>2 DEF CommunityInv, ReadVerified, ResolutionTypes
  <2> QED BY <2>1, <2>2
<1> QED BY <1>4, <1>5, <1>6 DEF CommunityInv

\* An evaluation resolves in its own name, or leaves the method as it is.
LEMMA EvaluateCommunity ==
  ASSUME Inv, CommunityInv, NEW e \in Evaluators, Evaluate(e)
  PROVE  CommunityInv'
<1>0. /\ ResolutionTypes /\ ev[e] \in EvType /\ onChain \in ChainType /\ WinnerIsVerified
      /\ Verified \subseteq Nat
  BY DEF CommunityInv, ResolutionTypes, Verified, Inv, Types
<1>1. Verified' = Verified /\ UNCHANGED <<expired, debateVars, res>>
  BY DEF Evaluate, CheckRateLimit, ReadForEvaluation, RefuseEvaluation, RunPanel,
         EscalateToGovernance, RecordEscalation, SubmitAndResolve, ReadChainResolution,
         RecordResolution, EvaluationFails, Verified
<1>2. onChain' \in ChainType
  <2>1. CASE EscalateToGovernance(e)
    BY <1>0, <2>1 DEF EscalateToGovernance, ChainType
  <2>2. CASE ~EscalateToGovernance(e)
    <3>1. ResolveByContract \/ UNCHANGED onChain
      BY <2>2 DEF Evaluate, CheckRateLimit, ReadForEvaluation, RefuseEvaluation, RunPanel,
           RecordEscalation, SubmitAndResolve, ReadChainResolution, RecordResolution, EvaluationFails
    <3> QED BY <1>0, <3>1, ContractTypes
  <2> QED BY <2>1, <2>2
<1>3. ev' \in [Evaluators -> EvType]
  <2>0. ev \in [Evaluators -> EvType]
    BY <1>0 DEF ResolutionTypes
  <2>1. ASSUME NEW pc \in {"limited", "panel", "escalate", "govern", "submit", "read", "commit", "done"},
               ev' = [ev EXCEPT ![e].pc = pc]
        PROVE  ev' \in [Evaluators -> EvType]
    BY <2>0, <2>1 DEF EvType
  <2>9. ASSUME NEW row \in EvType, ev' = [ev EXCEPT ![e] = row]
        PROVE  ev' \in [Evaluators -> EvType]
    BY <2>0, <2>9
  <2>2. ASSUME NEW i \in Isolates, CheckRateLimit(e, i)
        PROVE  ev' \in [Evaluators -> EvType]
    <3> DEFINE row == [ev[e] EXCEPT !.pc = "limited", !.isolate = i]
    <3>1. ev' = [ev EXCEPT ![e] = row]
      BY <2>0, <2>2 DEF CheckRateLimit
    <3>2. row \in EvType
      BY <1>0 DEF EvType
    <3> HIDE DEF row
    <3> QED BY <2>9, <3>1, <3>2
  <2>3. CASE ReadForEvaluation(e)
    <3> DEFINE row == [ev[e] EXCEPT !.pc = "panel", !.read = Verified]
    <3>1. ev' = [ev EXCEPT ![e] = row]
      BY <2>0, <2>3 DEF ReadForEvaluation
    <3>2. row \in EvType
      BY <1>0 DEF EvType
    <3> HIDE DEF row
    <3> QED BY <2>9, <3>1, <3>2
  <2>4. CASE ReadChainResolution(e)
    <3>1. CASE ev' = [ev EXCEPT ![e].pc = "commit", ![e].winner = onChain.winner, ![e].fromChain = TRUE]
      <4> DEFINE row == [ev[e] EXCEPT !.pc = "commit", !.winner = onChain.winner, !.fromChain = TRUE]
      <4>1. ev' = [ev EXCEPT ![e] = row]
        BY <2>0, <3>1
      <4>2. row \in EvType
        BY <1>0 DEF EvType, ChainType
      <4> HIDE DEF row
      <4> QED BY <2>9, <4>1, <4>2
    <3>2. ASSUME NEW k \in ev[e].read \cup {0}, ev' = [ev EXCEPT ![e].pc = "commit", ![e].winner = k]
          PROVE  ev' \in [Evaluators -> EvType]
      <4> DEFINE row == [ev[e] EXCEPT !.pc = "commit", !.winner = k]
      <4>1. ev' = [ev EXCEPT ![e] = row]
        BY <2>0, <3>2
      <4>2. row \in EvType
        <5>1. k \in Nat
          BY <1>0 DEF EvType
        <5> QED BY <1>0, <5>1 DEF EvType
      <4> HIDE DEF row
      <4> QED BY <2>9, <4>1, <4>2
    <3> QED BY <2>4, <3>1, <3>2 DEF ReadChainResolution
  <2>5. CASE RefuseEvaluation(e) \/ RunPanel(e) \/ EscalateToGovernance(e) \/ RecordEscalation(e)
             \/ SubmitAndResolve(e) \/ RecordResolution(e) \/ EvaluationFails(e)
    BY <2>1, <2>5 DEF RefuseEvaluation, RunPanel, EscalateToGovernance, RecordEscalation,
         SubmitAndResolve, RecordResolution, EvaluationFails, Release
  <2> QED BY <2>2, <2>3, <2>4, <2>5 DEF Evaluate
<1>4. memory' \in [Isolates -> MemoryType]
  <2>0. memory \in [Isolates -> MemoryType]
    BY <1>0 DEF ResolutionTypes
  <2>1. CASE memory' = memory
    BY <2>0, <2>1
  <2>2. CASE memory' = [memory EXCEPT ![ev[e].isolate].active = TRUE]
    BY <2>0, <2>2 DEF MemoryType
  <2>3. CASE memory' = [memory EXCEPT ![ev[e].isolate] = [active |-> FALSE, recent |-> TRUE]]
    BY <2>0, <2>3 DEF MemoryType
  <2> QED
    BY <2>1, <2>2, <2>3
       DEF Evaluate, CheckRateLimit, ReadForEvaluation, RefuseEvaluation, RunPanel,
           EscalateToGovernance, RecordEscalation, SubmitAndResolve, ReadChainResolution,
           RecordResolution, EvaluationFails, Release
<1>5. /\ status' \in {"active", "resolved", "awaiting_governance"} /\ resolution' \in RowType
      /\ WinnerIsVerified'
  <2>0. status \in {"active", "resolved", "awaiting_governance"} /\ resolution \in RowType
    BY <1>0 DEF ResolutionTypes
  <2>1. CASE RecordEscalation(e)
    <3>1. status' = "awaiting_governance" /\ resolution' = [resolution EXCEPT !.ai = TRUE]
      BY <2>1 DEF RecordEscalation
    <3>2. /\ resolution' \in RowType /\ resolution'.method = resolution.method
          /\ resolution'.winner = resolution.winner /\ resolution'.fromChain = resolution.fromChain
      BY <2>0, <3>1 DEF RowType
    <3> QED BY <1>0, <1>1, <3>1, <3>2 DEF WinnerIsVerified
  <2>2. CASE RecordResolution(e)
    <3>1. ev[e].winner \in Nat /\ ev[e].fromChain \in BOOLEAN
      BY <1>0 DEF EvType
    <3> QED BY <2>2, <3>1 DEF RecordResolution, RowType, WinnerIsVerified
  <2>3. CASE ~RecordEscalation(e) /\ ~RecordResolution(e)
    <3>1. UNCHANGED <<status, resolution>>
      BY <2>3 DEF Evaluate, CheckRateLimit, ReadForEvaluation, RefuseEvaluation, RunPanel,
           EscalateToGovernance, SubmitAndResolve, ReadChainResolution, EvaluationFails
    <3> QED BY <1>0, <1>1, <2>0, <3>1 DEF WinnerIsVerified
  <2> QED BY <2>1, <2>2, <2>3
<1>6. ResolutionTypes'
  BY <1>0, <1>1, <1>2, <1>3, <1>4, <1>5 DEF ResolutionTypes
<1>7. \A p \in Resolvers : ReadVerified(p)'
  BY <1>1 DEF CommunityInv, ReadVerified
<1> QED BY <1>5, <1>6, <1>7 DEF CommunityInv

\* What an isolate forgets, or loses, is neither a winner nor an argument.
LEMMA IsolateCommunity ==
  ASSUME CommunityInv, NEW i \in Isolates, DebounceElapses(i) \/ IsolateLost(i)
  PROVE  CommunityInv'
<1>0. ResolutionTypes /\ ev \in [Evaluators -> EvType] /\ memory \in [Isolates -> MemoryType]
  BY DEF CommunityInv, ResolutionTypes
<1>1. UNCHANGED <<vars, resolution, onChain, res>> /\ Verified' = Verified
  BY DEF DebounceElapses, IsolateLost, Verified
<1>2. ev' \in [Evaluators -> EvType]
  <2>1. \A e \in Evaluators : [ev[e] EXCEPT !.pc = "done"] \in EvType
    BY <1>0 DEF EvType
  <2> QED BY <1>0, <2>1 DEF DebounceElapses, IsolateLost
<1>3. memory' \in [Isolates -> MemoryType]
  <2>1. CASE DebounceElapses(i)
    BY <1>0, <2>1 DEF DebounceElapses, MemoryType
  <2>2. CASE IsolateLost(i)
    BY <1>0, <2>2 DEF IsolateLost, MemoryType, Forgotten
  <2> QED BY <2>1, <2>2
<1>4. ResolutionTypes'
  BY <1>0, <1>1, <1>2, <1>3 DEF ResolutionTypes
<1> QED BY <1>1, <1>4 DEF CommunityInv, ReadVerified, WinnerIsVerified

LEMMA NextCommunity ==
  (Inv /\ CountInv /\ CommunityInv) /\ [DebateNext]_allVars => (Inv /\ CountInv /\ CommunityInv)'
<1> SUFFICES ASSUME Inv, CountInv, CommunityInv, [DebateNext]_allVars
             PROVE  Inv' /\ CountInv' /\ CommunityInv'
  OBVIOUS
<1>1. CASE (Next \/ UNCHANGED vars) /\ UNCHANGED resolutionVars
  BY <1>1, NextInv, NextCounts, ParticipationCommunity
<1>2. ASSUME NEW p \in Resolvers, Resolve(p)
      PROVE  Inv' /\ CountInv' /\ CommunityInv'
  <2>1. UNCHANGED debateVars
    BY <1>2 DEF Resolve, ReadForResolution, ResolveOnChain, ResolveOnChainFails, ReadChainWinner,
                CommitCommunity, ResolverLoses
  <2> QED BY <1>2, <2>1, NextInv, NextCounts, ResolveCommunity
<1>3. ASSUME NEW e \in Evaluators, Evaluate(e)
      PROVE  Inv' /\ CountInv' /\ CommunityInv'
  <2>1. UNCHANGED debateVars
    BY <1>3 DEF Evaluate, CheckRateLimit, ReadForEvaluation, RefuseEvaluation, RunPanel,
         EscalateToGovernance, RecordEscalation, SubmitAndResolve, ReadChainResolution,
         RecordResolution, EvaluationFails
  <2> QED BY <1>3, <2>1, NextInv, NextCounts, EvaluateCommunity
<1>4. ASSUME NEW i \in Isolates, DebounceElapses(i) \/ IsolateLost(i)
      PROVE  Inv' /\ CountInv' /\ CommunityInv'
  <2>1. UNCHANGED debateVars
    BY <1>4 DEF DebounceElapses, IsolateLost
  <2> QED BY <1>4, <2>1, NextInv, NextCounts, IsolateCommunity
<1>5. CASE UNCHANGED allVars
  BY <1>1, <1>5 DEF allVars
<1> QED BY <1>1, <1>2, <1>3, <1>4, <1>5 DEF DebateNext

LEMMA CommunitySafety == DebateSpec => [](Inv /\ CountInv /\ CommunityInv)
<1>1. DebateInit => Inv /\ CountInv /\ CommunityInv
  BY InitInv, InitCounts, InitCommunity DEF DebateInit
<1> QED BY <1>1, NextCommunity, PTL DEF DebateSpec

\* A community winner that is not the contract's is a verified argument, although
\* background checks go on between the resolver's read and its commit: they reject
\* only what is pending (resolve/+server.ts, tx-verifier.ts).
THEOREM CommunityWinnerIsVerified == DebateSpec => []WinnerIsVerified
<1>1. CommunityInv => WinnerIsVerified
  BY DEF CommunityInv
<1> QED BY <1>1, CommunitySafety, PTL

\* The types of participation: a score and a count of co-signers are never negative,
\* whatever is taken back.
LEMMA TypesHold ==
  ASSUME Inv, CountInv, ResolutionTypes
  PROVE  TypeOK
<1>1. ASSUME NEW k \in DOMAIN argument
      PROVE  argument[k] \in [author : Identities, status : RowStatus, score : Nat, stake : Int, cosigns : Nat]
  <2>1. k \in 0..(totals.arguments - 1) /\ argument[k] \in ArgumentType
    BY DEF Inv, Types
  <2>2. ScoreOK(k) /\ Counts
    BY <2>1 DEF CountInv, Counts
  <2>3. IsFiniteSet(Counted(k)) /\ Counted(k) \in SUBSET Identities
    BY <2>2, CosignersFinite
  <2>4. Weight \in [Identities -> Nat] /\ Weight[argument[k].author] \in Nat
    BY <2>1, ParticipationAssumption DEF ArgumentType
  <2>5. Sum(Weight, Counted(k)) \in Nat /\ Cardinality(Counted(k)) \in Nat
    BY <2>3, <2>4, SumType, FS_CardinalityType
  <2>6. argument[k].score \in Nat /\ argument[k].cosigns \in Nat
    BY <2>2, <2>4, <2>5 DEF ScoreOK
  <2> QED BY <2>1, <2>6 DEF ArgumentType
<1>2. DOMAIN argument \subseteq Nat
  BY DEF Inv, Types
<1> QED BY <1>1, <1>2 DEF Inv, Types, ResolutionTypes, TypeOK, RequestType, NullifierType, MarketType, Pcs

\* Everything stays within its type; a debate is never recorded as resolved by anybody
\* but the community or the models.
THEOREM ResolutionIsTyped == DebateSpec => []ResolutionTypeOK
<1>1. Inv /\ CountInv /\ CommunityInv => ResolutionTypeOK
  <2> SUFFICES ASSUME Inv, CountInv, CommunityInv PROVE ResolutionTypeOK
    OBVIOUS
  <2>1. TypeOK
    BY TypesHold DEF CommunityInv
  <2> QED BY <2>1 DEF CommunityInv, ResolutionTypes, ResolutionTypeOK, RowType, ChainType, ResType,
                      EvType, MemoryType
<1> QED BY <1>1, CommunitySafety, PTL

=============================================================================
