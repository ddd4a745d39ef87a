------------------------ MODULE CircuitBreakerProofs ------------------------
(***************************************************************************)
(* The safety properties of the circuit breaker for every number of        *)
(* callers, every threshold, window and cooldown. That `failures' is no    *)
(* longer after it was filtered follows from the recursion of the filter,  *)
(* by the shortest prefix that would refute it.                            *)
(***************************************************************************)
EXTENDS CircuitBreaker, TLAPS, WellFoundedInduction

\* What the breaker's flags and times are, whatever is in `failures'.
FlagTypeOK ==
  /\ state \in {"closed", "open", "half_open"}
  /\ openedAge \in Nat \cup {None}
  /\ probing \in BOOLEAN
  /\ pc \in [Processes -> {"idle", "batch", "calling", "testing"}]

\* Outside half_open the slot is free, and open means the cooldown is running.
FlagInv ==
  /\ FlagTypeOK
  /\ state = "closed" => ~probing
  /\ OpenCanExpire

\* An age only grows, and never becomes None.
LEMMA OlderIsNat == \A age \in Nat : Older(age) \in Nat
  BY DEF Older

\* Every step keeps the flags consistent.
LEMMA FlagStep == FlagInv /\ [Next]_vars => FlagInv'
<1> SUFFICES ASSUME FlagInv, [Next]_vars
             PROVE  FlagInv'
  OBVIOUS
<1> USE DEF FlagInv, FlagTypeOK, OpenCanExpire
<1>1. CASE Tick
  BY <1>1, OlderIsNat, BreakerAssumption DEF Tick
<1>2. ASSUME NEW p \in Processes, Call(p)
      PROVE  FlagInv'
  BY <1>2 DEF Call, PassCircuit, IsCircuitOpen
<1>3. ASSUME NEW p \in Processes, Succeed(p)
      PROVE  FlagInv'
  BY <1>3 DEF Succeed, RecordRpcSuccess, AfterCall, InFlight
<1>4. ASSUME NEW p \in Processes, FailRpc(p)
      PROVE  FlagInv'
  <2>1. pc' \in [Processes -> {"idle", "batch", "calling", "testing"}]
    BY <1>4 DEF FailRpc, AfterCall
  <2>0. 0 \in Nat /\ 0 # None
    BY BreakerAssumption
  <2>2. CASE state = "half_open"
    <3>1. state' = "open" /\ openedAge' = 0 /\ probing' = FALSE
      BY <1>4, <2>2 DEF FailRpc, RecordRpcFailure
    <3> QED  BY <2>0, <2>1, <3>1
  <2>3. CASE state # "half_open"
    <3>1. /\ probing' = probing
          /\ \/ state' = "open" /\ openedAge' = 0 /\ state = "closed"
             \/ state' = state /\ openedAge' = openedAge
      BY <1>4, <2>3 DEF FailRpc, RecordRpcFailure
    <3> QED  BY <2>0, <2>1, <3>1
  <2> QED  BY <2>2, <2>3
<1>5. ASSUME NEW p \in Processes, ExitSilently(p)
      PROVE  FlagInv'
  BY <1>5 DEF ExitSilently, AfterCall, InFlight, breaker
<1>6. ASSUME NEW p \in Processes, StartBatch(p)
      PROVE  FlagInv'
  BY <1>6 DEF StartBatch, PassCircuit, IsCircuitOpen
<1>7. ASSUME NEW p \in Processes, EndBatch(p)
      PROVE  FlagInv'
  BY <1>7 DEF EndBatch, breaker
<1>8. CASE UNCHANGED vars
  BY <1>8 DEF vars
<1> QED
  BY <1>1, <1>2, <1>3, <1>4, <1>5, <1>6, <1>7, <1>8 DEF Next

\* An open breaker's cooldown is always running and its slot is always free, for
\* any callers, crons and silent exits (isCircuitOpen, recordRpcFailure).
THEOREM OpenAlwaysCanExpire == Spec => []OpenCanExpire
<1>1. Init => FlagInv
  BY DEF Init, FlagInv, FlagTypeOK, OpenCanExpire
<1>2. FlagInv => OpenCanExpire
  BY DEF FlagInv
<1> QED
  BY <1>1, <1>2, FlagStep, PTL DEF Spec

-----------------------------------------------------------------------------
\* Every step leaves a taken slot with a tester, or with one who fell silent.
LEMMA StrandStep ==
  FlagInv /\ StrandedOnlyInSilence /\ [Next]_vars => StrandedOnlyInSilence'
<1> SUFFICES ASSUME FlagInv, StrandedOnlyInSilence, [Next]_vars
             PROVE  StrandedOnlyInSilence'
  OBVIOUS
<1> USE DEF StrandedOnlyInSilence, Testing
<1>1. CASE Tick
  BY <1>1 DEF Tick
<1>2. ASSUME NEW p \in Processes, Call(p)
      PROVE  StrandedOnlyInSilence'
  <2>1. CASE state = "closed"
    BY <1>2, <2>1 DEF Call, PassCircuit
  <2>2. CASE state # "closed"
    <3>1. pc'[p] = "testing"
      BY <1>2, <2>2 DEF Call, FlagInv, FlagTypeOK
    <3> QED  BY <1>2, <2>2, <3>1 DEF Call, PassCircuit
  <2> QED  BY <2>1, <2>2
<1>3. ASSUME NEW p \in Processes, Succeed(p)
      PROVE  StrandedOnlyInSilence'
  BY <1>3 DEF Succeed, RecordRpcSuccess
<1>4. ASSUME NEW p \in Processes, FailRpc(p)
      PROVE  StrandedOnlyInSilence'
  <2>1. state' # "half_open"
    BY <1>4 DEF FailRpc, RecordRpcFailure
  <2> QED  BY <2>1
<1>5. ASSUME NEW p \in Processes, ExitSilently(p)
      PROVE  StrandedOnlyInSilence'
  <2>1. \A q \in Processes \ {p} : pc'[q] = pc[q]
    BY <1>5 DEF ExitSilently, AfterCall, FlagInv, FlagTypeOK
  <2> QED  BY <1>5, <2>1 DEF ExitSilently, breaker
<1>6. ASSUME NEW p \in Processes, StartBatch(p)
      PROVE  StrandedOnlyInSilence'
  BY <1>6 DEF StartBatch, PassCircuit
<1>7. ASSUME NEW p \in Processes, EndBatch(p)
      PROVE  StrandedOnlyInSilence'
  <2>1. pc[p] = "batch" /\ \A q \in Processes \ {p} : pc'[q] = pc[q]
    BY <1>7 DEF EndBatch, FlagInv, FlagTypeOK
  <2> QED  BY <1>7, <2>1 DEF EndBatch, breaker
<1>8. CASE UNCHANGED vars
  BY <1>8 DEF vars
<1> QED
  BY <1>1, <1>2, <1>3, <1>4, <1>5, <1>6, <1>7, <1>8 DEF Next

\* Whatever the number of concurrent calls and batches, only a call that ends
\* without a report, or a batch's own question, strands the breaker in half_open:
\* the premise under which its tests' reset convention is enough.
THEOREM StrandedOnlyBySilence == Spec => []StrandedOnlyInSilence
<1>1. Init => FlagInv /\ StrandedOnlyInSilence
  BY DEF Init, FlagInv, FlagTypeOK, OpenCanExpire, StrandedOnlyInSilence
<1>2. FlagInv /\ StrandedOnlyInSilence /\ [Next]_vars
        => (FlagInv /\ StrandedOnlyInSilence)'
  BY FlagStep, StrandStep
<1> QED
  BY <1>1, <1>2, PTL DEF Spec

-----------------------------------------------------------------------------
(* What a filter keeps.                                                    *)

\* A set of natural numbers that is not empty has a smallest one.
LEMMA Least ==
  ASSUME NEW T \in SUBSET Nat, T # {}
  PROVE  \E n \in T : \A m \in Nat : m < n => m \notin T
<1>1. PICK n \in T : \A m \in T : ~ (<<m, n>> \in OpToRel(<, Nat))
  BY NatLessThanWellFounded, WFMin
<1>2. ASSUME NEW m \in Nat, m < n PROVE m \notin T
  BY <1>1, <1>2 DEF OpToRel
<1> QED BY <1>2

\* kept filters the first n elements of s.
Kept(s, n, kept) ==
  kept = [i \in 0..n |-> IF i = 0 THEN <<>>
                         ELSE IF s[i] < Window THEN Append(kept[i - 1], s[i]) ELSE kept[i - 1]]

LEMMA RecentIsKept ==
  ASSUME NEW s
  PROVE  Recent(s) = (CHOOSE kept : Kept(s, Len(s), kept))[Len(s)]
BY DEF Recent, Kept

LEMMA KeptExists ==
  ASSUME NEW s, NEW n \in Nat
  PROVE  \E kept : Kept(s, n, kept)
<1> DEFINE T == {m \in Nat : ~ \E kept : Kept(s, m, kept)}
<1> SUFFICES ASSUME T # {} PROVE FALSE
  OBVIOUS
<1>1. PICK m \in T : \A k \in Nat : k < m => k \notin T
  <2>1. T \in SUBSET Nat
    OBVIOUS
  <2> HIDE DEF T
  <2> QED BY <2>1, Least
<1>2. CASE m = 0
  <2>1. Kept(s, 0, [i \in {0} |-> <<>>])
    BY DEF Kept
  <2> QED BY <1>1, <1>2, <2>1
<1>3. CASE m # 0
  <2>1. PICK kept : Kept(s, m - 1, kept)
    BY <1>1, <1>3
  <2> DEFINE last == IF s[m] < Window THEN Append(kept[m - 1], s[m]) ELSE kept[m - 1]
             more == [i \in 0..m |-> IF i = m THEN last ELSE kept[i]]
  <2>2. \A i \in 0..(m - 1) : more[i] = kept[i]
    BY <1>3
  <2>3. \A i \in 0..m : more[i] = IF i = 0 THEN <<>>
                                  ELSE IF s[i] < Window THEN Append(more[i - 1], s[i]) ELSE more[i - 1]
    <3>1. ASSUME NEW i \in 0..m, i # m
          PROVE  more[i] = IF i = 0 THEN <<>>
                           ELSE IF s[i] < Window THEN Append(more[i - 1], s[i]) ELSE more[i - 1]
      <4>1. i \in 0..(m - 1) /\ (i # 0 => i - 1 \in 0..(m - 1))
        BY <1>3, <3>1
      <4>2. kept[i] = IF i = 0 THEN <<>>
                      ELSE IF s[i] < Window THEN Append(kept[i - 1], s[i]) ELSE kept[i - 1]
        BY <2>1, <4>1 DEF Kept
      <4> HIDE DEF more
      <4> QED BY <2>2, <4>1, <4>2
    <3>2. more[m] = last /\ m - 1 \in 0..(m - 1)
      BY <1>3
    <3> HIDE DEF more
    <3> QED BY <1>3, <2>2, <3>1, <3>2
  <2>4. Kept(s, m, more)
    <3>1. more = [i \in 0..m |-> more[i]]
      OBVIOUS
    <3> HIDE DEF more
    <3> QED BY <2>3, <3>1 DEF Kept
  <2> QED BY <1>1, <2>4
<1> QED BY <1>2, <1>3

\* The filtered ages are ages, and no more than there were.
LEMMA RecentIsShorter ==
  ASSUME NEW s \in Seq(Nat)
  PROVE  Recent(s) \in Seq(Nat) /\ Len(Recent(s)) <= Len(s)
<1> DEFINE kept == CHOOSE kept : Kept(s, Len(s), kept)
           n == Len(s)
<1>1. Kept(s, n, kept) /\ n \in Nat
  <2>1. n \in Nat
    OBVIOUS
  <2>2. \E k : Kept(s, n, k)
    BY <2>1, KeptExists
  <2> QED BY <2>1, <2>2
<1>2. Recent(s) = kept[n]
  BY RecentIsKept
<1> HIDE DEF kept
<1> DEFINE T == {m \in 0..n : ~ (kept[m] \in Seq(Nat) /\ Len(kept[m]) <= m)}
<1>3. T = {}
  <2> SUFFICES ASSUME T # {} PROVE FALSE
    OBVIOUS
  <2>1. PICK m \in T : \A k \in Nat : k < m => k \notin T
    <3>1. T \in SUBSET Nat
      OBVIOUS
    <3> HIDE DEF T
    <3> QED BY <3>1, Least
  <2>2. m \in 0..n
    OBVIOUS
  <2>3. CASE m = 0
    BY <1>1, <2>1, <2>3 DEF Kept
  <2>4. CASE m # 0
    <3>1. m - 1 \in 0..n /\ m - 1 \in Nat /\ m - 1 < m
      BY <2>2, <2>4
    <3>2. kept[m - 1] \in Seq(Nat) /\ Len(kept[m - 1]) <= m - 1
      BY <2>1, <3>1
    <3>3. s[m] \in Nat
      BY <2>2, <2>4
    <3>4. kept[m] = IF s[m] < Window THEN Append(kept[m - 1], s[m]) ELSE kept[m - 1]
      BY <1>1, <2>2, <2>4 DEF Kept
    <3>5. kept[m] \in Seq(Nat) /\ Len(kept[m]) <= m
      BY <2>2, <3>1, <3>2, <3>3, <3>4
    <3> QED BY <2>1, <3>5
  <2> QED BY <2>3, <2>4
<1> QED BY <1>1, <1>2, <1>3

\* A closed breaker keeps fewer failures than open it, recent or not.
QuietInv ==
  /\ failures \in Seq(Nat)
  /\ state = "closed" => Len(failures) < Threshold /\ openedAge = None

LEMMA QuietStep == FlagInv /\ QuietInv /\ [Next]_vars => QuietInv'
<1> SUFFICES ASSUME FlagInv, QuietInv, [Next]_vars
             PROVE  QuietInv'
  OBVIOUS
<1> USE DEF QuietInv
<1>1. CASE Tick
  <2>1. failures' \in Seq(Nat) /\ Len(failures') = Len(failures)
    <3> DEFINE n == Len(failures)
    <3>1. n \in Nat /\ DOMAIN failures = 1..n
      OBVIOUS
    <3>2. \A i \in 1..n : Older(failures[i]) \in Nat
      BY OlderIsNat, SMTT(30)
    <3>3. failures' = [i \in 1..n |-> Older(failures[i])]
      BY <1>1, <3>1 DEF Tick
    <3> HIDE DEF n
    <3>4. failures' \in [1..n -> Nat] /\ DOMAIN failures' = 1..n
      BY <3>2, <3>3
    <3>5. failures' \in Seq(Nat) /\ Len(failures') = n
      BY <3>1, <3>4
    <3> QED BY <3>5 DEF n
  <2>2. state' = state /\ (openedAge = None => openedAge' = None)
    BY <1>1 DEF Tick
  <2> QED BY <2>1, <2>2
<1>2. ASSUME NEW p \in Processes, Call(p) \/ StartBatch(p) \/ EndBatch(p) \/ ExitSilently(p)
      PROVE  QuietInv'
  BY <1>2 DEF Call, StartBatch, EndBatch, ExitSilently, PassCircuit, breaker
<1>3. ASSUME NEW p \in Processes, Succeed(p)
      PROVE  QuietInv'
  BY <1>3, BreakerAssumption DEF Succeed, RecordRpcSuccess
<1>4. ASSUME NEW p \in Processes, FailRpc(p)
      PROVE  QuietInv'
  <2>1. Recent(failures) \in Seq(Nat)
    BY RecentIsShorter
  <2> DEFINE more == Append(Recent(failures), 0)
  <2>2. more \in Seq(Nat) /\ Len(more) \in Nat
    BY <2>1
  <2> HIDE DEF more
  <2>3. CASE state = "half_open"
    BY <1>4, <2>3 DEF FailRpc, RecordRpcFailure
  <2>4. CASE state # "half_open"
    <3>1. /\ failures' = more
          /\ \/ Len(more) >= Threshold /\ state = "closed" /\ state' = "open"
             \/ ~(Len(more) >= Threshold /\ state = "closed") /\ UNCHANGED <<state, openedAge>>
      BY <1>4, <2>4 DEF FailRpc, RecordRpcFailure, more
    <3> QED BY <2>2, <3>1, BreakerAssumption
  <2> QED BY <2>3, <2>4
<1>5. CASE UNCHANGED vars
  BY <1>5 DEF vars
<1> QED BY <1>1, <1>2, <1>3, <1>4, <1>5 DEF Next

\* The failure that completes a burst is never let past, in whatever order concurrent calls
\* report and however often the breaker has opened and closed before (recordRpcFailure,
\* lines 110-117).
THEOREM ClosedIsAlwaysQuiet == Spec => []ClosedMeansQuiet
<1>1. Init => FlagInv /\ QuietInv
  <2> SUFFICES ASSUME Init PROVE FlagInv /\ QuietInv
    OBVIOUS
  <2>1. FlagInv
    BY DEF Init, FlagInv, FlagTypeOK, OpenCanExpire
  <2>2. failures \in Seq(Nat) /\ Len(failures) = 0
    BY DEF Init
  <2> QED BY <2>1, <2>2, BreakerAssumption DEF Init, QuietInv
<1>2. FlagInv /\ QuietInv /\ [Next]_vars => (FlagInv /\ QuietInv)'
  BY FlagStep, QuietStep
<1>3. FlagInv /\ QuietInv => ClosedMeansQuiet
  BY RecentIsShorter, BreakerAssumption DEF FlagInv, QuietInv, ClosedMeansQuiet
<1> QED BY <1>1, <1>2, <1>3, PTL DEF Spec
=============================================================================
