------------------------- MODULE NullifierRegistry -------------------------
(***************************************************************************)
(* What the submission table promises its callers: a nullifier is claimed  *)
(* once, by one user, for good. Every request gets one reply, as if it had *)
(* been served alone at one moment: it claims the nullifier, is given the  *)
(* claim it made before, is refused because there is one, or fails.        *)
(***************************************************************************)
CONSTANTS
  Users, Nullifiers,
  Requests,  \* requests to store a submission
  None

VARIABLES
  owner,  \* owner[n]: the user who claimed nullifier n, or None
  ask,    \* ask[r]: who asks for which nullifier, or None
  reply   \* reply[r]: the reply request r got, or "none"

vars == <<owner, ask, reply>>

Asks == [user : Users, nullifier : Nullifiers]

Init ==
  /\ owner = [n \in Nullifiers |-> None]
  /\ ask = [r \in Requests |-> None]
  /\ reply = [r \in Requests |-> "none"]

Ask(r, a) ==
  /\ ask[r] = None
  /\ ask' = [ask EXCEPT ![r] = a]
  /\ UNCHANGED <<owner, reply>>

Pending(r) == ask[r] # None /\ reply[r] = "none"
Answer(r, what) == reply' = [reply EXCEPT ![r] = what]

Claim(r) ==
  /\ Pending(r)
  /\ owner[ask[r].nullifier] = None
  /\ owner' = [owner EXCEPT ![ask[r].nullifier] = ask[r].user]
  /\ Answer(r, "stored")
  /\ UNCHANGED ask

Return(r) ==
  /\ Pending(r)
  /\ owner[ask[r].nullifier] = ask[r].user
  /\ Answer(r, "stored")
  /\ UNCHANGED <<owner, ask>>

Refuse(r) ==
  /\ Pending(r)
  /\ owner[ask[r].nullifier] # None
  /\ Answer(r, "refused")
  /\ UNCHANGED <<owner, ask>>

Fail(r) ==
  /\ Pending(r)
  /\ Answer(r, "error")
  /\ UNCHANGED <<owner, ask>>

Next ==
  \E r \in Requests :
    \/ \E a \in Asks : Ask(r, a)
    \/ Claim(r) \/ Return(r) \/ Refuse(r) \/ Fail(r)

Spec == Init /\ [][Next]_vars
=============================================================================
