---------------------------- MODULE MCAutomation ----------------------------
(* A finite instance of Automation for TLC.                                *)
EXTENDS Automation

CONSTANTS t1, t2, p1, i1

\* Wait, write to the supporter or do not, and tag him.
Step(type) == [type |-> type, then |-> 1, else |-> 1]
Workflow == <<Step("delay"), [type |-> "condition", then |-> 3, else |-> 4],
              Step("email"), Step("tag")>>
Everybody == [t \in Triggers |-> 1]
=============================================================================
