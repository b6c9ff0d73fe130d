------------------------------- MODULE IdPool -------------------------------
(***************************************************************************)
(* What the users of pid.rs rely on: an identifier handed out has no owner *)
(* yet, and only one that has an owner is given back.                      *)
(***************************************************************************)
CONSTANT Ids

VARIABLE owners   \* how many owners each identifier has

Init == owners = [id \in Ids |-> 0]

Take == \E id \in Ids : owners[id] = 0 /\ owners' = [owners EXCEPT ![id] = 1]

Give == \E id \in Ids : owners[id] = 1 /\ owners' = [owners EXCEPT ![id] = 0]

Next == Take \/ Give

Spec == Init /\ [][Next]_owners
=============================================================================
