---------------------------- MODULE MCEntityGraph ----------------------------
(* Two memories that share a name, on two workers, for TLC. *)
EXTENDS EntityGraphProperties

CONSTANTS w1, w2, j1, j2, m1, m2, redis, alice, plan

MCOfJob == [j \in Job |-> IF j = j1 THEN m1 ELSE m2]

Heard(name, label) ==
  [name |-> name, label |-> label, relationships |-> {}, source |-> "spacy"]
Said(name, label, relationships) ==
  [name |-> name, label |-> label, relationships |-> relationships, source |-> "model"]
To(name, allowed) == [target |-> name, allowed |-> allowed]

(* The first memory mentions Alice and Redis, the second a plan of Alice. *)
MCSpacy == [m \in Memory |->
  IF m = m1 THEN <<Heard(alice, "Person"), Heard(redis, "Person")>> ELSE <<>>]
MCScan == [m \in Memory |-> IF m = m1 THEN <<redis>> ELSE <<>>]
MCAnswer == [m \in Memory |->
  IF m = m1
    THEN {<<Said(Blank, "Concept", {}), Said(redis, "Concept", {To(plan, FALSE)}),
            Said(plan, "Project", {To(alice, TRUE), To(Blank, TRUE)})>>,
          <<Said(Null, "Concept", {}), Said(plan, "Project", {})>>}
    ELSE {<<Said(plan, "Project", {To(alice, TRUE)}), Said(alice, "Other", {})>>}]

=============================================================================
