-------------------------- MODULE MCFairAdmission --------------------------
(***************************************************************************)
(* FairAdmission for TLC, with one history variable: how often a user who  *)
(* waits was passed over.                                                  *)
(* The count stops at the number of users, where BypassBounded is broken.  *)
(***************************************************************************)
EXTENDS FairAdmission

(* Chat ids are 64-bit numbers. *)
ASSUME KeysAssumption == IsFiniteSet(Keys)

VARIABLE
  bypass    \* grants to other users since the user joined or was last at the head

mcvars == <<vars, bypass>>

Waits(k) == \E i \in DOMAIN order : order[i] = k

HadItsTurn(k) == Waits(k) /\ Len(waiters'[k]) < Len(waiters[k])

MCInit == Init /\ bypass = [k \in Keys |-> 0]

MCNext ==
  /\ Next
  /\ bypass' = [k \in Keys |->
       IF ~Waits(k)' \/ HadItsTurn(k) THEN 0
       ELSE IF Granted' \subseteq Granted \/ bypass[k] = Cardinality(Keys) THEN bypass[k]
       ELSE bypass[k] + 1]

MCSpec == MCInit /\ [][MCNext]_mcvars

MCFairSpec == MCSpec /\ Fairness

(* "Round-robin per user stops burst starvation": between two visits of    *)
(* release() to a user who waits, every other user gets at most one slot.  *)
BypassBounded == \A k \in Keys : bypass[k] < Cardinality(Keys)

=============================================================================
