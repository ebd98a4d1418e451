------------------------------ MODULE SlotPool ------------------------------
(***************************************************************************)
(* What the admission gate of app/core/sessions.py promises, with no queue *)
(* and no future in sight: a pool of Slots slots, the calls that hold one  *)
(* and the calls that wait for one.  Nobody waits while a slot is free,    *)
(* and a slot that is given back goes to a waiting call in the same step   *)
(* or, when there is none, becomes free.  Which waiter is chosen is left   *)
(* open: FairAdmission chooses round-robin by user.                        *)
(***************************************************************************)
EXTENDS Naturals, FiniteSets

CONSTANTS
  Calls,    \* the calls of acquire()
  Slots     \* capacity of the pool

VARIABLES
  holders,  \* calls that own a slot
  pending   \* calls that wait for one

vars == <<holders, pending>>

TypeOK == holders \subseteq Calls /\ pending \subseteq Calls

Init == holders = {} /\ pending = {}

Enter(c) ==
  /\ c \notin holders \cup pending
  /\ Cardinality(holders) < Slots
  /\ pending = {}
  /\ holders' = holders \cup {c}
  /\ UNCHANGED pending

Wait(c) ==
  /\ c \notin holders \cup pending
  /\ Cardinality(holders) = Slots
  /\ pending' = pending \cup {c}
  /\ UNCHANGED holders

Abandon(c) ==
  /\ c \in pending
  /\ pending' = pending \ {c}
  /\ UNCHANGED holders

Pass(c, d) ==
  /\ c \in holders
  /\ d \in pending
  /\ holders' = (holders \ {c}) \cup {d}
  /\ pending' = pending \ {d}

Leave(c) ==
  /\ c \in holders
  /\ pending = {}
  /\ holders' = holders \ {c}
  /\ UNCHANGED pending

Next ==
  \E c \in Calls :
    \/ Enter(c) \/ Wait(c) \/ Abandon(c) \/ Leave(c)
    \/ \E d \in Calls : Pass(c, d)

Spec == Init /\ [][Next]_vars

=============================================================================
