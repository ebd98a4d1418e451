--------------------------- MODULE FairAdmission ---------------------------
(***************************************************************************)
(* The admission gate of app/core/sessions.py (class FairAdmission): at    *)
(* most Slots turns run at once, and the workers that wait for a slot are  *)
(* served round-robin by user, first in first out within a user.           *)
(*                                                                         *)
(* A call of acquire() is a member of Calls.  It awaits at most one future,*)
(* which the model names by the call; fut[c] is the state of that future   *)
(* object, pc[c] that of the coroutine that created it.  The two part ways *)
(* when the call is cancelled: task.cancel() cancels the future at once,   *)
(* the coroutine notices when it is next scheduled, and the cancelled      *)
(* future stays in the deque.  A call name is used again only when no      *)
(* deque holds its old future, so a name in a deque is one future object.  *)
(*                                                                         *)
(* The code runs on one event loop and release() has no await: pc[c] =     *)
(* "releasing" while c is inside the loop of release(), one iteration to a *)
(* step, and no other action is enabled until the loop returns.            *)
(***************************************************************************)
EXTENDS Naturals, Sequences, FiniteSets

CONSTANTS
  Keys,     \* the users (chat ids) turns are admitted for
  Calls,    \* the calls of acquire()
  Slots     \* max_concurrent_turns, at least 1

ASSUME SlotsAssumption == Slots \in Nat \ {0}
ASSUME CallsAssumption == IsFiniteSet(Calls)

VARIABLES
  inUse,    \* _in_use
  waiters,  \* _waiters: per user, the FIFO of futures (an absent key is <<>>)
  order,    \* _order: users with waiters, in round-robin order
  fut,      \* state of each call's future
  pc        \* where each call is

vars == <<inUse, waiters, order, fut, pc>>

TypeOK ==
  /\ inUse \in Nat
  /\ waiters \in [Keys -> Seq(Calls)]
  /\ order \in Seq(Keys)
  /\ fut \in [Calls -> {"none", "pending", "result", "cancelled"}]
  /\ pc \in [Calls -> {"idle", "waiting", "cancelling", "holding", "releasing"}]

InDeque(c) == \E k \in Keys : \E i \in DOMAIN waiters[k] : waiters[k][i] = c

LoopFree == \A c \in Calls : pc[c] # "releasing"

Granted == {c \in Calls : pc[c] \in {"holding", "releasing"} \/ fut[c] = "result"}

Pending == {c \in Calls : fut[c] = "pending"}

-----------------------------------------------------------------------------

Init ==
  /\ inUse = 0
  /\ waiters = [k \in Keys |-> <<>>]
  /\ order = <<>>
  /\ fut = [c \in Calls |-> "none"]
  /\ pc = [c \in Calls |-> "idle"]

(* Mutant: the capacity test of acquire() is off by one. *)
TakeFreeOffByOne(c) ==
  /\ inUse <= Slots
  /\ inUse' = inUse + 1
  /\ pc' = [pc EXCEPT ![c] = "holding"]
  /\ fut' = [fut EXCEPT ![c] = "none"]
  /\ UNCHANGED <<waiters, order>>

(* acquire(): a free slot is taken without waiting. *)
TakeFree(c) ==
  /\ inUse < Slots
  /\ inUse' = inUse + 1
  /\ pc' = [pc EXCEPT ![c] = "holding"]
  /\ fut' = [fut EXCEPT ![c] = "none"]
  /\ UNCHANGED <<waiters, order>>

(* acquire(): all slots busy.  The first waiter of a key joins the rotation. *)
Enqueue(c, k) ==
  /\ inUse >= Slots
  /\ waiters' = [waiters EXCEPT ![k] = Append(@, c)]
  /\ order' = IF Len(waiters'[k]) = 1 THEN Append(order, k) ELSE order
  /\ fut' = [fut EXCEPT ![c] = "pending"]
  /\ pc' = [pc EXCEPT ![c] = "waiting"]
  /\ UNCHANGED inUse

Acquire(c, k) ==
  /\ LoopFree
  /\ pc[c] = "idle"
  /\ ~InDeque(c)
  /\ TakeFree(c) \/ Enqueue(c, k)

(* The task is cancelled while it waits.  A pending future is cancelled on *)
(* the spot; one that already has its result keeps it, and the error is    *)
(* raised when the task is next scheduled.                                 *)
Cancel(c) ==
  /\ LoopFree
  /\ pc[c] = "waiting"
  /\ pc' = [pc EXCEPT ![c] = "cancelling"]
  /\ fut' = [fut EXCEPT ![c] = IF @ = "pending" THEN "cancelled" ELSE @]
  /\ UNCHANGED <<inUse, waiters, order>>

(* The task is scheduled after the hand-over and returns from acquire().   *)
Resume(c) ==
  /\ LoopFree
  /\ pc[c] = "waiting"
  /\ fut[c] = "result"
  /\ pc' = [pc EXCEPT ![c] = "holding"]
  /\ fut' = [fut EXCEPT ![c] = "none"]
  /\ UNCHANGED <<inUse, waiters, order>>

(* Mutant: a waiter cancelled after the hand-over keeps the slot.          *)
UnwindLeaks(c) ==
  /\ LoopFree
  /\ pc[c] = "cancelling"
  /\ pc' = [pc EXCEPT ![c] = "idle"]
  /\ fut' = IF fut[c] = "result" THEN [fut EXCEPT ![c] = "none"] ELSE fut
  /\ UNCHANGED <<inUse, waiters, order>>

(* The except clause of acquire().  The future is done in both cases: its  *)
(* "not fut.done()" branch, which would take it out of the deque, is never *)
(* reached, because task.cancel() has cancelled the future already.        *)
Unwind(c) ==
  /\ LoopFree
  /\ pc[c] = "cancelling"
  /\ \/ /\ fut[c] = "cancelled"
        /\ pc' = [pc EXCEPT ![c] = "idle"]
        /\ UNCHANGED fut
     \/ /\ fut[c] = "result"
        /\ pc' = [pc EXCEPT ![c] = "releasing"]
        /\ fut' = [fut EXCEPT ![c] = "none"]
  /\ UNCHANGED <<inUse, waiters, order>>

(* A worker's turn is over: it calls release(). *)
Release(c) ==
  /\ LoopFree
  /\ pc[c] = "holding"
  /\ pc' = [pc EXCEPT ![c] = "releasing"]
  /\ UNCHANGED <<inUse, waiters, order, fut>>

(* Mutant: a key that still has waiters keeps its place at the front. *)
HandOverSticky(c) ==
  LET k == Head(order)
      q == waiters[k]
      f == Head(q)
  IN
  /\ pc[c] = "releasing"
  /\ order # <<>>
  /\ IF q = <<>>
     THEN order' = Tail(order) /\ UNCHANGED <<waiters, fut, pc>>
     ELSE /\ waiters' = [waiters EXCEPT ![k] = Tail(q)]
          /\ order' = IF Tail(q) = <<>> THEN Tail(order) ELSE order
          /\ IF fut[f] = "pending"
             THEN /\ fut' = [fut EXCEPT ![f] = "result"]
                  /\ pc' = [pc EXCEPT ![c] = "idle"]
             ELSE UNCHANGED <<fut, pc>>
  /\ UNCHANGED inUse

(* release(), one pass of the loop: the future at the head of the next key *)
(* is taken out, the key goes to the back if it has more, and the slot is  *)
(* handed over if that future still waits.                                 *)
HandOver(c) ==
  LET k == Head(order)
      q == waiters[k]
      f == Head(q)
  IN
  /\ pc[c] = "releasing"
  /\ order # <<>>
  /\ IF q = <<>>
     THEN order' = Tail(order) /\ UNCHANGED <<waiters, fut, pc>>
     ELSE /\ waiters' = [waiters EXCEPT ![k] = Tail(q)]
          /\ order' = IF Tail(q) = <<>> THEN Tail(order) ELSE Append(Tail(order), k)
          /\ IF fut[f] = "pending"
             THEN /\ fut' = [fut EXCEPT ![f] = "result"]
                  /\ pc' = [pc EXCEPT ![c] = "idle"]
             ELSE UNCHANGED <<fut, pc>>
  /\ UNCHANGED inUse

(* release(): nobody waits, the slot becomes free. *)
Free(c) ==
  /\ pc[c] = "releasing"
  /\ order = <<>>
  /\ inUse' = IF inUse = 0 THEN 0 ELSE inUse - 1
  /\ pc' = [pc EXCEPT ![c] = "idle"]
  /\ UNCHANGED <<waiters, order, fut>>

Next ==
  \E c \in Calls :
    \/ \E k \in Keys : Acquire(c, k)
    \/ Cancel(c)
    \/ Resume(c)
    \/ Unwind(c)
    \/ Release(c)
    \/ HandOver(c)
    \/ Free(c)

Spec == Init /\ [][Next]_vars

(* The event loop runs what is ready, and a turn that holds a slot ends.   *)
(* Nothing makes a worker ask for a slot or cancels it.                    *)
Fairness ==
  \A c \in Calls : /\ WF_vars(Resume(c)) /\ WF_vars(Unwind(c)) /\ WF_vars(Release(c))
                   /\ WF_vars(HandOver(c)) /\ WF_vars(Free(c))

FairSpec == Spec /\ Fairness

-----------------------------------------------------------------------------

(* The counter is the number of calls that own a slot, whether they run,   *)
(* were handed a slot and have not been scheduled yet, were cancelled in   *)
(* between, or are giving it back: cancellation leaks no slot and frees    *)
(* none twice, and the capacity is respected.                              *)
SlotsConserved == inUse = Cardinality(Granted) /\ inUse <= Slots

(* The rotation names every user with a queued future exactly once and no  *)
(* other user, so release() serves everybody and skips nobody.             *)
RotationExact ==
  /\ \A i, j \in DOMAIN order : order[i] = order[j] => i = j
  /\ \A k \in Keys : waiters[k] # <<>> <=> \E i \in DOMAIN order : order[i] = k

(* No lost wake-up: a slot is never free while a worker waits for one.     *)
NoWaiterWhileFree == inUse < Slots => Pending = {}

(* The gate implements the pool of slots: a slot given back while somebody *)
(* waits is passed on, never dropped and never given to a newcomer.        *)
Pool == INSTANCE SlotPool WITH holders <- Granted, pending <- Pending
PoolSpec == Pool!Spec

(* Every worker that waits for a slot gets one or is cancelled, however    *)
(* many threads the other users keep busy.                                 *)
EveryWaiterServed == \A c \in Calls : pc[c] = "waiting" ~> pc[c] # "waiting"

=============================================================================
