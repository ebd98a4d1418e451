------------------------ MODULE FairAdmission_proofs ------------------------
(***************************************************************************)
(* Proofs about the admission gate, for every set of users, every finite   *)
(* set of calls and every number of slots.                                 *)
(***************************************************************************)
EXTENDS MCFairAdmission, FiniteSetTheorems, TLAPS

-----------------------------------------------------------------------------
(* Facts about sequences. *)

(* Head and Tail of a non-empty queue, element by element. *)
LEMMA TailFacts ==
  ASSUME NEW S, NEW q \in Seq(S), q # <<>>
  PROVE  /\ Head(q) = q[1] /\ 1 \in DOMAIN q /\ Head(q) \in S
         /\ Tail(q) \in Seq(S)
         /\ \A i \in DOMAIN Tail(q) : i + 1 \in DOMAIN q /\ Tail(q)[i] = q[i + 1] /\ i \in Nat
         /\ \A i \in DOMAIN q : i # 1 => i - 1 \in DOMAIN Tail(q) /\ q[i] = Tail(q)[i - 1]
OBVIOUS

(* What Append adds to a queue and what it keeps. *)
LEMMA AppendFacts ==
  ASSUME NEW S, NEW q \in Seq(S), NEW e \in S
  PROVE  /\ Append(q, e) \in Seq(S)
         /\ Append(q, e) # <<>>
         /\ Len(q) + 1 \in DOMAIN Append(q, e)
         /\ Append(q, e)[Len(q) + 1] = e
         /\ \A i \in DOMAIN q : i \in DOMAIN Append(q, e) /\ Append(q, e)[i] = q[i]
         /\ \A i \in DOMAIN Append(q, e) :
              \/ i \in DOMAIN q /\ Append(q, e)[i] = q[i]
              \/ i = Len(q) + 1 /\ i \notin DOMAIN q
OBVIOUS

(* Three ways to say that a queue is empty. *)
LEMMA EmptyFacts ==
  ASSUME NEW S, NEW q \in Seq(S)
  PROVE  /\ (q = <<>>) <=> (DOMAIN q = {})
         /\ (Len(q) = 0) <=> (q = <<>>)
OBVIOUS

-----------------------------------------------------------------------------
(* The inductive invariant.  SlotsConserved alone is not inductive: that a *)
(* hand-over changes the future of a call that owns no slot yet, and that  *)
(* a slot is only freed when nobody waits, need to know which calls the    *)
(* deques hold and that the rotation names every key with a waiter.        *)

(* At most one call is inside the loop of release(). *)
OneLoop == \A c, d \in Calls : pc[c] = "releasing" /\ pc[d] = "releasing" => c = d

(* How a coroutine and its future go together. *)
StatesAgree ==
  \A c \in Calls :
    /\ fut[c] = "pending" => pc[c] = "waiting"
    /\ fut[c] = "result" => pc[c] \in {"waiting", "cancelling"}
    /\ pc[c] = "waiting" => fut[c] \in {"pending", "result"}
    /\ pc[c] = "cancelling" => fut[c] \in {"cancelled", "result"}
    /\ pc[c] \in {"holding", "releasing"} => fut[c] = "none"

(* A queued future is queued once, in one deque, and has no result; every  *)
(* future that is pending is queued.                                       *)
QueuedNotDone ==
  \A k \in Keys : \A i \in DOMAIN waiters[k] :
    fut[waiters[k][i]] \in {"pending", "cancelled"}

QueuedOnce ==
  \A k, l \in Keys : \A i \in DOMAIN waiters[k], j \in DOMAIN waiters[l] :
    waiters[k][i] = waiters[l][j] => k = l /\ i = j

PendingQueued == \A c \in Calls : fut[c] = "pending" => InDeque(c)

(* The rotation is empty whenever a slot is free. *)
NoRotationWhileFree == inUse < Slots => order = <<>>

IInv ==
  /\ TypeOK
  /\ OneLoop
  /\ StatesAgree
  /\ QueuedNotDone
  /\ QueuedOnce
  /\ PendingQueued
  /\ RotationExact
  /\ SlotsConserved
  /\ NoRotationWhileFree

-----------------------------------------------------------------------------
(* Counting the calls that own a slot. *)

(* The slot owners are finitely many, so they can be counted. *)
LEMMA GrantedFinite == IsFiniteSet(Granted) /\ Cardinality(Granted) \in Nat
<1>1. Granted \in SUBSET Calls BY DEF Granted
<1> QED BY <1>1, CallsAssumption, FS_Subset, FS_CardinalityType

(* A call that becomes an owner adds one to the count. *)
LEMMA GrantedGrows ==
  ASSUME NEW c, c \notin Granted, Granted' = Granted \cup {c}
  PROVE  Cardinality(Granted') = Cardinality(Granted) + 1
BY GrantedFinite, FS_AddElement

(* A call that stops being an owner takes one off the count. *)
LEMMA GrantedShrinks ==
  ASSUME NEW c, c \in Granted, Granted' = Granted \ {c}
  PROVE  Cardinality(Granted') = Cardinality(Granted) - 1
BY GrantedFinite, FS_RemoveElement

(* A hand-over from one call to another keeps the count. *)
LEMMA GrantedSwaps ==
  ASSUME NEW c, NEW d, c \in Granted, d \notin Granted,
         Granted' = (Granted \ {c}) \cup {d}
  PROVE  Cardinality(Granted') = Cardinality(Granted)
<1>1. IsFiniteSet(Granted \ {c}) /\ Cardinality(Granted \ {c}) = Cardinality(Granted) - 1
  BY GrantedFinite, FS_RemoveElement
<1>2. d \notin Granted \ {c} OBVIOUS
<1>3. Cardinality((Granted \ {c}) \cup {d}) = Cardinality(Granted \ {c}) + 1
  BY <1>1, <1>2, FS_AddElement
<1> QED BY <1>1, <1>3, GrantedFinite

-----------------------------------------------------------------------------
(* One lemma per action. *)

(* The gate is made with every slot free and nobody waiting. *)
LEMMA InitIInv == Init => IInv
<1> SUFFICES ASSUME Init PROVE IInv
  OBVIOUS
<1>1. Granted = {} BY DEF Init, Granted
<1>2. Cardinality(Granted) = 0 BY <1>1, FS_EmptySet
<1>3. DOMAIN order = {} /\ \A k \in Keys : DOMAIN waiters[k] = {} BY DEF Init
<1>4. TypeOK BY DEF Init, TypeOK
<1> QED
  BY <1>2, <1>3, <1>4, SlotsAssumption
  DEF Init, IInv, OneLoop, StatesAgree, QueuedNotDone, QueuedOnce, PendingQueued,
      RotationExact, SlotsConserved, NoRotationWhileFree

(* acquire() on a free slot preserves the invariant. *)
LEMMA TakeFreeIInv ==
  ASSUME IInv, NEW c \in Calls, LoopFree, pc[c] = "idle", ~InDeque(c), TakeFree(c)
  PROVE  IInv'
<1> USE DEF IInv, TypeOK
<1>1. TypeOK' BY DEF TakeFree
<1>2. OneLoop' /\ StatesAgree' BY DEF TakeFree, OneLoop, StatesAgree, LoopFree
<1>3. c \notin Granted BY DEF Granted, StatesAgree
<1>4. Granted' = Granted \cup {c} BY DEF Granted, TakeFree
<1>5a. Cardinality(Granted') = Cardinality(Granted) + 1 BY <1>3, <1>4, GrantedGrows
<1>5. SlotsConserved'
  BY <1>5a, GrantedFinite, SlotsAssumption DEF SlotsConserved, TakeFree
<1>6. QueuedNotDone' /\ QueuedOnce' /\ PendingQueued'
  BY DEF TakeFree, QueuedNotDone, QueuedOnce, PendingQueued, InDeque
<1>7. RotationExact' /\ NoRotationWhileFree'
  BY SlotsAssumption DEF TakeFree, RotationExact, NoRotationWhileFree
<1> QED BY <1>1, <1>2, <1>5, <1>6, <1>7

(* acquire() that has to wait preserves the invariant. *)
LEMMA EnqueueIInv ==
  ASSUME IInv, NEW c \in Calls, NEW k \in Keys,
         LoopFree, pc[c] = "idle", ~InDeque(c), Enqueue(c, k)
  PROVE  IInv'
<1> USE DEF IInv, TypeOK
<1>1. /\ waiters[k] \in Seq(Calls) /\ order \in Seq(Keys)
      /\ waiters'[k] = Append(waiters[k], c)
      /\ \A l \in Keys : l # k => waiters'[l] = waiters[l]
  BY DEF Enqueue
<1>2. /\ waiters'[k] # <<>>
      /\ Len(waiters[k]) + 1 \in DOMAIN waiters'[k]
      /\ waiters'[k][Len(waiters[k]) + 1] = c
      /\ \A i \in DOMAIN waiters[k] : i \in DOMAIN waiters'[k] /\ waiters'[k][i] = waiters[k][i]
      /\ \A i \in DOMAIN waiters'[k] :
           \/ i \in DOMAIN waiters[k] /\ waiters'[k][i] = waiters[k][i]
           \/ i = Len(waiters[k]) + 1 /\ i \notin DOMAIN waiters[k]
  BY <1>1, AppendFacts
<1>3. order' = IF waiters[k] = <<>> THEN Append(order, k) ELSE order
  BY <1>1 DEF Enqueue
<1>4. TypeOK' BY <1>3, <1>1, AppendFacts DEF Enqueue
<1>5. OneLoop' /\ StatesAgree' BY DEF Enqueue, OneLoop, StatesAgree, LoopFree
<1>6. Granted' = Granted BY DEF Granted, Enqueue, StatesAgree
<1>7. SlotsConserved' /\ NoRotationWhileFree'
  BY <1>6, SlotsAssumption DEF SlotsConserved, Enqueue, NoRotationWhileFree
<1>8. QueuedNotDone' BY <1>1, <1>2 DEF QueuedNotDone, Enqueue
<1>9. QueuedOnce'
  <2>1. \A l \in Keys : \A i \in DOMAIN waiters[l] : waiters[l][i] # c BY DEF InDeque
  <2>2. \A l \in Keys : \A i \in DOMAIN waiters'[l] :
          \/ i \in DOMAIN waiters[l] /\ waiters'[l][i] = waiters[l][i]
          \/ l = k /\ i = Len(waiters[k]) + 1 /\ waiters'[l][i] = c
    BY <1>1, <1>2
  <2> SUFFICES ASSUME NEW l \in Keys, NEW m \in Keys,
                      NEW i \in DOMAIN waiters'[l], NEW j \in DOMAIN waiters'[m],
                      waiters'[l][i] = waiters'[m][j]
               PROVE  l = m /\ i = j
    BY DEF QueuedOnce
  <2>3. CASE i \in DOMAIN waiters[l] /\ waiters'[l][i] = waiters[l][i]
    <3>1. j \in DOMAIN waiters[m] /\ waiters'[m][j] = waiters[m][j]
      BY <2>1, <2>2, <2>3
    <3>2. waiters[l][i] = waiters[m][j] BY <2>3, <3>1
    <3>3. QueuedOnce OBVIOUS
    <3> HIDE DEF IInv, TypeOK
    <3> QED BY <2>3, <3>1, <3>2, <3>3 DEF QueuedOnce
  <2>4. CASE l = k /\ i = Len(waiters[k]) + 1 /\ waiters'[l][i] = c
    <3>1. m = k /\ j = Len(waiters[k]) + 1 BY <2>1, <2>2, <2>4
    <3> QED BY <2>4, <3>1
  <2> QED BY <2>2, <2>3, <2>4
<1>10. PendingQueued'
  BY <1>1, <1>2 DEF PendingQueued, InDeque, Enqueue
<1>11. RotationExact'
  <2>1. CASE waiters[k] = <<>>
    <3>1. \A i \in DOMAIN order : order[i] # k BY <2>1 DEF RotationExact
    <3>2. /\ Len(order) + 1 \in DOMAIN order' /\ order'[Len(order) + 1] = k
          /\ \A i \in DOMAIN order : i \in DOMAIN order' /\ order'[i] = order[i]
          /\ \A i \in DOMAIN order' :
               \/ i \in DOMAIN order /\ order'[i] = order[i]
               \/ i = Len(order) + 1 /\ i \notin DOMAIN order
      BY <1>1, <1>3, <2>1, AppendFacts
    <3>3. \A i, j \in DOMAIN order' : order'[i] = order'[j] => i = j
      BY <3>1, <3>2 DEF RotationExact
    <3>4. ASSUME NEW l \in Keys
          PROVE  waiters'[l] # <<>> <=> \E i \in DOMAIN order' : order'[i] = l
      <4>1. CASE l = k BY <4>1, <1>2, <3>2
      <4>2. CASE l # k
        <5>1. waiters[l] # <<>> <=> \E i \in DOMAIN order : order[i] = l
          BY DEF RotationExact
        <5>2. (\E i \in DOMAIN order : order[i] = l) <=> (\E i \in DOMAIN order' : order'[i] = l)
          BY <4>2, <3>2
        <5> QED BY <4>2, <1>1, <5>1, <5>2
      <4> QED BY <4>1, <4>2
    <3> QED BY <3>3, <3>4 DEF RotationExact
  <2>2. CASE waiters[k] # <<>>
    BY <1>1, <1>2, <1>3, <2>2 DEF RotationExact
  <2> QED BY <2>1, <2>2
<1> QED BY <1>4, <1>5, <1>7, <1>8, <1>9, <1>10, <1>11

(* The actions that leave the deques and the rotation alone, and end no    *)
(* pending future in a deque except by cancelling it.                      *)
LEMMA QueuesUntouched ==
  ASSUME IInv, UNCHANGED <<inUse, waiters, order>>,
         \A c \in Calls : fut'[c] = "pending" => fut[c] = "pending",
         \A c \in Calls : fut[c] \in {"pending", "cancelled"}
                            => fut'[c] \in {"pending", "cancelled"},
         Granted' = Granted
  PROVE  /\ QueuedNotDone' /\ QueuedOnce' /\ PendingQueued'
         /\ RotationExact' /\ SlotsConserved' /\ NoRotationWhileFree'
<1>1. QueuedNotDone'
  <2>1. \A k \in Keys : \A i \in DOMAIN waiters[k] : waiters[k][i] \in Calls
    BY DEF IInv, TypeOK
  <2> QED BY <2>1 DEF IInv, QueuedNotDone
<1>2. QueuedOnce' /\ RotationExact'
  BY DEF IInv, QueuedOnce, RotationExact
<1>3. PendingQueued' BY DEF IInv, PendingQueued, InDeque
<1>4. SlotsConserved' /\ NoRotationWhileFree'
  BY DEF IInv, SlotsConserved, NoRotationWhileFree
<1> QED BY <1>1, <1>2, <1>3, <1>4

(* Cancelling a waiting task preserves the invariant. *)
LEMMA CancelIInv == ASSUME IInv, NEW c \in Calls, Cancel(c) PROVE IInv'
<1> USE DEF IInv, TypeOK
<1>1. TypeOK' BY DEF Cancel
<1>2. OneLoop' /\ StatesAgree' BY DEF Cancel, OneLoop, StatesAgree
<1>3. Granted' = Granted BY DEF Granted, Cancel
<1>4. /\ \A d \in Calls : fut'[d] = "pending" => fut[d] = "pending"
      /\ \A d \in Calls : fut[d] \in {"pending", "cancelled"}
                            => fut'[d] \in {"pending", "cancelled"}
  BY DEF Cancel
<1> QED BY <1>1, <1>2, <1>3, <1>4, QueuesUntouched DEF Cancel

(* Returning from acquire() after the hand-over preserves it. *)
LEMMA ResumeIInv == ASSUME IInv, NEW c \in Calls, Resume(c) PROVE IInv'
<1> USE DEF IInv, TypeOK
<1>1. TypeOK' BY DEF Resume
<1>2. OneLoop' /\ StatesAgree' BY DEF Resume, OneLoop, StatesAgree
<1>3. Granted' = Granted BY DEF Granted, Resume
<1>4. /\ \A d \in Calls : fut'[d] = "pending" => fut[d] = "pending"
      /\ \A d \in Calls : fut[d] \in {"pending", "cancelled"}
                            => fut'[d] \in {"pending", "cancelled"}
  BY DEF Resume
<1> QED BY <1>1, <1>2, <1>3, <1>4, QueuesUntouched DEF Resume

(* The except clause of acquire() preserves it. *)
LEMMA UnwindIInv == ASSUME IInv, NEW c \in Calls, Unwind(c) PROVE IInv'
<1> USE DEF IInv, TypeOK
<1>1. TypeOK' BY DEF Unwind
<1>2. OneLoop' /\ StatesAgree' BY DEF Unwind, OneLoop, StatesAgree, LoopFree
<1>3. Granted' = Granted BY DEF Granted, Unwind
<1>4. /\ \A d \in Calls : fut'[d] = "pending" => fut[d] = "pending"
      /\ \A d \in Calls : fut[d] \in {"pending", "cancelled"}
                            => fut'[d] \in {"pending", "cancelled"}
  BY DEF Unwind
<1> QED BY <1>1, <1>2, <1>3, <1>4, QueuesUntouched DEF Unwind

(* Entering release() preserves it. *)
LEMMA ReleaseIInv == ASSUME IInv, NEW c \in Calls, Release(c) PROVE IInv'
<1> USE DEF IInv, TypeOK
<1>1. TypeOK' BY DEF Release
<1>2. OneLoop' /\ StatesAgree' BY DEF Release, OneLoop, StatesAgree, LoopFree
<1>3. Granted' = Granted BY DEF Granted, Release
<1>4. /\ \A d \in Calls : fut'[d] = "pending" => fut[d] = "pending"
      /\ \A d \in Calls : fut[d] \in {"pending", "cancelled"}
                            => fut'[d] \in {"pending", "cancelled"}
  BY DEF Release
<1> QED BY <1>1, <1>2, <1>3, <1>4, QueuesUntouched DEF Release

(* When the rotation is empty no future is pending. *)
LEMMA EmptyRotation ==
  ASSUME TypeOK, RotationExact, PendingQueued, order = <<>>
  PROVE  Pending = {} /\ \A c \in Calls : ~InDeque(c)
<1>1. \A k \in Keys : waiters[k] = <<>> BY DEF RotationExact
<1>2. \A k \in Keys : DOMAIN waiters[k] = {} BY <1>1, EmptyFacts DEF TypeOK
<1> QED BY <1>2 DEF Pending, PendingQueued, InDeque

(* release() with nobody waiting preserves it. *)
LEMMA FreeIInv == ASSUME IInv, NEW c \in Calls, Free(c) PROVE IInv'
<1> USE DEF IInv, TypeOK
<1>1. c \in Granted BY DEF Granted, Free
<1>2. Granted' = Granted \ {c} BY DEF Granted, Free, StatesAgree
<1>3. Cardinality(Granted') = Cardinality(Granted) - 1 BY <1>1, <1>2, GrantedShrinks
<1>4. Cardinality(Granted) # 0 BY <1>1, GrantedFinite, FS_EmptySet
<1>5. TypeOK' BY DEF Free
<1>6. SlotsConserved'
  BY <1>3, <1>4, GrantedFinite, SlotsAssumption DEF SlotsConserved, Free
<1>7. OneLoop' /\ StatesAgree' BY DEF Free, OneLoop, StatesAgree
<1>8. QueuedNotDone' /\ QueuedOnce' /\ PendingQueued'
  BY DEF Free, QueuedNotDone, QueuedOnce, PendingQueued, InDeque
<1>9. RotationExact' /\ NoRotationWhileFree'
  BY DEF Free, RotationExact, NoRotationWhileFree
<1> QED BY <1>5, <1>6, <1>7, <1>8, <1>9

(* One pass of the loop of release() preserves it. *)
LEMMA HandOverIInv == ASSUME IInv, NEW c \in Calls, HandOver(c) PROVE IInv'
<1> USE DEF IInv, TypeOK
<1> DEFINE k == Head(order)
           q == waiters[k]
           f == Head(q)
<1>1. /\ order \in Seq(Keys) /\ order # <<>>
      /\ k \in Keys /\ k = order[1] /\ 1 \in DOMAIN order
  BY TailFacts DEF HandOver
<1>2. q \in Seq(Calls) /\ q # <<>> BY <1>1 DEF RotationExact
<1>3. /\ f = q[1] /\ 1 \in DOMAIN q /\ f \in Calls
      /\ Tail(q) \in Seq(Calls)
      /\ \A i \in DOMAIN Tail(q) : i + 1 \in DOMAIN q /\ Tail(q)[i] = q[i + 1] /\ i \in Nat
      /\ \A i \in DOMAIN q : i # 1 => i - 1 \in DOMAIN Tail(q) /\ q[i] = Tail(q)[i - 1]
  BY <1>2, TailFacts
<1>4. /\ waiters' = [waiters EXCEPT ![k] = Tail(q)]
      /\ order' = IF Tail(q) = <<>> THEN Tail(order) ELSE Append(Tail(order), k)
      /\ inUse' = inUse
      /\ pc[c] = "releasing"
  BY <1>2 DEF HandOver
<1>5. \/ /\ fut[f] = "pending"
         /\ fut' = [fut EXCEPT ![f] = "result"]
         /\ pc' = [pc EXCEPT ![c] = "idle"]
      \/ /\ fut[f] # "pending"
         /\ fut' = fut /\ pc' = pc
  BY <1>2 DEF HandOver
<1> HIDE DEF k, q, f
<1>6. /\ waiters'[k] = Tail(q) /\ waiters[k] = q
      /\ \A l \in Keys : l # k => waiters'[l] = waiters[l]
  BY <1>1, <1>4 DEF q
<1>7. TypeOK'
  <2>1. Tail(order) \in Seq(Keys) BY <1>1, TailFacts
  <2>2. order' \in Seq(Keys) BY <1>1, <1>4, <2>1, AppendFacts
  <2> QED BY <1>1, <1>3, <1>4, <1>5, <2>2
<1>8. OneLoop' BY <1>5 DEF OneLoop
<1>9. f # c /\ (fut[f] = "pending" => pc[f] = "waiting")
  <2>1. fut[f] \in {"pending", "cancelled"} BY <1>1, <1>3, <1>6 DEF QueuedNotDone
  <2>2. fut[c] = "none" BY <1>4 DEF StatesAgree
  <2> QED BY <2>1, <2>2, <1>3 DEF StatesAgree
<1>10. StatesAgree' BY <1>3, <1>4, <1>5, <1>9 DEF StatesAgree
<1>11. SlotsConserved' /\ NoRotationWhileFree'
  <2>1. c \in Granted BY <1>4 DEF Granted
  <2>2. CASE fut[f] = "pending"
    <3>1. f \notin Granted BY <2>2, <1>9 DEF Granted
    <3>2. Granted' = (Granted \ {c}) \cup {f}
      BY <2>2, <1>3, <1>4, <1>5, <1>9 DEF Granted, StatesAgree
    <3>3. Cardinality(Granted') = Cardinality(Granted) BY <2>1, <3>1, <3>2, GrantedSwaps
    <3>4. SlotsConserved' BY <3>3, <1>4 DEF SlotsConserved
    <3>5. inUse >= Slots BY <1>1, SlotsAssumption DEF NoRotationWhileFree
    <3> QED BY <3>4, <3>5, <1>4, SlotsAssumption DEF NoRotationWhileFree
  <2>3. CASE fut[f] # "pending"
    <3>1. Granted' = Granted BY <2>3, <1>5 DEF Granted
    <3>2. inUse >= Slots BY <1>1, SlotsAssumption DEF NoRotationWhileFree
    <3> QED BY <3>1, <3>2, <1>4, SlotsAssumption DEF SlotsConserved, NoRotationWhileFree
  <2> QED BY <2>2, <2>3
(* Every entry of the new deques is an entry of the old ones other than    *)
(* the head of q.                                                          *)
<1>12. \A l \in Keys : \A i \in DOMAIN waiters'[l] :
         LET o == IF l = k THEN i + 1 ELSE i
         IN  o \in DOMAIN waiters[l] /\ waiters'[l][i] = waiters[l][o] /\ waiters[l][o] # f
  <2>1. ASSUME NEW l \in Keys, NEW i \in DOMAIN waiters'[l], l = k
        PROVE  /\ i + 1 \in DOMAIN waiters[l] /\ waiters'[l][i] = waiters[l][i + 1]
               /\ waiters[l][i + 1] # f
    <3>1. /\ i + 1 \in DOMAIN waiters[l] /\ waiters'[l][i] = waiters[l][i + 1]
          /\ i + 1 # 1
      BY <2>1, <1>3, <1>6
    <3> QED BY <2>1, <3>1, <1>1, <1>3, <1>6 DEF QueuedOnce
  <2>2. ASSUME NEW l \in Keys, NEW i \in DOMAIN waiters'[l], l # k
        PROVE  /\ i \in DOMAIN waiters[l] /\ waiters'[l][i] = waiters[l][i]
               /\ waiters[l][i] # f
    BY <2>2, <1>1, <1>3, <1>6 DEF QueuedOnce
  <2> QED BY <2>1, <2>2
<1>13. QueuedNotDone'
  <2> SUFFICES ASSUME NEW l \in Keys, NEW i \in DOMAIN waiters'[l]
               PROVE  fut'[waiters'[l][i]] \in {"pending", "cancelled"}
    BY DEF QueuedNotDone
  <2>1. PICK o : o \in DOMAIN waiters[l] /\ waiters'[l][i] = waiters[l][o] /\ waiters[l][o] # f
    BY <1>12, ZenonT(30)
  <2>2. fut[waiters[l][o]] \in {"pending", "cancelled"} BY <2>1 DEF QueuedNotDone
  <2>3. fut'[waiters[l][o]] = fut[waiters[l][o]] BY <2>1, <1>3, <1>5
  <2> QED BY <2>1, <2>2, <2>3
<1>14. QueuedOnce'
  <2> SUFFICES ASSUME NEW l \in Keys, NEW m \in Keys,
                      NEW i \in DOMAIN waiters'[l], NEW j \in DOMAIN waiters'[m],
                      waiters'[l][i] = waiters'[m][j]
               PROVE  l = m /\ i = j
    BY DEF QueuedOnce
  <2> DEFINE oi == IF l = k THEN i + 1 ELSE i
             oj == IF m = k THEN j + 1 ELSE j
  <2>1. /\ oi \in DOMAIN waiters[l] /\ waiters'[l][i] = waiters[l][oi]
        /\ oj \in DOMAIN waiters[m] /\ waiters'[m][j] = waiters[m][oj]
    BY <1>12
  <2>2. i \in Nat /\ j \in Nat BY <1>7
  <2>3. l = m /\ oi = oj
    <3>1. QueuedOnce OBVIOUS
    <3>2. waiters[l][oi] = waiters[m][oj] BY <2>1
    <3> HIDE DEF IInv, TypeOK, oi, oj
    <3> QED BY <2>1, <3>1, <3>2 DEF QueuedOnce
  <2> QED BY <2>2, <2>3
<1>15. PendingQueued'
  <2> SUFFICES ASSUME NEW d \in Calls, fut'[d] = "pending"
               PROVE  \E l \in Keys : \E i \in DOMAIN waiters'[l] : waiters'[l][i] = d
    BY DEF PendingQueued, InDeque
  <2>1. d # f /\ fut[d] = "pending" BY <1>3, <1>5
  <2>2. PICK l \in Keys : \E i \in DOMAIN waiters[l] : waiters[l][i] = d
    BY <2>1 DEF PendingQueued, InDeque
  <2>3. PICK i \in DOMAIN waiters[l] : waiters[l][i] = d
    BY <2>2
  <2>4. CASE l # k BY <2>3, <2>4, <1>6
  <2>5. CASE l = k
    <3>1. i # 1 BY <2>1, <2>3, <2>5, <1>3, <1>6
    <3>2. i - 1 \in DOMAIN waiters'[l] /\ waiters'[l][i - 1] = d
      BY <3>1, <2>3, <2>5, <1>3, <1>6
    <3> QED BY <3>2
  <2> QED BY <2>4, <2>5
<1>16. RotationExact'
  <2>1. /\ Tail(order) \in Seq(Keys)
        /\ \A i \in DOMAIN Tail(order) :
             i + 1 \in DOMAIN order /\ Tail(order)[i] = order[i + 1] /\ i \in Nat
        /\ \A i \in DOMAIN order :
             i # 1 => i - 1 \in DOMAIN Tail(order) /\ order[i] = Tail(order)[i - 1]
    BY <1>1, TailFacts
  <2>2. /\ \A i, j \in DOMAIN Tail(order) : Tail(order)[i] = Tail(order)[j] => i = j
        /\ \A i \in DOMAIN Tail(order) : Tail(order)[i] # k
    BY <1>1, <2>1 DEF RotationExact
  <2>3. ASSUME NEW l \in Keys, l # k
        PROVE  waiters'[l] # <<>> <=> \E i \in DOMAIN Tail(order) : Tail(order)[i] = l
    <3>1. waiters[l] # <<>> <=> \E i \in DOMAIN order : order[i] = l
      BY DEF RotationExact
    <3>2. (\E i \in DOMAIN order : order[i] = l)
            <=> (\E i \in DOMAIN Tail(order) : Tail(order)[i] = l)
      <4>1. ASSUME NEW i \in DOMAIN order, order[i] = l
            PROVE  \E j \in DOMAIN Tail(order) : Tail(order)[j] = l
        <5>1. i # 1 BY <4>1, <1>1, <2>3
        <5>2. i - 1 \in DOMAIN Tail(order) /\ Tail(order)[i - 1] = l BY <4>1, <5>1, <2>1
        <5> QED BY <5>2
      <4>2. ASSUME NEW j \in DOMAIN Tail(order), Tail(order)[j] = l
            PROVE  \E i \in DOMAIN order : order[i] = l
        BY <4>2, <2>1
      <4> QED BY <4>1, <4>2
    <3> QED BY <2>3, <1>6, <3>1, <3>2
  <2>4. CASE Tail(q) = <<>>
    <3>1. order' = Tail(order) BY <1>4, <2>4
    <3>2. ASSUME NEW l \in Keys
          PROVE  waiters'[l] # <<>> <=> \E i \in DOMAIN order' : order'[i] = l
      <4>1. CASE l = k BY <4>1, <3>1, <2>2, <2>4, <1>6
      <4>2. CASE l # k BY <4>2, <3>1, <2>3
      <4> QED BY <4>1, <4>2
    <3> QED BY <2>2, <3>1, <3>2 DEF RotationExact
  <2>5. CASE Tail(q) # <<>>
    <3>1. order' = Append(Tail(order), k) BY <1>4, <2>5
    <3> DEFINE t == Tail(order)
    <3>2. /\ Len(t) + 1 \in DOMAIN order' /\ order'[Len(t) + 1] = k
          /\ \A i \in DOMAIN t : i \in DOMAIN order' /\ order'[i] = t[i]
          /\ \A i \in DOMAIN order' :
               \/ i \in DOMAIN t /\ order'[i] = t[i]
               \/ i = Len(t) + 1 /\ i \notin DOMAIN t
      BY <3>1, <2>1, <1>1, AppendFacts
    <3> HIDE DEF t
    <3>3. \A i, j \in DOMAIN order' : order'[i] = order'[j] => i = j
      BY <3>2, <2>2 DEF t
    <3>4. ASSUME NEW l \in Keys
          PROVE  waiters'[l] # <<>> <=> \E i \in DOMAIN order' : order'[i] = l
      <4>1. CASE l = k BY <4>1, <3>2, <2>5, <1>6
      <4>2. CASE l # k
        <5>1. (\E i \in DOMAIN t : t[i] = l) <=> (\E i \in DOMAIN order' : order'[i] = l)
          BY <4>2, <3>2
        <5> QED BY <4>2, <5>1, <2>3 DEF t
      <4> QED BY <4>1, <4>2
    <3> QED BY <3>3, <3>4 DEF RotationExact
  <2> QED BY <2>4, <2>5
<1> QED BY <1>7, <1>8, <1>10, <1>11, <1>13, <1>14, <1>15, <1>16

-----------------------------------------------------------------------------

(* Every step preserves the invariant. *)
LEMMA NextIInv == IInv /\ [Next]_vars => IInv'
<1> SUFFICES ASSUME IInv, [Next]_vars PROVE IInv'
  OBVIOUS
<1>1. ASSUME NEW c \in Calls, NEW k \in Keys, Acquire(c, k) PROVE IInv'
  BY <1>1, TakeFreeIInv, EnqueueIInv DEF Acquire
<1>2. ASSUME NEW c \in Calls,
             Cancel(c) \/ Resume(c) \/ Unwind(c) \/ Release(c) \/ HandOver(c) \/ Free(c)
      PROVE  IInv'
  BY <1>2, CancelIInv, ResumeIInv, UnwindIInv, ReleaseIInv, HandOverIInv, FreeIInv
<1>3. CASE UNCHANGED vars
  BY <1>3
  DEF vars, IInv, TypeOK, OneLoop, StatesAgree, QueuedNotDone, QueuedOnce, PendingQueued,
      InDeque, RotationExact, SlotsConserved, NoRotationWhileFree, Granted
<1> QED BY <1>1, <1>2, <1>3 DEF Next

(* The inductive invariant holds in every reachable state. *)
THEOREM Invariance == Spec => []IInv
BY InitIInv, NextIInv, PTL DEF Spec

(* The variables of the gate keep their types.                             *)
THEOREM TypeCorrect == Spec => []TypeOK
<1>1. IInv => TypeOK BY DEF IInv
<1> QED BY <1>1, Invariance, PTL

(* acquire(), cancellation and release() lose no slot and invent none, and *)
(* never more than Slots calls own one, for any number of users and slots. *)
THEOREM SlotSafety == Spec => []SlotsConserved
<1>1. IInv => SlotsConserved BY DEF IInv
<1> QED BY <1>1, Invariance, PTL

(* release() always finds every waiting user in the rotation, exactly once.*)
THEOREM RotationSafety == Spec => []RotationExact
<1>1. IInv => RotationExact BY DEF IInv
<1> QED BY <1>1, Invariance, PTL

(* No worker waits while a slot is free: release() loses no wake-up.       *)
THEOREM NoLostWakeup == Spec => []NoWaiterWhileFree
<1>1. IInv => NoWaiterWhileFree
  BY EmptyRotation DEF IInv, NoRotationWhileFree, NoWaiterWhileFree
<1> QED BY <1>1, Invariance, PTL

-----------------------------------------------------------------------------
(* FairAdmission implements the pool of slots. *)

(* Refinement: the initial states map to initial states of the pool. *)
LEMMA InitPool == Init => Pool!Init
BY DEF Init, Pool!Init, Granted, Pending

(* A step that moves no call in or out of either set is a stutter.         *)
LEMMA PoolStutter ==
  ASSUME Granted' = Granted, Pending' = Pending
  PROVE  [Pool!Next]_(Pool!vars)
BY DEF Pool!vars

(* The pool counts as the gate does. *)
LEMMA SameCardinality == \A S : Pool!Cardinality(S) = Cardinality(S)
BY DEF Cardinality, Pool!Cardinality

(* Refinement: acquire() enters the pool or waits for it. *)
LEMMA AcquirePool ==
  ASSUME IInv, NEW c \in Calls, NEW k \in Keys, Acquire(c, k)
  PROVE  [Pool!Next]_(Pool!vars)
<1> USE DEF IInv, TypeOK
<1>1. c \notin Granted \cup Pending BY DEF Acquire, Granted, Pending, StatesAgree
<1>2. CASE TakeFree(c)
  <2>1. Granted' = Granted \cup {c} BY <1>2 DEF TakeFree, Granted, Acquire
  <2>2. Pending' = Pending BY <1>1, <1>2 DEF TakeFree, Pending
  <2>3. Pending = {} BY <1>2, EmptyRotation DEF TakeFree, NoRotationWhileFree
  <2>4. Cardinality(Granted) < Slots BY <1>2 DEF TakeFree, SlotsConserved
  <2>5. Pool!Enter(c) BY <1>1, <2>1, <2>2, <2>3, <2>4, SameCardinality DEF Pool!Enter
  <2> QED BY <2>5 DEF Pool!Next
<1>3. CASE Enqueue(c, k)
  <2>1. Granted' = Granted BY <1>1, <1>3 DEF Enqueue, Granted, Acquire
  <2>2. Pending' = Pending \cup {c} BY <1>3 DEF Enqueue, Pending
  <2>3. Cardinality(Granted) = Slots
    BY <1>3, SlotsAssumption DEF Enqueue, SlotsConserved
  <2>4. Pool!Wait(c) BY <1>1, <2>1, <2>2, <2>3, SameCardinality DEF Pool!Wait
  <2> QED BY <2>4 DEF Pool!Next
<1> QED BY <1>2, <1>3 DEF Acquire

(* Refinement: cancelling a waiter abandons the wait, or is a stutter. *)
LEMMA CancelPool ==
  ASSUME IInv, NEW c \in Calls, Cancel(c)
  PROVE  [Pool!Next]_(Pool!vars)
<1> USE DEF IInv, TypeOK
<1>1. Granted' = Granted BY DEF Granted, Cancel
<1>2. CASE fut[c] = "pending"
  <2>1. c \in Pending /\ Pending' = Pending \ {c} BY <1>2 DEF Pending, Cancel
  <2> QED BY <1>1, <2>1 DEF Pool!Next, Pool!Abandon
<1>3. CASE fut[c] # "pending"
  <2>1. Pending' = Pending BY <1>3 DEF Pending, Cancel
  <2> QED BY <1>1, <2>1, PoolStutter
<1> QED BY <1>2, <1>3

(* Refinement: a pass of release() hands over a slot, or is a stutter. *)
LEMMA HandOverPool ==
  ASSUME IInv, NEW c \in Calls, HandOver(c)
  PROVE  [Pool!Next]_(Pool!vars)
<1> USE DEF IInv, TypeOK
<1> DEFINE k == Head(order)
           q == waiters[k]
           f == Head(q)
<1>1. k \in Keys /\ 1 \in DOMAIN order /\ k = order[1]
  BY TailFacts DEF HandOver
<1>2. q \in Seq(Calls) /\ q # <<>> BY <1>1 DEF RotationExact
<1>3. f \in Calls BY <1>2, TailFacts
<1>4. \/ /\ fut[f] = "pending"
         /\ fut' = [fut EXCEPT ![f] = "result"]
         /\ pc' = [pc EXCEPT ![c] = "idle"]
      \/ fut' = fut /\ pc' = pc
  BY <1>2 DEF HandOver
<1>5. pc[c] = "releasing" BY DEF HandOver
<1> HIDE DEF k, q, f
<1>6. CASE fut' = fut /\ pc' = pc
  BY <1>6, PoolStutter DEF Granted, Pending
<1>7. CASE /\ fut[f] = "pending"
           /\ fut' = [fut EXCEPT ![f] = "result"]
           /\ pc' = [pc EXCEPT ![c] = "idle"]
  <2>1. c \in Granted /\ f \in Pending BY <1>3, <1>5, <1>7 DEF Granted, Pending
  <2>2. Granted' = (Granted \ {c}) \cup {f}
    BY <1>3, <1>5, <1>7 DEF Granted, StatesAgree
  <2>3. Pending' = Pending \ {f} BY <1>3, <1>7 DEF Pending
  <2>4. Pool!Pass(c, f) BY <2>1, <2>2, <2>3 DEF Pool!Pass
  <2> QED BY <1>3, <2>4 DEF Pool!Next
<1> QED BY <1>4, <1>6, <1>7

(* Refinement: the last pass of release() leaves the pool. *)
LEMMA FreePool ==
  ASSUME IInv, NEW c \in Calls, Free(c)
  PROVE  [Pool!Next]_(Pool!vars)
<1> USE DEF IInv, TypeOK
<1>1. c \in Granted /\ Granted' = Granted \ {c} BY DEF Granted, Free, StatesAgree
<1>2. Pending = {} /\ Pending' = Pending BY EmptyRotation DEF Free, Pending
<1>3. Pool!Leave(c) BY <1>1, <1>2 DEF Pool!Leave
<1> QED BY <1>3 DEF Pool!Next

(* The gate implements the pool: every step of the queues, the futures and *)
(* the loop of release() is a step of the pool or leaves it unchanged.     *)
THEOREM Refinement == Spec => PoolSpec
<1>1. IInv /\ [Next]_vars => [Pool!Next]_(Pool!vars)
  <2> SUFFICES ASSUME IInv, [Next]_vars PROVE [Pool!Next]_(Pool!vars)
    OBVIOUS
  <2> USE DEF IInv, TypeOK
  <2>1. ASSUME NEW c \in Calls, NEW k \in Keys, Acquire(c, k)
        PROVE  [Pool!Next]_(Pool!vars)
    BY <2>1, AcquirePool
  <2>2. ASSUME NEW c \in Calls, Resume(c) \/ Unwind(c) \/ Release(c)
        PROVE  [Pool!Next]_(Pool!vars)
    <3>1. CASE Resume(c) BY <3>1, PoolStutter DEF Resume, Granted, Pending
    <3>2. CASE Unwind(c) BY <3>2, PoolStutter DEF Unwind, Granted, Pending
    <3>3. CASE Release(c) BY <3>3, PoolStutter DEF Release, Granted, Pending
    <3> QED BY <2>2, <3>1, <3>2, <3>3
  <2>3. ASSUME NEW c \in Calls, Cancel(c) \/ HandOver(c) \/ Free(c)
        PROVE  [Pool!Next]_(Pool!vars)
    BY <2>3, CancelPool, HandOverPool, FreePool
  <2>4. CASE UNCHANGED vars
    BY <2>4, PoolStutter DEF vars, Granted, Pending
  <2> QED BY <2>1, <2>2, <2>3, <2>4 DEF Next
<1> QED BY <1>1, InitPool, Invariance, PTL DEF Spec, PoolSpec, Pool!Spec

-----------------------------------------------------------------------------
(* Round-robin.  A user who waits can be passed over once by each user who *)
(* is ahead in the rotation: whoever is served leaves it or goes to its    *)
(* end, and newcomers join behind.                                         *)

BypassInv ==
  /\ bypass \in [Keys -> Nat]
  /\ \A k \in Keys : ~Waits(k) => bypass[k] = 0
  /\ \A i \in DOMAIN order : bypass[order[i]] + i <= Cardinality(Keys)

(* A rotation that names nobody twice is no longer than there are users. *)
LEMMA RotationBounded ==
  ASSUME NEW o \in Seq(Keys), \A i, j \in DOMAIN o : o[i] = o[j] => i = j
  PROVE  /\ Cardinality(Keys) \in Nat
         /\ \A i \in DOMAIN o : i \in Nat /\ i >= 1 /\ i <= Cardinality(Keys)
<1>1. Cardinality(Keys) \in Nat BY KeysAssumption, FS_CardinalityType
<1>2. /\ o \in [1..Len(o) -> Keys] /\ Len(o) \in Nat /\ DOMAIN o = 1..Len(o)
      /\ \A i, j \in 1..Len(o) : o[i] = o[j] => i = j
  OBVIOUS
<1>3. o \in Injection(1..Len(o), Keys) BY <1>2 DEF Injection, IsInjective
<1>4. Cardinality(1..Len(o)) <= Cardinality(Keys) BY <1>3, KeysAssumption, FS_Injection
<1>5. Cardinality(1..Len(o)) = Len(o)
  <2>1. 1 \in Int /\ Len(o) \in Int BY <1>2
  <2>2. Cardinality(1..Len(o)) = IF 1 > Len(o) THEN 0 ELSE Len(o) - 1 + 1
    BY <2>1, FS_Interval
  <2> QED BY <1>2, <2>2
<1> QED BY <1>1, <1>2, <1>4, <1>5

(* Nobody waits and nobody was passed over. *)
LEMMA InitBypass == MCInit => BypassInv
BY DEF MCInit, Init, BypassInv

(* A step passes over each user at most once, and whoever does not wait or *)
(* was served not at all.                                                  *)
LEMMA Counts ==
  ASSUME BypassInv, MCNext
  PROVE  /\ bypass' \in [Keys -> Nat]
         /\ \A k \in Keys :
              /\ bypass[k] \in Nat
              /\ bypass'[k] \in {0, bypass[k], bypass[k] + 1}
              /\ ~Waits(k)' \/ HadItsTurn(k) => bypass'[k] = 0
              /\ Granted' \subseteq Granted => bypass'[k] \in {0, bypass[k]}
<1>1. bypass \in [Keys -> Nat] /\ DOMAIN bypass' = Keys
      /\ \A k \in Keys : bypass'[k] =
           IF ~Waits(k)' \/ HadItsTurn(k) THEN 0
           ELSE IF Granted' \subseteq Granted \/ bypass[k] = Cardinality(Keys) THEN bypass[k]
           ELSE bypass[k] + 1
  BY DEF BypassInv, MCNext
<1>2. bypass' = [k \in Keys |-> bypass'[k]] BY DEF MCNext
<1>3. \A k \in Keys : bypass'[k] \in {0, bypass[k], bypass[k] + 1} /\ bypass[k] \in Nat BY <1>1
<1>4. \A k \in Keys : bypass'[k] \in Nat BY <1>3
<1>5. bypass' \in [Keys -> Nat] BY <1>2, <1>4
<1> QED BY <1>1, <1>3, <1>5

(* Steps that leave the rotation alone hand over no slot, or it is empty.  *)
LEMMA QuietBypass ==
  ASSUME IInv, BypassInv, MCNext, order' = order, Granted' \subseteq Granted \/ order = <<>>
  PROVE  BypassInv'
<1>1. CASE Granted' \subseteq Granted
  <2>1. \A i \in DOMAIN order : order[i] \in Keys /\ i \in Nat /\ i >= 1 /\ i <= Cardinality(Keys)
    <3>1. order \in Seq(Keys) /\ \A i, j \in DOMAIN order : order[i] = order[j] => i = j
      BY DEF IInv, TypeOK, RotationExact
    <3>2. \A i \in DOMAIN order : order[i] \in Keys BY <3>1
    <3> QED BY <3>1, <3>2, RotationBounded
  <2>2. \A i \in DOMAIN order : bypass'[order[i]] + i <= Cardinality(Keys)
    <3> SUFFICES ASSUME NEW i \in DOMAIN order PROVE bypass'[order[i]] + i <= Cardinality(Keys)
      OBVIOUS
    <3>1. bypass'[order[i]] \in {0, bypass[order[i]]} /\ bypass[order[i]] \in Nat
      BY <1>1, <2>1, Counts
    <3>2. bypass[order[i]] + i <= Cardinality(Keys) BY DEF BypassInv
    <3> QED BY <2>1, <3>1, <3>2
  <2> QED BY <2>2, Counts DEF BypassInv
<1>2. CASE order = <<>>
  <2>1. DOMAIN order' = {} BY <1>2
  <2> QED BY <2>1, Counts DEF BypassInv
<1> QED BY <1>1, <1>2

(* A user who joins has not been passed over. *)
LEMMA EnqueueBypass ==
  ASSUME IInv, IInv', BypassInv, MCNext, NEW c \in Calls, NEW k \in Keys,
         pc[c] = "idle", Enqueue(c, k)
  PROVE  BypassInv'
<1>1. /\ order \in Seq(Keys) /\ waiters[k] \in Seq(Calls)
      /\ waiters' = [waiters EXCEPT ![k] = Append(@, c)] /\ waiters \in [Keys -> Seq(Calls)]
  BY DEF IInv, TypeOK, Enqueue
<1>2. Granted' \subseteq Granted
  BY DEF Granted, Enqueue, IInv, TypeOK, StatesAgree
<1>3. order' = IF waiters[k] = <<>> THEN Append(order, k) ELSE order
  BY <1>1 DEF Enqueue
<1>4. CASE order' = order BY <1>2, <1>4, QuietBypass
<1>5. CASE waiters[k] = <<>> /\ order' = Append(order, k)
  <2>1. ~Waits(k) BY <1>5 DEF IInv, RotationExact, Waits
  <2>2. /\ \A i \in DOMAIN order' : i \in Nat /\ i >= 1 /\ i <= Cardinality(Keys)
        /\ Cardinality(Keys) \in Nat
    <3>1. order' \in Seq(Keys) /\ \A i, j \in DOMAIN order' : order'[i] = order'[j] => i = j
      BY DEF IInv, TypeOK, RotationExact
    <3> QED BY <3>1, RotationBounded
  <2>3. \A i \in DOMAIN order' :
          \/ i \in DOMAIN order /\ order'[i] = order[i] /\ order[i] \in Keys
          \/ order'[i] = k
    BY <1>1, <1>5, AppendFacts
  <2>4. ASSUME NEW i \in DOMAIN order' PROVE bypass'[order'[i]] + i <= Cardinality(Keys)
    <3>1. CASE order'[i] = k
      <4>1. bypass'[k] = 0 BY <1>2, <2>1, Counts DEF BypassInv
      <4> QED BY <2>2, <3>1, <4>1
    <3>2. CASE i \in DOMAIN order /\ order'[i] = order[i] /\ order[i] \in Keys
      <4>1. bypass'[order[i]] \in {0, bypass[order[i]]} BY <1>2, <3>2, Counts
      <4>2. bypass[order[i]] + i <= Cardinality(Keys) BY <3>2 DEF BypassInv
      <4> QED BY <2>2, <3>2, <4>1, <4>2
    <3> QED BY <2>3, <3>1, <3>2
  <2> QED BY <2>4, Counts DEF BypassInv
<1> QED BY <1>3, <1>4, <1>5

(* Who is served goes to the end; the others move up. *)
LEMMA HandOverBypass ==
  ASSUME IInv, IInv', BypassInv, MCNext, NEW c \in Calls, HandOver(c)
  PROVE  BypassInv'
<1> DEFINE k == Head(order)
<1>1. /\ order \in Seq(Keys) /\ order # <<>> /\ k = order[1] /\ k \in Keys /\ 1 \in DOMAIN order
      /\ Tail(order) \in Seq(Keys) /\ waiters \in [Keys -> Seq(Calls)]
      /\ \A i \in DOMAIN Tail(order) : i + 1 \in DOMAIN order /\ Tail(order)[i] = order[i + 1] /\ i \in Nat
  BY TailFacts DEF HandOver, IInv, TypeOK
<1>2. Waits(k) /\ waiters[k] # <<>> BY <1>1 DEF Waits, IInv, RotationExact
<1>3. /\ waiters' = [waiters EXCEPT ![k] = Tail(waiters[k])]
      /\ order' = Tail(order) \/ order' = Append(Tail(order), k)
  BY <1>2 DEF HandOver
<1> HIDE DEF k
<1>4. HadItsTurn(k)
  <2>1. waiters'[k] = Tail(waiters[k]) /\ waiters[k] \in Seq(Calls) BY <1>1, <1>3
  <2>2. Len(Tail(waiters[k])) < Len(waiters[k]) BY <1>2, <2>1
  <2> QED BY <1>2, <2>1, <2>2 DEF HadItsTurn
<1>5. bypass'[k] = 0 BY <1>1, <1>4, Counts
<1>6. \A i \in DOMAIN order' :
        \/ order'[i] = k
        \/ i \in Nat /\ i + 1 \in DOMAIN order /\ order'[i] = order[i + 1]
  <2>1. CASE order' = Tail(order) BY <1>1, <2>1
  <2>2. CASE order' = Append(Tail(order), k)
    <3>1. \A i \in DOMAIN order' :
            (i \in DOMAIN Tail(order) /\ order'[i] = Tail(order)[i]) \/ i = Len(Tail(order)) + 1
      BY <1>1, <2>2, AppendFacts
    <3>2. order'[Len(Tail(order)) + 1] = k BY <1>1, <2>2, AppendFacts
    <3> QED BY <1>1, <3>1, <3>2
  <2> QED BY <1>3, <2>1, <2>2
<1>7. /\ \A i \in DOMAIN order' : i \in Nat /\ i >= 1 /\ i <= Cardinality(Keys)
      /\ Cardinality(Keys) \in Nat
  <2>1. order' \in Seq(Keys) /\ \A i, j \in DOMAIN order' : order'[i] = order'[j] => i = j
    BY DEF IInv, TypeOK, RotationExact
  <2> QED BY <2>1, RotationBounded
<1>8. ASSUME NEW i \in DOMAIN order' PROVE bypass'[order'[i]] + i <= Cardinality(Keys)
  <2>1. CASE order'[i] = k BY <1>5, <1>7, <2>1
  <2>2. CASE i \in Nat /\ i + 1 \in DOMAIN order /\ order'[i] = order[i + 1]
    <3>1. order[i + 1] \in Keys BY <1>1, <2>2
    <3>2. /\ bypass'[order[i + 1]] \in {0, bypass[order[i + 1]], bypass[order[i + 1]] + 1}
          /\ bypass[order[i + 1]] \in Nat
      BY <3>1, Counts
    <3>3. bypass[order[i + 1]] + (i + 1) <= Cardinality(Keys) BY <2>2 DEF BypassInv
    <3> QED BY <1>7, <2>2, <3>2, <3>3
  <2> QED BY <1>6, <2>1, <2>2
<1> QED BY <1>8, Counts DEF BypassInv

(* Every step of the gate. *)
LEMMA NextBypass == IInv /\ IInv' /\ BypassInv /\ [MCNext]_mcvars => BypassInv'
<1> SUFFICES ASSUME IInv, IInv', BypassInv, [MCNext]_mcvars PROVE BypassInv'
  OBVIOUS
<1>1. CASE UNCHANGED mcvars BY <1>1 DEF mcvars, vars, BypassInv, Waits
<1>2. CASE MCNext
  <2>1. PICK c \in Calls : \/ \E k \in Keys : Acquire(c, k)
                         \/ Cancel(c) \/ Resume(c) \/ Unwind(c) \/ Release(c) \/ HandOver(c)
                         \/ Free(c)
    BY <1>2 DEF MCNext, Next
  <2>2. ASSUME NEW k \in Keys, Acquire(c, k) PROVE BypassInv'
    <3>1. CASE TakeFree(c)
      <4>1. order = <<>> /\ order' = order
        BY <3>1, SlotsAssumption DEF TakeFree, IInv, NoRotationWhileFree
      <4> QED BY <1>2, <4>1, QuietBypass
    <3>2. CASE Enqueue(c, k) BY <1>2, <2>2, <3>2, EnqueueBypass DEF Acquire
    <3> QED BY <2>2, <3>1, <3>2 DEF Acquire
  <2>3. CASE Cancel(c) \/ Resume(c) \/ Unwind(c) \/ Release(c) \/ Free(c)
    <3>1. order' = order BY <2>3 DEF Cancel, Resume, Unwind, Release, Free
    <3>2. Granted' \subseteq Granted
      <4>1. CASE Cancel(c) BY <4>1 DEF Granted, Cancel, IInv, TypeOK
      <4>2. CASE Resume(c) BY <4>2 DEF Granted, Resume, IInv, TypeOK
      <4>3. CASE Unwind(c) BY <4>3 DEF Granted, Unwind, IInv, TypeOK
      <4>4. CASE Release(c) BY <4>4 DEF Granted, Release, IInv, TypeOK
      <4>5. CASE Free(c) BY <4>5 DEF Granted, Free, IInv, TypeOK
      <4> QED BY <2>3, <4>1, <4>2, <4>3, <4>4, <4>5
    <3> QED BY <1>2, <3>1, <3>2, QuietBypass
  <2>4. CASE HandOver(c) BY <1>2, <2>4, HandOverBypass
  <2> QED BY <2>1, <2>2, <2>3, <2>4
<1> QED BY <1>1, <1>2

(* "Round-robin per user stops burst starvation": between two visits of    *)
(* release() to a user who waits, every other user gets at most one slot,  *)
(* for any number of users, calls and slots.                               *)
THEOREM NobodyStarved == MCSpec => []BypassBounded
<1>1. MCInit => IInv /\ BypassInv BY InitIInv, InitBypass DEF MCInit
<1>2. (IInv /\ BypassInv) /\ [MCNext]_mcvars => (IInv /\ BypassInv)'
  <2>1. [MCNext]_mcvars => [Next]_vars BY DEF MCNext, mcvars
  <2> QED BY <2>1, NextIInv, NextBypass
<1>3. IInv /\ BypassInv => BypassBounded
  <2> SUFFICES ASSUME IInv, BypassInv, NEW k \in Keys PROVE bypass[k] < Cardinality(Keys)
    BY DEF BypassBounded
  <2>1. CASE Waits(k)
    <3>1. PICK i \in DOMAIN order : order[i] = k BY <2>1 DEF Waits
    <3>2. bypass[k] + i <= Cardinality(Keys) /\ bypass[k] \in Nat BY <3>1 DEF BypassInv
    <3>3. order \in Seq(Keys) /\ \A m, n \in DOMAIN order : order[m] = order[n] => m = n
      BY DEF IInv, TypeOK, RotationExact
    <3>4. i \in Nat /\ i >= 1 /\ Cardinality(Keys) \in Nat BY <3>3, RotationBounded
    <3> QED BY <3>2, <3>4
  <2>2. CASE ~Waits(k)
    <3>1. Cardinality(Keys) \in Nat /\ Cardinality(Keys) # 0
      BY KeysAssumption, FS_CardinalityType, FS_EmptySet
    <3> QED BY <2>2, <3>1 DEF BypassInv
  <2> QED BY <2>1, <2>2
<1> QED BY <1>1, <1>2, <1>3, PTL DEF MCSpec

=============================================================================
