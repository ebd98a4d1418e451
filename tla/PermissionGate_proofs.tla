------------------------ MODULE PermissionGate_proofs ------------------------
(***************************************************************************)
(* What PermissionGate checks on two requests, proved for any number of    *)
(* requests, sessions and calls of cancel_thread.  From "Shell" on, what   *)
(* MCShell checks on three messages and a press, proved for any number of  *)
(* messages, presses and calls of /shell.                                  *)
(***************************************************************************)
EXTENDS PermissionGate, MCShell, TLAPS

Waiting(r) == pc[r] \in {"send", "wait"} /\ fut[r] = "pending"

(* A request that has not asked has left no trace. *)
AskedFirst ==
  \A r \in Requests : pc[r] = "idle" =>
    /\ fut[r] = "none" /\ edit[r] = "none" /\ shown[r] = "none"
    /\ r \notin threads /\ r \notin messages /\ r \notin forget
    /\ \A c \in Cancels : r \notin caught[c]

(* Until send_message() returns nobody knows which message to edit, and    *)
(* nobody ever does if it fails or is cancelled.                           *)
UneditedWhileSent ==
  \A r \in Requests : pc[r] = "send" \/ (pc[r] = "done" /\ fut[r] = "pending") =>
    r \notin messages /\ edit[r] = "none" /\ shown[r] \in {"none", "live"}

(* A wait that ended without a decision has cancelled its future. *)
EndedCancelled ==
  \A r \in Requests :
    pc[r] \in {"timeout", "cancel", "timeout noted", "cancel noted"} => fut[r] = "cancelled"

OutcomeLast == \A r \in Requests : pc[r] # "done" => outcome[r] = "none"

(* A tap is answered as stale only when there was nothing to decide. *)
ForgetStale == \A r \in forget : ~Waiting(r)

(* What a note on the screen, or on its way there, says of its request. *)
NoteTrue(r, note) ==
  /\ note = "allowed" => fut[r] = "allow" /\ pc[r] \in {"wait", "done"} /\ outcome[r] \in {"none", "allow"}
  /\ note = "denied" => fut[r] = "deny" /\ pc[r] \in {"wait", "done"} /\ outcome[r] \in {"none", "deny"}
  /\ note = "timed out" => pc[r] \in {"timeout noted", "done"} /\ outcome[r] \in {"none", "deny"}

NotesTrue == \A r \in Requests : NoteTrue(r, shown[r]) /\ NoteTrue(r, edit[r])

(* What cancel_thread() has gone through waits no more. *)
SweptDecided ==
  \A c \in Cancels :
    /\ cpc[c] = "done" => todo[c] = {}
    /\ \A r \in caught[c] : r \notin todo[c] => ~Waiting(r)

IInv ==
  /\ TypeOK
  /\ WaitingIsReachable
  /\ AskedFirst
  /\ UneditedWhileSent
  /\ EndedCancelled
  /\ OutcomeLast
  /\ ForgetStale
  /\ NotesTrue
  /\ SweptDecided

USE DEF IInv, TypeOK, Notes, Waiting, futVars, screenVars, cancelVars, Goto, Settle, Unlist

-----------------------------------------------------------------------------

(* A gate that was never asked satisfies the invariant. *)
LEMMA InitIInv == Init => IInv
BY DEF Init, WaitingIsReachable, AskedFirst, UneditedWhileSent, EndedCancelled, OutcomeLast,
       ForgetStale, NotesTrue, NoteTrue, SweptDecided

(* A request asks. *)
LEMMA AskIInv ==
  ASSUME IInv, NEW r \in Requests, Ask(r)
  PROVE  IInv'
<1>1. TypeOK' /\ WaitingIsReachable' BY DEF Ask, WaitingIsReachable, AskedFirst
<1>2. AskedFirst' /\ UneditedWhileSent' BY DEF Ask, AskedFirst, UneditedWhileSent
<1>3. EndedCancelled' /\ OutcomeLast' BY DEF Ask, AskedFirst, EndedCancelled, OutcomeLast
<1>4. ForgetStale' BY ZenonT(30) DEF Ask, ForgetStale, AskedFirst, WaitingIsReachable
<1>5. NotesTrue' BY ZenonT(30) DEF Ask, NotesTrue, NoteTrue, AskedFirst, UneditedWhileSent,
          EndedCancelled, OutcomeLast
<1>6. SweptDecided' BY ZenonT(30) DEF Ask, SweptDecided, AskedFirst, WaitingIsReachable
<1> QED BY <1>1, <1>2, <1>3, <1>4, <1>5, <1>6

(* Its message appears on the screen. *)
LEMMA DeliverIInv ==
  ASSUME IInv, NEW r \in Requests, Deliver(r)
  PROVE  IInv'
<1>1. TypeOK' /\ WaitingIsReachable' BY DEF Deliver, WaitingIsReachable, AskedFirst
<1>2. AskedFirst' /\ UneditedWhileSent' BY DEF Deliver, AskedFirst, UneditedWhileSent
<1>3. EndedCancelled' /\ OutcomeLast' BY DEF Deliver, AskedFirst, EndedCancelled,
          OutcomeLast
<1>4. ForgetStale' BY DEF Deliver, ForgetStale, AskedFirst, WaitingIsReachable
<1>5. NotesTrue' BY ZenonT(30) DEF Deliver, NotesTrue, NoteTrue, AskedFirst, UneditedWhileSent,
          EndedCancelled, OutcomeLast
<1>6. SweptDecided' BY DEF Deliver, SweptDecided, AskedFirst, WaitingIsReachable
<1> QED BY <1>1, <1>2, <1>3, <1>4, <1>5, <1>6

(* send_message() returns. *)
LEMMA SendReturnsIInv ==
  ASSUME IInv, NEW r \in Requests, SendReturns(r)
  PROVE  IInv'
<1>1. TypeOK' /\ WaitingIsReachable' BY DEF SendReturns, WaitingIsReachable, AskedFirst
<1>2. AskedFirst' /\ UneditedWhileSent' BY DEF SendReturns, AskedFirst, UneditedWhileSent
<1>3. EndedCancelled' /\ OutcomeLast' BY DEF SendReturns, AskedFirst, EndedCancelled,
          OutcomeLast
<1>4. ForgetStale' BY DEF SendReturns, ForgetStale, AskedFirst, WaitingIsReachable
<1>5. NotesTrue' BY ZenonT(30) DEF SendReturns, NotesTrue, NoteTrue, AskedFirst, UneditedWhileSent,
          EndedCancelled, OutcomeLast
<1>6. \A q \in Requests : Waiting(q)' => Waiting(q) BY DEF SendReturns
<1>7. SweptDecided' BY <1>6 DEF SendReturns, SweptDecided
<1> QED BY <1>1, <1>2, <1>3, <1>4, <1>5, <1>7

(* send_message() fails. *)
LEMMA SendFailsIInv ==
  ASSUME IInv, NEW r \in Requests, SendFails(r)
  PROVE  IInv'
<1>1. TypeOK' /\ WaitingIsReachable' BY DEF SendFails, WaitingIsReachable, AskedFirst
<1>2. AskedFirst' /\ UneditedWhileSent' BY DEF SendFails, AskedFirst, UneditedWhileSent
<1>3. EndedCancelled' /\ OutcomeLast' BY DEF SendFails, AskedFirst, EndedCancelled,
          OutcomeLast
<1>4. ForgetStale' BY DEF SendFails, ForgetStale, AskedFirst, WaitingIsReachable
<1>5. NotesTrue' BY ZenonT(30) DEF SendFails, NotesTrue, NoteTrue, AskedFirst, UneditedWhileSent,
          EndedCancelled, OutcomeLast
<1>6. SweptDecided' BY DEF SendFails, SweptDecided, AskedFirst, WaitingIsReachable
<1> QED BY <1>1, <1>2, <1>3, <1>4, <1>5, <1>6

(* The task is cancelled while it sends. *)
LEMMA SendCancelledIInv ==
  ASSUME IInv, NEW r \in Requests, SendCancelled(r)
  PROVE  IInv'
<1>1. TypeOK' /\ WaitingIsReachable' BY DEF SendCancelled, WaitingIsReachable, AskedFirst
<1>2. AskedFirst' /\ UneditedWhileSent' BY DEF SendCancelled, AskedFirst, UneditedWhileSent
<1>3. EndedCancelled' /\ OutcomeLast' BY DEF SendCancelled, AskedFirst, EndedCancelled,
          OutcomeLast
<1>4. ForgetStale' BY DEF SendCancelled, ForgetStale, AskedFirst, WaitingIsReachable
<1>5. NotesTrue' BY ZenonT(30) DEF SendCancelled, NotesTrue, NoteTrue, AskedFirst, UneditedWhileSent,
          EndedCancelled, OutcomeLast
<1>6. SweptDecided' BY DEF SendCancelled, SweptDecided, AskedFirst, WaitingIsReachable
<1> QED BY <1>1, <1>2, <1>3, <1>4, <1>5, <1>6

(* The wait returns a decision. *)
LEMMA AnsweredIInv ==
  ASSUME IInv, NEW r \in Requests, Answered(r)
  PROVE  IInv'
<1>1. TypeOK' /\ WaitingIsReachable' BY DEF Answered, WaitingIsReachable, AskedFirst
<1>2. AskedFirst' /\ UneditedWhileSent' BY DEF Answered, AskedFirst, UneditedWhileSent
<1>3. EndedCancelled' /\ OutcomeLast' BY DEF Answered, AskedFirst, EndedCancelled,
          OutcomeLast
<1>4. ForgetStale' BY DEF Answered, ForgetStale, AskedFirst, WaitingIsReachable
<1>5. NotesTrue' BY ZenonT(30) DEF Answered, NotesTrue, NoteTrue, AskedFirst, UneditedWhileSent,
          EndedCancelled, OutcomeLast
<1>6. SweptDecided' BY DEF Answered, SweptDecided, AskedFirst, WaitingIsReachable
<1> QED BY <1>1, <1>2, <1>3, <1>4, <1>5, <1>6

(* The wait times out. *)
LEMMA TimesOutIInv ==
  ASSUME IInv, NEW r \in Requests, TimesOut(r)
  PROVE  IInv'
<1>1. TypeOK' /\ WaitingIsReachable' BY DEF TimesOut, WaitEnds, WaitingIsReachable,
          AskedFirst
<1>2. AskedFirst' /\ UneditedWhileSent' BY DEF TimesOut, WaitEnds, AskedFirst,
          UneditedWhileSent
<1>3. EndedCancelled' /\ OutcomeLast' BY DEF TimesOut, WaitEnds, AskedFirst,
          EndedCancelled, OutcomeLast
<1>4. ForgetStale' BY DEF TimesOut, WaitEnds, ForgetStale, AskedFirst, WaitingIsReachable
<1>5. NotesTrue' BY ZenonT(30) DEF TimesOut, WaitEnds, NotesTrue, NoteTrue, AskedFirst,
          UneditedWhileSent, EndedCancelled, OutcomeLast
<1>6. SweptDecided' BY ZenonT(30) DEF TimesOut, WaitEnds, SweptDecided, AskedFirst, WaitingIsReachable
<1> QED BY <1>1, <1>2, <1>3, <1>4, <1>5, <1>6

(* The wait is cancelled. *)
LEMMA WaitCancelledIInv ==
  ASSUME IInv, NEW r \in Requests, WaitCancelled(r)
  PROVE  IInv'
<1>1. TypeOK' /\ WaitingIsReachable' BY DEF WaitCancelled, WaitEnds, WaitingIsReachable,
          AskedFirst
<1>2. AskedFirst' /\ UneditedWhileSent' BY DEF WaitCancelled, WaitEnds, AskedFirst,
          UneditedWhileSent
<1>3. EndedCancelled' /\ OutcomeLast' BY DEF WaitCancelled, WaitEnds, AskedFirst,
          EndedCancelled, OutcomeLast
<1>4. ForgetStale' BY DEF WaitCancelled, WaitEnds, ForgetStale, AskedFirst,
          WaitingIsReachable
<1>5. NotesTrue' BY ZenonT(30) DEF WaitCancelled, WaitEnds, NotesTrue, NoteTrue, AskedFirst,
          UneditedWhileSent, EndedCancelled, OutcomeLast
<1>6. SweptDecided' BY ZenonT(30) DEF WaitCancelled, WaitEnds, SweptDecided, AskedFirst,
          WaitingIsReachable
<1> QED BY <1>1, <1>2, <1>3, <1>4, <1>5, <1>6

(* The request expires, after a timeout or a cancellation. *)
LEMMA ExpireOwnIInv ==
  ASSUME IInv, NEW r \in Requests, ExpireOwn(r)
  PROVE  IInv'
<1>1. CASE pc[r] = "timeout"
  <2>1. /\ pc[r] = "timeout" /\ pc' = [pc EXCEPT ![r] = "timeout noted"]
        /\ edit' = IF r \in messages THEN [edit EXCEPT ![r] = "timed out"] ELSE edit
        /\ pending' = pending \ {r} /\ threads' = threads \ {r} /\ messages' = messages \ {r}
        /\ UNCHANGED <<key, fut, forget, shown, unedited, outcome, cancelVars>>
    BY <1>1 DEF ExpireOwn, Expire
  <2>2. TypeOK' BY <2>1
  <2>3. WaitingIsReachable' BY <2>1 DEF WaitingIsReachable
  <2>4. AskedFirst' BY <2>1 DEF AskedFirst
  <2>5. UneditedWhileSent' BY <2>1 DEF UneditedWhileSent, EndedCancelled
  <2>6. EndedCancelled' /\ OutcomeLast' BY <2>1 DEF AskedFirst, EndedCancelled, OutcomeLast
  <2>7. ForgetStale' BY <2>1 DEF ForgetStale, AskedFirst, WaitingIsReachable
  <2>8. NotesTrue' BY <2>1, ZenonT(30) DEF NotesTrue, NoteTrue, AskedFirst, UneditedWhileSent,
            EndedCancelled, OutcomeLast
  <2>9. SweptDecided' BY <2>1 DEF SweptDecided, AskedFirst, WaitingIsReachable
  <2> QED BY <2>2, <2>3, <2>4, <2>5, <2>6, <2>7, <2>8, <2>9
<1>2. CASE pc[r] = "cancel"
  <2>1. /\ pc[r] = "cancel" /\ pc' = [pc EXCEPT ![r] = "cancel noted"]
        /\ edit' = IF r \in messages THEN [edit EXCEPT ![r] = "cancelled"] ELSE edit
        /\ pending' = pending \ {r} /\ threads' = threads \ {r} /\ messages' = messages \ {r}
        /\ UNCHANGED <<key, fut, forget, shown, unedited, outcome, cancelVars>>
    BY <1>2 DEF ExpireOwn, Expire
  <2>2. TypeOK' BY <2>1
  <2>3. WaitingIsReachable' BY <2>1 DEF WaitingIsReachable
  <2>4. AskedFirst' BY <2>1 DEF AskedFirst
  <2>5. UneditedWhileSent' BY <2>1 DEF UneditedWhileSent, EndedCancelled
  <2>6. EndedCancelled' /\ OutcomeLast' BY <2>1 DEF AskedFirst, EndedCancelled, OutcomeLast
  <2>7. ForgetStale' BY <2>1 DEF ForgetStale, AskedFirst, WaitingIsReachable
  <2>8. NotesTrue' BY <2>1, ZenonT(30) DEF NotesTrue, NoteTrue, AskedFirst, UneditedWhileSent,
            EndedCancelled, OutcomeLast
  <2>9. SweptDecided' BY <2>1 DEF SweptDecided, AskedFirst, WaitingIsReachable
  <2> QED BY <2>2, <2>3, <2>4, <2>5, <2>6, <2>7, <2>8, <2>9
<1> QED BY <1>1, <1>2 DEF ExpireOwn

(* The expired request returns. *)
LEMMA ExpiredIInv ==
  ASSUME IInv, NEW r \in Requests, Expired(r)
  PROVE  IInv'
<1>1. CASE pc[r] = "timeout noted"
  <2>1. /\ pc[r] = "timeout noted" /\ pc' = [pc EXCEPT ![r] = "done"]
        /\ outcome' = [outcome EXCEPT ![r] = "deny"]
        /\ pending' = pending \ {r} /\ threads' = threads \ {r}
        /\ UNCHANGED <<key, fut, messages, forget, screenVars, cancelVars>>
    BY <1>1 DEF Expired
  <2>2. TypeOK' BY <2>1
  <2>3. WaitingIsReachable' BY <2>1 DEF WaitingIsReachable
  <2>4. AskedFirst' BY <2>1 DEF AskedFirst
  <2>5. UneditedWhileSent' BY <2>1 DEF UneditedWhileSent, EndedCancelled
  <2>6. EndedCancelled' /\ OutcomeLast' BY <2>1 DEF AskedFirst, EndedCancelled, OutcomeLast
  <2>7. ForgetStale' BY <2>1 DEF ForgetStale, AskedFirst, WaitingIsReachable
  <2>8. NotesTrue' BY <2>1, ZenonT(30) DEF NotesTrue, NoteTrue, AskedFirst, UneditedWhileSent,
            EndedCancelled, OutcomeLast
  <2>9. SweptDecided' BY <2>1 DEF SweptDecided, AskedFirst, WaitingIsReachable
  <2> QED BY <2>2, <2>3, <2>4, <2>5, <2>6, <2>7, <2>8, <2>9
<1>2. CASE pc[r] = "cancel noted"
  <2>1. /\ pc[r] = "cancel noted" /\ pc' = [pc EXCEPT ![r] = "done"]
        /\ outcome' = [outcome EXCEPT ![r] = "raised"]
        /\ pending' = pending \ {r} /\ threads' = threads \ {r}
        /\ UNCHANGED <<key, fut, messages, forget, screenVars, cancelVars>>
    BY <1>2 DEF Expired
  <2>2. TypeOK' BY <2>1
  <2>3. WaitingIsReachable' BY <2>1 DEF WaitingIsReachable
  <2>4. AskedFirst' BY <2>1 DEF AskedFirst
  <2>5. UneditedWhileSent' BY <2>1 DEF UneditedWhileSent, EndedCancelled
  <2>6. EndedCancelled' /\ OutcomeLast' BY <2>1 DEF AskedFirst, EndedCancelled, OutcomeLast
  <2>7. ForgetStale' BY <2>1 DEF ForgetStale, AskedFirst, WaitingIsReachable
  <2>8. NotesTrue' BY <2>1, ZenonT(30) DEF NotesTrue, NoteTrue, AskedFirst, UneditedWhileSent,
            EndedCancelled, OutcomeLast
  <2>9. SweptDecided' BY <2>1 DEF SweptDecided, AskedFirst, WaitingIsReachable
  <2> QED BY <2>2, <2>3, <2>4, <2>5, <2>6, <2>7, <2>8, <2>9
<1> QED BY <1>1, <1>2 DEF Expired

(* Telegram has applied or refused an edit. *)
LEMMA EditEndsIInv ==
  ASSUME IInv, NEW r \in Requests, EditEnds(r)
  PROVE  IInv'
<1>1. CASE shown' = [shown EXCEPT ![r] = edit[r]] /\ UNCHANGED unedited
  <2>1. TypeOK' /\ WaitingIsReachable' BY <1>1 DEF EditEnds, WaitingIsReachable, AskedFirst
  <2>2. AskedFirst' /\ UneditedWhileSent' BY <1>1 DEF EditEnds, AskedFirst, UneditedWhileSent
  <2>3. EndedCancelled' /\ OutcomeLast' BY <1>1 DEF EditEnds, AskedFirst, EndedCancelled,
            OutcomeLast
  <2>4. ForgetStale' BY <1>1 DEF EditEnds, ForgetStale, AskedFirst, WaitingIsReachable
  <2>5. NotesTrue' BY <1>1, ZenonT(30) DEF EditEnds, NotesTrue, NoteTrue, AskedFirst, UneditedWhileSent,
            EndedCancelled, OutcomeLast
  <2>6. SweptDecided' BY <1>1 DEF EditEnds, SweptDecided, AskedFirst, WaitingIsReachable
  <2> QED BY <2>1, <2>2, <2>3, <2>4, <2>5, <2>6
<1>2. CASE unedited' = unedited \cup {r} /\ UNCHANGED shown
  <2>1. TypeOK' /\ WaitingIsReachable' BY <1>2 DEF EditEnds, WaitingIsReachable, AskedFirst
  <2>2. AskedFirst' /\ UneditedWhileSent' BY <1>2 DEF EditEnds, AskedFirst, UneditedWhileSent
  <2>3. EndedCancelled' /\ OutcomeLast' BY <1>2 DEF EditEnds, AskedFirst, EndedCancelled,
            OutcomeLast
  <2>4. ForgetStale' BY <1>2 DEF EditEnds, ForgetStale, AskedFirst, WaitingIsReachable
  <2>5. NotesTrue' BY <1>2, ZenonT(30) DEF EditEnds, NotesTrue, NoteTrue, AskedFirst, UneditedWhileSent,
            EndedCancelled, OutcomeLast
  <2>6. SweptDecided' BY <1>2 DEF EditEnds, SweptDecided, AskedFirst, WaitingIsReachable
  <2> QED BY <2>1, <2>2, <2>3, <2>4, <2>5, <2>6
<1> QED BY <1>1, <1>2 DEF EditEnds

(* A tap decides. *)
LEMMA TapDecidesIInv ==
  ASSUME IInv, NEW r \in Requests, NEW d \in Decisions, TapDecides(r, d)
  PROVE  IInv'
<1> USE DEF TapDecides, Decisions, Verdict
<1>1. pc[r] # "idle" /\ (r \in messages => pc[r] = "wait")
  BY DEF AskedFirst, UneditedWhileSent, EndedCancelled
<1>2. TypeOK' /\ WaitingIsReachable' BY DEF WaitingIsReachable
<1>3. AskedFirst' /\ UneditedWhileSent' BY <1>1 DEF AskedFirst, UneditedWhileSent
<1>4. EndedCancelled' /\ OutcomeLast' BY DEF EndedCancelled, OutcomeLast
<1>5. ForgetStale' /\ SweptDecided' BY DEF ForgetStale, SweptDecided
<1>6. ASSUME NEW q \in Requests PROVE (NoteTrue(q, shown[q]) /\ NoteTrue(q, edit[q]))'
  <2>1. CASE q # r BY <2>1 DEF NotesTrue, NoteTrue
  <2>2. CASE q = r
    <3>1. /\ shown[r] \notin {"allowed", "denied", "timed out"}
          /\ edit[r] \notin {"allowed", "denied", "timed out"}
      BY DEF NotesTrue, NoteTrue, EndedCancelled, UneditedWhileSent
    <3>2. NoteTrue(r, shown[r])' BY <3>1 DEF NoteTrue
    <3>3. NoteTrue(r, edit[r])' BY <1>1, <3>1 DEF NoteTrue, OutcomeLast
    <3> QED BY <2>2, <3>2, <3>3
  <2> QED BY <2>1, <2>2
<1>7. NotesTrue' BY <1>6 DEF NotesTrue
<1> QED BY <1>2, <1>3, <1>4, <1>5, <1>7

(* A tap finds nothing to decide. *)
LEMMA TapStaleIInv ==
  ASSUME IInv, NEW r \in Requests, TapStale(r)
  PROVE  IInv'
<1>1. TypeOK' /\ WaitingIsReachable' BY DEF TapStale, WaitingIsReachable, AskedFirst
<1>2. AskedFirst' /\ UneditedWhileSent' BY DEF TapStale, AskedFirst, UneditedWhileSent
<1>3. EndedCancelled' /\ OutcomeLast' BY DEF TapStale, AskedFirst, EndedCancelled,
          OutcomeLast
<1>4. ForgetStale' BY DEF TapStale, ForgetStale, AskedFirst, WaitingIsReachable
<1>5. NotesTrue' BY DEF TapStale, NotesTrue, NoteTrue, AskedFirst, UneditedWhileSent,
          EndedCancelled, OutcomeLast
<1>6. SweptDecided' BY DEF TapStale, SweptDecided, AskedFirst, WaitingIsReachable
<1> QED BY <1>1, <1>2, <1>3, <1>4, <1>5, <1>6

(* The leftovers of such a tap are dropped. *)
LEMMA TapForgetsIInv ==
  ASSUME IInv, NEW r \in Requests, TapForgets(r)
  PROVE  IInv'
<1>1. TypeOK' /\ WaitingIsReachable' BY DEF TapForgets, ForgetStale, WaitingIsReachable,
          AskedFirst
<1>2. AskedFirst' /\ UneditedWhileSent' BY DEF TapForgets, ForgetStale, AskedFirst,
          UneditedWhileSent
<1>3. EndedCancelled' /\ OutcomeLast' BY DEF TapForgets, ForgetStale, AskedFirst,
          EndedCancelled, OutcomeLast
<1>4. ForgetStale' BY DEF TapForgets, ForgetStale, AskedFirst, WaitingIsReachable
<1>5. NotesTrue' BY DEF TapForgets, ForgetStale, NotesTrue, NoteTrue, AskedFirst,
          UneditedWhileSent, EndedCancelled, OutcomeLast
<1>6. SweptDecided' BY DEF TapForgets, ForgetStale, SweptDecided, AskedFirst,
          WaitingIsReachable
<1> QED BY <1>1, <1>2, <1>3, <1>4, <1>5, <1>6

(* cancel_thread() takes its snapshot. *)
LEMMA CancelStartIInv ==
  ASSUME IInv, NEW c \in Cancels, NEW k \in Keys, CancelStart(c, k)
  PROVE  IInv'
<1>1. TypeOK' /\ WaitingIsReachable' BY DEF CancelStart, WaitingIsReachable, AskedFirst
<1>2. AskedFirst' /\ UneditedWhileSent' BY DEF CancelStart, AskedFirst, UneditedWhileSent
<1>3. EndedCancelled' /\ OutcomeLast' BY DEF CancelStart, AskedFirst, EndedCancelled,
          OutcomeLast
<1>4. ForgetStale' BY DEF CancelStart, ForgetStale, AskedFirst, WaitingIsReachable
<1>5. NotesTrue' BY DEF CancelStart, NotesTrue, NoteTrue, AskedFirst, UneditedWhileSent,
          EndedCancelled, OutcomeLast
<1>6. SweptDecided' BY ZenonT(30) DEF CancelStart, SweptDecided, AskedFirst, WaitingIsReachable
<1> QED BY <1>1, <1>2, <1>3, <1>4, <1>5, <1>6

(* cancel_thread() denies the next request. *)
LEMMA CancelDeniesIInv ==
  ASSUME IInv, NEW c \in Cancels, NEW r \in Requests, CancelDenies(c, r)
  PROVE  IInv'
<1>1. TypeOK' /\ WaitingIsReachable' BY DEF CancelDenies, Expire, AtNextId,
          WaitingIsReachable, AskedFirst
<1>2. AskedFirst' /\ UneditedWhileSent' BY ZenonT(30) DEF CancelDenies, Expire, AtNextId, AskedFirst,
          UneditedWhileSent
<1>3. EndedCancelled' /\ OutcomeLast' BY DEF CancelDenies, Expire, AtNextId, AskedFirst,
          EndedCancelled, OutcomeLast
<1>4. ForgetStale' BY DEF CancelDenies, Expire, AtNextId, ForgetStale, AskedFirst,
          WaitingIsReachable
<1>5. NotesTrue' BY ZenonT(30) DEF CancelDenies, Expire, AtNextId, NotesTrue, NoteTrue, AskedFirst,
          UneditedWhileSent, EndedCancelled, OutcomeLast
<1>6. SweptDecided' BY ZenonT(30) DEF CancelDenies, Expire, AtNextId, SweptDecided, AskedFirst,
          WaitingIsReachable
<1> QED BY <1>1, <1>2, <1>3, <1>4, <1>5, <1>6

(* cancel_thread() returns. *)
LEMMA CancelEndsIInv ==
  ASSUME IInv, NEW c \in Cancels, CancelEnds(c)
  PROVE  IInv'
<1>1. TypeOK' /\ WaitingIsReachable' BY DEF CancelEnds, AtNextId, WaitingIsReachable,
          AskedFirst
<1>2. AskedFirst' /\ UneditedWhileSent' BY DEF CancelEnds, AtNextId, AskedFirst,
          UneditedWhileSent
<1>3. EndedCancelled' /\ OutcomeLast' BY DEF CancelEnds, AtNextId, AskedFirst,
          EndedCancelled, OutcomeLast
<1>4. ForgetStale' BY DEF CancelEnds, AtNextId, ForgetStale, AskedFirst, WaitingIsReachable
<1>5. NotesTrue' BY DEF CancelEnds, AtNextId, NotesTrue, NoteTrue, AskedFirst,
          UneditedWhileSent, EndedCancelled, OutcomeLast
<1>6. SweptDecided' BY DEF CancelEnds, AtNextId, SweptDecided, AskedFirst,
          WaitingIsReachable
<1> QED BY <1>1, <1>2, <1>3, <1>4, <1>5, <1>6

(* Every step keeps the invariant. *)
LEMMA NextIInv == IInv /\ [Next]_vars => IInv'
<1> SUFFICES ASSUME IInv, [Next]_vars PROVE IInv'
  OBVIOUS
<1>1. CASE UNCHANGED vars
  <2>1. TypeOK' BY <1>1 DEF vars
  <2>2. WaitingIsReachable' BY <1>1 DEF vars, WaitingIsReachable
  <2>3. AskedFirst' /\ UneditedWhileSent' BY <1>1 DEF vars, AskedFirst, UneditedWhileSent
  <2>4. EndedCancelled' /\ OutcomeLast' BY <1>1 DEF vars, EndedCancelled, OutcomeLast
  <2>5. ForgetStale' /\ SweptDecided' BY <1>1 DEF vars, ForgetStale, SweptDecided
  <2>6. NotesTrue' BY <1>1 DEF vars, NotesTrue, NoteTrue
  <2> QED BY <2>1, <2>2, <2>3, <2>4, <2>5, <2>6
<1>2. CASE \E r \in Requests :
             \/ Ask(r) \/ Deliver(r) \/ SendReturns(r) \/ SendFails(r) \/ SendCancelled(r)
             \/ Answered(r) \/ TimesOut(r) \/ WaitCancelled(r) \/ ExpireOwn(r) \/ Expired(r)
             \/ EditEnds(r) \/ TapStale(r) \/ TapForgets(r)
             \/ \E d \in Decisions : TapDecides(r, d)
  BY <1>2, AskIInv, DeliverIInv, SendReturnsIInv, SendFailsIInv, SendCancelledIInv, AnsweredIInv,
       TimesOutIInv, WaitCancelledIInv, ExpireOwnIInv, ExpiredIInv, EditEndsIInv, TapStaleIInv,
       TapForgetsIInv, TapDecidesIInv
<1>3. CASE \E c \in Cancels :
             \/ \E k \in Keys : CancelStart(c, k)
             \/ \E r \in Requests : CancelDenies(c, r)
             \/ CancelEnds(c)
  BY <1>3, CancelStartIInv, CancelDeniesIInv, CancelEndsIInv
<1> QED BY <1>1, <1>2, <1>3 DEF Next

-----------------------------------------------------------------------------

(* The invariant holds in every reachable state of the gate. *)
THEOREM Invariance == Spec => []IInv
BY InitIInv, NextIInv, PTL DEF Spec

(* The gate's variables keep their types. *)
THEOREM TypeCorrect == Spec => []TypeOK
<1>1. IInv => TypeOK OBVIOUS
<1> QED BY <1>1, Invariance, PTL

(* A tool call that waits without a decision is always found by a tap and  *)
(* by a stop of its session.                                               *)
THEOREM Reachability == Spec => []WaitingIsReachable
<1>1. IInv => WaitingIsReachable OBVIOUS
<1> QED BY <1>1, Invariance, PTL

(* What the prompt ends up showing is what the SDK was told. *)
THEOREM VerdictTruth == Spec => []VerdictIsOutcome
<1>1. IInv => VerdictIsOutcome BY DEF NotesTrue, NoteTrue, VerdictIsOutcome
<1> QED BY <1>1, Invariance, PTL

(* cancel_thread() unblocks every call it found waiting. *)
THEOREM StopSafety == Spec => []StopUnblocks
<1>1. IInv => StopUnblocks BY DEF SweptDecided, StopUnblocks
<1> QED BY <1>1, Invariance, PTL

(* A future that is done is never touched again, whatever the step. *)
LEMMA DoneKept ==
  ASSUME IInv, [Next]_vars, NEW q \in Requests, fut[q] \in {"allow", "deny", "cancelled"}
  PROVE  fut'[q] = fut[q]
<1>1. CASE UNCHANGED vars BY <1>1 DEF vars
<1>2. ASSUME NEW r \in Requests, Ask(r) PROVE fut'[q] = fut[q]
  BY <1>2 DEF Ask, AskedFirst
<1>3. ASSUME NEW r \in Requests,
             \/ Deliver(r) \/ SendReturns(r) \/ SendFails(r) \/ SendCancelled(r) \/ Answered(r)
             \/ ExpireOwn(r) \/ Expired(r) \/ EditEnds(r) \/ TapStale(r) \/ TapForgets(r)
      PROVE  fut'[q] = fut[q]
  BY <1>3 DEF Deliver, SendReturns, SendFails, SendCancelled, Answered, ExpireOwn, Expired,
              EditEnds, TapStale, TapForgets
<1>4. ASSUME NEW r \in Requests, TimesOut(r) \/ WaitCancelled(r) PROVE fut'[q] = fut[q]
  BY <1>4 DEF TimesOut, WaitCancelled, WaitEnds
<1>5. ASSUME NEW r \in Requests, NEW d \in Decisions, TapDecides(r, d) PROVE fut'[q] = fut[q]
  BY <1>5 DEF TapDecides
<1>6. ASSUME NEW c \in Cancels, NEW r \in Requests, CancelDenies(c, r) PROVE fut'[q] = fut[q]
  BY <1>6 DEF CancelDenies
<1>7. ASSUME NEW c \in Cancels, CancelEnds(c) \/ \E k \in Keys : CancelStart(c, k)
      PROVE  fut'[q] = fut[q]
  BY <1>7 DEF CancelStart, CancelEnds
<1> QED BY <1>1, <1>2, <1>3, <1>4, <1>5, <1>6, <1>7 DEF Next

(* No tap, stop or timeout changes a decision that was made. *)
THEOREM DecisionStands == Spec => FirstDecisionStands
<1>1. ASSUME IInv, [Next]_vars
      PROVE  [\A r \in Requests :
                fut[r] \in {"allow", "deny", "cancelled"} => fut'[r] = fut[r]]_vars
  BY <1>1, DoneKept
<1> QED BY <1>1, Invariance, PTL DEF Spec, FirstDecisionStands

-----------------------------------------------------------------------------
(* Shell                                                                   *)

(* Nothing but a command carries a mark; the prompt is clear when no       *)
(* program runs and none is about to.                                      *)
Entry == [of : Drivers, mark : BOOLEAN]
Unmarked == \A i \in DOMAIN typed : ~typed[i].mark
Clear == fg = Idle /\ Unmarked

(* A message that is going to be typed as a command, and one that was.     *)
Poised(m) == stage[m] \in {"begun", "waits"} /\ ~seen[m]
Commands(m) == stage[m] = "drives" /\ ~seen[m]

(* One worker, and no program without a shell and a text that started it.  *)
WorkInv == \A m, n \in Messages : AtWork(m) /\ AtWork(n) => m = n
QuietInv ==
  /\ bash # "live" => fg = Idle /\ typed = <<>>
  /\ fg # Idle => fg \in Entry

(* A command is on its way to bash, runs, or has left its mark.            *)
MarksInv ==
  /\ fg # Idle => Unmarked
  /\ Marks # {} => Clear
  /\ \A i, j \in DOMAIN typed : typed[i].mark /\ typed[j].mark => i = j

(* What the record says of the foreground: if no input is awaited the      *)
(* prompt is clear, unless a command is being driven; and it is clear      *)
(* still when a message that saw that is typed.                            *)
AwaitInv ==
  /\ \A m \in Messages : Poised(m) => Clear
  /\ awaiting \/ Clear \/ \E m \in Messages : Commands(m)

(* While a command is driven, program and marks are its own.               *)
OwnInv ==
  \A m \in Messages : Commands(m) =>
    /\ \A i \in DOMAIN typed : typed[i].mark => typed[i].of = m
    /\ \A i \in DOMAIN out : out[i].mark => out[i].of = m
    /\ fg # Idle => fg.of = m

OwnReplies == \A m \in Messages : reply[m] \in Messages => reply[m] = m
Followed == eaten = {} /\ MarksInv /\ AwaitInv /\ OwnInv /\ OwnReplies

TypeInv == ShellTypeOK /\ DOMAIN reply = Messages
ShellInv == TypeInv /\ WorkInv /\ QuietInv /\ (loose \/ Followed)

(* What the text taken from a queue or added to one leaves in it.          *)
LEMMA TailText ==
  ASSUME NEW S, NEW s \in Seq(S), s # <<>>
  PROVE  /\ Tail(s) \in Seq(S) /\ Head(s) \in S /\ 1 \in DOMAIN s /\ Head(s) = s[1]
         /\ \A i \in DOMAIN Tail(s) : i + 1 \in DOMAIN s /\ i + 1 # 1 /\ Tail(s)[i] = s[i + 1]
  OBVIOUS

LEMMA AppendText ==
  ASSUME NEW S, NEW s \in Seq(S), NEW e \in S
  PROVE  /\ Append(s, e) \in Seq(S)
         /\ \A i \in DOMAIN Append(s, e) :
              \/ i \in DOMAIN s /\ Append(s, e)[i] = s[i]
              \/ i = Len(s) + 1 /\ Append(s, e)[i] = e
  OBVIOUS

LEMMA EmptyText == Idle.of = None /\ ~Idle.mark /\ \A i \in DOMAIN <<>> : FALSE
  BY DEF Idle

LEMMA ShellStarts == ShellAssumption /\ ShellInit => ShellInv
<1> SUFFICES ASSUME ShellAssumption, ShellInit PROVE ShellInv
  OBVIOUS
<1>1. TypeInv
  <2>1. fg \in [of : Drivers \cup {None}, mark : BOOLEAN]
    BY DEF ShellInit, Idle
  <2>2. stage \in [Drivers -> Labels]
    BY DEF ShellInit, Labels
  <2>4. seen \in [Drivers -> BOOLEAN]
    BY DEF ShellInit
  <2>3. <<>> \in Seq(Messages) /\ <<>> \in Seq(Drivers)
        /\ <<>> \in Seq([of : Drivers, mark : BOOLEAN])
    OBVIOUS
  <2> QED
    BY <2>1, <2>2, <2>3, <2>4 DEF ShellInit, TypeInv, ShellTypeOK
<1>2. WorkInv
  BY DEF ShellInit, WorkInv, AtWork, Drivers
<1>3. QuietInv
  BY DEF ShellInit, QuietInv
<1>4. Clear /\ Marks = {}
  BY DEF ShellInit, Clear, Unmarked, Marks
<1>5. \A m \in Messages : ~Commands(m)
  BY DEF ShellInit, Commands, Drivers
<1>6. MarksInv /\ AwaitInv
  BY <1>4 DEF MarksInv, AwaitInv, Clear, Unmarked
<1>7. OwnReplies
  BY DEF ShellInit, ShellAssumption, OwnReplies
<1> QED
  BY <1>1, <1>2, <1>3, <1>5, <1>6, <1>7 DEF ShellInv, Followed, OwnInv, ShellInit

(* Steps that type nothing and start no program.                           *)
LEMMA TypesNothing ==
  ASSUME ShellInv, fg' \in {fg, Idle}, typed' \in {typed, <<>>}, out' \in {out, <<>>},
         eaten' = eaten, loose => loose',
         \A m \in Messages : Poised(m)' => Poised(m) \/ Clear',
         \A m \in Messages : Commands(m)' => Commands(m),
         \/ awaiting' \/ Clear'
         \/ awaiting' = awaiting /\ \A m \in Messages : Commands(m) => Commands(m)',
         \A m \in Messages : reply'[m] \in Messages => reply'[m] \in {reply[m], m}
  PROVE  loose' \/ Followed'
<1> SUFFICES ASSUME ~loose PROVE Followed'
  OBVIOUS
<1>1. Followed
  BY DEF ShellInv
<1>2. Unmarked => Unmarked'
  BY EmptyText DEF Unmarked
<1>3. Clear => Clear'
  BY <1>2 DEF Clear, Idle
<1>4. fg' # Idle => fg' = fg /\ fg # Idle
  OBVIOUS
<1>5. MarksInv'
  <2>1. (fg # Idle => Unmarked)'
    BY <1>1, <1>2, <1>4 DEF Followed, MarksInv, Idle
  <2>2. (Marks # {} => Clear)'
    BY <1>1, <1>3, EmptyText DEF Followed, MarksInv, Marks
  <2>3. (\A i, j \in DOMAIN typed : typed[i].mark /\ typed[j].mark => i = j)'
    BY <1>1, EmptyText DEF Followed, MarksInv
  <2> QED
    BY <2>1, <2>2, <2>3 DEF MarksInv
<1>6. AwaitInv'
  BY <1>1, <1>3 DEF Followed, AwaitInv
<1>7. OwnInv'
  <2> SUFFICES ASSUME NEW m \in Messages, Commands(m)'
               PROVE  /\ \A i \in DOMAIN typed' : typed'[i].mark => typed'[i].of = m
                      /\ \A i \in DOMAIN out' : out'[i].mark => out'[i].of = m
                      /\ fg' # Idle => fg'.of = m
    BY DEF OwnInv, Idle
  <2>1. Commands(m)
    OBVIOUS
  <2> QED
    BY <1>1, <1>4, <2>1, EmptyText DEF Followed, OwnInv
<1>8. OwnReplies'
  BY <1>1 DEF Followed, OwnReplies
<1> QED
  BY <1>1, <1>5, <1>6, <1>7, <1>8 DEF Followed

(* What a step of one driver leaves alone.                                 *)
Others(d) == \A e \in Drivers : e # d => stage'[e] = stage[e] /\ seen'[e] = seen[e]
Typed == stage' \in [Drivers -> Labels] /\ seen' \in [Drivers -> BOOLEAN]
         /\ DOMAIN reply' = Messages

LEMMA WorkStays ==
  ASSUME WorkInv, NEW d \in Drivers, Others(d),
         d \in Messages /\ AtWork(d)' =>
            AtWork(d) \/ \A m \in Messages : ~AtWork(m)
  PROVE  WorkInv'
<1>1. \A m \in Messages : m # d => (AtWork(m)' <=> AtWork(m))
  BY DEF Others, AtWork, Drivers
<1> QED
  BY <1>1 DEF WorkInv

(* The end of a drive, for its caller.                                     *)
LEMMA Concluded ==
  ASSUME ShellAssumption, ShellInv, NEW d \in Drivers, NEW status, NEW told,
         Conclude(d, status, told), d \in Messages => AtWork(d)
  PROVE  /\ Typed /\ Others(d) /\ awaiting' = (status = "awaiting")
         /\ stage'[d] \in {"posts", "edits"} /\ WorkInv'
         /\ \A m \in Messages : reply'[m] = IF m = d THEN told ELSE reply[m]
<1>1. TypeInv
  BY DEF ShellInv
<1>2. awaiting' = (status = "awaiting") /\ awaiting' \in BOOLEAN
  BY DEF Conclude
<1>3. seen' \in [Drivers -> BOOLEAN] /\ \A e \in Drivers : e # d => seen'[e] = seen[e]
  BY <1>1, <1>2 DEF TypeInv, ShellTypeOK, Conclude
<1>4. /\ stage' \in [Drivers -> Labels] /\ stage'[d] \in {"posts", "edits"}
      /\ \A e \in Drivers : e # d => stage'[e] = stage[e]
  <2>1. PICK to \in {"posts", "edits"} : stage' = [stage EXCEPT ![d] = to]
    BY DEF Conclude, Moves
  <2>2. stage \in [Drivers -> Labels] /\ to \in Labels
    BY <1>1 DEF TypeInv, ShellTypeOK, Labels
  <2>3. stage' \in [Drivers -> Labels]
    BY <2>1, <2>2
  <2> QED
    BY <2>1, <2>2, <2>3
<1>5. DOMAIN reply' = Messages /\ \A m \in Messages : reply'[m] = IF m = d THEN told ELSE reply[m]
  BY <1>1 DEF TypeInv, Conclude
<1>6. Others(d)
  BY <1>3, <1>4 DEF Others
<1>7. WorkInv'
  BY <1>6, WorkStays DEF ShellInv
<1> QED
  BY <1>2, <1>3, <1>4, <1>5, <1>6, <1>7 DEF Typed

LEMMA Went ==
  ASSUME TypeInv, NEW d \in Drivers, NEW to \in Labels, Moves(d, to)
  PROVE  /\ stage' \in [Drivers -> Labels] /\ stage'[d] = to
         /\ \A e \in Drivers : e # d => stage'[e] = stage[e]
<1>1. stage \in [Drivers -> Labels] /\ stage' = [stage EXCEPT ![d] = to]
  BY DEF TypeInv, ShellTypeOK, Moves
<1> QED
  BY <1>1

LEMMA Noted ==
  ASSUME TypeInv, NEW d \in Drivers, NEW b \in BOOLEAN, seen' = [seen EXCEPT ![d] = b]
  PROVE  /\ seen' \in [Drivers -> BOOLEAN] /\ seen'[d] = b
         /\ \A e \in Drivers : e # d => seen'[e] = seen[e]
<1>1. seen \in [Drivers -> BOOLEAN]
  BY DEF TypeInv, ShellTypeOK
<1> QED
  BY <1>1

LEMMA Told ==
  ASSUME TypeInv, NEW m \in Messages, NEW told, reply' = [reply EXCEPT ![m] = told]
  PROVE  /\ DOMAIN reply' = Messages
         /\ \A n \in Messages : reply'[n] = IF n = m THEN told ELSE reply[n]
  BY DEF TypeInv

(* A step of a driver that has nothing to do with the terminal.            *)
LEMMA Elsewhere ==
  ASSUME ShellInv, UNCHANGED <<bash, fg, typed, out, eaten, loose, awaiting>>,
         NEW d \in Drivers, Others(d), Typed,
         row' \in BOOLEAN, mode' \in BOOLEAN, pad' \in BOOLEAN, render' \in BOOLEAN,
         session' \in BOOLEAN, queue' \in Seq(Messages), line' \in Seq(Drivers),
         d \in Messages /\ Poised(d)' => Poised(d) \/ Clear,
         d \in Messages => stage[d] # "drives" /\ stage'[d] # "drives",
         d \in Messages /\ AtWork(d)' => AtWork(d) \/ \A m \in Messages : ~AtWork(m),
         \A m \in Messages : reply'[m] \in Messages => reply'[m] = reply[m]
  PROVE  ShellInv'
<1>1. TypeInv'
  BY DEF ShellInv, TypeInv, ShellTypeOK, Typed
<1>2. WorkInv'
  BY WorkStays DEF ShellInv
<1>3. QuietInv'
  BY DEF ShellInv, QuietInv, Idle
<1>4. Clear => Clear'
  BY DEF Clear, Unmarked, Idle
<1>5. \A m \in Messages : (Poised(m)' => Poised(m) \/ Clear') /\ (Commands(m)' <=> Commands(m))
  BY <1>4 DEF Others, Poised, Commands, Drivers
<1>6. loose' \/ Followed'
  BY <1>5, TypesNothing
<1> QED
  BY <1>1, <1>2, <1>3, <1>6 DEF ShellInv

-----------------------------------------------------------------------------

LEMMA QueueSteps ==
  ASSUME ShellAssumption, ShellInv, NEW m \in Messages,
         SubmitRead(m) \/ SubmitInject(m) \/ SubmitQueue(m) \/ Take(m) \/ Begin(m)
         \/ Answer(m) \/ Refuse(m) \/ Posted(m)
  PROVE  ShellInv'
<1>1. TypeInv /\ m \in Drivers
  BY DEF ShellInv, Drivers
<1>2. /\ row \in BOOLEAN /\ mode \in BOOLEAN /\ pad \in BOOLEAN /\ render \in BOOLEAN
      /\ session \in BOOLEAN /\ queue \in Seq(Messages) /\ line \in Seq(Drivers)
      /\ awaiting \in BOOLEAN
      /\ stage \in [Drivers -> Labels] /\ seen \in [Drivers -> BOOLEAN]
      /\ DOMAIN reply = Messages
  BY <1>1 DEF TypeInv, ShellTypeOK
<1>3. CASE SubmitRead(m)
  <2>1. stage[m] = "new" /\ Moves(m, "read") /\ seen' = [seen EXCEPT ![m] = row]
    BY <1>3 DEF SubmitRead
  <2>2. Others(m) /\ Typed /\ stage'[m] = "read"
    BY <1>1, <1>2, <1>3, <2>1, Went, Noted DEF Others, Typed, Labels, SubmitRead
  <2> QED
    BY <1>1, <1>2, <1>3, <2>1, <2>2, Elsewhere DEF SubmitRead, kb, tty, Poised, AtWork
<1>4. CASE SubmitInject(m)
  <2>1. /\ stage[m] = "read" /\ Moves(m, "done") /\ seen' = [seen EXCEPT ![m] = FALSE]
        /\ reply' = [reply EXCEPT ![m] = "other"]
    BY <1>4 DEF SubmitInject
  <2>2. Others(m) /\ Typed /\ stage'[m] = "done"
    BY <1>1, <1>2, <2>1, Went, Noted, Told DEF Others, Typed, Labels
  <2>3. \A n \in Messages : reply'[n] \in Messages => reply'[n] = reply[n]
    BY <1>1, <2>1, Told DEF ShellAssumption
  <2> QED
    BY <1>1, <1>2, <1>4, <2>1, <2>2, <2>3, Elsewhere DEF SubmitInject, kb, tty, Poised, AtWork
<1>5. CASE SubmitQueue(m)
  <2>1. /\ stage[m] = "read" /\ Moves(m, "queued") /\ seen' = [seen EXCEPT ![m] = FALSE]
    BY <1>5 DEF SubmitQueue
  <2>2. Others(m) /\ Typed /\ stage'[m] = "queued"
    BY <1>1, <1>2, <1>5, <2>1, Went, Noted DEF Others, Typed, Labels, SubmitQueue
  <2>3. queue' \in Seq(Messages) /\ session' \in BOOLEAN /\ mode' \in BOOLEAN
    BY <1>1, <1>2, <1>5, AppendText DEF SubmitQueue, Build
  <2> QED
    BY <1>1, <1>2, <1>5, <2>1, <2>2, <2>3, Elsewhere DEF SubmitQueue, kb, tty, Poised, AtWork
<1>6. CASE Take(m)
  <2>1. Moves(m, "taken") /\ queue' \in Seq(Messages) /\ \A n \in Messages : ~AtWork(n)
    BY <1>2, <1>6, TailText DEF Take
  <2>2. Others(m) /\ Typed /\ stage'[m] = "taken" /\ stage[m] # "drives"
    BY <1>1, <1>2, <1>6, <2>1, Went DEF Others, Typed, Labels, Take, AtWork
  <2> QED
    BY <1>1, <1>2, <1>6, <2>1, <2>2, Elsewhere DEF Take, kb, tty, Poised
<1>7. CASE Begin(m)
  <2>1. PICK to \in Labels : Moves(m, to) /\ to = (IF mode THEN "begun" ELSE "model")
    BY <1>7 DEF Begin, Labels
  <2>2. stage[m] = "taken" /\ seen' = [seen EXCEPT ![m] = mode /\ awaiting] /\ (mode /\ awaiting) \in BOOLEAN
    BY <1>2, <1>7 DEF Begin
  <2>3. Others(m) /\ Typed /\ stage'[m] = to /\ seen'[m] = (mode /\ awaiting)
    BY <1>1, <1>2, <1>7, <2>1, <2>2, Went, Noted DEF Others, Typed, Labels, Begin
  <2>4. CASE loose
    <3>1. loose'
      BY <1>7, <2>4 DEF Begin
    <3>2. TypeInv'
      BY <1>1, <1>7, <2>3 DEF TypeInv, ShellTypeOK, Typed, Begin, kb, tty
    <3>3. WorkInv'
      BY <1>1, <2>2, <2>3, WorkStays DEF ShellInv, AtWork
    <3> QED
      BY <1>7, <3>1, <3>2, <3>3 DEF ShellInv, QuietInv, Begin, tty, Idle
  <2>5. CASE ~loose
    <3>1. \A n \in Messages : Commands(n) => FALSE
      BY <2>2 DEF ShellInv, WorkInv, AtWork, Commands
    <3>2. awaiting \/ Clear
      BY <2>5, <3>1 DEF ShellInv, Followed, AwaitInv
    <3>3. Poised(m)' => Clear
      BY <2>1, <2>3, <3>2 DEF Poised
    <3> QED
      BY <1>1, <1>2, <1>7, <2>1, <2>2, <2>3, <3>3, Elsewhere DEF Begin, kb, tty, AtWork
  <2> QED
    BY <2>4, <2>5
<1>8. CASE Answer(m)
  <2>1. /\ stage[m] = "model" /\ Moves(m, "done") /\ reply' = [reply EXCEPT ![m] = "other"]
    BY <1>8 DEF Answer
  <2>2. Others(m) /\ Typed /\ stage'[m] = "done"
    BY <1>1, <1>2, <1>8, <2>1, Went, Told DEF Others, Typed, Labels, Answer
  <2>3. \A n \in Messages : reply'[n] \in Messages => reply'[n] = reply[n]
    BY <1>1, <2>1, Told DEF ShellAssumption
  <2> QED
    BY <1>1, <1>2, <1>8, <2>1, <2>2, <2>3, Elsewhere DEF Answer, kb, tty, Poised, AtWork
<1>9. CASE Refuse(m)
  <2>1. /\ stage[m] = "begun" /\ Moves(m, "done") /\ reply' = [reply EXCEPT ![m] = "other"]
        /\ seen' = [seen EXCEPT ![m] = FALSE]
    BY <1>9 DEF Refuse
  <2>2. Others(m) /\ Typed /\ stage'[m] = "done"
    BY <1>1, <1>2, <2>1, Went, Noted, Told DEF Others, Typed, Labels
  <2>3. \A n \in Messages : reply'[n] \in Messages => reply'[n] = reply[n]
    BY <1>1, <2>1, Told DEF ShellAssumption
  <2> QED
    BY <1>1, <1>2, <1>9, <2>1, <2>2, <2>3, Elsewhere DEF Refuse, kb, tty, Poised, AtWork
<1>10. CASE Posted(m)
  <2>1. stage[m] = "posts" /\ Moves(m, "done")
    BY <1>10 DEF Posted
  <2>2. Others(m) /\ Typed /\ stage'[m] = "done"
    BY <1>1, <1>2, <1>10, <2>1, Went DEF Others, Typed, Labels, Posted
  <2> QED
    BY <1>1, <1>2, <1>10, <2>1, <2>2, Elsewhere DEF Posted, tty, Poised, AtWork
<1> QED
  BY <1>3, <1>4, <1>5, <1>6, <1>7, <1>8, <1>9, <1>10

(* What the terminal and the record are while nobody changes them.         *)
LEMMA ShellTypes ==
  ASSUME ShellInv
  PROVE  /\ TypeInv /\ WorkInv /\ QuietInv
         /\ row \in BOOLEAN /\ mode \in BOOLEAN /\ pad \in BOOLEAN /\ render \in BOOLEAN
         /\ session \in BOOLEAN /\ queue \in Seq(Messages) /\ line \in Seq(Drivers)
         /\ awaiting \in BOOLEAN /\ loose \in BOOLEAN /\ eaten \subseteq Messages
         /\ bash \in {"none", "live", "dead"}
         /\ fg \in [of : Drivers \cup {None}, mark : BOOLEAN]
         /\ typed \in Seq(Entry) /\ out \in Seq(Entry)
         /\ stage \in [Drivers -> Labels] /\ seen \in [Drivers -> BOOLEAN]
         /\ DOMAIN reply = Messages
  BY DEF ShellInv, TypeInv, ShellTypeOK, Entry

LEMMA ToggleSteps ==
  ASSUME ShellAssumption, ShellInv, NEW t \in Toggles, Toggle(t)
  PROVE  ShellInv'
<1> DEFINE Apart == /\ UNCHANGED <<bash, fg, typed, eaten, loose, awaiting, reply, queue, session>>
                    /\ out' \in {out, <<>>} /\ row' \in BOOLEAN /\ mode' \in BOOLEAN
                    /\ pad' \in BOOLEAN /\ render' \in BOOLEAN /\ line' \in Seq(Drivers)
<1>1. t \in Drivers /\ t \notin Messages
  BY DEF Drivers, ShellAssumption
<1>2. SUFFICES ASSUME Apart, Typed, Others(t) PROVE ShellInv'
  <2>1. CASE ToggleRead(t)
    BY <1>1, <2>1, ShellTypes, Went, Noted DEF ToggleRead, Others, Typed, kb, tty, Labels
  <2>2. CASE ToggleSets(t)
    <3>1. PICK to \in Labels : Moves(t, to)
      BY <2>2 DEF ToggleSets, Labels
    <3>2. PICK b \in BOOLEAN : seen' = [seen EXCEPT ![t] = b]
      BY <1>1, <2>2, ShellTypes DEF ToggleSets
    <3>3. mode' \in BOOLEAN
      BY <1>1, <2>2, ShellTypes DEF ToggleSets
    <3> QED
      BY <1>1, <2>2, <3>1, <3>2, <3>3, ShellTypes, Went, Noted DEF ToggleSets, Others, Typed, kb, tty
  <2>3. CASE ToggleSaves(t)
    <3>1. PICK to \in Labels : Moves(t, to)
      BY <2>3 DEF ToggleSaves, Labels
    <3>2. row' \in BOOLEAN
      BY <2>3 DEF ToggleSaves
    <3> QED
      BY <1>1, <2>3, <3>1, <3>2, ShellTypes, Went DEF ToggleSaves, Others, Typed, kb, tty
  <2>4. CASE Stripped(t)
    BY <1>1, <2>4, ShellTypes, Went, Noted DEF Stripped, Others, Typed, tty, Labels
  <2>5. CASE Refresh(t)
    <3>1. PICK to \in Labels : Moves(t, to)
      BY <2>5 DEF Refresh, Join, Labels
    <3>2. line' \in Seq(Drivers)
      <4>1. line \in Seq(Drivers) /\ Append(line, t) \in Seq(Drivers)
        BY <1>1, ShellTypes
      <4> QED
        BY <2>5, <4>1 DEF Refresh, Join
    <3> QED
      BY <1>1, <2>5, <3>1, <3>2, ShellTypes, Went DEF Refresh, Others, Typed, kb, tty
  <2>6. CASE Peek(t)
    <3>1. line' \in Seq(Drivers)
      BY <2>6, ShellTypes, TailText DEF Peek, HoldsTty
    <3> QED
      BY <1>1, <2>6, <3>1, ShellTypes, Went DEF Peek, Others, Typed, kb, Labels
  <2>7. CASE Offered(t)
    BY <1>1, <2>7, ShellTypes, Went, Noted DEF Offered, Others, Typed, kb, tty, Labels
  <2> QED
    BY <2>1, <2>2, <2>3, <2>4, <2>5, <2>6, <2>7 DEF Toggle
<1>3. TypeInv'
  <2>1. out' \in Seq([of : Drivers, mark : BOOLEAN])
    <3>1. out \in Seq([of : Drivers, mark : BOOLEAN])
      BY ShellTypes DEF Entry
    <3>2. <<>> \in Seq([of : Drivers, mark : BOOLEAN])
      OBVIOUS
    <3> QED
      BY <1>2, <3>1, <3>2
  <2> QED
    BY <1>2, <2>1 DEF ShellInv, TypeInv, ShellTypeOK, Typed
<1>4. WorkInv'
  BY <1>1, <1>2, WorkStays DEF ShellInv
<1>5. QuietInv'
  BY <1>2 DEF ShellInv, QuietInv, Idle
<1>6. \A m \in Messages : (Poised(m)' <=> Poised(m)) /\ (Commands(m)' <=> Commands(m))
  BY <1>1, <1>2 DEF Others, Poised, Commands, Drivers
<1>7. Clear => Clear'
  BY <1>2 DEF Clear, Unmarked, Idle
<1>8. loose' \/ Followed'
  <2>1. \A m \in Messages : (Poised(m)' => Poised(m) \/ Clear') /\ (Commands(m)' => Commands(m))
    BY <1>6
  <2>2. awaiting' = awaiting /\ \A m \in Messages : Commands(m) => Commands(m)'
    BY <1>2, <1>6
  <2> QED
    BY <1>2, <2>1, <2>2, TypesNothing
<1> QED
  BY <1>3, <1>4, <1>5, <1>8 DEF ShellInv

-----------------------------------------------------------------------------
(* The ends of a drive.                                                    *)
LEMMA Ends ==
  ASSUME ShellAssumption, ShellInv, NEW d \in Drivers, Others(d), Typed, WorkInv',
         d \in Messages => stage'[d] \notin {"begun", "waits", "drives"},
         UNCHANGED <<row, mode, pad, render, session, queue, eaten>>, bash' = bash,
         line' \in Seq(Drivers), awaiting' \in BOOLEAN, loose' \in BOOLEAN, loose => loose',
         fg' \in {fg, Idle}, typed' \in {typed, <<>>}, out' \in {out, <<>>},
         loose' \/ awaiting' \/ Clear',
         \A m \in Messages : ~loose' /\ reply'[m] \in Messages => reply'[m] \in {reply[m], m}
  PROVE  ShellInv'
<1>1. TypeInv'
  <2>1. /\ out' \in Seq([of : Drivers, mark : BOOLEAN])
        /\ typed' \in Seq([of : Drivers, mark : BOOLEAN])
    <3>1. /\ out \in Seq([of : Drivers, mark : BOOLEAN])
          /\ typed \in Seq([of : Drivers, mark : BOOLEAN])
      BY ShellTypes DEF Entry
    <3>2. <<>> \in Seq([of : Drivers, mark : BOOLEAN])
      OBVIOUS
    <3> QED
      BY <3>1, <3>2
  <2>2. fg' \in [of : Drivers \cup {None}, mark : BOOLEAN]
    <3>1. Idle \in [of : Drivers \cup {None}, mark : BOOLEAN]
      BY DEF Idle
    <3> QED
      BY <3>1, ShellTypes
  <2> QED
    BY <2>1, <2>2, ShellTypes DEF TypeInv, ShellTypeOK, Typed
<1>2. QuietInv'
  BY DEF ShellInv, QuietInv, Idle
<1>3. \A m \in Messages : (Poised(m)' => Poised(m)) /\ (Commands(m)' => Commands(m))
  BY DEF Others, Poised, Commands, Drivers
<1>4. loose' \/ Followed'
  <2>1. CASE ~loose'
    BY <1>3, <2>1, TypesNothing
  <2> QED
    BY <2>1
<1> QED
  BY <1>1, <1>2, <1>4 DEF ShellInv

LEMMA LineTail ==
  ASSUME ShellInv, line # <<>>
  PROVE  Tail(line) \in Seq(Drivers)
  BY ShellTypes

(* A drive that ends: its mark is read, or its shell died, or it gives up. *)
LEMMA DriveEnds ==
  ASSUME ShellAssumption, ShellInv, NEW d \in Drivers,
         StartDead(d) \/ Done(d) \/ ShellDied(d) \/ Settled(d) \/ TimedOut(d)
  PROVE  ShellInv'
<1>1. /\ line # <<>> /\ line' = Tail(line) /\ out' \in {out, <<>>} /\ stage[d] \in {"waits", "drives"}
      /\ UNCHANGED <<row, mode, pad, render, session, queue, eaten, bash>>
  BY DEF StartDead, Done, ShellDied, Settled, TimedOut, Leave, HoldsTty, kb, tty
<1>2. d \in Messages => AtWork(d)
  BY <1>1 DEF AtWork
<1>3. line' \in Seq(Drivers)
  BY <1>1, LineTail
<1>4. "other" \notin Messages /\ "awaiting" \notin Messages
  BY DEF ShellAssumption
<1>5. CASE StartDead(d) \/ ShellDied(d)
  <2>1. Conclude(d, "done", "other") /\ fg' = fg /\ typed' = typed /\ loose' = loose /\ bash # "live"
    BY <1>5 DEF StartDead, ShellDied, tty
  <2>2. /\ Typed /\ Others(d) /\ awaiting' \in BOOLEAN /\ stage'[d] \in {"posts", "edits"} /\ WorkInv'
        /\ \A m \in Messages : reply'[m] = IF m = d THEN "other" ELSE reply[m]
    BY <1>2, <2>1, Concluded
  <2>3. Clear'
    <3>1. fg' = Idle /\ typed' = <<>>
      BY <2>1 DEF ShellInv, QuietInv
    <3> QED
      BY <3>1, EmptyText DEF Clear, Unmarked, Idle
  <2> QED
    BY <1>1, <1>3, <1>4, <2>1, <2>2, <2>3, ShellTypes, Ends
<1>6. CASE Done(d)
  <2>1. PICK told : /\ Conclude(d, "done", told)
                    /\ seen[d] => told = "other"
                    /\ ~seen[d] => \E i \in Marks : told = out[i].of
    BY <1>6 DEF Done
  <2>2. fg' = fg /\ typed' = typed /\ loose' = loose /\ stage[d] = "drives" /\ Marks # {}
    BY <1>6, <2>1 DEF Done, Leave
  <2>3. /\ Typed /\ Others(d) /\ awaiting' \in BOOLEAN /\ stage'[d] \in {"posts", "edits"} /\ WorkInv'
        /\ \A m \in Messages : reply'[m] = IF m = d THEN told ELSE reply[m]
    BY <1>2, <2>1, Concluded
  <2>4. loose \/ Clear
    BY <2>2 DEF ShellInv, Followed, MarksInv
  <2>5. Clear => Clear'
    BY <2>2 DEF Clear, Unmarked, Idle
  <2>6. loose \/ (d \in Messages => told \notin Messages \/ told = d)
    <3>1. CASE seen[d]
      BY <1>4, <2>1, <3>1
    <3>2. CASE ~seen[d]
      <4>1. d \in Messages => Commands(d)
        BY <2>2, <3>2 DEF Commands
      <4>2. PICK i \in DOMAIN out : out[i].mark /\ told = out[i].of
        BY <2>1, <3>2 DEF Marks
      <4> QED
        BY <4>1, <4>2 DEF ShellInv, Followed, OwnInv
    <3> QED
      BY <3>1, <3>2 DEF ShellInv, TypeInv, ShellTypeOK
  <2>7. \A m \in Messages : ~loose' /\ reply'[m] \in Messages => reply'[m] \in {reply[m], m}
    BY <2>2, <2>3, <2>6
  <2> QED
    BY <1>1, <1>3, <2>2, <2>3, <2>4, <2>5, <2>7, ShellTypes, Ends
<1>7. CASE Settled(d)
  <2>1. Conclude(d, "awaiting", "awaiting") /\ fg' = fg /\ typed' = typed /\ loose' = loose
    BY <1>7 DEF Settled, Leave
  <2>2. /\ Typed /\ Others(d) /\ awaiting' = TRUE /\ stage'[d] \in {"posts", "edits"} /\ WorkInv'
        /\ \A m \in Messages : reply'[m] = IF m = d THEN "awaiting" ELSE reply[m]
    BY <1>2, <2>1, Concluded
  <2> QED
    BY <1>1, <1>3, <1>4, <2>1, <2>2, ShellTypes, Ends
<1>8. CASE TimedOut(d)
  <2>1. /\ Conclude(d, "timeout", "other") /\ fg' \in {fg, Idle} /\ typed' = <<>>
        /\ loose' = (loose \/ fg' # Idle)
    BY <1>8 DEF TimedOut, Interrupt
  <2>2. /\ Typed /\ Others(d) /\ awaiting' \in BOOLEAN /\ stage'[d] \in {"posts", "edits"} /\ WorkInv'
        /\ \A m \in Messages : reply'[m] = IF m = d THEN "other" ELSE reply[m]
    BY <1>2, <2>1, Concluded
  <2>3. loose' \in BOOLEAN /\ (loose => loose')
    BY <2>1, ShellTypes
  <2>4. loose' \/ Clear'
    BY <2>1, EmptyText DEF Clear, Unmarked, Idle
  <2> QED
    BY <1>1, <1>3, <1>4, <2>1, <2>2, <2>3, <2>4, Ends
<1> QED
  BY <1>5, <1>6, <1>7, <1>8

(* ... before it began: the shell is not there, or cannot be spawned.      *)
LEMMA NoShell ==
  ASSUME ShellAssumption, ShellInv, NEW d \in Drivers,
         \/ WriteRaises(d)
         \/ d \in Messages /\ SpawnFails(d)
         \/ d \in Messages /\ Forward(d) /\ bash # "live"
         \/ d \in Presses /\ Press(d) /\ session /\ bash # "live"
  PROVE  ShellInv'
<1>1. UNCHANGED <<row, mode, pad, render, session, queue, eaten, bash, fg, typed, out, loose>> /\ bash # "live"
  BY DEF WriteRaises, SpawnFails, Forward, Press, kb, tty
<1>2. line' \in Seq(Drivers)
  <2>1. line' = line \/ (line # <<>> /\ line' = Tail(line))
    BY DEF WriteRaises, SpawnFails, Forward, Press, HoldsTty
  <2> QED
    BY <2>1, LineTail, ShellTypes
<1>3. Clear'
  <2>1. fg' = Idle /\ typed' = <<>>
    BY <1>1 DEF ShellInv, QuietInv
  <2> QED
    BY <2>1, EmptyText DEF Clear, Unmarked, Idle
<1>4. "other" \notin Messages
  BY DEF ShellAssumption
<1>5. CASE Conclude(d, "done", "other")
  <2>1. d \in Messages => AtWork(d)
    BY DEF WriteRaises, SpawnFails, Forward, AtWork, Press, ShellAssumption
  <2>2. /\ Typed /\ Others(d) /\ awaiting' \in BOOLEAN /\ stage'[d] \in {"posts", "edits"} /\ WorkInv'
        /\ \A m \in Messages : reply'[m] = IF m = d THEN "other" ELSE reply[m]
    BY <1>5, <2>1, Concluded
  <2> QED
    BY <1>1, <1>2, <1>3, <1>4, <2>2, ShellTypes, Ends
<1>6. CASE ~Conclude(d, "done", "other")
  <2>1. /\ d \in Messages /\ stage[d] = "waits"
        /\ Moves(d, "done") /\ awaiting' = FALSE
        /\ reply' = [reply EXCEPT ![d] = "other"] /\ seen' = [seen EXCEPT ![d] = FALSE]
    BY <1>6 DEF WriteRaises, SpawnFails, Forward, Press
  <2>2. Typed /\ Others(d) /\ stage'[d] = "done"
    BY <2>1, ShellTypes, Went, Noted, Told DEF Typed, Others, Labels
  <2>3. \A m \in Messages : reply'[m] = IF m = d THEN "other" ELSE reply[m]
    BY <2>1, ShellTypes, Told
  <2>4. WorkInv'
    BY <2>2, ShellTypes, WorkStays DEF AtWork
  <2> QED
    BY <1>1, <1>2, <1>3, <1>4, <2>1, <2>2, <2>3, <2>4, ShellTypes, Ends
<1> QED
  BY <1>5, <1>6

(* Those who join the line wait for the terminal as it is.                 *)
LEMMA Joins ==
  ASSUME ShellAssumption, ShellInv, NEW d \in Drivers,
         \/ d \in Messages /\ Forward(d) /\ bash = "live"
         \/ d \in Messages /\ Command(d)
         \/ d \in Presses /\ Press(d) /\ session /\ bash = "live"
  PROVE  ShellInv'
<1>1. Join(d) /\ UNCHANGED <<row, mode, awaiting, pad, render, session, queue, seen, reply, loose, eaten>>
  BY DEF Forward, Command, Press, kb, tty
<1>2. line' \in Seq(Drivers)
  BY <1>1, ShellTypes DEF Join
<1>3. Typed /\ Others(d) /\ stage'[d] = "waits"
  <2>1. Moves(d, "waits") /\ "waits" \in Labels
    BY <1>1 DEF Join, Labels
  <2> QED
    BY <1>1, <2>1, ShellTypes, Went DEF Typed, Others
<1>4. d \in Messages => AtWork(d) /\ stage[d] = "begun"
  BY DEF Forward, Command, Press, AtWork, ShellAssumption
<1>5. d \in Messages /\ Poised(d)' => Poised(d)
  BY <1>1, <1>4 DEF Poised
<1>6. WorkInv'
  BY <1>3, <1>4, ShellTypes, WorkStays
<1>7. CASE UNCHANGED <<bash, fg, typed, out>>
  BY <1>1, <1>2, <1>3, <1>4, <1>5, <1>7, ShellTypes, Elsewhere
<1>8. CASE ~UNCHANGED <<bash, fg, typed, out>>
  <2>1. bash' = "live" /\ fg' = Idle /\ typed' = <<>> /\ out' = <<>>
    BY <1>8 DEF Forward, Command, Press, tty
  <2>2. Clear' /\ QuietInv'
    BY <2>1, EmptyText DEF Clear, Unmarked, Idle, QuietInv
  <2>3. TypeInv'
    <3>1. Idle \in [of : Drivers \cup {None}, mark : BOOLEAN]
      BY DEF Idle
    <3>2. <<>> \in Seq([of : Drivers, mark : BOOLEAN])
      OBVIOUS
    <3> QED
      BY <1>1, <1>2, <1>3, <2>1, <3>1, <3>2, ShellTypes DEF TypeInv, ShellTypeOK, Typed
  <2>4. \A m \in Messages : Commands(m)' => Commands(m)
    BY <1>1, <1>3 DEF Others, Commands, Drivers
  <2>5. loose' \/ Followed'
    BY <1>1, <2>1, <2>2, <2>4, TypesNothing
  <2> QED
    BY <1>6, <2>2, <2>3, <2>5 DEF ShellInv
<1> QED
  BY <1>7, <1>8

LEMMA KeySteps ==
  ASSUME ShellAssumption, ShellInv, NEW p \in Presses, Key(p)
  PROVE  ShellInv'
<1>1. p \in Drivers /\ p \notin Messages
  BY DEF Drivers, ShellAssumption
<1>2. CASE Press(p) /\ session
  BY <1>1, <1>2, Joins, NoShell
<1>3. CASE Press(p) /\ ~session
  <2>1. Moves(p, "done") /\ "done" \in Labels
    BY <1>3 DEF Press, Labels
  <2>2. Typed /\ Others(p)
    BY <1>1, <1>3, <2>1, ShellTypes, Went DEF Typed, Others, Press
  <2> QED
    BY <1>1, <1>3, <2>2, ShellTypes, Elsewhere DEF Press, kb, tty
<1>4. CASE Edited(p)
  <2>1. Moves(p, "done") /\ "done" \in Labels /\ seen' = [seen EXCEPT ![p] = FALSE]
    BY <1>4 DEF Edited, Labels
  <2>2. Typed /\ Others(p)
    BY <1>1, <1>4, <2>1, ShellTypes, Went, Noted DEF Typed, Others, Edited
  <2>3. seen[p] \in BOOLEAN
    BY <1>1, ShellTypes
  <2> QED
    BY <1>1, <1>4, <2>2, <2>3, ShellTypes, Elsewhere DEF Edited, tty
<1>5. CASE StartInterrupt(p)
  <2>1. /\ Moves(p, "drives") /\ "drives" \in Labels /\ typed' = <<>> /\ out' = <<>>
        /\ fg' \in {fg, Idle}
        /\ UNCHANGED <<row, mode, awaiting, pad, render, session, queue, seen, line, bash, eaten, reply, loose>>
    BY <1>5 DEF StartInterrupt, Interrupt, Labels, kb
  <2>2. Typed /\ Others(p)
    BY <1>1, <2>1, ShellTypes, Went DEF Typed, Others
  <2>3. TypeInv'
    <3>1. Idle \in [of : Drivers \cup {None}, mark : BOOLEAN]
      BY DEF Idle
    <3>2. <<>> \in Seq([of : Drivers, mark : BOOLEAN])
      OBVIOUS
    <3>3. fg' \in [of : Drivers \cup {None}, mark : BOOLEAN]
      BY <2>1, <3>1, ShellTypes
    <3> QED
      BY <2>1, <2>2, <3>2, <3>3, ShellTypes DEF TypeInv, ShellTypeOK, Typed
  <2>4. WorkInv'
    BY <1>1, <2>2, ShellTypes, WorkStays
  <2>5. QuietInv'
    BY <2>1 DEF ShellInv, QuietInv, Idle
  <2>6. \A m \in Messages : (Poised(m)' <=> Poised(m)) /\ (Commands(m)' <=> Commands(m))
    BY <1>1, <2>2 DEF Others, Poised, Commands, Drivers
  <2>7. Clear => Clear'
    BY <2>1, EmptyText DEF Clear, Unmarked, Idle
  <2>8. loose' \/ Followed'
    <3>1. \A m \in Messages : (Poised(m)' => Poised(m) \/ Clear') /\ (Commands(m)' => Commands(m))
      BY <2>6
    <3>2. awaiting' = awaiting /\ \A m \in Messages : Commands(m) => Commands(m)'
      BY <2>1, <2>6
    <3> QED
      BY <2>1, <3>1, <3>2, TypesNothing
  <2> QED
    BY <2>3, <2>4, <2>5, <2>8 DEF ShellInv
<1> QED
  BY <1>2, <1>3, <1>4, <1>5, ShellTypes DEF Key

(* The client goes, with its shell or without.                             *)
LEMMA ClientGoes ==
  ASSUME ShellInv, DropClient
  PROVE  ShellInv'
<1>1. /\ session' = FALSE
      /\ UNCHANGED <<row, mode, awaiting, pad, render, queue, stage, seen, line, reply, loose, eaten>>
      /\ \/ UNCHANGED <<bash, fg, typed, out>>
         \/ bash' = "none" /\ fg' = Idle /\ typed' = <<>> /\ out' = <<>>
  BY DEF DropClient, kb, tty
<1>2. TypeInv'
  <2>1. Idle \in [of : Drivers \cup {None}, mark : BOOLEAN]
    BY DEF Idle
  <2>2. <<>> \in Seq([of : Drivers, mark : BOOLEAN])
    OBVIOUS
  <2>3. fg' \in [of : Drivers \cup {None}, mark : BOOLEAN]
    BY <1>1, <2>1, ShellTypes
  <2>4. /\ typed' \in Seq([of : Drivers, mark : BOOLEAN]) /\ out' \in Seq([of : Drivers, mark : BOOLEAN])
        /\ bash' \in {"none", "live", "dead"}
    BY <1>1, <2>2, ShellTypes DEF Entry
  <2> QED
    BY <1>1, <2>3, <2>4, ShellTypes DEF TypeInv, ShellTypeOK
<1>3. WorkInv' /\ QuietInv'
  BY <1>1 DEF ShellInv, WorkInv, AtWork, QuietInv, Idle
<1>4. Clear => Clear'
  BY <1>1, EmptyText DEF Clear, Unmarked, Idle
<1>5. \A m \in Messages : (Poised(m)' <=> Poised(m)) /\ (Commands(m)' <=> Commands(m))
  BY <1>1 DEF Poised, Commands
<1>6. loose' \/ Followed'
  <2>1. \A m \in Messages : (Poised(m)' => Poised(m) \/ Clear') /\ (Commands(m)' => Commands(m))
    BY <1>5
  <2>2. awaiting' = awaiting /\ \A m \in Messages : Commands(m) => Commands(m)'
    BY <1>1, <1>5
  <2> QED
    BY <1>1, <2>1, <2>2, TypesNothing
<1> QED
  BY <1>2, <1>3, <1>6 DEF ShellInv

-----------------------------------------------------------------------------
(* A text is typed: a command when the prompt is clear, anything else with *)
(* no mark.                                                                *)
LEMMA Starts ==
  ASSUME ShellAssumption, ShellInv, NEW d \in Drivers, Start(d)
  PROVE  ShellInv'
<1> DEFINE new == IF d \in Messages /\ ~seen[d] THEN Marked(d) ELSE Text(d)
<1>1. /\ stage[d] = "waits" /\ out' = <<>> /\ typed' = Append(typed, new) /\ Moves(d, "drives")
      /\ "drives" \in Labels /\ bash' = "live" /\ bash = "live"
      /\ UNCHANGED <<row, mode, awaiting, pad, render, session, queue, seen, line, fg, eaten, reply, loose>>
  BY DEF Start, Labels, kb
<1>2. new \in Entry /\ new.of = d /\ (new.mark <=> d \in Messages /\ ~seen[d])
  BY ShellTypes DEF Entry, Marked, Text
<1> HIDE DEF new
<1>3. Typed /\ Others(d) /\ stage'[d] = "drives"
  BY <1>1, ShellTypes, Went DEF Typed, Others
<1>4. typed' \in Seq(Entry) /\ \A i \in DOMAIN typed' :
        \/ i \in DOMAIN typed /\ typed'[i] = typed[i]
        \/ i = Len(typed) + 1 /\ typed'[i] = new
  <2>1. typed \in Seq(Entry)
    BY ShellTypes
  <2> QED
    BY <1>1, <1>2, <2>1, AppendText
<1>5. TypeInv'
  <2>1. <<>> \in Seq([of : Drivers, mark : BOOLEAN])
    OBVIOUS
  <2> QED
    BY <1>1, <1>3, <1>4, <2>1, ShellTypes DEF TypeInv, ShellTypeOK, Typed, Entry
<1>6. WorkInv'
  BY <1>1, <1>3, ShellTypes, WorkStays DEF AtWork
<1>7. QuietInv'
  BY <1>1 DEF ShellInv, QuietInv, Idle, Entry, Drivers
<1>8. ASSUME ~loose PROVE Followed'
  <2>1. Followed
    BY <1>8 DEF ShellInv
  <2>2. Marks' = {}
    BY <1>1, EmptyText DEF Marks
  <2>3. eaten' = {} /\ OwnReplies'
    BY <1>1, <2>1 DEF Followed, OwnReplies
  <2>4. CASE d \in Messages /\ ~seen[d]
    <3>1. Clear
      BY <1>1, <2>1, <2>4 DEF Followed, AwaitInv, Poised
    <3>2. fg' = Idle /\ \A i \in DOMAIN typed' : typed'[i].mark => i = Len(typed) + 1 /\ typed'[i].of = d
      BY <1>1, <1>2, <1>4, <3>1 DEF Clear, Unmarked
    <3>3. MarksInv'
      BY <2>2, <3>2 DEF MarksInv, Idle
    <3>4. \A m \in Messages : AtWork(m)' => m = d
      BY <1>3, <1>6, <2>4 DEF WorkInv, AtWork
    <3>5. \A m \in Messages : ~Poised(m)'
      BY <1>3, <3>4 DEF Poised, AtWork
    <3>6. Commands(d)'
      BY <1>1, <1>3, <2>4 DEF Commands
    <3>7. AwaitInv'
      BY <2>4, <3>5, <3>6 DEF AwaitInv
    <3>8. OwnInv'
      BY <1>1, <3>2, <3>4, EmptyText DEF OwnInv, Commands, AtWork, Idle
    <3> QED
      BY <2>3, <3>3, <3>7, <3>8 DEF Followed
  <2>5. CASE ~(d \in Messages /\ ~seen[d])
    <3>1. \A i \in DOMAIN typed' : typed'[i].mark => i \in DOMAIN typed /\ typed'[i] = typed[i]
      BY <1>2, <1>4, <2>5
    <3>2. Unmarked => Unmarked'
      BY <3>1 DEF Unmarked
    <3>3. MarksInv'
      BY <1>1, <2>1, <2>2, <3>1, <3>2 DEF Followed, MarksInv, Idle
    <3>4. \A m \in Messages : (Poised(m)' => Poised(m)) /\ (Commands(m)' <=> Commands(m))
      BY <1>1, <1>3, <2>5 DEF Poised, Commands, Others, Drivers
    <3>5. AwaitInv'
      BY <1>1, <2>1, <3>2, <3>4 DEF Followed, AwaitInv, Clear, Idle
    <3>6. OwnInv'
      BY <1>1, <2>1, <3>1, <3>4, EmptyText DEF Followed, OwnInv, Idle
    <3> QED
      BY <2>3, <3>3, <3>5, <3>6 DEF Followed
  <2> QED
    BY <2>4, <2>5
<1> QED
  BY <1>1, <1>5, <1>6, <1>7, <1>8 DEF ShellInv

(* The command is typed again: its mark was read, so nothing runs.         *)
LEMMA Again ==
  ASSUME ShellAssumption, ShellInv, NEW m \in Messages, NotFound(m)
  PROVE  ShellInv'
<1>1. /\ stage[m] = "drives" /\ line # <<>> /\ Marks # {} /\ reply' = [reply EXCEPT ![m] = "again"]
      /\ line' = Append(Tail(line), m) /\ out' = <<>> /\ Moves(m, "waits")
      /\ UNCHANGED <<row, mode, awaiting, pad, render, session, queue, seen, bash, fg, typed, eaten, loose>>
  BY DEF NotFound, HoldsTty, kb
<1>2. m \in Drivers /\ "waits" \in Labels
  BY DEF Drivers, Labels
<1>3. Typed /\ Others(m) /\ stage'[m] = "waits"
  BY <1>1, <1>2, ShellTypes, Went, Told DEF Typed, Others
<1>4. line' \in Seq(Drivers)
  <2>1. Tail(line) \in Seq(Drivers)
    BY <1>1, LineTail
  <2> QED
    BY <1>1, <1>2, <2>1
<1>5. TypeInv'
  <2>1. <<>> \in Seq([of : Drivers, mark : BOOLEAN])
    OBVIOUS
  <2> QED
    BY <1>1, <1>3, <1>4, <2>1, ShellTypes DEF TypeInv, ShellTypeOK, Typed
<1>6. WorkInv'
  BY <1>1, <1>2, <1>3, ShellTypes, WorkStays DEF AtWork
<1>7. QuietInv'
  BY <1>1 DEF ShellInv, QuietInv, Idle, Entry, Drivers
<1>8. ASSUME ~loose PROVE loose' \/ Followed'
  <2>1. Clear
    BY <1>1, <1>8 DEF ShellInv, Followed, MarksInv
  <2>2. Clear'
    BY <1>1, <2>1 DEF Clear, Unmarked, Idle
  <2>3. \A n \in Messages : Commands(n)' => Commands(n)
    BY <1>1, <1>2, <1>3 DEF Commands, Others, Drivers
  <2>4. \A n \in Messages : reply'[n] \in Messages => reply'[n] \in {reply[n], n}
    BY <1>1, ShellTypes, Told DEF ShellAssumption
  <2> QED
    BY <1>1, <2>2, <2>3, <2>4, TypesNothing
<1> QED
  BY <1>1, <1>5, <1>6, <1>7, <1>8 DEF ShellInv

-----------------------------------------------------------------------------
(* The other side of the terminal.                                         *)
LEMMA Beyond ==
  ASSUME ShellAssumption, ShellInv,
         BashReads \/ ProgramReads \/ ProgramPrints \/ ProgramEnds \/ BashExits
  PROVE  ShellInv'
<1>1. /\ UNCHANGED <<row, mode, awaiting, pad, render, session, queue, stage, seen, line, reply>>
      /\ bash = "live"
  BY DEF BashReads, ProgramReads, ProgramPrints, ProgramEnds, BashExits,
         Bot, Terminal, kb
<1>2. WorkInv' /\ (OwnReplies => OwnReplies')
  BY <1>1 DEF ShellInv, WorkInv, AtWork, OwnReplies
<1>3. \A m \in Messages : (Poised(m)' <=> Poised(m)) /\ (Commands(m)' <=> Commands(m))
  BY <1>1 DEF Poised, Commands
<1>4. SUFFICES
         /\ fg' \in [of : Drivers \cup {None}, mark : BOOLEAN]
             /\ typed' \in Seq(Entry) /\ out' \in Seq(Entry)
             /\ loose' \in BOOLEAN /\ eaten' \subseteq Messages /\ bash' \in {"none", "live", "dead"}
             /\ QuietInv' /\ (loose' \/ Followed')
  BY <1>1, <1>2, ShellTypes DEF ShellInv, TypeInv, ShellTypeOK, Entry
<1>5. /\ Idle \in [of : Drivers \cup {None}, mark : BOOLEAN] /\ ~Idle.mark
      /\ \A x \in Entry : x \in [of : Drivers \cup {None}, mark : BOOLEAN]
  BY DEF Idle, Entry
<1>6. loose \/ Followed
  BY DEF ShellInv
<1>7. fg # Idle => fg \in Entry
  BY DEF ShellInv, QuietInv
<1>8. CASE BashReads
  <2>1. /\ fg = Idle /\ typed # <<>> /\ typed' = Tail(typed) /\ bash' = bash /\ eaten' = eaten
    BY <1>8 DEF BashReads
  <2>2. /\ typed' \in Seq(Entry) /\ Head(typed) \in Entry /\ 1 \in DOMAIN typed /\ Head(typed) = typed[1]
        /\ \A i \in DOMAIN typed' : i + 1 \in DOMAIN typed /\ i + 1 # 1 /\ typed'[i] = typed[i + 1]
    BY <2>1, ShellTypes, TailText
  <2>3. Unmarked => Unmarked'
    BY <2>2 DEF Unmarked
  <2>4. CASE Head(typed).of \in Messages
    <3>1. fg' = Head(typed) /\ loose' = (loose \/ ~Head(typed).mark) /\ out' = out
      BY <1>8, <2>4 DEF BashReads
    <3>2. Head(typed).mark \in BOOLEAN
      BY <2>2 DEF Entry
    <3>3. QuietInv'
      BY <1>1, <2>1, <2>2, <3>1 DEF QuietInv, Entry, Drivers, Idle
    <3>4. ASSUME ~loose' PROVE Followed'
      <4>1. Followed /\ typed[1].mark
        BY <1>6, <2>2, <3>1, <3>2, <3>4
      <4>2. ~Clear
        BY <2>2, <4>1 DEF Clear, Unmarked
      <4>3. Marks' = {} /\ out' = out
        BY <3>1, <4>1, <4>2 DEF Followed, MarksInv, Marks
      <4>4. Unmarked'
        <5> SUFFICES ASSUME NEW i \in DOMAIN typed', typed'[i].mark PROVE FALSE
          BY DEF Unmarked
        <5>1. typed[i + 1].mark /\ i + 1 \in DOMAIN typed /\ i + 1 # 1
          BY <2>2
        <5> QED
          BY <2>2, <4>1, <5>1 DEF Followed, MarksInv
      <4>5. MarksInv'
        BY <4>3, <4>4 DEF MarksInv, Unmarked
      <4>6. AwaitInv'
        BY <1>1, <1>3, <4>1, <4>2 DEF Followed, AwaitInv
      <4>7. OwnInv'
        BY <1>3, <2>2, <3>1, <4>1, <4>4 DEF Followed, OwnInv, Unmarked
      <4> QED
        BY <1>2, <2>1, <4>1, <4>5, <4>6, <4>7 DEF Followed
    <3>5. fg' \in [of : Drivers \cup {None}, mark : BOOLEAN] /\ loose' \in BOOLEAN
      BY <1>5, <2>2, <3>1, <3>2, ShellTypes
    <3> QED
      BY <1>1, <2>1, <2>2, <3>1, <3>3, <3>4, <3>5, ShellTypes
  <2>5. CASE Head(typed).of \notin Messages
    <3>1. /\ fg' = fg /\ loose' = loose
          /\ out' = out \/ out' = Append(out, Text(Head(typed).of))
      BY <1>8, <2>5 DEF BashReads
    <3>2. Text(Head(typed).of) \in Entry /\ ~Text(Head(typed).of).mark
      BY <2>2 DEF Text, Entry
    <3>3. out' \in Seq(Entry) /\ \A i \in DOMAIN out' : out'[i].mark => i \in DOMAIN out /\ out'[i] = out[i]
      <4>1. out \in Seq(Entry)
        BY ShellTypes
      <4>2. CASE out' = out
        BY <4>1, <4>2
      <4>3. CASE out' = Append(out, Text(Head(typed).of))
        BY <3>2, <4>1, <4>3, AppendText
      <4> QED
        BY <3>1, <4>2, <4>3
    <3>4. QuietInv'
      BY <1>1, <2>1, <3>1 DEF QuietInv, Idle
    <3>5. ASSUME ~loose' PROVE Followed'
      <4>1. Followed
        BY <1>6, <3>1, <3>5
      <4>2. Clear => Clear'
        BY <2>1, <2>3, <3>1 DEF Clear, Idle
      <4>3. MarksInv'
        <5>1. (fg # Idle => Unmarked)'
          BY <2>1, <3>1 DEF Idle
        <5>2. (Marks # {} => Clear)'
          BY <3>3, <4>1, <4>2 DEF Followed, MarksInv, Marks
        <5>3. ASSUME NEW i \in DOMAIN typed', NEW j \in DOMAIN typed', typed'[i].mark, typed'[j].mark
              PROVE  i = j
          <6>1. i + 1 = j + 1
            BY <2>2, <4>1, <5>3 DEF Followed, MarksInv
          <6>2. i \in Nat /\ j \in Nat
            BY <2>2
          <6> QED
            BY <6>1, <6>2
        <5> QED
          BY <5>1, <5>2, <5>3 DEF MarksInv
      <4>4. AwaitInv'
        BY <1>1, <1>3, <4>1, <4>2 DEF Followed, AwaitInv
      <4>5. OwnInv'
        BY <1>3, <2>1, <2>2, <3>1, <3>3, <4>1 DEF Followed, OwnInv, Idle
      <4> QED
        BY <1>2, <2>1, <4>1, <4>3, <4>4, <4>5 DEF Followed
    <3> QED
      BY <1>1, <2>1, <2>2, <3>1, <3>3, <3>4, <3>5, ShellTypes
  <2> QED
    BY <2>4, <2>5
<1>9. CASE ProgramReads
  <2>1. /\ fg # Idle /\ typed # <<>> /\ typed' = Tail(typed) /\ bash' = bash /\ fg' = fg /\ out' = out
        /\ eaten' = eaten \cup {m \in Messages : Head(typed) = Marked(m)} /\ loose' = loose
    BY <1>9 DEF ProgramReads, Terminal
  <2>2. /\ typed' \in Seq(Entry) /\ Head(typed) \in Entry /\ 1 \in DOMAIN typed /\ Head(typed) = typed[1]
        /\ \A i \in DOMAIN typed' : i + 1 \in DOMAIN typed /\ i + 1 # 1 /\ typed'[i] = typed[i + 1]
    BY <2>1, ShellTypes, TailText
  <2>3. QuietInv'
    BY <1>1, <1>7, <2>1 DEF QuietInv, Idle, Entry, Drivers
  <2>4. ASSUME ~loose' PROVE Followed'
    <3>1. Followed /\ Unmarked /\ ~Clear
      BY <1>6, <2>1, <2>4 DEF Followed, MarksInv, Clear
    <3>2. Unmarked'
      BY <2>2, <3>1 DEF Unmarked
    <3>3. eaten' = {}
      <4>1. \A m \in Messages : Head(typed) # Marked(m)
        BY <2>2, <3>1 DEF Unmarked, Marked
      <4> QED
        BY <2>1, <3>1, <4>1 DEF Followed
    <3>4. MarksInv'
      BY <2>1, <3>1, <3>2 DEF Followed, MarksInv, Unmarked, Marks
    <3>5. AwaitInv'
      BY <1>1, <1>3, <3>1 DEF Followed, AwaitInv
    <3>6. OwnInv'
      BY <1>3, <2>1, <3>1, <3>2 DEF Followed, OwnInv, Unmarked, Idle
    <3> QED
      BY <1>2, <3>1, <3>3, <3>4, <3>5, <3>6 DEF Followed
  <2> QED
    BY <1>1, <1>5, <2>1, <2>2, <2>3, <2>4, ShellTypes
<1>10. CASE ProgramPrints
  <2>1. /\ fg # Idle /\ typed' = typed /\ bash' = bash /\ fg' = fg /\ out' = Append(out, Text(fg.of))
        /\ eaten' = eaten /\ loose' = loose
    BY <1>10 DEF ProgramPrints, Terminal
  <2>2. Text(fg.of) \in Entry /\ ~Text(fg.of).mark
    BY <1>7, <2>1 DEF Text, Entry
  <2>3. out' \in Seq(Entry) /\ \A i \in DOMAIN out' : out'[i].mark => i \in DOMAIN out /\ out'[i] = out[i]
    BY <2>1, <2>2, ShellTypes, AppendText
  <2>4. QuietInv'
    BY <1>1, <1>7, <2>1 DEF QuietInv, Idle, Entry, Drivers
  <2>5. ASSUME ~loose' PROVE Followed'
    <3>1. Followed
      BY <1>6, <2>1, <2>5
    <3>2. Unmarked' <=> Unmarked
      BY <2>1 DEF Unmarked
    <3>3. Clear' <=> Clear
      BY <2>1, <3>2 DEF Clear, Idle
    <3>4. MarksInv'
      BY <2>1, <2>3, <3>1, <3>2, <3>3 DEF Followed, MarksInv, Marks, Idle
    <3>5. AwaitInv'
      BY <1>1, <1>3, <3>1, <3>3 DEF Followed, AwaitInv
    <3>6. OwnInv'
      BY <1>3, <2>1, <2>3, <3>1 DEF Followed, OwnInv, Idle
    <3> QED
      BY <1>2, <2>1, <3>1, <3>4, <3>5, <3>6 DEF Followed
  <2> QED
    BY <1>1, <1>5, <1>7, <2>1, <2>3, <2>4, <2>5, ShellTypes
<1>11. CASE ProgramEnds
  <2>1. /\ fg # Idle /\ typed' = typed /\ bash' = bash /\ fg' = Idle
        /\ out' = IF fg.mark THEN Append(out, fg) ELSE out
        /\ eaten' = eaten /\ loose' = loose
    BY <1>11 DEF ProgramEnds, Terminal
  <2>2. /\ out' \in Seq(Entry)
        /\ \A i \in DOMAIN out' : out'[i].mark => (i \in DOMAIN out /\ out'[i] = out[i]) \/ out'[i] = fg
    BY <1>7, <2>1, ShellTypes, AppendText
  <2>3. QuietInv'
    BY <1>1, <2>1 DEF QuietInv, Idle
  <2>4. ASSUME ~loose' PROVE Followed'
    <3>1. Followed /\ Unmarked
      BY <1>6, <2>1, <2>4 DEF Followed, MarksInv
    <3>2. Unmarked' /\ Clear'
      BY <2>1, <3>1 DEF Clear, Unmarked, Idle
    <3>3. MarksInv' /\ AwaitInv'
      BY <3>2 DEF MarksInv, AwaitInv, Clear, Unmarked
    <3>4. OwnInv'
      BY <1>3, <2>1, <2>2, <3>1, <3>2 DEF Followed, OwnInv, Clear, Unmarked
    <3> QED
      BY <1>2, <2>1, <3>1, <3>3, <3>4 DEF Followed
  <2> QED
    BY <1>1, <1>5, <2>1, <2>2, <2>3, <2>4, ShellTypes
<1>12. CASE BashExits
  <2>1. bash' = "dead" /\ fg' = Idle /\ typed' = <<>> /\ out' = out /\ eaten' = eaten /\ loose' = loose
    BY <1>12 DEF BashExits, Terminal
  <2>2. QuietInv' /\ Clear'
    BY <2>1, EmptyText DEF QuietInv, Clear, Unmarked, Idle
  <2>3. <<>> \in Seq(Entry)
    OBVIOUS
  <2>4. loose' \/ Followed'
    BY <1>1, <1>3, <2>1, <2>2, TypesNothing
  <2> QED
    BY <1>5, <2>1, <2>2, <2>3, <2>4, ShellTypes
<1> QED
  BY <1>8, <1>9, <1>10, <1>11, <1>12

-----------------------------------------------------------------------------

LEMMA ShellSteps ==
  ASSUME ShellAssumption, ShellInv, [ShellNext]_shellVars
  PROVE  ShellInv'
<1>1. CASE UNCHANGED shellVars
  <2>1. /\ UNCHANGED <<row, mode, awaiting, pad, render, session, queue, stage, seen, line>>
        /\ UNCHANGED <<bash, fg, typed, out, reply, eaten, loose>>
    BY <1>1 DEF shellVars, kb, tty
  <2> QED
    BY <2>1 DEF ShellInv, TypeInv, ShellTypeOK, WorkInv, QuietInv, Followed, MarksInv, AwaitInv, OwnInv,
        OwnReplies, Clear, Unmarked, Poised, Commands, AtWork, Idle, Marks
<1>2. CASE \E m \in Messages : Message(m)
  <2> SUFFICES ASSUME NEW m \in Messages, Message(m) PROVE ShellInv'
    BY <1>2
  <2>1. m \in Drivers
    BY DEF Drivers
  <2> QED
    BY <2>1, QueueSteps, Joins, NoShell, Again DEF Message
<1>3. CASE \E d \in Drivers : Drive(d)
  <2> SUFFICES ASSUME NEW d \in Drivers, Drive(d) PROVE ShellInv'
    BY <1>3
  <2> QED
    BY Starts, DriveEnds, NoShell DEF Drive
<1>4. CASE \E p \in Presses : Key(p)
  BY <1>4, KeySteps
<1>5. CASE \E t \in Toggles : Toggle(t)
  BY <1>5, ToggleSteps
<1>6. CASE Environment
  BY <1>6, ClientGoes, Beyond DEF Environment
<1> QED
  BY <1>1, <1>2, <1>3, <1>4, <1>5, <1>6 DEF ShellNext

(* The values of the shell's state are what its comments say.              *)
THEOREM ShellStays == ShellSpec => []ShellInv
<1>1. ShellInit => ShellInv
  BY ShellStarts, ShellConstants
<1>2. ShellInv /\ [ShellNext]_shellVars => ShellInv'
  BY ShellSteps, ShellConstants
<1> QED
  BY <1>1, <1>2, PTL DEF ShellSpec

(* A command is never typed into a program (PersistentShell.run and        *)
(* SessionManager._run_shell_command), unless one runs that nobody         *)
(* follows.                                                                *)
THEOREM TypedAtThePrompt == ShellSpec => []CommandsReachBash
<1>1. ShellInv => CommandsReachBash
  BY DEF ShellInv, Followed, CommandsReachBash
<1> QED
  BY <1>1, ShellStays, PTL

(* The result shown under a command is its own (PersistentShell.drive),    *)
(* with the same exceptions.                                               *)
THEOREM ResultsAreOwn == ShellSpec => []RepliesMatch
<1>1. ShellInv => RepliesMatch
  BY DEF ShellInv, Followed, OwnReplies, RepliesMatch
<1> QED
  BY <1>1, ShellStays, PTL

=============================================================================
