--------------------------- MODULE PermissionGate ---------------------------
(***************************************************************************)
(* The approval gate of app/access/permissions.py: a dangerous tool call   *)
(* asks the owner with a Telegram message that has an Allow and a Deny     *)
(* button, and waits for a tap, a stop of its session, its cancellation or *)
(* the timeout.                                                            *)
(*                                                                         *)
(* A request is one call of can_use_tool that has to ask (the ones that    *)
(* are answered without asking touch no state of the gate).  A step is     *)
(* what a coroutine does from one await to the next; a message may be on   *)
(* the owner's screen, and be tapped, before send_message() has returned.  *)
(* asyncio.wait_for is Python 3.11's, which requirements/ and the CI name: *)
(* a decision that is there when the wait ends is returned, whether the    *)
(* wait timed out or was cancelled.                                        *)
(***************************************************************************)
EXTENDS Naturals, FiniteSets

CONSTANTS
  Requests,   \* calls of can_use_tool that ask
  Keys,       \* sessions
  Cancels     \* calls of cancel_thread

VARIABLES
  pc,        \* where each request is
  key,       \* its session
  fut,       \* its future
  pending,   \* _pending: requests whose future a tap can find
  threads,   \* _threads: requests cancel_thread can find
  messages,  \* _messages: requests whose message can be edited
  forget,    \* taps that found nothing to decide and are being answered
  shown,     \* the message on the owner's screen
  edit,      \* the edit of that message under way
  unedited,  \* requests whose edit failed
  outcome,   \* what the SDK was told
  cpc,       \* where each call of cancel_thread is
  todo,      \* the ids it has still to go through
  caught,    \* history: the ids of its snapshot
  editing    \* the requests whose edit it waits for (at most one)

futVars == <<key, fut, pending, threads, messages>>
screenVars == <<shown, edit, unedited>>
cancelVars == <<cpc, todo, caught, editing>>
vars == <<pc, futVars, forget, screenVars, outcome, cancelVars>>

Notes == {"allowed", "denied", "timed out", "cancelled"}

TypeOK ==
  /\ pc \in [Requests -> {"idle", "send", "wait", "timeout", "cancel",
                          "timeout noted", "cancel noted", "done"}]
  /\ key \in [Requests -> Keys]
  /\ fut \in [Requests -> {"none", "pending", "allow", "deny", "cancelled"}]
  /\ pending \subseteq Requests /\ threads \subseteq Requests /\ messages \subseteq Requests
  /\ forget \subseteq Requests /\ unedited \subseteq Requests
  /\ shown \in [Requests -> {"none", "live"} \cup Notes]
  /\ edit \in [Requests -> {"none"} \cup Notes]
  /\ outcome \in [Requests -> {"none", "allow", "deny", "raised"}]
  /\ cpc \in [Cancels -> {"idle", "going", "done"}]
  /\ todo \in [Cancels -> SUBSET Requests] /\ caught \in [Cancels -> SUBSET Requests]
  /\ editing \in [Cancels -> SUBSET Requests]

Init ==
  /\ pc = [r \in Requests |-> "idle"]
  /\ key \in [Requests -> Keys]
  /\ fut = [r \in Requests |-> "none"]
  /\ pending = {} /\ threads = {} /\ messages = {} /\ forget = {}
  /\ shown = [r \in Requests |-> "none"]
  /\ edit = [r \in Requests |-> "none"] /\ unedited = {}
  /\ outcome = [r \in Requests |-> "none"]
  /\ cpc = [c \in Cancels |-> "idle"]
  /\ todo = [c \in Cancels |-> {}] /\ caught = [c \in Cancels |-> {}]
  /\ editing = [c \in Cancels |-> {}]

-----------------------------------------------------------------------------
(* can_use_tool *)

Goto(r, l) == pc' = [pc EXCEPT ![r] = l]

Settle(r, o) == Goto(r, "done") /\ outcome' = [outcome EXCEPT ![r] = o]

Unlist(r) == pending' = pending \ {r} /\ threads' = threads \ {r}

Ask(r) ==
  /\ pc[r] = "idle"
  /\ fut' = [fut EXCEPT ![r] = "pending"]
  /\ pending' = pending \cup {r} /\ threads' = threads \cup {r}
  /\ Goto(r, "send")
  /\ UNCHANGED <<key, messages, forget, screenVars, outcome, cancelVars>>

(* Telegram shows the message with its buttons. *)
Deliver(r) ==
  /\ pc[r] = "send" /\ shown[r] = "none"
  /\ shown' = [shown EXCEPT ![r] = "live"]
  /\ UNCHANGED <<pc, futVars, forget, edit, unedited, outcome, cancelVars>>

SendReturns(r) ==
  /\ pc[r] = "send" /\ shown[r] = "live"
  /\ messages' = messages \cup {r}
  /\ Goto(r, "wait")
  /\ UNCHANGED <<key, fut, pending, threads, forget, screenVars, outcome, cancelVars>>

SendFails(r) ==
  /\ pc[r] = "send"
  /\ Unlist(r)
  /\ Settle(r, "deny")
  /\ UNCHANGED <<key, fut, messages, forget, screenVars, cancelVars>>

(* The task is cancelled while it sends: no except clause applies. *)
SendCancelled(r) ==
  /\ pc[r] = "send"
  /\ Settle(r, "raised")
  /\ UNCHANGED <<futVars, forget, screenVars, cancelVars>>

(* The future has a decision. *)
Answered(r) ==
  /\ pc[r] = "wait" /\ fut[r] \in {"allow", "deny"}
  /\ Unlist(r)
  /\ Settle(r, fut[r])
  /\ UNCHANGED <<key, fut, messages, forget, screenVars, cancelVars>>

(* wait_for cancels a future that is still pending, when the time is up or *)
(* when the task itself is cancelled, and lets the loop run once.          *)
WaitEnds(r, l) ==
  /\ pc[r] = "wait" /\ fut[r] = "pending"
  /\ fut' = [fut EXCEPT ![r] = "cancelled"]
  /\ Goto(r, l)
  /\ UNCHANGED <<key, pending, threads, messages, forget, screenVars, outcome, cancelVars>>

(* Mutant: the timeout does not apply while the owner can still answer. *)
TimesOutUnlessShown(r) == r \notin messages /\ WaitEnds(r, "timeout")

TimesOut(r) == WaitEnds(r, "timeout")

WaitCancelled(r) == WaitEnds(r, "cancel")

(* _expire(): the entries go, and the message, if it is known, is edited. *)
Expire(r, note) ==
  /\ Unlist(r)
  /\ messages' = messages \ {r}
  /\ edit' = IF r \in messages THEN [edit EXCEPT ![r] = note] ELSE edit

ExpireOwn(r) ==
  /\ \/ pc[r] = "timeout" /\ Expire(r, "timed out") /\ Goto(r, "timeout noted")
     \/ pc[r] = "cancel" /\ Expire(r, "cancelled") /\ Goto(r, "cancel noted")
  /\ UNCHANGED <<key, fut, forget, shown, unedited, outcome, cancelVars>>

Expired(r) ==
  /\ edit[r] = "none"
  /\ \/ pc[r] = "timeout noted" /\ Settle(r, "deny")
     \/ pc[r] = "cancel noted" /\ Settle(r, "raised")
  /\ Unlist(r)
  /\ UNCHANGED <<key, fut, messages, forget, screenVars, cancelVars>>

(* Telegram applies an edit, or refuses it and the error is suppressed. *)
EditEnds(r) ==
  /\ edit[r] # "none"
  /\ edit' = [edit EXCEPT ![r] = "none"]
  /\ \/ shown' = [shown EXCEPT ![r] = edit[r]] /\ UNCHANGED unedited
     \/ unedited' = unedited \cup {r} /\ UNCHANGED shown
  /\ UNCHANGED <<pc, futVars, forget, outcome, cancelVars>>

-----------------------------------------------------------------------------
(* handle_decision: the owner taps a button, once or more often *)

Decisions == {"allow", "deny"}
Verdict(d) == IF d = "allow" THEN "allowed" ELSE "denied"

(* Mutants: the tap stores what it shows; the tap does not ask whether the *)
(* request is decided before it shows its verdict.                         *)
(* The request is decided and its message edited. *)
TapDecides(r, d) ==
  /\ shown[r] # "none" /\ r \in pending /\ fut[r] = "pending"
  /\ fut' = [fut EXCEPT ![r] = d]
  /\ Unlist(r)
  /\ messages' = messages \ {r}
  /\ edit' = IF r \in messages THEN [edit EXCEPT ![r] = Verdict(d)] ELSE edit
  /\ UNCHANGED <<pc, key, forget, shown, unedited, outcome, cancelVars>>

(* Unknown, decided or expired: the tap is answered with a toast, then the *)
(* leftovers are dropped.                                                  *)
TapStale(r) ==
  /\ shown[r] # "none" /\ (r \notin pending \/ fut[r] # "pending")
  /\ forget' = forget \cup {r}
  /\ UNCHANGED <<pc, futVars, screenVars, outcome, cancelVars>>

TapForgets(r) ==
  /\ r \in forget
  /\ forget' = forget \ {r}
  /\ messages' = messages \ {r} /\ threads' = threads \ {r}
  /\ UNCHANGED <<pc, key, fut, pending, screenVars, outcome, cancelVars>>

-----------------------------------------------------------------------------
(* cancel_thread *)

CancelStart(c, k) ==
  LET ids == {r \in threads : key[r] = k} IN
  /\ cpc[c] = "idle"
  /\ cpc' = [cpc EXCEPT ![c] = "going"]
  /\ todo' = [todo EXCEPT ![c] = ids]
  /\ caught' = [caught EXCEPT ![c] = ids]
  /\ UNCHANGED <<pc, futVars, forget, screenVars, outcome, editing>>

(* The edit of the message before, if there was one, has returned. *)
AtNextId(c) == cpc[c] = "going" /\ \A q \in editing[c] : edit[q] = "none"

(* Mutants: a future that is done already is set again; the entry goes and *)
(* the future is left waiting.                                             *)
CancelOverrides(c, r) ==
  /\ AtNextId(c) /\ r \in todo[c]
  /\ fut' = IF r \in pending THEN [fut EXCEPT ![r] = "deny"] ELSE fut
  /\ Expire(r, "cancelled")
  /\ todo' = [todo EXCEPT ![c] = @ \ {r}]
  /\ editing' = [editing EXCEPT ![c] = IF r \in messages THEN {r} ELSE {}]
  /\ UNCHANGED <<pc, key, forget, shown, unedited, outcome, cpc, caught>>

CancelWithoutDeny(c, r) ==
  /\ AtNextId(c) /\ r \in todo[c]
  /\ Expire(r, "cancelled")
  /\ todo' = [todo EXCEPT ![c] = @ \ {r}]
  /\ editing' = [editing EXCEPT ![c] = IF r \in messages THEN {r} ELSE {}]
  /\ UNCHANGED <<pc, key, fut, forget, shown, unedited, outcome, cpc, caught>>

(* The next id: its future, if it is still there and pending, is denied,   *)
(* and the request expired.                                                *)
CancelDenies(c, r) ==
  /\ AtNextId(c) /\ r \in todo[c]
  /\ fut' = IF r \in pending /\ fut[r] = "pending" THEN [fut EXCEPT ![r] = "deny"] ELSE fut
  /\ Expire(r, "cancelled")
  /\ todo' = [todo EXCEPT ![c] = @ \ {r}]
  /\ editing' = [editing EXCEPT ![c] = IF r \in messages THEN {r} ELSE {}]
  /\ UNCHANGED <<pc, key, forget, shown, unedited, outcome, cpc, caught>>

CancelEnds(c) ==
  /\ AtNextId(c) /\ todo[c] = {}
  /\ cpc' = [cpc EXCEPT ![c] = "done"]
  /\ UNCHANGED <<pc, futVars, forget, screenVars, outcome, todo, caught, editing>>

-----------------------------------------------------------------------------

Next ==
  \/ \E r \in Requests :
       \/ Ask(r) \/ Deliver(r) \/ SendReturns(r) \/ SendFails(r) \/ SendCancelled(r)
       \/ Answered(r) \/ TimesOut(r) \/ WaitCancelled(r) \/ ExpireOwn(r) \/ Expired(r)
       \/ EditEnds(r) \/ TapStale(r) \/ TapForgets(r)
       \/ \E d \in Decisions : TapDecides(r, d)
  \/ \E c \in Cancels :
       \/ \E k \in Keys : CancelStart(c, k)
       \/ \E r \in Requests : CancelDenies(c, r)
       \/ CancelEnds(c)

Spec == Init /\ [][Next]_vars

(* Telegram answers every call, the timer fires and the loop runs what is  *)
(* ready.  The owner need not tap and nobody has to stop the session.      *)
Fairness ==
  /\ \A r \in Requests :
       /\ WF_vars(Deliver(r) \/ SendReturns(r) \/ SendFails(r))
       /\ WF_vars(Answered(r)) /\ WF_vars(TimesOut(r))
       /\ WF_vars(ExpireOwn(r)) /\ WF_vars(Expired(r)) /\ WF_vars(EditEnds(r))
  /\ \A c \in Cancels :
       WF_vars(CancelEnds(c)) /\ WF_vars(\E r \in Requests : CancelDenies(c, r))

FairSpec == Spec /\ Fairness

-----------------------------------------------------------------------------

(* As long as a tool call waits without a decision, a tap and a stop of    *)
(* its session find it: nothing but a decision takes it off the lists.     *)
WaitingIsReachable ==
  \A r \in Requests :
    pc[r] \in {"send", "wait"} /\ fut[r] = "pending" => r \in pending /\ r \in threads

(* The prompt never ends up showing one verdict while the SDK got another: *)
(* not by two taps, nor by a tap that races the timeout, a stop or a       *)
(* failed send.                                                            *)
VerdictIsOutcome ==
  \A r \in Requests :
    /\ shown[r] = "allowed" => outcome[r] \in {"none", "allow"}
    /\ shown[r] = "denied" => outcome[r] \in {"none", "deny"}
    /\ shown[r] = "timed out" => outcome[r] \in {"none", "deny"}

(* When cancel_thread() has returned, every call it found waiting has its  *)
(* decision, so the gated turn is unblocked.                               *)
StopUnblocks ==
  \A c \in Cancels : cpc[c] = "done" =>
    \A r \in caught[c] : pc[r] \in {"send", "wait"} => fut[r] # "pending"

(* The first decision stands: later taps, a stop or the timeout never      *)
(* change it.                                                              *)
FirstDecisionStands ==
  [][\A r \in Requests :
       fut[r] \in {"allow", "deny", "cancelled"} => fut'[r] = fut[r]]_vars

(* Every tool call that asked is answered, whether or not anybody taps. *)
EveryCallSettles == \A r \in Requests : pc[r] = "send" ~> pc[r] = "done"

=============================================================================
