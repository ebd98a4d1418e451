----------------------------- MODULE MaxBridge -----------------------------
(***************************************************************************)
(* The MAX messenger beside Telegram: the poller that turns MAX updates    *)
(* into handler tasks (app/max/poller.py) and the session that turns Bot   *)
(* API calls into MAX ones (app/max/bridge.py, app/max/client.py), for one *)
(* chat.                                                                   *)
(*                                                                         *)
(* Every update starts a reply: drafts while it runs, an answer in one or  *)
(* more parts at its end.  Replies of different sessions of one user share *)
(* the chat and run at the same time.  MAX cannot stream, so the first     *)
(* draft posts an indicator ("Thinking...") that the next message of the   *)
(* chat turns into its first part.  A call of MAX is a step at the server  *)
(* and a step at its return, and may fail before the first or lose its     *)
(* answer after it.  MAX is external: it keeps updates and hands out those *)
(* after a marker.  What a message says is left out, and with it the       *)
(* rejected HTML that is sent again as plain text.                         *)
(***************************************************************************)
EXTENDS Naturals, FiniteSets

CONSTANTS
  MaxUpdates, \* updates of the user, each answered by a reply
  MaxParts,   \* parts of an answer
  MaxDrafts,  \* drafts of one reply that reach the bridge
  MaxFaults,  \* calls of MAX that fail or whose answer is lost, writes of the marker that fail
  MaxCrashes  \* restarts of the process

(* Of the constants; the MC module assumes it, TLC evaluates it.            *)
MaxAssumption ==
  /\ MaxUpdates \in Nat \ {0} /\ MaxParts \in Nat \ {0}
  /\ {MaxDrafts, MaxFaults, MaxCrashes} \subseteq Nat

Update == 1..MaxUpdates

VARIABLES
  marker,    \* of the poller, 0 at the start
  saved,     \* kv max_marker
  batch,     \* the last update of the batch in hand, 0 when polling
  handled,   \* how often each update was given to a task
  reply,     \* of each update: where it is, parts left, drafts left, a mid in hand
  ph,        \* _placeholders of the chat: mid and whether it is past its TTL
  chat,      \* each message that was an indicator: still one, gone, or whose part
  posted,    \* the other messages of the chat: whose part each one is
  quiet,     \* _delete_quiet tasks: the mids they delete
  left,      \* what is left of each bound
  replayed   \* history: updates that a restart brings back

poll == <<marker, saved, batch, handled, replayed>>
vars == <<poll, reply, ph, chat, posted, quiet, left>>

Off == [pc |-> "off", part |-> 1, drafts |-> 0, media |-> FALSE, mid |-> 0]
NoPh == [mid |-> 0, old |-> FALSE]
Indicator == [of |-> 0, part |-> 0]
Gone == [of |-> 0, part |-> 1]
Lost == [of |-> 0, part |-> 2]             \* an indicator nothing will touch again
Mids == DOMAIN chat

Init ==
  /\ marker = 0 /\ saved = 0 /\ batch = 0
  /\ handled = [u \in Update |-> 0]
  /\ reply = [u \in Update |-> Off]
  /\ ph = NoPh /\ chat = <<>> /\ posted = {} /\ quiet = {}
  /\ left = [fault |-> MaxFaults, crash |-> MaxCrashes]
  /\ replayed = {}

TypeOK ==
  /\ marker \in 0..MaxUpdates /\ saved \in 0..MaxUpdates
  /\ batch \in 0..MaxUpdates /\ handled \in [Update -> Nat]
  /\ \A u \in Update : reply[u].pc \in {"off", "run", "post", "set", "clear", "drop",
                                        "edit", "part", "done"}
  /\ ph \in [mid : Nat, old : BOOLEAN] /\ quiet \subseteq Mids
  /\ replayed \subseteq Update

Fault == left.fault > 0 /\ left' = [left EXCEPT !.fault = @ - 1]
Goto(u, r) == reply' = [reply EXCEPT ![u] = r]
Last == Cardinality(Mids)
Add(m) == chat' = [i \in 1..Last + 1 |-> IF i \in Mids THEN chat[i] ELSE m]
Turns(mid, m) == chat' = [chat EXCEPT ![mid] = m]

-----------------------------------------------------------------------------
(* MaxPoller.run                                                           *)

(* A long poll returns what came after the marker, and the tasks start.    *)
(* One that fails is repeated.                                             *)
Poll ==
  /\ batch = 0
  /\ \E last \in marker + 1..MaxUpdates :
       LET new == marker + 1..last IN
       /\ batch' = last
       /\ handled' = [u \in Update |-> IF u \in new THEN handled[u] + 1 ELSE handled[u]]
       /\ \E m \in [new -> BOOLEAN] :
            reply' = [u \in Update |->
                        IF u \in new THEN [Off EXCEPT !.pc = "run", !.drafts = MaxDrafts,
                                                      !.media = m[u]]
                        ELSE reply[u]]
  /\ UNCHANGED <<marker, saved, replayed, ph, chat, posted, quiet, left>>

(* The marker moves on, and is stored if the database lets it.             *)
SaveMarker ==
  /\ batch # 0 /\ batch' = 0 /\ marker' = batch
  /\ \/ saved' = batch /\ UNCHANGED left
     \/ Fault /\ UNCHANGED saved
  /\ UNCHANGED <<handled, replayed, reply, ph, chat, posted, quiet>>

-----------------------------------------------------------------------------
(* _draft                                                                  *)

(* The first draft posts the indicator, later ones are ignored.            *)
Draft(u) ==
  /\ reply[u].pc = "run" /\ reply[u].drafts > 0
  /\ Goto(u, [reply[u] EXCEPT !.drafts = @ - 1, !.pc = IF ph = NoPh THEN "post" ELSE "run"])
  /\ UNCHANGED <<poll, ph, chat, posted, quiet, left>>

DraftPosts(u) ==
  /\ reply[u].pc = "post"
  /\ \/ /\ Add(Indicator) /\ Goto(u, [reply[u] EXCEPT !.pc = "set", !.mid = Last + 1])
        /\ UNCHANGED left
     \/ /\ Fault /\ Goto(u, [reply[u] EXCEPT !.pc = "run"])
        /\ Add(Lost) \/ UNCHANGED chat
  /\ UNCHANGED <<poll, ph, posted, quiet>>

(* The indicator another draft registered meanwhile is forgotten.          *)
DraftSets(u) ==
  /\ reply[u].pc = "set"
  /\ ph' = [mid |-> reply[u].mid, old |-> FALSE]
  /\ IF ph = NoPh THEN UNCHANGED chat ELSE Turns(ph.mid, Lost)
  /\ Goto(u, [reply[u] EXCEPT !.pc = "run", !.mid = 0])
  /\ UNCHANGED <<poll, posted, quiet, left>>

(* An empty draft clears the indicator.                                    *)
EmptyDraft(u) ==
  /\ reply[u].pc = "run" /\ reply[u].drafts > 0
  /\ ph' = NoPh
  /\ Goto(u, [reply[u] EXCEPT !.drafts = @ - 1, !.mid = ph.mid,
                              !.pc = IF ph = NoPh THEN "run" ELSE "clear"])
  /\ UNCHANGED <<poll, chat, posted, quiet, left>>

(* _delete_quiet: a deletion that fails is not tried again.                *)
Deletes(mid) ==
  \/ Turns(mid, Gone) /\ UNCHANGED left
  \/ Turns(mid, Lost) /\ Fault

Clears(u) ==
  /\ reply[u].pc \in {"clear", "drop"} /\ Deletes(reply[u].mid)
  /\ Goto(u, [reply[u] EXCEPT !.mid = 0, !.pc = IF reply[u].pc = "clear" THEN "run" ELSE "part"])
  /\ UNCHANGED <<poll, ph, posted, quiet>>

-----------------------------------------------------------------------------
(* _deliver: the answer, after the reply's last draft                      *)

(* Mutant: the indicator is looked up and stays registered.                *)
DeliverPeeks(u) ==
  /\ reply[u].pc = "run"
  /\ Goto(u, [reply[u] EXCEPT !.mid = ph.mid, !.pc = IF ph = NoPh THEN "part" ELSE "edit"])
  /\ UNCHANGED <<poll, ph, chat, posted, quiet, left>>

(* _take_placeholder: a stale one is deleted by a task of its own, one in  *)
(* the way of media before the first part.                                 *)
Deliver(u) ==
  /\ reply[u].pc = "run"
  /\ ph' = NoPh
  /\ quiet' = IF ph.old THEN quiet \cup {ph.mid} ELSE quiet
  /\ LET usable == ph # NoPh /\ ~ph.old IN
     Goto(u, [reply[u] EXCEPT !.mid = IF usable THEN ph.mid ELSE 0,
                              !.pc = IF ~usable THEN "part"
                                     ELSE IF reply[u].media THEN "drop" ELSE "edit"])
  /\ UNCHANGED <<poll, chat, posted, left>>

QuietDelete ==
  \E mid \in quiet :
    /\ Deletes(mid) /\ quiet' = quiet \ {mid}
    /\ UNCHANGED <<poll, reply, ph, posted>>

Part(u) == [of |-> u, part |-> reply[u].part]
Again(u) == [reply[u] EXCEPT !.pc = "run", !.mid = 0, !.part = 1, !.drafts = 0]
AfterPart(u) == [reply[u] EXCEPT !.mid = 0, !.part = @ + 1,
                                 !.pc = IF reply[u].part = MaxParts THEN "done" ELSE "part"]

(* The indicator becomes the first part.  When a call fails, the caller    *)
(* sends the whole answer again in another form.                           *)
Edits(u) ==
  /\ reply[u].pc = "edit"
  /\ \/ Turns(reply[u].mid, Part(u)) /\ Goto(u, AfterPart(u)) /\ UNCHANGED left
     \/ Turns(reply[u].mid, Lost) /\ Goto(u, Again(u)) /\ Fault
  /\ UNCHANGED <<poll, ph, posted, quiet>>

Posts(u) ==
  /\ reply[u].pc = "part"
  /\ \/ posted' = posted \cup {Part(u)} /\ Goto(u, AfterPart(u)) /\ UNCHANGED left
     \/ posted' \in {posted, posted \cup {Part(u)}} /\ Goto(u, Again(u)) /\ Fault
  /\ UNCHANGED <<poll, ph, chat, quiet>>

-----------------------------------------------------------------------------
(* Time; a restart                                                         *)

PlaceholderAges ==
  /\ ph # NoPh /\ ~ph.old /\ ph' = [ph EXCEPT !.old = TRUE]
  /\ UNCHANGED <<poll, reply, chat, posted, quiet, left>>

(* Tasks and registries are lost; polling resumes at the stored marker.    *)
Crash ==
  /\ left.crash > 0 /\ left' = [left EXCEPT !.crash = @ - 1]
  /\ marker' = saved /\ batch' = 0
  /\ replayed' = replayed \cup (saved + 1..MaxUpdates)
  /\ reply' = [u \in Update |-> IF reply[u] = Off THEN Off ELSE [Off EXCEPT !.pc = "done"]]
  /\ ph' = NoPh /\ quiet' = {}
  /\ chat' = [i \in Mids |-> IF chat[i] = Indicator THEN Lost ELSE chat[i]]
  /\ UNCHANGED <<saved, handled, posted>>

Next ==
  \/ Poll \/ SaveMarker \/ QuietDelete \/ PlaceholderAges \/ Crash
  \/ \E u \in Update : \/ Draft(u) \/ DraftPosts(u) \/ DraftSets(u) \/ EmptyDraft(u)
                       \/ Clears(u) \/ Deliver(u) \/ Edits(u) \/ Posts(u)

Spec == Init /\ [][Next]_vars

-----------------------------------------------------------------------------
(* Every update is handled once, whatever polls and writes of the marker   *)
(* fail; a second time only after a restart whose stored marker was        *)
(* behind it (MaxPoller.run).                                              *)
HandledOnce ==
  \A u \in Update : /\ handled[u] > 1 => u \in replayed
                    /\ u <= marker /\ u \notin replayed => handled[u] = 1

(* No answer is lost to another one of the same chat: the parts a reply    *)
(* has sent are all there, however replies that run at the same time race  *)
(* for the one indicator (_take_placeholder).                              *)
PartsKept ==
  \A u \in Update : \A k \in 1..reply[u].part - 1 :
    [of |-> u, part |-> k] \in posted \cup {chat[i] : i \in Mids}

(* No update is lost or handled twice outside a crash, no answer is lost.  *)
UpdatesKept == HandledOnce /\ PartsKept

=============================================================================
