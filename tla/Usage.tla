------------------------------- MODULE Usage -------------------------------
(***************************************************************************)
(* The subscription's limits as the bot shows them (core/sessions.py,      *)
(* storage/usage.py): rate_by_type, fed by the poller, by the events of    *)
(* the turns of every session and by a guess when a turn fails at a limit; *)
(* its copy in the key-value table; the pinned message.  Whoever changes   *)
(* the snapshot stores it and then refreshes the pin, and awaits at each.  *)
(***************************************************************************)
EXTENDS Naturals, Sequences, FiniteSets

CONSTANTS Turn,    \* turns, of any sessions
          Window, Five, \* the windows of the subscription, the first of them: ACCOUNT_WINDOWS
          Used,    \* percentages the account reports
          MaxChanges, MaxFaults, MaxRestarts, MaxPosts, \* bounds
          None

(* Of the constants; the MC module assumes it, TLC evaluates it.            *)
UsageAssumption ==
    /\ Five \in Window /\ Used \subseteq Nat
    /\ None \notin Nat
    /\ None \notin [Window -> {None} \cup [used : Used \cup {None},
                                          status : {"allowed", "allowed_warning", "rejected"}]]
    /\ {MaxChanges, MaxFaults, MaxRestarts, MaxPosts} \subseteq Nat

Poller == "poller"
Owner == "owner"
Writer == Turn \cup {Poller, Owner}

VARIABLES
    snap,   \* rate_by_type
    sig,    \* _last_rate_sig
    synth,  \* _synth_limit
    mode,   \* usage_mode: "off" or "pinned"
    pinned, \* _pinned: which of the posts, or None
    kv,     \* what the database holds of snap, mode and pinned
    writes, \* snapshots that wait for the database, in order
    at,     \* of each writer: "idle", "store", "pin", "edit", "send", "sent"
    text,   \* what its request says
    posts,  \* the messages in the chat
    stale,  \* history: no refresh showed the snapshot since one failed or overlapped
    unsaved, \* history: the last write failed
    left    \* what is left of each bound

mem == <<snap, sig, synth, mode, pinned>>
vars == <<mem, kv, writes, at, text, posts, stale, unsaved, left>>

Spend(what) == left[what] > 0 /\ left' = [left EXCEPT ![what] = @ - 1]

(* _status_for. *)
StatusFor(used) == IF used >= 100 THEN "rejected" ELSE IF used >= 80 THEN "allowed_warning" ELSE "allowed"
Reading == {[used |-> u, status |-> StatusFor(u)] : u \in Used}
Event == Reading \cup {[used |-> None, status |-> "allowed"]}

(* window_str: the number, where there is one, else the status. *)
Shown(info) ==
    IF info = None THEN None ELSE [number |-> info.used, word |-> IF info.used # None THEN None ELSE info.status]
Empty == [w \in Window |-> None]
Pinned_text(s) == [w \in Window |-> Shown(s[w])]

Init ==
    /\ snap = Empty /\ sig = None /\ synth = FALSE /\ mode = "off" /\ pinned = None
    /\ kv = [snap |-> Empty, mode |-> "off", pinned |-> None] /\ writes = <<>>
    /\ at = [w \in Writer |-> "idle"] /\ text = [w \in Writer |-> None]
    /\ posts = <<>> /\ stale = FALSE /\ unsaved = FALSE
    /\ left = [change |-> MaxChanges, fault |-> MaxFaults, restart |-> MaxRestarts]

---------------------------------------------------------------------------
(* Who changes the snapshot.                                               *)

(* Mutant: the number is not part of the signature. *)
SignatureOfStatus(s) == [w \in Window |-> IF s[w] = None THEN None ELSE s[w].status]

(* _rate_signature: here the snapshot itself. *)
Signature(s) == [w \in Window |-> s[w]]

(* _persist_rate takes the data now and waits for the database. *)
Store(w) ==
    /\ sig' = Signature(snap') /\ writes' = Append(writes, [by |-> w, snap |-> snap'])
    /\ at' = [at EXCEPT ![w] = "store"]

StoreIfChanged(w) ==
    IF Signature(snap') = sig THEN UNCHANGED <<sig, writes, at>> ELSE Store(w)

(* refresh_account_usage: the windows of the answer replace those we have. *)
Poll ==
    /\ at[Poller] = "idle" /\ Spend("change")
    /\ \E got \in [Window -> Reading \cup {None}] :
          /\ got # Empty
          /\ snap' = [w \in Window |-> IF got[w] = None THEN snap[w] ELSE got[w]]
    /\ StoreIfChanged(Poller)
    /\ UNCHANGED <<synth, mode, pinned, kv, text, posts, stale, unsaved>>

RateLimit(t) ==
    /\ at[t] = "idle" /\ Spend("change")
    /\ \E w \in Window, info \in Event : snap' = [snap EXCEPT ![w] = info]
    /\ StoreIfChanged(t)
    /\ UNCHANGED <<synth, mode, pinned, kv, text, posts, stale, unsaved>>

(* A turn failed at a limit: the 5-hour window is set to rejected. *)
LimitHit(t) ==
    /\ at[t] = "idle" /\ Spend("change") /\ synth' = TRUE
    /\ snap' = [snap EXCEPT ![Five] = [used |-> IF @ = None THEN None ELSE @.used, status |-> "rejected"]]
    /\ Store(t)
    /\ UNCHANGED <<mode, pinned, kv, text, posts, stale, unsaved>>

(* The result of any turn takes the guess back. *)
Result(t) ==
    /\ at[t] = "idle" /\ synth /\ synth' = FALSE
    /\ snap' = [snap EXCEPT ![Five] = None] /\ Store(t)
    /\ UNCHANGED <<mode, pinned, kv, text, posts, stale, unsaved, left>>

(* set_usage_mode. *)
SetMode(m) ==
    /\ at[Owner] = "idle" /\ Spend("change") /\ mode' = m /\ kv' = [kv EXCEPT !.mode = m]
    /\ at' = IF m = "pinned" THEN [at EXCEPT ![Owner] = "pin"] ELSE at
    /\ UNCHANGED <<snap, sig, synth, pinned, writes, text, posts, stale, unsaved>>

(* The writes reach the database in order; a failure is swallowed. *)
Stored ==
    /\ writes # <<>> /\ writes' = Tail(writes)
    /\ \/ /\ kv' = [kv EXCEPT !.snap = Head(writes).snap]
          /\ unsaved' = FALSE /\ UNCHANGED left
       \/ Spend("fault") /\ unsaved' = TRUE /\ UNCHANGED kv
    /\ at' = [at EXCEPT ![Head(writes).by] = "pin"]
    /\ UNCHANGED <<mem, text, posts, stale>>

---------------------------------------------------------------------------
(* update_pinned.                                                          *)

InFlight(w) == \E v \in Writer \ {w} : at[v] \in {"edit", "send", "sent"}

Pin(w) ==
    /\ at[w] = "pin"
    /\ IF mode # "pinned" \/ Pinned_text(snap) = Empty
       THEN at' = [at EXCEPT ![w] = "idle"] /\ UNCHANGED <<text, stale>>
       ELSE /\ at' = [at EXCEPT ![w] = IF pinned = None THEN "send" ELSE "edit"]
            /\ text' = [text EXCEPT ![w] = Pinned_text(snap)] /\ stale' = (stale \/ InFlight(w))
    /\ UNCHANGED <<mem, kv, writes, posts, unsaved, left>>

Ends(w, shows) ==
    /\ at' = [at EXCEPT ![w] = "idle"] /\ text' = [text EXCEPT ![w] = None]
    /\ stale' = (stale /\ (InFlight(w) \/ shows # Pinned_text(snap)))

Edited(w) ==
    /\ at[w] = "edit" /\ posts' = [posts EXCEPT ![pinned] = text[w]] /\ Ends(w, text[w])
    /\ UNCHANGED <<mem, kv, writes, unsaved, left>>

(* The text is the same to the letter, the message is gone, no connection: *)
(* a new message is sent.                                                  *)
EditRefused(w) ==
    /\ at[w] = "edit" /\ IF posts[pinned] = text[w] THEN UNCHANGED left ELSE Spend("fault")
    /\ at' = [at EXCEPT ![w] = "send"]
    /\ UNCHANGED <<mem, kv, writes, text, posts, stale, unsaved>>

Sent(w) ==
    /\ at[w] = "send" /\ Len(posts) < MaxPosts
    /\ posts' = Append(posts, text[w]) /\ at' = [at EXCEPT ![w] = "sent"]
    /\ text' = [text EXCEPT ![w] = Len(posts')]
    /\ UNCHANGED <<mem, kv, writes, stale, unsaved, left>>

SendFails(w) ==
    /\ at[w] = "send" /\ Spend("fault") /\ stale' = TRUE
    /\ at' = [at EXCEPT ![w] = "idle"] /\ text' = [text EXCEPT ![w] = None]
    /\ UNCHANGED <<mem, kv, writes, posts, unsaved>>

(* It was pinned, or could not be. *)
Adopt(w) ==
    /\ at[w] = "sent" /\ pinned' = text[w] /\ kv' = [kv EXCEPT !.pinned = text[w]]
    /\ Ends(w, posts[text[w]])
    /\ UNCHANGED <<snap, sig, synth, mode, writes, posts, unsaved, left>>

(* load_persisted. *)
Restart ==
    /\ Spend("restart")
    /\ snap' = kv.snap /\ mode' = kv.mode /\ pinned' = kv.pinned
    /\ sig' = None /\ synth' = FALSE /\ writes' = <<>> /\ unsaved' = FALSE /\ stale' = TRUE
    /\ at' = [w \in Writer |-> "idle"] /\ text' = [w \in Writer |-> None]
    /\ UNCHANGED <<kv, posts>>

Next ==
    \/ Poll \/ Stored \/ Restart
    \/ \E t \in Turn : RateLimit(t) \/ LimitHit(t) \/ Result(t)
    \/ \E m \in {"off", "pinned"} : SetMode(m)
    \/ \E w \in Writer : Pin(w) \/ Edited(w) \/ EditRefused(w) \/ Sent(w) \/ SendFails(w) \/ Adopt(w)

---------------------------------------------------------------------------
(* When nobody is at work, the database holds the snapshot, unless its     *)
(* last write failed, and the pinned message shows it, once a refresh did  *)
(* that ended alone since two overlapped, one failed, or the bot started.  *)
SnapshotShown ==
    (\A w \in Writer : at[w] = "idle") =>
        /\ unsaved \/ kv.snap = snap
        /\ mode = "pinned" /\ Pinned_text(snap) # Empty /\ ~stale =>
              pinned # None /\ posts[pinned] = Pinned_text(snap)

=============================================================================
