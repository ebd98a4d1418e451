------------------------------- MODULE Inbox -------------------------------
(***************************************************************************)
(* From a user's message to a prompt (telegram/handlers.py): the items of  *)
(* an album, which are downloaded side by side and become one prompt; the  *)
(* command that waits for its argument, and the text or the voice note     *)
(* that brings it; the transcription of a voice note (core/transcribe.py); *)
(* the user's rate limits, over the tokens of the turns that have ended.   *)
(* Every message has a handler of its own, which the others overtake       *)
(* wherever it awaits.                                                     *)
(***************************************************************************)
EXTENDS Naturals, FiniteSets

CONSTANTS Album,    \* messages of one media group
          Single,   \* photos and files on their own
          Text, Voice,
          MaxParts, \* MAX_ALBUM_ITEMS
          ShortCap, WeekCap, \* turns a user may have ended within 5 hours and 7 days
          MaxSent, MaxAsks, MaxClock, MaxDeletes, \* bounds: messages, commands, time, deletions
          None

Photo == Album \cup Single
Message == Photo \cup Text \cup Voice
Short == 1 \* SHORT_WINDOW_SEC and WEEK_WINDOW_SEC
Week == 2
WindowCap == [window \in {Short, Week} |-> IF window = Short THEN ShortCap ELSE WeekCap]

(* Of the constants; the MC module assumes it, TLC evaluates it.            *)
InboxAssumption ==
    /\ IsFiniteSet(Message) /\ None \notin Message \cup Nat
    /\ Album \cap (Single \cup Text \cup Voice) = {} /\ Single \cap (Text \cup Voice) = {}
    /\ Text \cap Voice = {} /\ None \notin [parts : SUBSET Album, dropped : SUBSET Album]
    /\ {MaxParts, ShortCap, WeekCap, MaxSent, MaxAsks, MaxClock, MaxDeletes} \subseteq Nat

VARIABLES
    pc,      \* of each handler: "unsent", "download", "route", "decode", "infer", "shown",
             \* "routed", "done"
    album,   \* album_buf: None, or the items in it and those dropped
    prompts, \* prompts on their way: the messages they are made of, and "gate" or "submit"
    turns,   \* prompts the session has taken and not answered
    pending, \* the command that waits for its argument, or None
    takes,   \* of each voice note: the command whose argument it is, or None
    asked,   \* how many commands have asked
    usage,   \* rows: whose they are (None: nobody's), when, for which turn
    thread,  \* the session: "kept", "reset" while it is deleted, "gone"
    clock,
    ended,   \* history: when each turn ended
    got,     \* history: how many prompts each item came in
    ran,     \* history: how often each command got its argument
    deletes

inbox == <<pc, album, prompts, got>>
args == <<pending, takes, asked, ran>>
meter == <<turns, usage, thread, clock, ended, deletes>>
vars == <<inbox, args, meter>>

User == "user"

Init ==
    /\ pc = [m \in Message |-> "unsent"] /\ album = None /\ prompts = {} /\ turns = {}
    /\ pending = None /\ takes = [v \in Voice |-> None] /\ asked = 0
    /\ usage = {} /\ thread = "gone" /\ clock = 0 /\ ended = {} /\ deletes = 0
    /\ got = [i \in Photo |-> 0] /\ ran = [a \in 1 .. MaxAsks |-> 0]

---------------------------------------------------------------------------
(* The rate limits.                                                        *)

(* Mutant: rows are looked up by the session they belong to. *)
UsedJoined(window) == IF thread = "gone" THEN 0
                      ELSE Cardinality({u \in usage : u.of = User /\ u.at + window >= clock})

(* get_user_usage_window. *)
Used(window) == Cardinality({u \in usage : u.of = User /\ u.at + window >= clock})

Blocked == \E window \in {Short, Week} : Used(window) >= WindowCap[window]

(* _submit: _access_block, then handle_text. *)
Gate(p) ==
    /\ p \in prompts /\ p.at = "gate"
    /\ prompts' = (prompts \ {p}) \cup (IF Blocked THEN {} ELSE {[p EXCEPT !.at = "submit"]})
    /\ got' = [i \in Photo |-> IF Blocked /\ i \in p.of THEN got[i] + 1 ELSE got[i]]
    /\ UNCHANGED <<pc, album, args, meter>>

Submit(p) ==
    /\ p \in prompts /\ p.at = "submit" /\ prompts' = prompts \ {p}
    /\ got' = [i \in Photo |-> IF i \in p.of THEN got[i] + 1 ELSE got[i]]
    /\ turns' = turns \cup {p.of} /\ thread' = IF thread = "gone" THEN "kept" ELSE thread
    /\ UNCHANGED <<pc, album, args, usage, clock, ended, deletes>>

(* add_usage: the row takes the chat of the session, if there still is one. *)
TurnEnds(t) ==
    /\ t \in turns /\ turns' = turns \ {t}
    /\ usage' = usage \cup {[of |-> IF thread = "gone" THEN None ELSE User, at |-> clock, turn |-> t]}
    /\ ended' = ended \cup {[at |-> clock, turn |-> t, rowless |-> thread = "gone"]}
    /\ UNCHANGED <<inbox, args, thread, clock, deletes>>

Passes ==
    /\ clock < MaxClock /\ clock' = clock + 1
    /\ UNCHANGED <<inbox, args, turns, usage, thread, ended, deletes>>

(* The deletion of the session: its turns are cancelled, then its row goes. *)
Reset ==
    /\ thread = "kept" /\ deletes < MaxDeletes /\ deletes' = deletes + 1
    /\ thread' = "reset" /\ turns' = {}
    /\ UNCHANGED <<inbox, args, usage, clock, ended>>

DeleteRow ==
    /\ thread = "reset" /\ thread' = "gone"
    /\ UNCHANGED <<inbox, args, turns, usage, clock, ended, deletes>>

---------------------------------------------------------------------------
(* Photos and files: on_photo, on_document, _route_attachment.             *)

Handle(m, at) ==
    /\ pc' = [pc EXCEPT ![m] = at]
    /\ Cardinality({n \in Message : pc'[n] # "unsent"}) <= MaxSent
Prompt(of, at) == prompts' = prompts \cup {[of |-> of, at |-> at]}

Receive(i) ==
    /\ pc[i] = "unsent" /\ \A j \in Photo : j < i => pc[j] # "unsent"
    /\ Handle(i, "download") /\ UNCHANGED <<album, prompts, got, args, meter>>

(* _download, and what cannot be a block or a text. *)
Downloaded(i) ==
    /\ i \in Photo /\ pc[i] = "download"
    /\ \E at \in {"route", "done"} : Handle(i, at)
    /\ UNCHANGED <<album, prompts, got, args, meter>>

RouteSingle(i) ==
    /\ i \in Single /\ pc[i] = "route" /\ Handle(i, "done") /\ Prompt({i}, "gate")
    /\ UNCHANGED <<album, got, args, meter>>

(* The buffer is found or made, and its timer starts again. *)
RouteAlbum(i) ==
    /\ i \in Album /\ pc[i] = "route" /\ Handle(i, "routed")
    /\ LET buf == IF album = None THEN [parts |-> {}, dropped |-> {}] ELSE album
       IN album' = IF Cardinality(buf.parts) >= MaxParts
                   THEN [buf EXCEPT !.dropped = @ \cup {i}] ELSE [buf EXCEPT !.parts = @ \cup {i}]
    /\ UNCHANGED <<prompts, got, args, meter>>

(* Mutant: the buffer stays where the next item finds it. *)
FlushPeeks ==
    /\ album # None /\ Prompt(album.parts \cup album.dropped, "gate")
    /\ UNCHANGED <<pc, album, got, args, meter>>

(* _album_after, _flush_album: no item came for a while; the prompt is made *)
(* of the parts by message id, and says how many were dropped.              *)
FlushAlbum ==
    /\ album # None /\ album' = None /\ Prompt(album.parts \cup album.dropped, "gate")
    /\ UNCHANGED <<pc, got, args, meter>>

---------------------------------------------------------------------------
(* Commands, text and voice notes.                                         *)

(* A command without its argument. *)
Ask ==
    /\ asked < MaxAsks /\ asked' = asked + 1 /\ pending' = asked + 1
    /\ UNCHANGED <<inbox, takes, ran, meter>>

(* /cancel. *)
Cancel ==
    /\ pending # None /\ pending' = None
    /\ UNCHANGED <<inbox, takes, asked, ran, meter>>

Runs(a) == ran' = [ran EXCEPT ![a] = @ + 1]

(* on_text; a location is a text that no command waits for. *)
OnText(t) ==
    /\ pc[t] = "unsent" /\ Handle(t, "done") /\ pending' = None
    /\ IF pending # None THEN Runs(pending) /\ UNCHANGED prompts
                         ELSE Prompt({t}, "gate") /\ UNCHANGED ran
    /\ UNCHANGED <<album, got, takes, asked, meter>>

(* on_voice: what would be a turn passes the gate before the long work. *)
OnVoice(v) ==
    /\ pc[v] = "unsent" /\ takes' = [takes EXCEPT ![v] = pending] /\ pending' = None
    /\ Handle(v, IF pending = None /\ Blocked THEN "done" ELSE "download")
    /\ UNCHANGED <<album, prompts, got, asked, ran, meter>>

(* Nothing came of it: the command waits again, unless a newer one does. *)
VoiceFails(v) ==
    /\ pc[v] \in {"download", "decode", "infer"} /\ Handle(v, "done")
    /\ pending' = IF pending = None THEN takes[v] ELSE pending
    /\ takes' = [takes EXCEPT ![v] = None]
    /\ UNCHANGED <<album, prompts, got, asked, ran, meter>>

(* transcribe: ffmpeg side by side, the model for one note at a time. *)
VoiceWorks(v) ==
    /\ \/ pc[v] = "download" /\ Handle(v, "decode")
       \/ /\ pc[v] = "decode" /\ \A w \in Voice : pc[w] # "infer"
          /\ Handle(v, "infer")
       \/ pc[v] = "infer" /\ Handle(v, "shown")
    /\ UNCHANGED <<album, prompts, got, args, meter>>

(* The transcript was shown: it is the argument, or a prompt past the gate. *)
VoiceEnds(v) ==
    /\ pc[v] = "shown" /\ Handle(v, "done")
    /\ IF takes[v] # None THEN Runs(takes[v]) /\ UNCHANGED prompts
                          ELSE Prompt({v}, "submit") /\ UNCHANGED ran
    /\ takes' = [takes EXCEPT ![v] = None]
    /\ UNCHANGED <<album, got, pending, asked, meter>>

Next ==
    \/ Passes \/ Reset \/ DeleteRow \/ FlushAlbum \/ Ask \/ Cancel
    \/ \E p \in prompts : Gate(p) \/ Submit(p)
    \/ \E t \in turns : TurnEnds(t)
    \/ \E i \in Photo : Receive(i) \/ Downloaded(i)
    \/ \E i \in Single : RouteSingle(i)
    \/ \E i \in Album : RouteAlbum(i)
    \/ \E t \in Text : OnText(t)
    \/ \E v \in Voice : OnVoice(v) \/ VoiceFails(v) \/ VoiceWorks(v) \/ VoiceEnds(v)

---------------------------------------------------------------------------
(* Every item of an album that was read is in one prompt or still in the   *)
(* buffer, however the downloads, the timer and the prompt's own awaits    *)
(* fall together (_route_attachment, _flush_album).                        *)
PartsOnce ==
    \A i \in {j \in Album : pc[j] = "routed"} :
        LET held == Cardinality({p \in prompts : i \in p.of})
            buffered == IF album # None /\ i \in album.parts \cup album.dropped THEN 1 ELSE 0
        IN got[i] + held + buffered = 1

(* A command gets one argument: no two messages are taken for it, though a *)
(* voice note holds it while it is transcribed and may give it back        *)
(* (on_text, on_voice).                                                    *)
ArgumentOnce ==
    \A a \in 1 .. asked :
        ran[a] + Cardinality({v \in Voice : takes[v] = a}) + (IF pending = a THEN 1 ELSE 0) <= 1

(* A prompt passes the gate only while the turns that ended within each    *)
(* window are below the user's limit, also when the session they ran in    *)
(* was deleted; only a turn that ended after the row was gone is not       *)
(* counted (get_user_usage_window, add_usage).                             *)
LimitHolds ==
    [][\A p \in prompts : p.at = "gate" /\ [p EXCEPT !.at = "submit"] \in prompts' =>
          \A window \in {Short, Week} :
              Cardinality({e \in ended : e.at + window >= clock /\ ~e.rowless}) < WindowCap[window]]_vars

(* What the inbox holds back is used once: the item of an album, and the   *)
(* argument of a command.                                                  *)
HeldOnce == PartsOnce /\ ArgumentOnce


=============================================================================
