--------------------------- MODULE Capabilities ---------------------------
(***************************************************************************)
(* What a session's client may do.  Its tools are fixed when the client is *)
(* built (_build_options, _resolve_tools in app/core/engine.py) from the   *)
(* session's toggles, the owner's cap and the mode; which of them run      *)
(* without a question is decided there and by the gate                     *)
(* (app/access/permissions.py).  Its memory is a copy of the session's     *)
(* notes, taken when it is built and written back by the `remember` tool.  *)
(* The owner and the user change the stored values at any time; _get_session*)
(* compares them when a message finds the thread idle.                     *)
(***************************************************************************)
EXTENDS Naturals, Sequences, SequencesExt, FiniteSets

CONSTANTS Tools,    \* the tools that occur, a part of CodeTools and ChatTools
          Notes,    \* what the model may remember
          NotesCap, \* how many notes fit SESSION_NOTES_CAP
          MaxEdits, \* bound: changes of the stored values
          All, None

CodeTools == {"Read", "Edit", "Bash", "Web"}
ChatTools == {"Web"}
AutoAllowed == {"Read"}
EditTools == {"Edit"}

(* Of the constants; the MC module assumes it, TLC evaluates it.            *)
CapabilitiesAssumption == Tools \subseteq CodeTools /\ NotesCap \in Nat \ {0} /\ MaxEdits \in Nat

VARIABLES
    mode,    \* the session's mode
    toggles, \* tools_enabled: All, or the tools that are on
    cap,     \* the owner's tool cap: All, or the tools the user may use
    level,   \* the user's level
    perm,    \* permission_mode
    notes,   \* session_notes in the database
    client,  \* the live client, or None
    turn,    \* "idle", "running", or "queued": running, with a prompt behind
    granted, \* history: the tools that were enabled when the worker started
    gone,    \* history: the notes cleared by /forget on an idle thread
    edits    \* the changes so far, for the bound

stored == <<mode, toggles, cap, level, perm>>
vars == <<mode, toggles, cap, level, perm, notes, client, turn, granted, gone, edits>>

---------------------------------------------------------------------------
Universe(m) == Tools \cap (IF m = "code" THEN CodeTools ELSE ChatTools)
Within(list) == IF list = All THEN Tools ELSE list

(* _resolve_tools: toggles and cap only ever narrow the universe.          *)
ResolveTools(m) == Universe(m) \cap Within(toggles) \cap Within(cap)

(* _session_memory_on.                                                     *)
MemoryOn == client.mode = "code" /\ client.level = "code"

(* _build_session and _build_options.                                      *)
Build(m) == [mode |-> m, perm |-> perm, toggles |-> toggles, cap |-> cap, level |-> level,
             tools |-> ResolveTools(m), notes |-> notes]

(* Mutant: the cap is not compared.                                        *)
DriftedIgnoresCap(m) ==
    \/ client = None
    \/ client.mode # m \/ client.perm # perm \/ client.toggles # toggles

(* _get_session: the values the comparison reads.  The level and the notes *)
(* are not among them.                                                     *)
Drifted(m) ==
    \/ client = None
    \/ client.mode # m \/ client.perm # perm \/ client.toggles # toggles \/ client.cap # cap

(* Whether a call runs without a question: allowed_tools and               *)
(* can_use_tool.  `risky`: _bash_needs_approval.                           *)
Unasked(tool, risky) ==
    \/ client.mode = "chat"
    \/ tool \in AutoAllowed
    \/ client.perm = "bypass"
    \/ client.perm = "acceptEdits" /\ (tool \in EditTools \/ (tool = "Bash" /\ ~risky))

(* _apply_session_note: the oldest notes make room.                        *)
ApplyNote(prior, note, replace) ==
    LET blob == IF replace THEN <<note>> ELSE Append(prior, note)
    IN IF Len(blob) > NotesCap THEN SubSeq(blob, Len(blob) - NotesCap + 1, Len(blob)) ELSE blob

---------------------------------------------------------------------------
Init ==
    /\ mode = "code" /\ toggles = All /\ cap = All /\ level = "code"
    /\ perm = "acceptEdits" /\ notes = <<>> /\ client = None /\ turn = "idle"
    /\ granted = {} /\ gone = {} /\ edits = 0

Edit == edits < MaxEdits /\ edits' = edits + 1

(* _rebuild_session: the client is dropped, unless a turn runs on it.      *)
DropIdle == client' = IF turn = "idle" THEN None ELSE client

(* handle_text on an idle thread, after _access_block lowered the mode of  *)
(* a user who lost code access.                                            *)
Message ==
    /\ turn = "idle"
    /\ LET m == IF level = "chat" THEN "chat" ELSE mode
           lowered == m # mode
       IN /\ mode' = m
          /\ client' = IF lowered \/ Drifted(m) THEN Build(m) ELSE client
          /\ granted' = ResolveTools(m)
    /\ turn' = "running"
    /\ UNCHANGED <<toggles, cap, level, perm, notes, gone, edits>>

(* On a busy thread the prompt is queued for the client there is.          *)
Queue == /\ turn = "running" /\ turn' = "queued"
         /\ UNCHANGED <<stored, notes, client, granted, gone, edits>>

TurnEnds ==
    /\ turn # "idle" /\ turn' = IF turn = "queued" THEN "running" ELSE "idle"
    /\ UNCHANGED <<stored, notes, client, granted, gone, edits>>

(* The reaper, or memory relief.                                           *)
Evict == /\ turn = "idle" /\ client # None /\ client' = None
         /\ UNCHANGED <<stored, notes, turn, granted, gone, edits>>

Flip(list, universe, tool) ==
    LET on == Within(list) \cap universe
        now == IF tool \in on THEN on \ {tool} ELSE on \cup {tool}
    IN IF now = universe THEN All ELSE now

(* on_settings_v2_cb tooltog: in code mode, with code access.              *)
ToggleTool(tool) ==
    /\ Edit /\ mode = "code" /\ level = "code"
    /\ toggles' = Flip(toggles, Universe("code"), tool) /\ DropIdle
    /\ UNCHANGED <<mode, cap, level, perm, notes, turn, granted, gone>>

(* on_user_cb tcap: the owner's cap; live clients are left to the          *)
(* comparison.                                                             *)
CapTool(tool) ==
    /\ Edit /\ cap' = Flip(cap, Tools, tool)
    /\ UNCHANGED <<mode, toggles, level, perm, notes, client, turn, granted, gone>>

(* The owner gives or takes code access.                                   *)
SetLevel ==
    /\ Edit /\ level' \in {"chat", "code"} \ {level}
    /\ UNCHANGED <<mode, toggles, cap, perm, notes, client, turn, granted, gone>>

(* /chat and /code.                                                        *)
SwitchMode ==
    /\ Edit /\ mode' \in {"chat", "code"} \ {mode} /\ (mode' = "code" => level = "code") /\ DropIdle
    /\ UNCHANGED <<toggles, cap, level, perm, notes, turn, granted, gone>>

(* /permissions.                                                           *)
SetPerm ==
    /\ Edit /\ mode = "code" /\ level = "code"
    /\ perm' \in {"ask", "acceptEdits", "bypass"} \ {perm} /\ DropIdle
    /\ UNCHANGED <<mode, toggles, cap, level, notes, turn, granted, gone>>

(* Mutant: the database is cleared and the live client is left alone.      *)
ForgetRow ==
    /\ Edit /\ mode = "code" /\ level = "code" /\ notes # <<>>
    /\ notes' = <<>> /\ gone' = IF turn = "idle" THEN gone \cup Range(notes) ELSE gone
    /\ UNCHANGED <<stored, client, turn, granted>>

(* cmd_forget.                                                             *)
Forget ==
    /\ Edit /\ mode = "code" /\ level = "code" /\ notes # <<>>
    /\ notes' = <<>> /\ gone' = (IF turn = "idle" THEN gone \cup Range(notes) ELSE gone)
    /\ DropIdle
    /\ UNCHANGED <<stored, turn, granted>>

(* _remember_tool: the client's copy is extended and stored whole.         *)
Remember(note, replace) ==
    /\ turn # "idle" /\ MemoryOn /\ note \notin Range(client.notes) \cup gone
    /\ client' = [client EXCEPT !.notes = ApplyNote(@, note, replace)]
    /\ notes' = client'.notes
    /\ UNCHANGED <<stored, turn, granted, gone, edits>>

(* A tool call of the turn that runs without a question; the others wait   *)
(* in PermissionGate.                                                      *)
Runs(tool, risky) == turn # "idle" /\ tool \in client.tools /\ Unasked(tool, risky)

Next ==
    \/ Message \/ Queue \/ TurnEnds \/ Evict
    \/ \E tool \in Tools : ToggleTool(tool) \/ CapTool(tool)
    \/ SetLevel \/ SwitchMode \/ SetPerm \/ Forget
    \/ \E note \in Notes, replace \in BOOLEAN : Remember(note, replace)

---------------------------------------------------------------------------
(* A tool that runs in a turn was within the universe of the client's      *)
(* mode, the session's toggles and the owner's cap when the worker began,  *)
(* whatever was changed on the idle thread before, by whom and in which    *)
(* order; a user without code access gets no more than the web in a turn   *)
(* that began without it.                                                  *)
ToolsWithinGrant ==
    \A tool \in Tools, risky \in BOOLEAN : Runs(tool, risky) =>
        /\ tool \in granted
        /\ risky /\ tool = "Bash" => client.perm = "bypass"

(* A note the user cleared with /forget on an idle thread is never stored  *)
(* again, and no client that runs a turn knows it: the client that held a  *)
(* copy is gone (cmd_forget, _rebuild_session, _remember_tool).            *)
ForgottenStays ==
    /\ Range(notes) \cap gone = {}
    /\ turn # "idle" => Range(client.notes) \cap gone = {}
=============================================================================
