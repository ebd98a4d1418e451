------------------------------- MODULE Shell -------------------------------
(***************************************************************************)
(* The persistent shell of one code session: the worker of sessions.py     *)
(* (_run_shell_command), the keypad under its replies (shell_key), the     *)
(* /shell command (set_shell_mode, shell_refresh) and PersistentShell of   *)
(* engine.py, through which all of them drive one bash on a PTY.           *)
(*                                                                         *)
(* Nobody tells the bot when a program ends or wants input.  It types a    *)
(* sentinel after each command and guesses: silence after some output      *)
(* means that the program waits, and the next message is typed as its      *)
(* input.  The PTY is two queues: `typed', what the terminal still holds   *)
(* for whoever reads next, and `out', what nobody has read yet.            *)
(***************************************************************************)
EXTENDS Naturals, Sequences, SequencesExt

CONSTANTS Messages,     \* messages of the user
          Presses,      \* presses of a key under a reply
          Toggles,      \* calls of /shell
          None

(* Of the constants; the MC module assumes it, TLC evaluates it. *)
ShellAssumption ==
    /\ None \notin Messages \cup Presses \cup Toggles
    /\ {"other", "awaiting", "again"} \cap Messages = {}
    /\ Messages \cap Presses = {}
    /\ Toggles \cap (Messages \cup Presses) = {}

VARIABLES
    row,        \* the thread's row: shell_mode
    mode,       \* rec.shell_mode
    awaiting,   \* rec.shell_awaiting
    pad,        \* is rec.shell_kb_msg set?
    render,     \* is rec.shell_last_render set?
    session,    \* is rec.session there?
    queue,      \* rec.queue
    stage,      \* where each message, press and /shell stands
    seen,       \* what each of them read before an await and uses after it
    line,       \* PersistentShell._lock: its holder, then those who wait
    bash,       \* the shell's process: "none", "live", "dead"
    fg,         \* the foreground program: whose command, followed by a mark?
    typed,      \* typed into the terminal and not read
    out,        \* written to the terminal and not read
    reply,      \* what each message was told
    eaten,      \* commands that a program read as its input
    loose       \* a program runs that no sentinel and no drive accounts for

tty       == <<bash, fg, typed, out, eaten>>
kb        == <<pad, render>>
shellVars == <<row, mode, awaiting, kb, session, queue, stage, seen, line, tty, reply, loose>>

Drivers     == Messages \cup Presses \cup Toggles
Idle        == [of |-> None, mark |-> FALSE]
Text(d)     == [of |-> d, mark |-> FALSE]
Marked(d)   == [of |-> d, mark |-> TRUE]

Labels == {"new", "read", "queued", "taken", "model", "begun", "waits", "drives", "posts",
           "edits", "leaves", "enters", "strips", "peeks", "offers", "done"}

ShellTypeOK ==
    /\ row \in BOOLEAN /\ mode \in BOOLEAN /\ awaiting \in BOOLEAN
    /\ pad \in BOOLEAN /\ render \in BOOLEAN /\ session \in BOOLEAN
    /\ loose \in BOOLEAN
    /\ queue \in Seq(Messages) /\ line \in Seq(Drivers)
    /\ bash \in {"none", "live", "dead"}
    /\ fg \in [of : Drivers \cup {None}, mark : BOOLEAN]
    /\ typed \in Seq([of : Drivers, mark : BOOLEAN])
    /\ out \in Seq([of : Drivers, mark : BOOLEAN])
    /\ stage \in [Drivers -> Labels] /\ seen \in [Drivers -> BOOLEAN]
    /\ eaten \subseteq Messages

ShellInit ==
    /\ row \in BOOLEAN /\ mode = FALSE /\ awaiting = FALSE
    /\ pad = FALSE /\ render = FALSE /\ session = FALSE
    /\ queue = <<>> /\ line = <<>>
    /\ stage = [d \in Drivers |-> "new"] /\ seen = [d \in Drivers |-> FALSE]
    /\ bash = "none" /\ fg = Idle /\ typed = <<>> /\ out = <<>>
    /\ reply = [m \in Messages |-> None]
    /\ eaten = {} /\ loose = FALSE

Moves(d, to) == stage' = [stage EXCEPT ![d] = to]

-----------------------------------------------------------------------------
(* The queue of the thread and its worker.  /shell holds rec.lock while it
   waits for the terminal. *)

AtWork(m)  == stage[m] \in {"taken", "model", "begun", "waits", "drives", "posts"}
Busy       == queue # <<>> \/ \E m \in Messages : AtWork(m)
LockFree   == \A t \in Toggles : stage[t] # "waits"

SubmitRead(m) ==
    /\ stage[m] = "new" /\ Moves(m, "read")
    /\ seen' = [seen EXCEPT ![m] = row]
    /\ UNCHANGED <<row, mode, awaiting, kb, session, queue, line, tty, reply, loose>>

(* A message that a turn of the model takes at once. *)
SubmitInject(m) ==
    /\ stage[m] = "read" /\ LockFree
    /\ queue = <<>> /\ \E n \in Messages : stage[n] = "model"
    /\ Moves(m, "done") /\ reply' = [reply EXCEPT ![m] = "other"]
    /\ seen' = [seen EXCEPT ![m] = FALSE]
    /\ UNCHANGED <<row, mode, awaiting, kb, session, queue, line, tty, loose>>

(* A new client takes shell_mode from the row as it was read before the lock. *)
Build(m) ==
    session' = TRUE /\ mode' = seen[m]

SubmitQueue(m) ==
    /\ stage[m] = "read" /\ LockFree
    /\ \/ session /\ UNCHANGED <<session, mode>>
       \/ (~session \/ ~Busy) /\ Build(m)
    /\ queue' = Append(queue, m) /\ Moves(m, "queued")
    /\ seen' = [seen EXCEPT ![m] = FALSE]
    /\ UNCHANGED <<row, awaiting, kb, line, tty, reply, loose>>

Take(m) ==
    /\ queue # <<>> /\ Head(queue) = m /\ ~\E n \in Messages : AtWork(n)
    /\ queue' = Tail(queue) /\ Moves(m, "taken")
    /\ UNCHANGED <<row, mode, awaiting, kb, session, seen, line, tty, reply, loose>>

(* The overlay decides when the turn starts, after the wait for a slot. *)
Begin(m) ==
    /\ stage[m] = "taken"
    /\ Moves(m, IF mode THEN "begun" ELSE "model")
    /\ seen' = [seen EXCEPT ![m] = mode /\ awaiting]
    /\ UNCHANGED <<row, mode, awaiting, kb, session, queue, line, tty, reply, loose>>

Answer(m) ==
    /\ stage[m] = "model" /\ Moves(m, "done")
    /\ reply' = [reply EXCEPT ![m] = "other"]
    /\ UNCHANGED <<row, mode, awaiting, kb, session, queue, seen, line, tty, loose>>

-----------------------------------------------------------------------------
(* Driving the terminal: the lock, the write, and the four ends of a drive. *)

Join(d)     == line' = Append(line, d) /\ Moves(d, "waits")
HoldsTty(d) == line # <<>> /\ Head(line) = d

(* What the caller does with the status of its drive; nothing is awaited
   between the read of the terminal and this. *)
(* Mutant: a key press leaves the record with nothing awaited. *)
ConcludeForPress(d, status, told) ==
    /\ awaiting' = (status = "awaiting" /\ d \in Messages)
    /\ seen' = [seen EXCEPT ![d] = d \in Presses /\ status = "awaiting"]
    /\ IF d \in Messages
       THEN reply' = [reply EXCEPT ![d] = told] /\ Moves(d, "posts")
       ELSE Moves(d, "edits") /\ UNCHANGED reply

Conclude(d, status, told) ==
    /\ awaiting' = (status = "awaiting")
    /\ seen' = [seen EXCEPT ![d] = d \in Presses /\ awaiting']
    /\ IF d \in Messages
       THEN reply' = [reply EXCEPT ![d] = told] /\ Moves(d, "posts")
       ELSE Moves(d, "edits") /\ UNCHANGED reply

(* A full-screen program is refused, unless the text is input. *)
Refuse(m) ==
    /\ stage[m] = "begun" /\ ~seen[m]
    /\ Moves(m, "done") /\ reply' = [reply EXCEPT ![m] = "other"]
    /\ seen' = [seen EXCEPT ![m] = FALSE]
    /\ UNCHANGED <<row, mode, awaiting, kb, session, queue, line, tty, loose>>

(* The text is logged between the look at shell_awaiting and its use. *)
Forward(m) ==
    /\ stage[m] = "begun" /\ seen[m]
    /\ IF bash = "live"
       THEN Join(m) /\ UNCHANGED <<awaiting, seen, reply>>
       ELSE Conclude(m, "done", "other") /\ UNCHANGED line
    /\ UNCHANGED <<row, mode, kb, session, queue, tty, loose>>

Command(m) ==
    /\ stage[m] = "begun" /\ ~seen[m]
    /\ Join(m)
    /\ IF bash = "live"
       THEN UNCHANGED tty
       ELSE bash' = "live" /\ fg' = Idle /\ typed' = <<>> /\ out' = <<>> /\ UNCHANGED eaten
    /\ UNCHANGED <<row, mode, awaiting, kb, session, queue, seen, reply, loose>>

(* No PTY: the command runs on its own. *)
SpawnFails(m) ==
    /\ stage[m] = "begun" /\ ~seen[m] /\ bash # "live"
    /\ Conclude(m, "done", "other")
    /\ UNCHANGED <<row, mode, kb, session, queue, line, tty, loose>>

(* Output that nobody read is dropped, then the text is written: a command
   with the sentinel behind it, input and keys as they are. *)
(* Mutant: input is followed by a sentinel too. *)
StartMarksAll(d) ==
    /\ stage[d] = "waits" /\ HoldsTty(d) /\ bash = "live" /\ d \notin Toggles
    /\ out' = <<>> /\ typed' = Append(typed, IF d \in Messages THEN Marked(d) ELSE Text(d))
    /\ Moves(d, "drives")
    /\ UNCHANGED <<row, mode, awaiting, kb, session, queue, seen, line, bash, fg, eaten,
                   reply, loose>>

Start(d) ==
    /\ stage[d] = "waits" /\ HoldsTty(d) /\ bash = "live" /\ d \notin Toggles
    /\ out' = <<>>
    /\ typed' = Append(typed, IF d \in Messages /\ ~seen[d] THEN Marked(d) ELSE Text(d))
    /\ Moves(d, "drives")
    /\ UNCHANGED <<row, mode, awaiting, kb, session, queue, seen, line, bash, fg, eaten,
                   reply, loose>>

(* Ctrl-C empties the terminal; bash drops the rest of the line, the
   sentinel with it, unless the program takes no notice. *)
Interrupt ==
    /\ typed' = <<>> /\ fg' \in {fg, Idle}

(* The key ^C of the keypad. *)
StartInterrupt(p) ==
    /\ p \in Presses /\ stage[p] = "waits" /\ HoldsTty(p) /\ bash = "live"
    /\ Interrupt /\ out' = <<>> /\ Moves(p, "drives")
    /\ UNCHANGED <<row, mode, awaiting, kb, session, queue, seen, line, bash, eaten,
                   reply, loose>>

(* The shell exited while the caller waited for the lock. *)
StartDead(d) ==
    /\ stage[d] = "waits" /\ HoldsTty(d) /\ bash # "live" /\ d \notin Toggles
    /\ line' = Tail(line) /\ Conclude(d, "done", "other")
    /\ UNCHANGED <<row, mode, kb, session, queue, tty, loose>>

(* ... and the write raises before its end is known.  Input is dropped with a
   notice, a command runs on its own. *)
WriteRaises(d) ==
    /\ stage[d] = "waits" /\ HoldsTty(d) /\ bash = "dead" /\ d \notin Toggles
    /\ line' = Tail(line)
    /\ IF d \in Messages /\ seen[d]
       THEN /\ awaiting' = FALSE /\ Moves(d, "done")
            /\ reply' = [reply EXCEPT ![d] = "other"] /\ seen' = [seen EXCEPT ![d] = FALSE]
       ELSE Conclude(d, "done", "other")
    /\ UNCHANGED <<row, mode, kb, session, queue, tty, loose>>

Marks == {i \in DOMAIN out : out[i].mark}

(* One step of a drive: d reads everything there is and stops. *)
Leave(d) ==
    /\ stage[d] = "drives" /\ HoldsTty(d)
    /\ line' = Tail(line) /\ out' = <<>>
    /\ UNCHANGED <<row, mode, kb, session, queue, bash, eaten>>

(* The last sentinel in the buffer counts. *)
Done(d) ==
    /\ Leave(d)
    /\ \E i \in Marks : /\ \A j \in Marks : j <= i
                        /\ Conclude(d, "done", IF seen[d] THEN "other" ELSE out[i].of)
    /\ UNCHANGED <<fg, typed, loose>>

(* Exit code 127: the command is typed again in lower case. *)
NotFound(m) ==
    /\ m \in Messages /\ ~seen[m] /\ stage[m] = "drives" /\ HoldsTty(m)
    /\ reply[m] = None /\ Marks # {}
    /\ reply' = [reply EXCEPT ![m] = "again"]
    /\ line' = Append(Tail(line), m) /\ out' = <<>> /\ Moves(m, "waits")
    /\ UNCHANGED <<row, mode, awaiting, kb, session, queue, seen, bash, fg, typed, eaten, loose>>

ShellDied(d) ==
    /\ Leave(d) /\ Marks = {} /\ bash = "dead"
    /\ Conclude(d, "done", "other")
    /\ UNCHANGED <<fg, typed, loose>>

Settled(d) ==
    /\ Leave(d) /\ Marks = {} /\ out # <<>> /\ bash = "live"
    /\ Conclude(d, "awaiting", "awaiting")
    /\ UNCHANGED <<fg, typed, loose>>

TimedOut(d) ==
    /\ Leave(d) /\ Marks = {} /\ bash = "live"
    /\ Interrupt /\ loose' = (loose \/ fg' # Idle)
    /\ Conclude(d, "timeout", "other")

-----------------------------------------------------------------------------
(* After the drive: the reply of the worker, the edit of a press. *)

Posted(m) ==
    /\ stage[m] = "posts" /\ Moves(m, "done")
    /\ pad' = awaiting /\ render' = awaiting
    /\ UNCHANGED <<row, mode, awaiting, session, queue, seen, line, tty, reply, loose>>

(* Old replies keep their keypads, so that a press may come at any time. *)
Press(p) ==
    /\ stage[p] = "new" /\ \E m \in Messages : reply[m] = "awaiting"
    /\ CASE ~session -> Moves(p, "done") /\ UNCHANGED <<awaiting, seen, line, reply>>
         [] session /\ bash = "live" -> Join(p) /\ UNCHANGED <<awaiting, seen, reply>>
         [] OTHER -> Conclude(p, "done", "other") /\ UNCHANGED line
    /\ UNCHANGED <<row, mode, kb, session, queue, tty, loose>>

Edited(p) ==
    /\ stage[p] = "edits" /\ Moves(p, "done")
    /\ pad' = seen[p] /\ render' = (render \/ seen[p])
    /\ seen' = [seen EXCEPT ![p] = FALSE]
    /\ UNCHANGED <<row, mode, awaiting, session, queue, line, tty, reply, loose>>

-----------------------------------------------------------------------------
(* /shell: leave or enter, like tmux. *)

ToggleRead(t) ==
    /\ stage[t] = "new" /\ Moves(t, "read")
    /\ seen' = [seen EXCEPT ![t] = row]
    /\ UNCHANGED <<row, mode, awaiting, kb, session, queue, line, tty, reply, loose>>

(* The tracked keypad and the paused reply are read before the flag is set. *)
ToggleSets(t) ==
    /\ stage[t] = "read" /\ mode' = ~seen[t]
    /\ Moves(t, IF seen[t] THEN "leaves" ELSE "enters")
    /\ seen' = [seen EXCEPT ![t] = IF seen[t] THEN pad ELSE awaiting /\ render]
    /\ UNCHANGED <<row, awaiting, kb, session, queue, line, tty, reply, loose>>

ToggleSaves(t) ==
    /\ stage[t] \in {"leaves", "enters"}
    /\ row' = (stage[t] = "enters")
    /\ Moves(t, CASE ~seen[t] -> "done" [] stage[t] = "leaves" -> "strips" [] OTHER -> "peeks")
    /\ UNCHANGED <<mode, awaiting, kb, session, queue, seen, line, tty, reply, loose>>

Stripped(t) ==
    /\ stage[t] = "strips" /\ Moves(t, "done") /\ pad' = FALSE
    /\ seen' = [seen EXCEPT ![t] = FALSE]
    /\ UNCHANGED <<row, mode, awaiting, render, session, queue, line, tty, reply, loose>>

(* shell_refresh: under rec.lock, read what was printed meanwhile. *)
Refresh(t) ==
    /\ stage[t] = "peeks" /\ LockFree
    /\ IF session /\ awaiting /\ bash = "live"
       THEN Join(t)
       ELSE Moves(t, "offers") /\ UNCHANGED line
    /\ UNCHANGED <<row, mode, awaiting, kb, session, queue, seen, tty, reply, loose>>

Peek(t) ==
    /\ t \in Toggles /\ stage[t] = "waits" /\ HoldsTty(t)
    /\ line' = Tail(line) /\ out' = <<>> /\ Moves(t, "offers")
    /\ UNCHANGED <<row, mode, awaiting, kb, session, queue, seen, bash, fg, typed, eaten,
                   reply, loose>>

Offered(t) ==
    /\ stage[t] = "offers" /\ Moves(t, "done")
    /\ seen' = [seen EXCEPT ![t] = FALSE]
    /\ \/ pad' = TRUE /\ render' = TRUE
       \/ UNCHANGED kb          \* the message could not be sent
    /\ UNCHANGED <<row, mode, awaiting, session, queue, line, tty, reply, loose>>

-----------------------------------------------------------------------------
(* The client goes while the thread is idle: a changed setting closes the
   shell with it, the reaper keeps the shell.  A restart of the bot is Init
   with any row. *)

DropClient ==
    /\ session /\ ~Busy /\ line = <<>> /\ LockFree
    /\ session' = FALSE
    /\ \/ UNCHANGED tty
       \/ bash' = "none" /\ fg' = Idle /\ typed' = <<>> /\ out' = <<>> /\ UNCHANGED eaten
    /\ UNCHANGED <<row, mode, awaiting, kb, queue, stage, seen, line, reply, loose>>

-----------------------------------------------------------------------------
(* The bash on the other side of the PTY, and the programs it runs. *)

Bot      == <<row, mode, awaiting, kb, session, queue, stage, seen, line, reply>>
Terminal == UNCHANGED Bot /\ UNCHANGED loose

(* At the prompt bash runs the next line, input that its program did not stay
   to read as well; a key makes it redraw, or not. *)
BashReads ==
    /\ bash = "live" /\ fg = Idle /\ typed # <<>>
    /\ typed' = Tail(typed)
    /\ IF Head(typed).of \in Messages
       THEN fg' = Head(typed) /\ loose' = (loose \/ ~Head(typed).mark) /\ UNCHANGED out
       ELSE out' \in {out, Append(out, Text(Head(typed).of))} /\ UNCHANGED <<fg, loose>>
    /\ UNCHANGED <<bash, eaten>> /\ UNCHANGED Bot

ProgramReads ==
    /\ bash = "live" /\ fg # Idle /\ typed # <<>>
    /\ typed' = Tail(typed)
    /\ eaten' = eaten \cup {m \in Messages : Head(typed) = Marked(m)}
    /\ UNCHANGED <<bash, fg, out>> /\ Terminal

ProgramPrints ==
    /\ bash = "live" /\ fg # Idle /\ ~Contains(out, Text(fg.of))
    /\ out' = Append(out, Text(fg.of))
    /\ UNCHANGED <<bash, fg, typed, eaten>> /\ Terminal

ProgramEnds ==
    /\ bash = "live" /\ fg # Idle /\ fg' = Idle
    /\ out' = IF fg.mark THEN Append(out, fg) ELSE out
    /\ UNCHANGED <<bash, typed, eaten>> /\ Terminal

BashExits ==
    /\ bash = "live" /\ fg # Idle
    /\ bash' = "dead" /\ fg' = Idle /\ typed' = <<>>
    /\ UNCHANGED <<out, eaten>> /\ Terminal

-----------------------------------------------------------------------------
Message(m) ==
    \/ SubmitRead(m) \/ SubmitInject(m) \/ SubmitQueue(m)
    \/ Take(m) \/ Begin(m) \/ Answer(m) \/ Refuse(m)
    \/ Forward(m) \/ Command(m) \/ SpawnFails(m) \/ NotFound(m) \/ Posted(m)

Drive(d) == Start(d) \/ StartDead(d) \/ WriteRaises(d)
            \/ Done(d) \/ ShellDied(d) \/ Settled(d) \/ TimedOut(d)

Key(p) == Press(p) \/ StartInterrupt(p) \/ Edited(p)

Toggle(t) == \/ ToggleRead(t) \/ ToggleSets(t) \/ ToggleSaves(t) \/ Stripped(t)
             \/ Refresh(t) \/ Peek(t) \/ Offered(t)

Environment == \/ DropClient
               \/ BashReads \/ ProgramReads \/ ProgramPrints \/ ProgramEnds \/ BashExits

ShellNext == \/ \E m \in Messages : Message(m)
             \/ \E d \in Drivers : Drive(d)
             \/ \E p \in Presses : Key(p)
             \/ \E t \in Toggles : Toggle(t)
             \/ Environment

ShellSpec == ShellInit /\ [][ShellNext]_shellVars

-----------------------------------------------------------------------------
(* A command is never typed into a program: what the record says of the
   foreground is right when the next command is typed, however messages, key
   presses and /shell interleave.  It is not once a program runs that nobody
   follows: one that outlived the Ctrl-C of its time-out (engine.py 486-489),
   or input that bash took for a command because its program had ended. *)
CommandsReachBash == loose \/ eaten = {}

(* The result shown under a command is that command's own, with the same
   exceptions. *)
RepliesMatch ==
    \A m \in Messages : reply[m] \in Messages => loose \/ reply[m] = m

=============================================================================
