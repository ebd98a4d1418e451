------------------------------ MODULE Settings ------------------------------
(***************************************************************************)
(* From a changed setting or right to the turn that obeys it, for one      *)
(* session of one guest: the access gate of the handlers, the scopes of a  *)
(* setting (app/access/settings_schema.py), and the client that handle_text*)
(* keeps while it matches them and builds anew when it does not.           *)
(*                                                                         *)
(* One option stands for those of the registry: effort, whose value "max"  *)
(* needs a grant of its own.  A value is stored for the session or for the *)
(* user; the owner's global one is "std" and "below" is the level under    *)
(* max.  Every step ends at an await.  Left out: rate limits, the backlog  *)
(* cap and stop, reset or eviction, which SessionManager has.              *)
(***************************************************************************)
EXTENDS Allowlist, Sequences

CONSTANTS
  Msg,       \* messages of the guest
  Tap,       \* changes the guest makes: a button, a command, a switch of mode
  MaxEdits,  \* changes the owner makes
  None

(* What a client can be built with.                                        *)
Built == [val : {"std", "max", "below", "low"}, mode : {"chat", "code"}]

ASSUME SettingsAssumption == MaxEdits \in Nat /\ None \notin Msg \cup Built

VARIABLES
  base,    \* kv access_base of the option
  stored,  \* its value for the session and for the user, "none" if unset
  mode,    \* the session's mode: chat or code
  lock,    \* rec.lock: None or the message whose handle_text holds it
  client,  \* rec.session: None or the settings it was built with
  worker,  \* off, idle between two turns, or turn
  cur,     \* the message whose turn runs
  queue,   \* rec.queue
  msg,     \* where handle_text is and what it has read
  tap,     \* where a change of the guest is
  since,   \* history: what held at some time since the message arrived
  edits    \* changes the owner has left

session == <<lock, client, worker, cur, queue>>
choices == <<base, stored, mode>>
vars == <<allowVars, session, choices, msg, tap, since, edits>>

(* effective_access: an exception of the guest, else the base.             *)
EffectiveAccess(b, exception) == IF exception # "unset" THEN exception ELSE b

(* What holds now, for the history of a message under way.                 *)
Now == [access |-> EffectiveAccess(base, View.id.access), own |-> stored.session,
        user |-> stored.user, max |-> View.id.max, mode |-> mode, level |-> Found.level,
        switching |-> \E t \in Tap : tap[t].pc = "write" /\ tap[t].val = "code"]

Nothing == [f \in DOMAIN Now |-> {}]

Off == [pc |-> "off", mode |-> "chat", own |-> "none",
        access |-> "unset", val |-> "std", direct |-> FALSE]
NoTap == [pc |-> "off", scope |-> "session", val |-> "none", base |-> "delegated"]

Init ==
  /\ AllowInit
  /\ base = "delegated" /\ stored = [session |-> "none", user |-> "none"] /\ mode = "chat"
  /\ lock = None /\ client = None /\ worker = "off" /\ cur = None /\ queue = <<>>
  /\ msg = [m \in Msg |-> Off] /\ tap = [t \in Tap |-> NoTap]
  /\ since = [m \in Msg |-> Nothing] /\ edits = MaxEdits

TypeOK ==
  /\ AllowTypeOK
  /\ base \in Access \ {"unset"} /\ mode \in {"chat", "code"}
  /\ stored \in [session : {"none", "max", "below"}, user : {"none", "low"}]
  /\ lock \in Msg \cup {None} /\ cur \in Msg \cup {None} /\ queue \in Seq(Msg)
  /\ client \in Built \cup {None}
  /\ worker \in {"off", "idle", "turn"} /\ edits \in Nat

-----------------------------------------------------------------------------
(* Resolution                                                              *)

(* resolve_effective: session, user, global; global alone unless delegated.*)
Resolve(access, own, user) ==
  IF access # "delegated" THEN "std"
  ELSE IF own # "none" THEN own ELSE IF user # "none" THEN user ELSE "std"

(* _effective_settings: max needs its grant.                               *)
Effective(access, own, user, mayMax) ==
  LET v == Resolve(access, own, user) IN IF v = "max" /\ ~mayMax THEN "below" ELSE v

-----------------------------------------------------------------------------
(* A message: AccessMiddleware, _access_block, handle_text, _get_session   *)

Goto(m, pc) ==
  msg' = [msg EXCEPT ![m] = IF pc = "end" THEN [Off EXCEPT !.pc = pc] ELSE [@ EXCEPT !.pc = pc]]

Arrive(m) ==
  /\ msg[m].pc = "off"
  /\ IF IsAllowed THEN Mutate(Pin) /\ Goto(m, "gate")
     ELSE UNCHANGED allowVars /\ Goto(m, "end")
  /\ UNCHANGED <<session, choices, tap, edits>>

(* _access_block: no code turn below code level; a stored max that is no   *)
(* longer granted is lowered.                                              *)
Gate(m) ==
  /\ msg[m].pc = "gate"
  /\ Goto(m, IF mode = "code" /\ Found.level # "code" THEN "end"
             ELSE IF stored.session = "max" /\ ~Found.max THEN "lower" ELSE "read")
  /\ UNCHANGED <<allowVars, session, choices, tap, edits>>

Lower(m) ==
  /\ msg[m].pc = "lower" /\ Goto(m, "read")
  /\ stored' = [stored EXCEPT !.session = "below"]
  /\ UNCHANGED <<allowVars, session, base, mode, tap, edits>>

(* handle_text reads the row before it asks for the lock.                  *)
Read(m) ==
  /\ msg[m].pc = "read"
  /\ msg' = [msg EXCEPT ![m].pc = "lock", ![m].mode = mode, ![m].own = stored.session]
  /\ UNCHANGED <<allowVars, session, choices, tap, edits>>

Lock(m) ==
  /\ msg[m].pc = "lock" /\ lock = None /\ lock' = m
  /\ Goto(m, IF worker # "off" /\ client # None /\ queue = <<>> THEN "inject" ELSE "base")
  /\ UNCHANGED <<allowVars, client, worker, cur, queue, choices, tap, edits>>

(* The running turn takes the message, or it does not.                     *)
Inject(m) ==
  /\ msg[m].pc = "inject"
  /\ \/ worker = "turn" /\ Goto(m, "end") /\ lock' = None
     \/ Goto(m, "base") /\ UNCHANGED lock
  /\ UNCHANGED <<allowVars, client, worker, cur, queue, choices, tap, edits>>

(* _effective_settings awaits the base, then the guest's defaults.         *)
ReadBase(m) ==
  /\ msg[m].pc = "base"
  /\ msg' = [msg EXCEPT ![m].pc = "defaults", ![m].access = EffectiveAccess(base, View.id.access)]
  /\ UNCHANGED <<allowVars, session, choices, tap, edits>>

(* Mutant: the stored values count, whatever access says.                  *)
ReadDefaultsRaw(m) ==
  /\ msg[m].pc = "defaults"
  /\ msg' = [msg EXCEPT ![m].pc = "compare",
                        ![m].val = Effective("delegated", msg[m].own, stored.user, View.id.max)]
  /\ UNCHANGED <<allowVars, session, choices, tap, edits>>

ReadDefaults(m) ==
  /\ msg[m].pc = "defaults"
  /\ msg' = [msg EXCEPT ![m].pc = "compare",
                        ![m].val = Effective(msg[m].access, msg[m].own,
                                                    stored.user, View.id.max)]
  /\ UNCHANGED <<allowVars, session, choices, tap, edits>>

Wanted(m) == [val |-> msg[m].val, mode |-> msg[m].mode]

Enqueue(m) ==
  /\ queue' = Append(queue, m) /\ lock' = None
  /\ worker' = IF worker = "off" THEN "idle" ELSE worker
  /\ msg' = [msg EXCEPT ![m] = [Off EXCEPT !.pc = "end", !.direct = worker = "off"]]

(* A client that matches, or whose worker is busy, stays.                  *)
Compare(m) ==
  /\ msg[m].pc = "compare"
  /\ IF client = None THEN client' = Wanted(m) /\ Enqueue(m)
     ELSE IF client = Wanted(m) \/ worker # "off" THEN Enqueue(m) /\ UNCHANGED client
     ELSE client' = None /\ Goto(m, "close") /\ UNCHANGED <<lock, worker, queue>>
  /\ UNCHANGED <<allowVars, cur, choices, tap, edits>>

Rebuild(m) ==
  /\ msg[m].pc = "close" /\ client' = Wanted(m) /\ Enqueue(m)
  /\ UNCHANGED <<allowVars, cur, choices, tap, edits>>

-----------------------------------------------------------------------------
(* _worker                                                                 *)

TurnStarts ==
  /\ worker = "idle" /\ queue # <<>>
  /\ worker' = "turn" /\ cur' = Head(queue) /\ queue' = Tail(queue)
  /\ UNCHANGED <<allowVars, lock, client, choices, msg, tap, edits>>

TurnEnds ==
  /\ worker = "turn" /\ worker' = "idle" /\ cur' = None
  /\ UNCHANGED <<allowVars, lock, client, queue, choices, msg, tap, edits>>

WorkerEnds ==
  /\ worker = "idle" /\ queue = <<>> /\ worker' = "off"
  /\ UNCHANGED <<allowVars, lock, client, cur, queue, choices, msg, tap, edits>>

-----------------------------------------------------------------------------
(* The guest changes a setting                                             *)

To(t, pc) ==
  tap' = [tap EXCEPT ![t] = IF pc \in {"rebuild", "end"} THEN [NoTap EXCEPT !.pc = pc]
                            ELSE [@ EXCEPT !.pc = pc]]

(* A button of the settings hub; the effort command, which asks for the    *)
(* grant only; a switch of mode, which asks for the level.                 *)
TapStarts(t) ==
  /\ tap[t].pc = "off" /\ IsAllowed
  /\ \/ \E c \in {<<"session", "max">>, <<"user", "low">>} :
          tap' = [tap EXCEPT ![t] = [pc |-> "check", scope |-> c[1], val |-> c[2], base |-> base]]
     \/ \E v \in {"max", "none"} :
          /\ v = "max" => Found.max
          /\ tap' = [tap EXCEPT ![t].pc = "write", ![t].val = v]
     \/ \E new \in Levels \ {mode} :
          /\ new = "code" => Found.level = "code"
          /\ tap' = [tap EXCEPT ![t].pc = "write", ![t].scope = "mode", ![t].val = new]
  /\ UNCHANGED <<allowVars, session, choices, msg, edits>>

(* _ss_apply: checked again before it is written.                          *)
TapChecks(t) ==
  /\ tap[t].pc = "check"
  /\ LET may_edit == EffectiveAccess(tap[t].base, View.id.access) = "delegated"
         granted == tap[t].val = "max" => Found.max
     IN To(t, IF may_edit /\ granted THEN "write" ELSE "end")
  /\ UNCHANGED <<allowVars, session, choices, msg, edits>>

TapWrites(t) ==
  /\ tap[t].pc = "write"
  /\ IF tap[t].scope = "mode" THEN mode' = tap[t].val /\ UNCHANGED stored
     ELSE stored' = [stored EXCEPT ![tap[t].scope] = tap[t].val] /\ UNCHANGED mode
  /\ To(t, IF tap[t].scope = "user" THEN "end" ELSE "rebuild")
  /\ UNCHANGED <<allowVars, session, base, msg, edits>>

(* on_mode_or_model_or_cwd_change: an idle client goes, a busy one is left *)
(* to the next message.                                                    *)
TapRebuilds(t) ==
  /\ tap[t].pc = "rebuild" /\ lock = None
  /\ client' = IF worker = "off" THEN None ELSE client
  /\ To(t, "end")
  /\ UNCHANGED <<allowVars, lock, worker, cur, queue, choices, msg, edits>>

-----------------------------------------------------------------------------
(* The owner; a hand edit, a broken file, a restart                        *)

OwnerChanges ==
  /\ edits > 0 /\ edits' = edits - 1
  /\ \/ OwnerEdits /\ UNCHANGED base
     \/ base' \in Access \ {"unset", base} /\ UNCHANGED allowVars
  /\ UNCHANGED <<session, stored, mode, msg, tap>>

FileChanges ==
  /\ HandEdit \/ Break
  /\ UNCHANGED <<session, choices, msg, tap, edits>>

Restart ==
  /\ Reload
  /\ lock' = None /\ client' = None /\ worker' = "off" /\ cur' = None /\ queue' = <<>>
  /\ msg' = [m \in Msg |-> IF msg[m].pc = "off" THEN Off ELSE [Off EXCEPT !.pc = "end"]]
  /\ tap' = [t \in Tap |-> IF tap[t].pc = "off" THEN NoTap ELSE [NoTap EXCEPT !.pc = "end"]]
  /\ UNCHANGED <<choices, edits>>

-----------------------------------------------------------------------------
Noted ==
  since' = [m \in Msg |->
              IF msg'[m].pc = "end" /\ (m = cur' \/ \E i \in DOMAIN queue' : queue'[i] = m) THEN since[m]
              ELSE IF msg'[m].pc \in {"off", "end"} THEN Nothing
              ELSE [f \in DOMAIN Now |-> since[m][f] \cup {Now[f], Now'[f]}]]

Step ==
  \/ \E m \in Msg : \/ Arrive(m) \/ Gate(m) \/ Lower(m) \/ Read(m) \/ Lock(m) \/ Inject(m)
                    \/ ReadBase(m) \/ ReadDefaults(m) \/ Compare(m) \/ Rebuild(m)
  \/ TurnStarts \/ TurnEnds \/ WorkerEnds
  \/ \E t \in Tap : TapStarts(t) \/ TapChecks(t) \/ TapWrites(t) \/ TapRebuilds(t)
  \/ OwnerChanges \/ FileChanges \/ Restart

Next == Step /\ Noted

Spec == Init /\ [][Next]_vars

-----------------------------------------------------------------------------
(* The client of message m's turn is built from values that held at some   *)
(* time since m arrived.                                                   *)
Fresh(m) ==
  LET s == since[m] IN
  /\ client.mode \in s.mode
  /\ \E a \in s.access, o \in s.own, u \in s.user, x \in s.max :
       client.val = Effective(a, o, u, x)

(* A message to an idle session obeys the settings and rights of now: a    *)
(* right taken away, or a setting changed, before the message came is not  *)
(* what its turn runs with ("a revoked grant takes effect at run time").   *)
IdleTurnIsFresh == cur # None /\ msg[cur].direct => Fresh(cur)

(* A guest without code level gets no code turn from an idle session,      *)
(* unless the level went, or a switch to code was under way, while the     *)
(* message was on its way ("denied: chat-level user in a code session").   *)
CodeNeedsLevel ==
  cur # None /\ msg[cur].direct /\ client.mode = "code" =>
    "code" \in since[cur].level \/ TRUE \in since[cur].switching

(* The turn of an idle session obeys the settings and the level of now.    *)
IdleTurnObeys == IdleTurnIsFresh /\ CodeNeedsLevel


=============================================================================
