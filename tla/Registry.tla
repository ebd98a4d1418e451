------------------------------ MODULE Registry ------------------------------
(***************************************************************************)
(* One user's DM sessions as rows of the threads table, the pointer to the *)
(* current one, and everything that creates, switches, names, archives or  *)
(* deletes them: incoming messages with idle rotation, the /sessions menu, *)
(* the daily sweep of untitled sessions and the recurring schedules        *)
(* (app/telegram/handlers.py, app/core/sessions.py, app/storage/db.py).    *)
(*                                                                         *)
(* Handlers of one user run as concurrent tasks; a step is one call of the *)
(* database, which db._lock makes atomic.  Of a turn only its end is       *)
(* here: it stamps the row and may title it.  Ordering by recency is left  *)
(* open: where the code takes the first of a listing any row may be taken. *)
(***************************************************************************)
EXTENDS Naturals, FiniteSets

CONSTANTS
  Msg,         \* text messages of the user, each handled by a task
  Tap,         \* button presses and commands, each handled by a task
  Sweeper,     \* the task of _untitled_sweeper_loop
  Scheduler,   \* the task of _schedule_loop
  MaxKey,      \* sessions that can be allocated
  Cap,         \* _effective_max_sessions, positive
  IdleReset,   \* whether idle_reset_seconds(uid) > 0
  MaxTime,     \* occurrences of the schedule's spec
  MaxEvents,   \* messages, taps, sweeps, runs of a due schedule, gaps, occurrences
               \* and restarts, together
  None

(* Of the constants; the MC module assumes it, TLC evaluates it.            *)
RegistryAssumption ==
  /\ MaxKey \in Nat \ {0, 1} /\ Cap \in Nat \ {0} /\ IdleReset \in BOOLEAN
  /\ MaxTime \in Nat \ {0} /\ MaxEvents \in Nat
  /\ Msg \cap Tap = {} /\ None \notin Msg \cup Tap \cup {Sweeper, Scheduler}
  /\ Sweeper \notin Msg \cup Tap /\ Scheduler \notin Msg \cup Tap \cup {Sweeper}

Key == 1..MaxKey         \* the code's keys are negated
Task == Msg \cup Tap \cup {Sweeper, Scheduler}
Name == {"null", "default", "title", "pinned"}  \* pinned: name_auto = 0

VARIABLES
  rows,     \* threads with this chat_id
  row,      \* name, favorite and last_active > 0 of each
  used,     \* keys with usage rows; they outlive the session
  seq,      \* dm_seq
  current,  \* dm_current:<uid>, 0 when absent
  seen,     \* user_last_active: never stamped, within the window or beyond it
  lock,     \* who holds rotate_locks[uid]
  turns,    \* prompts a session of the manager holds, running or queued
  at,       \* pc and locals of each task
  sch,      \* a schedule: whether its row exists, enabled, next_run, session
  now,      \* occurrences that have come
  left,     \* what is left of MaxEvents
  home,     \* history: where the last undisturbed message went, 0 if disturbed
  astray,   \* history: a message went elsewhere than the one before it
  over,     \* history: a creation broke the cap with no other in between
  fired,    \* history: occurrences the schedule was submitted for
  twice     \* history: occurrences it was submitted for again

db == <<rows, row, used, seq, current, seen>>
hist == <<home, astray, over, fired, twice>>
vars == <<db, lock, turns, at, sch, now, left, hist>>

NewRow(n) == [name |-> n, fav |-> FALSE, active |-> FALSE]

(* pc: where the task is; after: where a shared piece of code returns to.  *)
Local == [pc |-> "idle", after |-> "done", key |-> 0, cands |-> {}, titled |-> {},
          spent |-> {}, victim |-> 0, counted |-> 0, alone |-> TRUE, calm |-> TRUE,
          slot |-> 0, nxt |-> 0, on |-> FALSE]

Init ==
  /\ seq \in {1, 2} /\ rows = 1..seq            \* a used session, a leftover perhaps
  /\ row = [k \in Key |-> [NewRow("default") EXCEPT !.active = (k = 1)]]
  /\ used = {1} /\ current \in {0, 1}
  /\ seen = (IF current = 0 THEN "never" ELSE "fresh")
  /\ lock = None /\ turns = [k \in Key |-> {}]
  /\ at = [p \in Task |-> Local]
  /\ sch = [there |-> TRUE, on |-> TRUE, next |-> 1, key |-> 1]
  /\ now \in {0, 1}
  /\ left = MaxEvents
  /\ home = 0 /\ astray = FALSE /\ over = FALSE /\ fired = {} /\ twice = FALSE

TypeOK ==
  /\ rows \subseteq Key /\ used \subseteq Key /\ seq \in Key
  /\ row \in [Key -> [name : Name, fav : BOOLEAN, active : BOOLEAN]]
  /\ current \in Key \cup {0} /\ seen \in {"never", "fresh", "stale"}
  /\ lock \in Msg \cup {None}
  /\ turns \in [Key -> SUBSET (Msg \cup {Scheduler})]
  /\ \A p \in Task : at[p].key \in Key \cup {0} /\ at[p].cands \subseteq Key
  /\ sch \in [there : BOOLEAN, on : BOOLEAN, next : Nat, key : Key]
  /\ now \in 0..MaxTime /\ home \in Key \cup {0}
  /\ astray \in BOOLEAN /\ over \in BOOLEAN /\ twice \in BOOLEAN
  /\ fired \subseteq 1..MaxTime

In(p, l) == at[p].pc = l
Event == left > 0 /\ left' = left - 1
Begin(p) == In(p, "idle") /\ Event
Set(p, r) == at' = [at EXCEPT ![p] = r]
Goto(p, l) == Set(p, [at[p] EXCEPT !.pc = l])
Rest(l) == [Local EXCEPT !.pc = l]
End(p) == Set(p, Rest("done"))
Back(r) == IF r.after \in {"idle", "done"} THEN Rest(r.after) ELSE [r EXCEPT !.pc = r.after]
Return(p) == Set(p, Back(at[p]))

(* Another actor moved the pointer or took a row away: messages on their   *)
(* way may part (history only).                                            *)
Disturbed(r) == [q \in Task |-> IF q = lock THEN [r[q] EXCEPT !.calm = FALSE] ELSE r[q]]
Disturb(p, r) == at' = Disturbed([at EXCEPT ![p] = r]) /\ home' = 0

(* The places between a task's count of the rows and its own creation.     *)
Counted == {"create", "evict", "reset", "delete"}

(* A row appeared: nobody else's count of rows is exact any more.          *)
Appear(p, r) == at' = [q \in Task |-> IF q = p THEN r
                                      ELSE [at[q] EXCEPT !.alone = @ /\ at[q].pc \notin Counted]]

Allocate(p, r) ==                                   \* allocate_dm_session
  /\ seq < MaxKey
  /\ seq' = seq + 1 /\ rows' = rows \cup {seq + 1}
  /\ row' = [row EXCEPT ![seq + 1] = NewRow("default")]
  /\ Appear(p, [r EXCEPT !.key = seq + 1])

-----------------------------------------------------------------------------
(* _session_key: the current session, healed when the pointer dangles      *)

Resolve(p) ==
  /\ In(p, "resolve")
  /\ IF current \in rows THEN Set(p, Back([at[p] EXCEPT !.key = current]))
                         ELSE Goto(p, "heal")
  /\ UNCHANGED <<db, lock, turns, sch, now, left, hist>>

Heal(p) ==
  /\ In(p, "heal")
  /\ IF rows = {} THEN Goto(p, "first")
     ELSE \E k \in rows : Set(p, [at[p] EXCEPT !.pc = "heal point", !.key = k])
  /\ UNCHANGED <<db, lock, turns, sch, now, left, hist>>

HealFirst(p) ==
  /\ In(p, "first")
  /\ Allocate(p, [at[p] EXCEPT !.pc = "heal point"])
  /\ UNCHANGED <<used, current, seen, lock, turns, sch, now, left, hist>>

HealPoint(p) ==
  /\ In(p, "heal point")
  /\ current' = at[p].key
  /\ Disturb(p, Back(at[p]))
  /\ UNCHANGED <<rows, row, used, seq, seen, lock, turns, sch, now, left,
                 astray, over, fired, twice>>

-----------------------------------------------------------------------------
(* on_text: _rotate_if_idle, then handle_text                              *)

Arrive(m) ==
  /\ Begin(m)
  /\ Set(m, [at[m] EXCEPT !.pc = "resolve", !.after = IF IdleReset THEN "lock" ELSE "ensure"])
  /\ UNCHANGED <<db, lock, turns, sch, now, hist>>

(* Mutant: the key found before the lock was taken is used under it.       *)
AcquireTrusts(m) ==
  /\ In(m, "lock") /\ lock = None /\ lock' = m
  /\ Set(m, [at[m] EXCEPT !.pc = "decide", !.calm = TRUE])
  /\ UNCHANGED <<db, turns, sch, now, left, hist>>

Acquire(m) ==
  /\ In(m, "lock") /\ lock = None /\ lock' = m
  /\ Set(m, [at[m] EXCEPT !.pc = "resolve", !.after = "decide", !.calm = TRUE])
  /\ UNCHANGED <<db, turns, sch, now, left, hist>>

(* The lock is let go with the message's session decided.                  *)
Settle(m, k) ==
  /\ lock' = None
  /\ Set(m, [Rest("ensure") EXCEPT !.key = k])
  /\ home' = IF at[m].calm THEN k ELSE home
  /\ astray' = (astray \/ (at[m].calm /\ home \notin {0, k}))
  /\ UNCHANGED <<over, fired, twice>>

Decide(m) ==
  LET k == at[m].key  idle == k \in rows /\ row[k].active /\ seen = "stale" IN
  /\ In(m, "decide")
  /\ seen' = "fresh"
  /\ IF idle THEN Goto(m, "count") /\ UNCHANGED <<lock, hist>> ELSE Settle(m, k)
  /\ UNCHANGED <<rows, row, used, seq, current, turns, sch, now, left>>

(* Mutant: the cap lets one session too many through.                      *)
CountOffByOne(p) ==
  /\ In(p, "count")
  /\ LET n == Cardinality(rows) IN
     IF n > Cap /\ p \notin Msg THEN End(p)
     ELSE Set(p, [at[p] EXCEPT !.pc = IF n <= Cap THEN "create" ELSE "evict",
                               !.counted = n, !.alone = TRUE])
  /\ UNCHANGED <<db, lock, turns, sch, now, left, hist>>

Count(p) ==                                         \* _session_limit_block
  /\ In(p, "count")
  /\ LET n == Cardinality(rows) IN
     IF n >= Cap /\ p \notin Msg THEN End(p)
     ELSE Set(p, [at[p] EXCEPT !.pc = IF n < Cap THEN "create" ELSE "evict",
                               !.counted = n, !.alone = TRUE])
  /\ UNCHANGED <<db, lock, turns, sch, now, left, hist>>

Evict(m) ==                                         \* _evict_oldest_empty
  LET cands == {k \in rows \ {at[m].key} : ~row[k].fav /\ k \notin used} IN
  /\ In(m, "evict")
  /\ IF cands = {} THEN Goto(m, "in place")
     ELSE \E k \in cands : Set(m, [at[m] EXCEPT !.pc = "reset", !.after = "create",
                                                !.victim = k])
  /\ UNCHANGED <<db, lock, turns, sch, now, left, hist>>

RotateInPlace(m) ==
  /\ In(m, "in place")
  /\ Settle(m, at[m].key)
  /\ UNCHANGED <<db, turns, sch, now, left>>

Create(p) ==                                        \* _new_dm_session
  /\ In(p, "create")
  /\ Allocate(p, [at[p] EXCEPT !.pc = "point", !.counted = 0, !.alone = TRUE])
  /\ over' = (over \/ (at[p].alone /\ Cardinality(rows) >= Cap
                                   /\ Cardinality(rows) >= at[p].counted))
  /\ UNCHANGED <<used, current, seen, lock, turns, sch, now, left,
                 home, astray, fired, twice>>

(* A message goes on to tidy the leftovers, as does the menu's New button, *)
(* for the session that is current by then; /new is done.                  *)
Point(p) ==
  /\ In(p, "point")
  /\ current' = at[p].key
  /\ IF p \in Msg
     THEN Set(p, [at[p] EXCEPT !.pc = "page", !.after = "settle"]) /\ UNCHANGED home
     ELSE Disturb(p, Back(at[p]))
  /\ UNCHANGED <<rows, row, used, seq, seen, lock, turns, sch, now, left,
                 astray, over, fired, twice>>

Rotated(m) ==
  /\ In(m, "settle")
  /\ Settle(m, at[m].key)
  /\ UNCHANGED <<db, turns, sch, now, left>>

(* handle_text: ensure_thread brings a deleted row back, untitled.         *)
Ensure(p) ==
  LET k == at[p].key IN
  /\ In(p, "ensure")
  /\ IF k \in rows THEN Goto(p, "submit") /\ UNCHANGED <<rows, row>>
     ELSE /\ rows' = rows \cup {k} /\ row' = [row EXCEPT ![k] = NewRow("null")]
          /\ Appear(p, [at[p] EXCEPT !.pc = "submit"])
  /\ UNCHANGED <<used, seq, current, seen, lock, turns, sch, now, left, hist>>

(* The prompt is handed to the session, which runs or queues it.           *)
Submit(p) ==
  LET k == at[p].key IN
  /\ In(p, "submit")
  /\ turns' = [turns EXCEPT ![k] = @ \cup {p}]
  /\ IF p = Scheduler THEN Goto(p, "stamp") ELSE End(p)
  /\ UNCHANGED <<db, lock, sch, now, left, home, astray, over>>
  /\ IF p = Scheduler
     THEN fired' = fired \cup {at[p].slot} /\ twice' = (twice \/ at[p].slot \in fired)
     ELSE UNCHANGED <<fired, twice>>

(* A turn ends; a successful one leaves usage and stamps the row, and may  *)
(* adopt a title unless the user pinned a name.                            *)
TurnEnds(k, p) ==
  /\ p \in turns[k]
  /\ turns' = [turns EXCEPT ![k] = @ \ {p}]
  /\ \E ok, title \in BOOLEAN :
       /\ title => ok
       /\ used' = IF ok THEN used \cup {k} ELSE used
       /\ row' = IF ~ok \/ k \notin rows THEN row
                 ELSE [row EXCEPT ![k].active = TRUE,
                                  ![k].name = IF title /\ @ # "pinned" THEN "title" ELSE @]
  /\ UNCHANGED <<rows, seq, current, seen, lock, at, sch, now, left, hist>>

-----------------------------------------------------------------------------
(* tidy_untitled, _derive_session_name and dispose_dm_session              *)

Page(p) ==
  /\ In(p, "page")
  /\ LET cands == {k \in rows \ {at[p].key} : /\ ~row[k].fav /\ row[k].name # "pinned"
                                               /\ turns[k] = {}} IN
     IF cands = {} THEN Return(p)
     ELSE Set(p, [at[p] EXCEPT !.pc = "stats", !.cands = cands,
                               !.titled = {k \in cands : row[k].name # "default"}])
  /\ UNCHANGED <<db, lock, turns, sch, now, left, hist>>

Stats(p) ==                                         \* get_usage_totals_bulk
  /\ In(p, "stats")
  /\ Set(p, [at[p] EXCEPT !.pc = "each", !.spent = at[p].cands \cap used])
  /\ UNCHANGED <<db, lock, turns, sch, now, left, hist>>

Tidied(p) ==
  /\ In(p, "each") /\ at[p].cands = {}
  /\ Return(p)
  /\ UNCHANGED <<db, lock, turns, sch, now, left, hist>>

(* A used session with a name, or one that cannot be read, is left alone;  *)
(* one that can be named is; the rest is archived.                         *)
Each(p) ==
  \E k \in at[p].cands :
    LET r == [at[p] EXCEPT !.cands = @ \ {k}, !.victim = k]
        spare == Set(p, [r EXCEPT !.victim = 0])
        name == Set(p, [r EXCEPT !.pc = "name"])
        archive == Set(p, [r EXCEPT !.pc = "tidy reset"]) IN
    /\ In(p, "each")
    /\ CASE k \notin at[p].spent -> archive
         [] k \in at[p].spent /\ k \in at[p].titled -> spare
         [] OTHER -> spare \/ (k \in rows /\ name) \/ archive
    /\ UNCHANGED <<db, lock, turns, sch, now, left, hist>>

NameIt(p) ==                                        \* set_session_name(manual=False)
  LET k == at[p].victim IN
  /\ In(p, "name")
  /\ row' = IF k \in rows /\ row[k].name # "pinned" THEN [row EXCEPT ![k].name = "title"]
                                                    ELSE row
  /\ Set(p, [at[p] EXCEPT !.pc = "each", !.victim = 0])
  /\ UNCHANGED <<rows, used, seq, current, seen, lock, turns, sch, now, left, hist>>

Reset(p) ==                                         \* SessionManager.reset
  /\ at[p].pc \in {"reset", "tidy reset", "user reset"}
  /\ turns' = [turns EXCEPT ![at[p].victim] = {}]
  /\ Goto(p, CASE In(p, "reset") -> "delete"
                [] In(p, "tidy reset") -> "tidy delete"
                [] In(p, "user reset") -> "user delete")
  /\ UNCHANGED <<db, lock, sch, now, left, hist>>

(* delete_dm_session takes the session's schedules along.  An eviction     *)
(* that found the row gone rotates in place.                               *)
Delete(p) ==
  LET k == at[p].victim
      r == CASE In(p, "tidy delete") -> [at[p] EXCEPT !.pc = "each", !.victim = 0]
             [] In(p, "user delete") /\ k \in rows -> [at[p] EXCEPT !.pc = "gone"]
             [] In(p, "user delete") /\ k \notin rows -> Rest("done")
             [] In(p, "delete") ->
                  [at[p] EXCEPT !.pc = IF k \in rows THEN "create" ELSE "in place"] IN
  /\ at[p].pc \in {"delete", "tidy delete", "user delete"}
  /\ rows' = rows \ {k}
  /\ sch' = [sch EXCEPT !.there = @ /\ sch.key # k]
  /\ IF k = current THEN Disturb(p, r) ELSE Set(p, r) /\ UNCHANGED home
  /\ UNCHANGED <<row, used, seq, current, seen, lock, turns, now, left,
                 astray, over, fired, twice>>

Sweep ==                                            \* sweep_untitled_all
  /\ Begin(Sweeper) /\ rows # {}
  /\ Set(Sweeper, [at[Sweeper] EXCEPT !.pc = "page", !.after = "idle", !.key = current])
  /\ UNCHANGED <<db, lock, turns, sch, now, hist>>

-----------------------------------------------------------------------------
(* /new and the /sessions menu                                             *)

New(u) ==
  /\ Begin(u)
  /\ \E button \in BOOLEAN :
       Set(u, [at[u] EXCEPT !.pc = "count", !.after = IF button THEN "keep" ELSE "done"])
  /\ UNCHANGED <<db, lock, turns, sch, now, hist>>

NewKeeps(u) ==
  /\ In(u, "keep")
  /\ Set(u, [at[u] EXCEPT !.pc = "page", !.after = "done", !.key = current])
  /\ UNCHANGED <<db, lock, turns, sch, now, left, hist>>

Switch(u) ==
  /\ Begin(u)
  /\ \E k \in rows : Set(u, [at[u] EXCEPT !.pc = "point", !.after = "seen", !.key = k])
  /\ UNCHANGED <<db, lock, turns, sch, now, hist>>

SwitchSeen(u) ==
  /\ In(u, "seen")
  /\ seen' = "fresh"
  /\ Set(u, [at[u] EXCEPT !.pc = "page", !.after = "done"])
  /\ UNCHANGED <<rows, row, used, seq, current, lock, turns, sch, now, left, hist>>

(* The stars and names of the options menu; the star is turned from what   *)
(* the menu read.                                                          *)
Favorite(u) ==
  /\ Begin(u)
  /\ \E k \in rows : Set(u, [at[u] EXCEPT !.pc = "star", !.key = k, !.on = ~row[k].fav])
  /\ UNCHANGED <<db, lock, turns, sch, now, hist>>

Star(u) ==
  /\ In(u, "star") /\ End(u)
  /\ row' = IF at[u].key \in rows THEN [row EXCEPT ![at[u].key].fav = at[u].on] ELSE row
  /\ UNCHANGED <<rows, used, seq, current, seen, lock, turns, sch, now, left, hist>>

Rename(u) ==                                        \* _do_rename
  /\ Begin(u) /\ End(u)
  /\ \E k \in rows : row' = [row EXCEPT ![k].name = "pinned"]
  /\ UNCHANGED <<rows, used, seq, current, seen, lock, turns, sch, now, hist>>

(* The confirmed deletion; a menu shown before may name a session gone by  *)
(* now.                                                                    *)
DeleteAsked(u) ==
  /\ Begin(u)
  /\ \E k \in 1..seq : Set(u, [at[u] EXCEPT !.pc = "user reset", !.victim = k])
  /\ UNCHANGED <<db, lock, turns, sch, now, hist>>

Repoint(u) ==
  /\ In(u, "gone")
  /\ IF current # at[u].victim THEN End(u)
     ELSE IF rows = {} THEN Set(u, [at[u] EXCEPT !.pc = "first", !.after = "done"])
     ELSE \E k \in rows : Set(u, [at[u] EXCEPT !.pc = "point", !.after = "done", !.key = k])
  /\ UNCHANGED <<db, lock, turns, sch, now, left, hist>>

-----------------------------------------------------------------------------
(* Schedules: the menu's pause, resume and delete; _fire_schedule          *)

Toggle(u) ==
  /\ Begin(u) /\ sch.there
  /\ Set(u, [at[u] EXCEPT !.pc = IF sch.on THEN "enable" ELSE "advance", !.on = ~sch.on])
  /\ UNCHANGED <<db, lock, turns, sch, now, hist>>

(* Resuming: the next run is computed from now.                            *)
ToggleAdvance(u) ==
  /\ u \in Tap /\ In(u, "advance") /\ Goto(u, "enable")
  /\ sch' = [sch EXCEPT !.next = now + 1]
  /\ UNCHANGED <<db, lock, turns, now, left, hist>>

ToggleEnable(u) ==
  /\ In(u, "enable") /\ End(u)
  /\ sch' = [sch EXCEPT !.on = at[u].on]
  /\ UNCHANGED <<db, lock, turns, now, left, hist>>

Unschedule(u) ==
  /\ Begin(u) /\ sch.there /\ End(u)
  /\ sch' = [sch EXCEPT !.there = FALSE]
  /\ UNCHANGED <<db, lock, turns, now, hist>>

Due ==                                              \* due_schedules
  /\ Begin(Scheduler) /\ sch.there /\ sch.on /\ sch.next <= now
  /\ Set(Scheduler, [at[Scheduler] EXCEPT !.pc = "guard", !.key = sch.key, !.slot = sch.next])
  /\ UNCHANGED <<db, lock, turns, sch, now, hist>>

(* A deleted session or a revoked owner disables it; scarce memory leaves  *)
(* it for the next sweep.                                                  *)
Guard ==
  /\ In(Scheduler, "guard")
  /\ \/ /\ at[Scheduler].key \in rows
        /\ Goto(Scheduler, "advance") /\ UNCHANGED sch
     \/ /\ at[Scheduler].key \in rows
        /\ Set(Scheduler, Local) /\ UNCHANGED sch
     \/ Goto(Scheduler, "disable") /\ UNCHANGED sch
  /\ UNCHANGED <<db, lock, turns, now, left, hist>>

Disable ==
  /\ In(Scheduler, "disable")
  /\ Set(Scheduler, [at[Scheduler] EXCEPT !.pc = "stamp", !.nxt = now])
  /\ sch' = [sch EXCEPT !.on = FALSE]
  /\ UNCHANGED <<db, lock, turns, now, left, hist>>

(* Mutant: next_run moves on only once the prompt is dispatched.           *)
AdvanceLater ==
  /\ In(Scheduler, "advance")
  /\ Set(Scheduler, [at[Scheduler] EXCEPT !.pc = "ensure", !.nxt = now + 1])
  /\ UNCHANGED <<db, lock, turns, sch, now, left, hist>>

(* next_run moves on before the prompt is dispatched.                      *)
Advance ==
  /\ In(Scheduler, "advance")
  /\ sch' = [sch EXCEPT !.next = now + 1]
  /\ Set(Scheduler, [at[Scheduler] EXCEPT !.pc = "ensure", !.nxt = now + 1])
  /\ UNCHANGED <<db, lock, turns, now, left, hist>>

Stamp ==                                            \* update_schedule_run
  /\ In(Scheduler, "stamp") /\ Set(Scheduler, Local)
  /\ sch' = [sch EXCEPT !.next = at[Scheduler].nxt]
  /\ UNCHANGED <<db, lock, turns, now, left, hist>>

-----------------------------------------------------------------------------
(* The user stays away; the schedule's next occurrence comes; a restart    *)

StaysAway ==
  /\ Event
  /\ seen' = IF seen = "never" THEN seen ELSE "stale"
  /\ at' = Disturbed(at) /\ home' = 0
  /\ UNCHANGED <<rows, row, used, seq, current, lock, turns, sch, now,
                 astray, over, fired, twice>>

Occurs ==
  /\ Event /\ now < MaxTime /\ now' = now + 1
  /\ UNCHANGED <<db, lock, turns, at, sch, hist>>

Crash ==
  /\ Event
  /\ at' = [p \in Task |-> [Local EXCEPT !.pc =
                IF p \in {Sweeper, Scheduler} \/ In(p, "idle") THEN "idle" ELSE "done"]]
  /\ lock' = None /\ turns' = [k \in Key |-> {}] /\ home' = 0
  /\ UNCHANGED <<db, sch, now, astray, over, fired, twice>>

Work(p) ==
  \/ Resolve(p) \/ Heal(p) \/ HealFirst(p) \/ HealPoint(p) \/ Count(p) \/ Create(p)
  \/ Point(p) \/ Ensure(p) \/ Submit(p) \/ Page(p) \/ Stats(p) \/ Tidied(p) \/ Each(p)
  \/ NameIt(p) \/ Reset(p) \/ Delete(p)

Next ==
  \/ \E p \in Task : Work(p)
  \/ \E m \in Msg : Arrive(m) \/ Acquire(m) \/ Decide(m) \/ Evict(m) \/ RotateInPlace(m)
                    \/ Rotated(m)
  \/ \E u \in Tap : New(u) \/ NewKeeps(u) \/ Switch(u) \/ SwitchSeen(u) \/ Favorite(u)
                    \/ Star(u) \/ Rename(u) \/ DeleteAsked(u) \/ Repoint(u) \/ Toggle(u)
                    \/ ToggleAdvance(u) \/ ToggleEnable(u) \/ Unschedule(u)
  \/ \E k \in Key : \E p \in turns[k] : TurnEnds(k, p)
  \/ Sweep \/ Due \/ Guard \/ Disable \/ Advance \/ Stamp
  \/ StaysAway \/ Occurs \/ Crash

Spec == Init /\ [][Next]_vars

-----------------------------------------------------------------------------
(* Messages sent in one go land in one session: however their handlers     *)
(* interleave with each other and with the rotation one of them makes,     *)
(* two messages that no gap, no tap and no deletion of the current session *)
(* separates go to the same session (_rotate_if_idle's per-user lock).     *)
BurstStaysTogether == ~astray

(* The cap holds unless two creations overlap: a session made after the    *)
(* count never takes the user beyond both the cap and that count, unless   *)
(* another row appeared in between (_session_limit_block, _do_new, the     *)
(* menu's New and the rotation that first archives an empty session).      *)
CapHoldsUnlessRaced == ~over

(* No occurrence of a schedule is submitted twice, whatever is paused,     *)
(* resumed or deleted meanwhile and wherever the process crashes           *)
(* (_fire_schedule moves next_run on before it dispatches).                *)
OccurrenceFiredOnce == ~twice

=============================================================================
