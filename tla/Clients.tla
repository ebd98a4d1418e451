------------------------------ MODULE Clients ------------------------------
(***************************************************************************)
(* The Claude clients of all threads and what takes them away: the idle    *)
(* reaper, memory relief by a worker about to run, the CLI updater,        *)
(* settings changes, reset and shutdown (app/core/sessions.py), and the    *)
(* persistent jailed shells (app/core/engine.py), which move between a     *)
(* client, the stash _detached_shells and the client built after it.       *)
(*                                                                         *)
(* A step is what a coroutine does between two awaits.  A turn runs the    *)
(* model or a command of the shell; what happens inside the model's turn   *)
(* is in TurnStream, the queue of one thread in SessionManager and the     *)
(* order in which workers get a slot in FairAdmission: here a worker runs  *)
(* whenever it has relieved memory.  Which of several idle clients is the  *)
(* oldest is left open.  A record dropped by a reset and the one made      *)
(* after it are one here.  ClaudeSession.aclose() takes one await here, its    *)
(* disconnect; PersistentShell.close() kills before its own.               *)
(***************************************************************************)
EXTENDS Naturals, Sequences, SequencesExt, FiniteSets

CONSTANTS
  Thread,      \* thread ids
  Shell,       \* shells that can be started
  Cap,         \* _max_live
  MaxSubmits,  \* calls of handle_text for a thread
  MaxSweeps,   \* sweeps of the reaper
  MaxUpdates,  \* rounds of the updater that install a new binary
  MaxAdmin,    \* calls of reset and of on_mode_or_model_or_cwd_change
  Shutdown,    \* whether aclose() may be called
  None

(* The tasks: one submitter, resetter, changer and worker for a thread.    *)
Reaper == <<"reaper", None>>
Updater == <<"updater", None>>
Closer == <<"closer", None>>
Proc == ({"submit", "reset", "change", "worker"} \X Thread) \cup {Reaper, Updater, Closer}
W(t) == <<"worker", t>>

(* Of the constants; the MC module assumes it, TLC evaluates it.            *)
ClientsAssumption == Cap \in Nat /\ IsFiniteSet(Thread) /\ None \notin Shell \cup Proc

VARIABLES
  at,        \* where each task is
  lock,      \* who holds each rec.lock
  client,    \* rec.session: the generation it was built for, 0 when absent
  held,      \* _shell of that client
  stash,     \* _detached_shells
  expired,   \* stashed shells past _shell_ttl
  alive,     \* shells running
  unborn,    \* shells never started
  inhand,    \* the shell a task holds in a local variable
  job,       \* the clients an evicting task has still to visit
  phase,     \* the part of _reap_once the reaper is in
  doomed,    \* the stash entries it has still to visit
  cli,       \* _cli_generation
  cancelled, \* tasks with a pending cancellation
  lost,      \* history: entries the reaper popped for another shell's sake
  late,      \* history: threads that got a client after aclose() began
  calls      \* what is left of each bound

shellVars == <<held, stash, expired, alive, unborn, inhand>>
sweepVars == <<job, phase, doomed>>
histVars == <<lost, late>>
vars == <<at, lock, client, shellVars, sweepVars, cli, cancelled, histVars, calls>>

Phases == {"rest", "ttl", "cap", "stale", "shells"}

TypeOK ==
  /\ at \in [Proc -> {"idle", "wait", "closing", "run", "spawn", "evict", "asked",
                      "join", "off", "sweeps", "updates", "records", "done"}]
  /\ lock \in [Thread -> Proc \cup {None}]
  /\ client \in [Thread -> 0..MaxUpdates + 1]
  /\ held \in [Thread -> Shell \cup {None}] /\ stash \in [Thread -> Shell \cup {None}]
  /\ expired \subseteq Thread /\ alive \subseteq Shell /\ unborn \subseteq Shell
  /\ inhand \in [Proc -> Shell \cup {None}]
  /\ job \in [Proc -> Seq(Thread)]
  /\ phase \in Phases /\ doomed \in Seq([t : Thread, sh : Shell, old : BOOLEAN])
  /\ cli \in 1..MaxUpdates + 1
  /\ cancelled \subseteq Proc
  /\ lost \subseteq Shell /\ late \subseteq Thread
  /\ calls \in [{"submit", "sweep", "update", "admin"} -> Nat]

Init ==
  /\ at = [p \in Proc |-> IF p = Closer THEN "off" ELSE "idle"]
  /\ lock = [t \in Thread |-> None]
  /\ client = [t \in Thread |-> 0]
  /\ held = [t \in Thread |-> None] /\ stash = [t \in Thread |-> None] /\ expired = {}
  /\ alive = {} /\ unborn = Shell
  /\ inhand = [p \in Proc |-> None]
  /\ job = [p \in Proc |-> <<>>] /\ phase = "rest" /\ doomed = <<>>
  /\ cli = 1
  /\ cancelled = {} /\ lost = {} /\ late = {}
  /\ calls = [submit |-> MaxSubmits, sweep |-> MaxSweeps, update |-> MaxUpdates,
              admin |-> MaxAdmin]

Busy(t) == at[W(t)] # "idle"
LiveThreads == {t \in Thread : client[t] # 0}
IdleThreads == {t \in LiveThreads : ~Busy(t)}     \* _live_thread_ids(idle_only=True)
HasLiveShell(t) == held[t] # None /\ held[t] \in alive
Up == at[Closer] = "off"
Count(k) == calls[k] > 0 /\ calls' = [calls EXCEPT ![k] = @ - 1]
Goto(p, l) == at' = [at EXCEPT ![p] = l]
Kill(sh) == alive' = alive \ {sh}

-----------------------------------------------------------------------------
(* handle_text and _get_session, under rec.lock                            *)

Submit(t) ==
  /\ Up /\ at[<<"submit", t>>] = "idle" /\ Count("submit")
  /\ Goto(<<"submit", t>>, "wait")
  /\ UNCHANGED <<lock, client, shellVars, sweepVars, cli, cancelled, histVars>>

(* The worker starts unless one runs; it reads the queue at once.          *)
Started(t) == at' = [at EXCEPT ![<<"submit", t>>] = "idle",
                               ![W(t)] = IF @ = "idle" THEN "wait" ELSE @]

SubmitReuse(t) ==
  /\ at[<<"submit", t>>] = "wait" /\ lock[t] = None /\ client[t] # 0
  /\ Started(t)
  /\ UNCHANGED <<lock, client, shellVars, sweepVars, cli, cancelled, histVars, calls>>

(* The settings drifted: the old client goes, its live shell is kept.      *)
SubmitRebuild(t) ==
  /\ at[<<"submit", t>>] = "wait" /\ lock[t] = None /\ client[t] # 0 /\ ~Busy(t)
  /\ lock' = [lock EXCEPT ![t] = <<"submit", t>>]
  /\ client' = [client EXCEPT ![t] = 0]
  /\ inhand' = [inhand EXCEPT ![<<"submit", t>>] = IF HasLiveShell(t) THEN held[t] ELSE None]
  /\ held' = [held EXCEPT ![t] = None]
  /\ Goto(<<"submit", t>>, "closing")
  /\ UNCHANGED <<stash, expired, alive, unborn, sweepVars, cli, cancelled, histVars, calls>>

(* Mutant: the stash keeps its entry. *)
ReattachKeepsEntry(t, pending) ==
  /\ held' = [held EXCEPT ![t] = IF pending # None THEN pending ELSE stash[t]]
  /\ UNCHANGED <<alive, stash, expired>>

(* _reattach_shell: the shell of the rebuild wins, a stashed one beside it *)
(* is closed, and a dead one is dropped.                                   *)
Reattach(t, pending) ==
  LET sh == IF pending # None THEN pending ELSE stash[t]
  IN  /\ held' = [held EXCEPT ![t] = IF sh \in alive THEN sh ELSE None]
      /\ alive' = IF pending # None /\ stash[t] # None THEN alive \ {stash[t]} ELSE alive
      /\ stash' = [stash EXCEPT ![t] = None]
      /\ expired' = expired \ {t}

SubmitBuild(t) ==
  /\ \/ at[<<"submit", t>>] = "wait" /\ lock[t] = None /\ client[t] = 0
     \/ at[<<"submit", t>>] = "closing"
  /\ lock' = [lock EXCEPT ![t] = None]
  /\ client' = [client EXCEPT ![t] = cli]
  /\ Reattach(t, inhand[<<"submit", t>>])
  /\ inhand' = [inhand EXCEPT ![<<"submit", t>>] = None]
  /\ late' = IF Up THEN late ELSE late \cup {t}
  /\ Started(t)
  /\ UNCHANGED <<unborn, sweepVars, cli, cancelled, lost, calls>>

-----------------------------------------------------------------------------
(* Closing idle clients one after the other: _evict_session for each       *)
(* client of a list that was made before                                   *)

Goes(p) == p \notin cancelled
Recycling(p) == p = Updater \/ (p = Reaper /\ phase = "stale")

(* Relief stops as soon as memory is above its floor.                      *)
Rest(p) == IF p[1] = "worker" THEN {Tail(job[p]), <<>>} ELSE {Tail(job[p])}
Proceed(p, l) == /\ \E rest \in Rest(p) : job' = [job EXCEPT ![p] = rest]
               /\ Goto(p, l)

(* A client built since the update is passed over; the test comes before   *)
(* the wait for its lock.                                                  *)
EvictAsk(p) ==
  /\ at[p] = "evict" /\ Goes(p) /\ job[p] # <<>>
  /\ LET t == Head(job[p])
     IN IF Recycling(p) /\ client[t] >= cli
        THEN Proceed(p, "evict")
        ELSE Goto(p, "asked") /\ UNCHANGED job
  /\ UNCHANGED <<lock, client, shellVars, phase, doomed, cli, cancelled, histVars, calls>>

EvictSkip(p) ==
  /\ at[p] = "asked" /\ Goes(p)
  /\ LET t == Head(job[p]) IN lock[t] = None /\ (Busy(t) \/ client[t] = 0)
  /\ Proceed(p, "evict")
  /\ UNCHANGED <<lock, client, shellVars, phase, doomed, cli, cancelled, histVars, calls>>

(* Mutant: busy is not asked again with the lock. *)
EvictTakeBusy(p) ==
  /\ at[p] = "asked" /\ Goes(p)
  /\ LET t == Head(job[p])
     IN /\ lock[t] = None /\ client[t] # 0
        /\ lock' = [lock EXCEPT ![t] = p]
        /\ client' = [client EXCEPT ![t] = 0]
        /\ stash' = IF HasLiveShell(t) THEN [stash EXCEPT ![t] = held[t]] ELSE stash
        /\ expired' = IF HasLiveShell(t) THEN expired \ {t} ELSE expired
        /\ held' = [held EXCEPT ![t] = None]
  /\ Goto(p, "closing")
  /\ UNCHANGED <<alive, unborn, inhand, sweepVars, cli, cancelled, histVars, calls>>

EvictTake(p) ==
  /\ at[p] = "asked" /\ Goes(p)
  /\ LET t == Head(job[p])
     IN /\ lock[t] = None /\ client[t] # 0 /\ ~Busy(t)
        /\ lock' = [lock EXCEPT ![t] = p]
        /\ client' = [client EXCEPT ![t] = 0]
        /\ stash' = IF HasLiveShell(t) THEN [stash EXCEPT ![t] = held[t]] ELSE stash
        /\ expired' = IF HasLiveShell(t) THEN expired \ {t} ELSE expired
        /\ held' = [held EXCEPT ![t] = None]
  /\ Goto(p, "closing")
  /\ UNCHANGED <<alive, unborn, inhand, sweepVars, cli, cancelled, histVars, calls>>

EvictClosed(p) ==
  /\ at[p] = "closing" /\ Goes(p) /\ job[p] # <<>>
  /\ lock' = [lock EXCEPT ![Head(job[p])] = None]
  /\ Proceed(p, "evict")
  /\ UNCHANGED <<client, shellVars, phase, doomed, cli, cancelled, histVars, calls>>

(* A cancellation reaches the task at its await: it lets go of the lock it *)
(* holds, and the disconnect it waited for is cut short.                   *)
Cancelled(p) ==
  /\ p \in cancelled
  /\ cancelled' = cancelled \ {p}
  /\ Goto(p, "idle")
  /\ IF at[p] = "closing" /\ job[p] # <<>>
     THEN lock' = [lock EXCEPT ![Head(job[p])] = None]
     ELSE UNCHANGED lock
  /\ job' = [job EXCEPT ![p] = <<>>]
  /\ IF p = Reaper THEN phase' = "rest" /\ doomed' = <<>> ELSE UNCHANGED <<phase, doomed>>
  /\ UNCHANGED <<client, shellVars, cli, histVars, calls>>

Evicting(p) == EvictAsk(p) \/ EvictSkip(p) \/ EvictTake(p) \/ EvictClosed(p) \/ Cancelled(p)

-----------------------------------------------------------------------------
(* The worker: _admit_turn with _relieve_memory, then turns                *)

WorkerRelieves(t) ==
  /\ at[W(t)] = "wait" /\ Goes(W(t))
  /\ Goto(W(t), "evict")
  /\ \E s \in SetToSeqs(IdleThreads) : job' = [job EXCEPT ![W(t)] = s]
  /\ UNCHANGED <<lock, client, shellVars, phase, doomed, cli, cancelled, histVars, calls>>

WorkerRuns(t) ==
  /\ at[W(t)] = "wait" \/ (at[W(t)] = "evict" /\ job[W(t)] = <<>>)
  /\ Goes(W(t))
  /\ Goto(W(t), "run")
  /\ UNCHANGED <<lock, client, shellVars, sweepVars, cli, cancelled, histVars, calls>>

(* A command of shell mode: a shell is started when there is none, or the  *)
(* one there is died.                                                      *)
ShellSpawns(t) ==
  /\ at[W(t)] = "run" /\ Goes(W(t)) /\ ~HasLiveShell(t) /\ unborn # {}
  /\ Goto(W(t), "spawn")
  /\ UNCHANGED <<lock, client, shellVars, sweepVars, cli, cancelled, histVars, calls>>

(* Without one the command runs on its own, and the turn ends.             *)
ShellStarts(t) ==
  /\ at[W(t)] = "spawn" /\ Goes(W(t))
  /\ \/ /\ Goto(W(t), "run")
        /\ LET sh == CHOOSE x \in unborn : TRUE
           IN  /\ unborn # {}
               /\ held' = [held EXCEPT ![t] = sh]
               /\ unborn' = unborn \ {sh} /\ alive' = alive \cup {sh}
     \/ Goto(W(t), "idle") /\ UNCHANGED <<held, unborn, alive>>
  /\ UNCHANGED <<lock, client, stash, expired, inhand, sweepVars, cli, cancelled,
                 histVars, calls>>

WorkerEnds(t) ==
  /\ at[W(t)] = "run" /\ Goes(W(t))
  /\ Goto(W(t), "idle")
  /\ UNCHANGED <<lock, client, shellVars, sweepVars, cli, cancelled, histVars, calls>>

-----------------------------------------------------------------------------
(* reset, on_mode_or_model_or_cwd_change                                   *)

Ask(kind, t) ==
  /\ Up /\ at[<<kind, t>>] = "idle" /\ Count("admin")
  /\ Goto(<<kind, t>>, "wait")
  /\ UNCHANGED <<lock, client, shellVars, sweepVars, cli, cancelled, histVars>>

CancelWorker(t) == cancelled' = IF Busy(t) THEN cancelled \cup {W(t)} ELSE cancelled

ResetLocks(t) ==
  /\ at[<<"reset", t>>] = "wait" /\ lock[t] = None
  /\ lock' = [lock EXCEPT ![t] = <<"reset", t>>]
  /\ CancelWorker(t)
  /\ Goto(<<"reset", t>>, "join")
  /\ UNCHANGED <<client, shellVars, sweepVars, cli, histVars, calls>>

(* A client taken for closing takes its shell along.                       *)
TakeWithShell(p, t) ==
  /\ client' = [client EXCEPT ![t] = 0]
  /\ inhand' = [inhand EXCEPT ![p] = held[t]]
  /\ held' = [held EXCEPT ![t] = None]
  /\ Goto(p, "closing")

ResetJoined(t) ==
  /\ at[<<"reset", t>>] = "join" /\ ~Busy(t)
  /\ TakeWithShell(<<"reset", t>>, t)
  /\ UNCHANGED <<lock, stash, expired, alive, unborn, sweepVars, cli, cancelled,
                 histVars, calls>>

(* The record is dropped, and a stashed shell with it.                     *)
ResetEnds(t) ==
  /\ at[<<"reset", t>>] = "closing"
  /\ alive' = alive \ {inhand[<<"reset", t>>], stash[t]}
  /\ inhand' = [inhand EXCEPT ![<<"reset", t>>] = None]
  /\ stash' = [stash EXCEPT ![t] = None] /\ expired' = expired \ {t}
  /\ lock' = [lock EXCEPT ![t] = None]
  /\ Goto(<<"reset", t>>, "idle")
  /\ UNCHANGED <<client, held, unborn, sweepVars, cli, cancelled, histVars, calls>>

ChangeDeferred(t) ==
  /\ at[<<"change", t>>] = "wait" /\ lock[t] = None /\ (Busy(t) \/ client[t] = 0)
  /\ Goto(<<"change", t>>, "idle")
  /\ UNCHANGED <<lock, client, shellVars, sweepVars, cli, cancelled, histVars, calls>>

ChangeCloses(t) ==
  /\ at[<<"change", t>>] = "wait" /\ lock[t] = None /\ ~Busy(t) /\ client[t] # 0
  /\ lock' = [lock EXCEPT ![t] = <<"change", t>>]
  /\ TakeWithShell(<<"change", t>>, t)
  /\ UNCHANGED <<stash, expired, alive, unborn, sweepVars, cli, cancelled, histVars, calls>>

ChangeEnds(t) ==
  /\ at[<<"change", t>>] = "closing"
  /\ Kill(inhand[<<"change", t>>])
  /\ inhand' = [inhand EXCEPT ![<<"change", t>>] = None]
  /\ lock' = [lock EXCEPT ![t] = None]
  /\ Goto(<<"change", t>>, "idle")
  /\ UNCHANGED <<client, held, stash, expired, unborn, sweepVars, cli, cancelled,
                 histVars, calls>>

-----------------------------------------------------------------------------
(* update_cli_now, when a new binary was installed or staged               *)

Update ==
  /\ Up /\ at[Updater] = "idle" /\ Count("update")
  /\ cli' = cli + 1
  /\ \E s \in SetToSeqs(IdleThreads) : job' = [job EXCEPT ![Updater] = s]
  /\ Goto(Updater, "evict")
  /\ UNCHANGED <<lock, client, shellVars, phase, doomed, cancelled, histVars>>

UpdateEnds ==
  /\ at[Updater] = "evict" /\ Goes(Updater) /\ job[Updater] = <<>>
  /\ Goto(Updater, "idle")
  /\ UNCHANGED <<lock, client, shellVars, sweepVars, cli, cancelled, histVars, calls>>

-----------------------------------------------------------------------------
(* _reap_once: clients past their TTL, those over the cap, those on an old *)
(* binary, then the stashed shells                                         *)

Sweep(from, to, todo) ==
  /\ phase = from /\ job[Reaper] = <<>> /\ Goes(Reaper)
  /\ phase' = to /\ job' = [job EXCEPT ![Reaper] = todo]
  /\ Goto(Reaper, "evict")
  /\ UNCHANGED <<lock, client, shellVars, doomed, cli, cancelled, histVars>>

SweepTtl ==
  /\ Up /\ at[Reaper] = "idle" /\ Count("sweep")
  /\ \E S \in SUBSET IdleThreads : \E s \in SetToSeqs(S) : Sweep("rest", "ttl", s)

(* All live clients count, only idle ones go.                              *)
SweepCap ==
  LET over == Cardinality(LiveThreads) - Cap
      Trimmed(S) == Cardinality(S) = Min({over, Cardinality(IdleThreads)})
  IN  /\ at[Reaper] = "evict" /\ UNCHANGED calls
      /\ \E S \in SUBSET IdleThreads : /\ IF over > 0 THEN Trimmed(S) ELSE S = {}
                                       /\ \E s \in SetToSeqs(S) : Sweep("ttl", "cap", s)

SweepStale ==
  /\ at[Reaper] = "evict" /\ UNCHANGED calls
  /\ \E s \in SetToSeqs(IF cli > 1 THEN IdleThreads ELSE {}) : Sweep("cap", "stale", s)

(* The stash is listed once; each shell listed that died or was past its   *)
(* TTL is closed, wherever it is by then, and the entry of its thread is   *)
(* popped, whatever it is by then.  Only closing takes an await.           *)
ReapShells(listed) ==
  LET Due(e) == e.old \/ e.sh \notin alive
      first == SelectInSeq(listed, Due)
      e == listed[first]
  IN  IF first = 0
      THEN /\ phase' = "rest" /\ doomed' = <<>>
           /\ Goto(Reaper, "idle")
           /\ UNCHANGED <<alive, stash, expired, lost>>
      ELSE /\ phase' = "shells" /\ doomed' = SubSeq(listed, first + 1, Len(listed))
           /\ Kill(e.sh)
           /\ stash' = [stash EXCEPT ![e.t] = None] /\ expired' = expired \ {e.t}
           /\ lost' = lost \cup ({stash[e.t]} \ {e.sh, None})
           /\ Goto(Reaper, "closing")

SweepShells ==
  /\ \/ /\ phase = "stale" /\ at[Reaper] = "evict" /\ job[Reaper] = <<>>
        /\ \E listed \in SetToSeqs({[t |-> t, sh |-> stash[t], old |-> t \in expired] :
                                      t \in {u \in Thread : stash[u] # None}}) : ReapShells(listed)
     \/ phase = "shells" /\ at[Reaper] = "closing" /\ ReapShells(doomed)
  /\ Goes(Reaper)
  /\ UNCHANGED <<lock, client, held, unborn, inhand, job, cli, cancelled, late, calls>>

-----------------------------------------------------------------------------
(* aclose(): the background tasks, then every record, then the stash       *)

CancelTask(p) == cancelled' = IF at[p] = "idle" THEN cancelled ELSE cancelled \cup {p}

CloseSweeps ==
  /\ Shutdown /\ Up
  /\ CancelTask(Reaper) /\ Goto(Closer, "sweeps")
  /\ UNCHANGED <<lock, client, shellVars, sweepVars, cli, histVars, calls>>

CloseUpdates ==
  /\ at[Closer] = "sweeps" /\ at[Reaper] = "idle"
  /\ CancelTask(Updater) /\ Goto(Closer, "updates")
  /\ UNCHANGED <<lock, client, shellVars, sweepVars, cli, histVars, calls>>

CloseRecords ==
  /\ at[Closer] = "updates" /\ at[Updater] = "idle"
  /\ Goto(Closer, "records")
  /\ \E s \in SetToSeqs(Thread) : job' = [job EXCEPT ![Closer] = s]
  /\ UNCHANGED <<lock, client, shellVars, phase, doomed, cli, cancelled, histVars, calls>>

(* Mutant: a thread whose lock is taken is passed over.                    *)
CloseSkips ==
  /\ at[Closer] = "records" /\ job[Closer] # <<>>
  /\ IF lock[Head(job[Closer])] = None
     THEN /\ lock' = [lock EXCEPT ![Head(job[Closer])] = Closer]
          /\ CancelWorker(Head(job[Closer])) /\ Goto(Closer, "join")
          /\ UNCHANGED <<client, shellVars, sweepVars, cli, histVars, calls>>
     ELSE /\ job' = [job EXCEPT ![Closer] = Tail(@)]
          /\ UNCHANGED <<at, lock, client, shellVars, phase, doomed, cli, cancelled, histVars,
                         calls>>

CloseLocks ==
  /\ at[Closer] = "records" /\ job[Closer] # <<>> /\ lock[Head(job[Closer])] = None
  /\ lock' = [lock EXCEPT ![Head(job[Closer])] = Closer]
  /\ CancelWorker(Head(job[Closer]))
  /\ Goto(Closer, "join")
  /\ UNCHANGED <<client, shellVars, sweepVars, cli, histVars, calls>>

CloseJoined ==
  /\ at[Closer] = "join" /\ ~Busy(Head(job[Closer]))
  /\ TakeWithShell(Closer, Head(job[Closer]))
  /\ UNCHANGED <<lock, stash, expired, alive, unborn, sweepVars, cli, cancelled,
                 histVars, calls>>

CloseClosed ==
  /\ at[Closer] = "closing"
  /\ Kill(inhand[Closer]) /\ inhand' = [inhand EXCEPT ![Closer] = None]
  /\ lock' = [lock EXCEPT ![Head(job[Closer])] = None]
  /\ job' = [job EXCEPT ![Closer] = Tail(@)]
  /\ Goto(Closer, "records")
  /\ UNCHANGED <<client, held, stash, expired, unborn, phase, doomed, cli, cancelled,
                 histVars, calls>>

CloseEnds ==
  /\ at[Closer] = "records" /\ job[Closer] = <<>>
  /\ alive' = alive \ {stash[t] : t \in Thread}
  /\ stash' = [t \in Thread |-> None] /\ expired' = {}
  /\ Goto(Closer, "done")
  /\ UNCHANGED <<lock, client, held, unborn, inhand, sweepVars, cli, cancelled,
                 histVars, calls>>

-----------------------------------------------------------------------------
(* Time and processes                                                      *)

Expire(t) ==
  /\ stash[t] # None /\ t \notin expired /\ expired' = expired \cup {t}
  /\ UNCHANGED <<at, lock, client, held, stash, alive, unborn, inhand, sweepVars, cli,
                 cancelled, histVars, calls>>

ShellDies(sh) ==
  /\ sh \in alive /\ Kill(sh)
  /\ UNCHANGED <<at, lock, client, held, stash, expired, unborn, inhand, sweepVars, cli,
                 cancelled, histVars, calls>>

-----------------------------------------------------------------------------
Submitting(t) == SubmitReuse(t) \/ SubmitRebuild(t) \/ SubmitBuild(t)
Working(t) == WorkerRelieves(t) \/ WorkerRuns(t) \/ WorkerEnds(t) \/ ShellStarts(t)
Resetting(t) == ResetLocks(t) \/ ResetJoined(t) \/ ResetEnds(t)
Changing(t) == ChangeDeferred(t) \/ ChangeCloses(t) \/ ChangeEnds(t)
Sweeping == SweepTtl \/ SweepCap \/ SweepStale \/ SweepShells
Closing == CloseUpdates \/ CloseRecords \/ CloseLocks \/ CloseJoined \/ CloseClosed \/ CloseEnds

Tasks ==
  \/ \E t \in Thread : Submitting(t) \/ Working(t) \/ Resetting(t) \/ Changing(t) \/ Evicting(W(t))
  \/ Evicting(Reaper) \/ Sweeping
  \/ Evicting(Updater) \/ UpdateEnds
  \/ Closing

Calls ==
  \/ \E t \in Thread : Submit(t) \/ Ask("reset", t) \/ Ask("change", t) \/ ShellSpawns(t) \/ Expire(t)
  \/ \E sh \in Shell : ShellDies(sh)
  \/ Update \/ CloseSweeps

Next == Tasks \/ Calls

Spec == Init /\ [][Next]_vars

-----------------------------------------------------------------------------
(* A running shell has one owner at any time: the client of its thread,    *)
(* the stash, or the task that moves or closes it; the exception is a      *)
(* shell the reaper popped in place of another.                            *)
Owners(sh) == {<<"client", t>> : t \in {u \in Thread : held[u] = sh}}
              \cup {<<"stash", t>> : t \in {u \in Thread : stash[u] = sh}}
              \cup {<<"task", p>> : p \in {q \in Proc : inhand[q] = sh}}
ShellHasOneOwner ==
  \A sh \in alive : Cardinality(Owners(sh)) = 1 \/ (sh \in lost /\ Owners(sh) = {})

(* No sweep, relief, update, settings change or reset takes the client     *)
(* from under a turn, however long before the list of idle clients was     *)
(* made.                                                                   *)
TurnKeepsClient == \A t \in Thread : at[W(t)] \in {"run", "spawn"} => client[t] # 0

(* After aclose() no client and no shell is left, unless a message that    *)
(* was on its way when it began built a client behind it.                  *)
ClosedIsClosed ==
  at[Closer] = "done" /\ late = {} =>
    LiveThreads = {} /\ alive \subseteq lost

=============================================================================
