--------------------------- MODULE SessionManager ---------------------------
(***************************************************************************)
(* One thread of app/core/sessions.py: its record, the record's lock, the  *)
(* queue of prompts, the serial worker and the Claude client, under the    *)
(* handlers that run concurrently on them: handle_text, stop, reset,       *)
(* _evict_session (which the settings change shares), rotate_in_place and  *)
(* drain.                                                                  *)
(*                                                                         *)
(* A step is what a coroutine does from one await to the next.  Every      *)
(* call of a handler is a member of one of the sets below and runs once.   *)
(* A worker task and a ClaudeSession object are named by the handle_text   *)
(* call that creates them (it creates at most one of each), a prompt by    *)
(* the call that submits it, and a conversation (the resume id of the CLI) *)
(* by the client that started it.  Records are numbered as they are made.  *)
(*                                                                         *)
(* The admission gate is FairAdmission; here a slot is granted at any time.*)
(* What a turn does inside the client, and the follow-up turns of injected *)
(* messages, which reuse the worker's slot, are not in this module.        *)
(***************************************************************************)
EXTENDS Naturals, Sequences, FiniteSets

CONSTANTS
  Submits,    \* calls of handle_text
  Stops,      \* calls of stop
  Resets,     \* calls of reset
  Evicts,     \* calls of _evict_session and on_mode_or_model_or_cwd_change
  Rotates,    \* calls of rotate_in_place
  MaxQueued,  \* MAX_QUEUED_MESSAGES
  None

ASSUME MaxQueuedAssumption == MaxQueued \in Nat \ {0}

Ops == Submits \cup Stops \cup Resets \cup Evicts \cup Rotates

(* A call is a call of one handler.                                        *)
ASSUME CallsAssumption ==
  /\ Submits \cap (Stops \cup Resets \cup Evicts \cup Rotates) = {}
  /\ Stops \cap (Resets \cup Evicts \cup Rotates) = {}
  /\ Resets \cap (Evicts \cup Rotates) = {} /\ Evicts \cap Rotates = {}
  /\ IsFiniteSet(Resets) /\ None \notin Ops

(* A record is made on first use and after each reset. *)
Recs == 1 .. Cardinality(Resets) + 1

VARIABLES
  current,    \* _records[thread_id]; 0 when absent
  nrec,       \* records made so far
  lockq,      \* rec.lock: its holder first, then those who wait, in order
  queue,      \* rec.queue
  worker,     \* rec.worker
  session,    \* rec.session
  opc,        \* where each call is
  opr,        \* the record each call works on
  snap,       \* resume id each handle_text read from the database
  closing,    \* client each call is closing
  wpc,        \* where each worker is
  wrec,       \* the record a worker serves
  witem,      \* the prompt it took from the queue
  wcli,       \* the client its turn runs on
  cancelled,  \* workers with a pending cancellation
  live,       \* clients not closed yet
  resume,     \* resume id in the database
  draining,   \* _draining
  drained,    \* drain(): not called, waiting, or what it returned
  fate,       \* history: what became of each prompt
  voided      \* history: prompts not yet started when a stop cleared the queue

recordVars == <<current, nrec, lockq>>
opVars == <<opc, opr, snap, closing>>
workerVars == <<wpc, wrec, witem, wcli, cancelled>>
drainVars == <<draining, drained>>
histVars == <<fate, voided>>
vars == <<recordVars, queue, worker, session, opVars, workerVars, live, resume,
          drainVars, histVars>>

Fates == {"new", "rejected", "injected", "queued", "taken", "running", "ran", "dropped", "lost"}

TypeOK ==
  /\ current \in Recs \cup {0} /\ nrec \in 0 .. Cardinality(Recs)
  /\ lockq \in [Recs -> Seq(Ops)]
  /\ queue \in [Recs -> Seq(Submits)]
  /\ worker \in [Recs -> Submits \cup {None}]
  /\ session \in [Recs -> Submits \cup {None}]
  /\ opc \in [Ops -> {"start", "read", "lock", "inject", "build", "deny", "interrupt",
                      "join", "close", "tail", "done"}]
  /\ opr \in [Ops -> Recs \cup {0}]
  /\ snap \in [Submits -> Submits \cup {None}]
  /\ closing \in [Ops -> Submits \cup {None}]
  /\ wpc \in [Submits -> {"none", "start", "prepare", "running", "notice", "unwind", "outbox", "done"}]
  /\ wrec \in [Submits -> Recs \cup {0}]
  /\ witem \in [Submits -> Submits \cup {None}]
  /\ wcli \in [Submits -> Submits \cup {None}]
  /\ cancelled \subseteq Submits /\ live \subseteq Submits
  /\ resume \in Submits \cup {None}
  /\ draining \in BOOLEAN /\ drained \in {"no", "waiting", "yes", "timeout"}
  /\ fate \in [Submits -> Fates]
  /\ voided \subseteq Submits

Init ==
  /\ current = 0 /\ nrec = 0
  /\ lockq = [r \in Recs |-> <<>>]
  /\ queue = [r \in Recs |-> <<>>]
  /\ worker = [r \in Recs |-> None]
  /\ session = [r \in Recs |-> None]
  /\ opc = [o \in Ops |-> "start"]
  /\ opr = [o \in Ops |-> 0]
  /\ snap = [h \in Submits |-> None]
  /\ closing = [o \in Ops |-> None]
  /\ wpc = [w \in Submits |-> "none"]
  /\ wrec = [w \in Submits |-> 0]
  /\ witem = [w \in Submits |-> None]
  /\ wcli = [w \in Submits |-> None]
  /\ cancelled = {} /\ live = {}
  /\ resume = None
  /\ draining = FALSE /\ drained = "no"
  /\ fate = [h \in Submits |-> "new"]
  /\ voided = {}

-----------------------------------------------------------------------------
(* Helpers *)

(* worker is not None and not worker.done() *)
Busy(r) == worker[r] # None /\ wpc[worker[r]] # "done"

(* The conversation a client writes: the one it resumed, or its own. *)
Conv(c) == IF snap[c] = None THEN c ELSE snap[c]

(* Workers whose turn counts in _active_turns. *)
Active == {w \in Submits : wpc[w] \in {"running", "notice", "unwind"}}

(* _record(): the thread's record, made if needed. *)
RecordHere == IF current = 0 THEN nrec + 1 ELSE current
MakeRecord == current' = RecordHere /\ nrec' = IF current = 0 THEN nrec + 1 ELSE nrec

Holds(o) == opr[o] # 0 /\ lockq[opr[o]] # <<>> /\ Head(lockq[opr[o]]) = o

At(o, l) == opc[o] = l
Goto(o, l) == opc' = [opc EXCEPT ![o] = l]

(* asyncio.Lock: first come, first served. *)
AskLock(o, r) ==
  /\ lockq' = [lockq EXCEPT ![r] = Append(@, o)]
  /\ opr' = [opr EXCEPT ![o] = r]
  /\ Goto(o, "lock")

Unlock(o) == lockq' = [lockq EXCEPT ![opr[o]] = Tail(@)]

QueuedIn(r) == {queue[r][i] : i \in DOMAIN queue[r]}

(* _drain_queue() *)
DropQueue(r) ==
  /\ queue' = [queue EXCEPT ![r] = <<>>]
  /\ fate' = [h \in Submits |-> IF h \in QueuedIn(r) THEN "dropped" ELSE fate[h]]

-----------------------------------------------------------------------------
(* handle_text *)

(* ensure_thread(): the state of the thread, its resume id with it, is read *)
(* before the lock is asked for.                                            *)
SubmitRead(h) ==
  /\ At(h, "start")
  /\ snap' = [snap EXCEPT ![h] = resume]
  /\ Goto(h, "read")
  /\ UNCHANGED <<recordVars, queue, worker, session, opr, closing, workerVars, live, resume,
                 drainVars, histVars>>

SubmitLookup(h) ==
  /\ At(h, "read")
  /\ MakeRecord
  /\ AskLock(h, RecordHere)
  /\ UNCHANGED <<queue, worker, session, snap, closing, workerVars, live, resume,
                 drainVars, histVars>>

(* reset() popped the record while the call waited: try the fresh one. *)
SubmitRetry(h) ==
  /\ At(h, "lock") /\ Holds(h)
  /\ current # opr[h]
  /\ MakeRecord
  /\ LET left == [lockq EXCEPT ![opr[h]] = Tail(@)]
     IN  lockq' = [left EXCEPT ![RecordHere] = Append(@, h)]
  /\ opr' = [opr EXCEPT ![h] = RecordHere]
  /\ UNCHANGED <<queue, worker, session, opc, snap, closing, workerVars, live, resume,
                 drainVars, histVars>>

(* Mutant: the message goes to the running turn past those that wait. *)
SubmitInjectOvertakes(h) ==
  LET r == opr[h] IN
  /\ At(h, "lock") /\ Holds(h) /\ current = r
  /\ Busy(r) /\ session[r] # None
  /\ wpc[worker[r]] = "running" /\ wcli[worker[r]] = session[r]
  /\ Goto(h, "inject")
  /\ UNCHANGED <<recordVars, queue, worker, session, opr, snap, closing, workerVars, live,
                 resume, drainVars, histVars>>

(* A turn is running and nothing is queued: the message is sent to it.     *)
SubmitInject(h) ==
  LET r == opr[h] IN
  /\ At(h, "lock") /\ Holds(h) /\ current = r
  /\ Busy(r) /\ session[r] # None /\ queue[r] = <<>>
  /\ wpc[worker[r]] = "running" /\ wcli[worker[r]] = session[r]
  /\ Goto(h, "inject")
  /\ UNCHANGED <<recordVars, queue, worker, session, opr, snap, closing, workerVars, live,
                 resume, drainVars, histVars>>

SubmitInjected(h) ==
  /\ At(h, "inject")
  /\ fate' = [fate EXCEPT ![h] = "injected"]
  /\ Unlock(h)
  /\ Goto(h, "done")
  /\ UNCHANGED <<current, nrec, queue, worker, session, opr, snap, closing, workerVars, live,
                 resume, drainVars, voided>>

(* Mutant: the full queue is reported without giving the lock back. *)
SubmitRejectedKeepsLock(h) ==
  LET r == opr[h] IN
  /\ At(h, "lock") /\ Holds(h) /\ current = r
  /\ Busy(r) /\ Len(queue[r]) >= MaxQueued
  /\ fate' = [fate EXCEPT ![h] = "rejected"]
  /\ Goto(h, "done")
  /\ UNCHANGED <<recordVars, queue, worker, session, opr, snap, closing, workerVars, live,
                 resume, drainVars, voided>>

SubmitRejected(h) ==
  LET r == opr[h] IN
  /\ At(h, "lock") /\ Holds(h) /\ current = r
  /\ Busy(r) /\ Len(queue[r]) >= MaxQueued
  /\ fate' = [fate EXCEPT ![h] = "rejected"]
  /\ Unlock(h)
  /\ Goto(h, "done")
  /\ UNCHANGED <<current, nrec, queue, worker, session, opr, snap, closing, workerVars, live,
                 resume, drainVars, voided>>

(* Mutant: nobody asks whether the record is still the one in the table. *)
SubmitQueueNoRecheck(h) ==
  LET r == opr[h] IN
  /\ \/ /\ At(h, "lock") /\ Holds(h)
        /\ ~(Busy(r) /\ Len(queue[r]) >= MaxQueued)
     \/ At(h, "inject")
  /\ Goto(h, "build")
  /\ UNCHANGED <<recordVars, queue, worker, session, opr, snap, closing, workerVars, live,
                 resume, drainVars, histVars>>

(* The message will be queued: inject() was not tried, or it declined (no  *)
(* turn active on the client, no session state seen) or failed.            *)
SubmitQueue(h) ==
  LET r == opr[h] IN
  /\ \/ /\ At(h, "lock") /\ Holds(h) /\ current = r
        /\ ~(Busy(r) /\ Len(queue[r]) >= MaxQueued)
     \/ At(h, "inject")
  /\ Goto(h, "build")
  /\ UNCHANGED <<recordVars, queue, worker, session, opr, snap, closing, workerVars, live,
                 resume, drainVars, histVars>>

(* Mutant: a worker is started for every prompt. *)
EnqueueAlwaysStarts(h) ==
  LET r == opr[h] IN
  /\ queue' = [queue EXCEPT ![r] = Append(@, h)]
  /\ fate' = [fate EXCEPT ![h] = "queued"]
  /\ worker' = [worker EXCEPT ![r] = h]
  /\ wpc' = [wpc EXCEPT ![h] = "start"]
  /\ Unlock(h)
  /\ UNCHANGED <<current, nrec, opr, snap, wrec, witem, wcli, cancelled, resume,
                 drainVars, voided>>

(* The end of handle_text: the prompt is queued and a worker is started    *)
(* unless one is running at this moment.                                   *)
Enqueue(h) ==
  LET r == opr[h] IN
  /\ queue' = [queue EXCEPT ![r] = Append(@, h)]
  /\ fate' = [fate EXCEPT ![h] = "queued"]
  /\ IF Busy(r) THEN UNCHANGED <<worker, wpc>>
     ELSE /\ worker' = [worker EXCEPT ![r] = h]
          /\ wpc' = [wpc EXCEPT ![h] = "start"]
  /\ Unlock(h)
  /\ UNCHANGED <<current, nrec, opr, snap, wrec, witem, wcli, cancelled, resume,
                 drainVars, voided>>

(* _get_session(): keep the client, or build the first one. *)
SubmitBuild(h) ==
  LET r == opr[h] IN
  /\ At(h, "build")
  /\ \/ session[r] # None /\ UNCHANGED <<session, live>>
     \/ /\ session[r] = None
        /\ session' = [session EXCEPT ![r] = h]
        /\ live' = live \cup {h}
  /\ Enqueue(h)
  /\ Goto(h, "done")
  /\ UNCHANGED closing

(* _get_session(): the settings drifted and no worker is busy. *)
SubmitRebuild(h) ==
  LET r == opr[h] IN
  /\ At(h, "build")
  /\ session[r] # None /\ ~Busy(r)
  /\ closing' = [closing EXCEPT ![h] = session[r]]
  /\ session' = [session EXCEPT ![r] = None]
  /\ Goto(h, "close")
  /\ UNCHANGED <<recordVars, queue, worker, opr, snap, workerVars, live, resume,
                 drainVars, histVars>>

(* The old client is closed; the new one is built. *)
SubmitRebuilt(h) ==
  LET r == opr[h] IN
  /\ At(h, "close")
  /\ live' = (live \ {closing[h]}) \cup {h}
  /\ session' = [session EXCEPT ![r] = h]
  /\ closing' = [closing EXCEPT ![h] = None]
  /\ Enqueue(h)
  /\ Goto(h, "done")

-----------------------------------------------------------------------------
(* _worker *)

(* The top of the loop: stop when draining or when the queue is empty.     *)
TakeNext(w, r) ==
  IF draining \/ queue[r] = <<>>
  THEN /\ wpc' = [wpc EXCEPT ![w] = "done"]
       /\ worker' = [worker EXCEPT ![r] = IF @ = w THEN None ELSE @]
       /\ witem' = [witem EXCEPT ![w] = None]
       /\ UNCHANGED <<queue, fate>>
  ELSE /\ wpc' = [wpc EXCEPT ![w] = "prepare"]
       /\ witem' = [witem EXCEPT ![w] = Head(queue[r])]
       /\ queue' = [queue EXCEPT ![r] = Tail(@)]
       /\ fate' = [fate EXCEPT ![Head(queue[r])] = "taken"]
       /\ UNCHANGED worker

WorkerStart(w) ==
  /\ wpc[w] = "start" /\ w \notin cancelled
  /\ MakeRecord
  /\ wrec' = [wrec EXCEPT ![w] = RecordHere]
  /\ TakeNext(w, RecordHere)
  /\ UNCHANGED <<lockq, session, opVars, wcli, cancelled, live, resume, drainVars,
                 voided>>

(* The streamer is made, memory relieved, a slot granted; _run_one starts  *)
(* and reads rec.session; if there is none it only sends a notice.         *)
WorkerAdmitted(w) ==
  LET c == session[wrec[w]] IN
  /\ wpc[w] = "prepare" /\ w \notin cancelled
  /\ IF c = None
     THEN /\ wpc' = [wpc EXCEPT ![w] = "notice"]
          /\ fate' = [fate EXCEPT ![witem[w]] = "lost"]
          /\ UNCHANGED wcli
     ELSE /\ wpc' = [wpc EXCEPT ![w] = "running"]
          /\ fate' = [fate EXCEPT ![witem[w]] = "running"]
          /\ wcli' = [wcli EXCEPT ![w] = c]
  /\ UNCHANGED <<recordVars, queue, worker, session, opVars, wrec, witem, cancelled, live,
                 resume, drainVars, voided>>

(* The CLI reports its session id, and it is persisted for the next build. *)
WorkerPersist(w) ==
  /\ wpc[w] = "running" /\ w \notin cancelled
  /\ resume # Conv(wcli[w])
  /\ resume' = Conv(wcli[w])
  /\ UNCHANGED <<recordVars, queue, worker, session, opVars, workerVars, live, drainVars,
                 histVars>>

(* _idle_event is set when the last active turn ends, and wakes drain(). *)
EndTurn(w) == drained' = IF drained = "waiting" /\ Active = {w} THEN "yes" ELSE drained

WorkerTurnEnds(w) ==
  /\ wpc[w] \in {"running", "notice"} /\ w \notin cancelled
  /\ wpc' = [wpc EXCEPT ![w] = "outbox"]
  /\ wcli' = [wcli EXCEPT ![w] = None]
  /\ fate' = [fate EXCEPT ![witem[w]] = IF wpc[w] = "running" THEN "ran" ELSE @]
  /\ EndTurn(w)
  /\ UNCHANGED <<recordVars, queue, worker, session, opVars, wrec, witem, cancelled, live,
                 resume, draining, voided>>

(* Mutant: the worker serves one prompt and ends. *)
WorkerLoopOnce(w) ==
  /\ wpc[w] = "outbox" /\ w \notin cancelled
  /\ wpc' = [wpc EXCEPT ![w] = "done"]
  /\ worker' = [worker EXCEPT ![wrec[w]] = IF @ = w THEN None ELSE @]
  /\ witem' = [witem EXCEPT ![w] = None]
  /\ UNCHANGED <<recordVars, queue, session, opVars, wrec, wcli, cancelled, live, resume,
                 drainVars, histVars>>

(* The outbox is delivered; back to the top of the loop. *)
WorkerLoop(w) ==
  /\ wpc[w] = "outbox" /\ w \notin cancelled
  /\ TakeNext(w, wrec[w])
  /\ UNCHANGED <<recordVars, session, opVars, wrec, wcli, cancelled, live, resume, drainVars,
                 voided>>

(* A cancelled worker ends where it stands; one that was never scheduled   *)
(* does not even run its finally clause, and one in a turn interrupts the  *)
(* client first.                                                           *)
WorkerCancelled(w) ==
  /\ w \in cancelled
  /\ \/ /\ wpc[w] = "running"
        /\ wpc' = [wpc EXCEPT ![w] = "unwind"]
        /\ UNCHANGED <<worker, witem, wcli, fate, drained>>
     \/ /\ wpc[w] = "start"
        /\ wpc' = [wpc EXCEPT ![w] = "done"]
        /\ UNCHANGED <<worker, witem, wcli, fate, drained>>
     \/ /\ wpc[w] \in {"prepare", "notice", "unwind", "outbox"}
        /\ wpc' = [wpc EXCEPT ![w] = "done"]
        /\ worker' = [worker EXCEPT ![wrec[w]] = IF @ = w THEN None ELSE @]
        /\ witem' = [witem EXCEPT ![w] = None]
        /\ wcli' = [wcli EXCEPT ![w] = None]
        /\ fate' = [fate EXCEPT ![witem[w]] = IF @ \in {"taken", "running"} THEN "dropped" ELSE @]
        /\ IF w \in Active THEN EndTurn(w) ELSE UNCHANGED drained
  /\ UNCHANGED <<recordVars, queue, session, opVars, wrec, cancelled, live, resume, draining,
                 voided>>

-----------------------------------------------------------------------------
(* stop, reset, _evict_session and rotate_in_place begin alike: without a  *)
(* record there is nothing to do, otherwise they ask for its lock.         *)

Lookup(o, absent) ==
  IF current = 0
  THEN Goto(o, absent) /\ UNCHANGED <<lockq, opr>>
  ELSE AskLock(o, current)

StopLookup(s) ==
  /\ At(s, "start")
  /\ Lookup(s, "done")
  /\ UNCHANGED <<current, nrec, queue, worker, session, snap, closing, workerVars, live,
                 resume, drainVars, histVars>>

StopNothing(s) ==
  LET r == opr[s] IN
  /\ At(s, "lock") /\ Holds(s)
  /\ ~Busy(r) /\ queue[r] = <<>>
  /\ Unlock(s)
  /\ Goto(s, "done")
  /\ UNCHANGED <<current, nrec, queue, worker, session, opr, snap, closing, workerVars, live,
                 resume, drainVars, histVars>>

StopQueue(s) ==
  LET r == opr[s] IN
  /\ At(s, "lock") /\ Holds(s)
  /\ Busy(r) \/ queue[r] # <<>>
  /\ DropQueue(r)
  /\ voided' = voided \cup {h \in Submits : fate[h] \in {"queued", "taken"}}
  /\ Goto(s, "deny")
  /\ UNCHANGED <<recordVars, worker, session, opr, snap, closing, workerVars, live, resume,
                 drainVars>>

(* The permission prompts are denied; the client, if any, is interrupted.  *)
StopInterrupt(s) ==
  /\ At(s, "deny") /\ s \in Stops
  /\ IF session[opr[s]] = None
     THEN Goto(s, "done") /\ Unlock(s)
     ELSE Goto(s, "interrupt") /\ UNCHANGED lockq
  /\ UNCHANGED <<current, nrec, queue, worker, session, opr, snap, closing, workerVars, live,
                 resume, drainVars, histVars>>

StopDone(s) ==
  /\ At(s, "interrupt")
  /\ Unlock(s)
  /\ Goto(s, "done")
  /\ UNCHANGED <<current, nrec, queue, worker, session, opr, snap, closing, workerVars, live,
                 resume, drainVars, histVars>>

-----------------------------------------------------------------------------
(* reset *)

ResetLookup(x) ==
  /\ At(x, "start")
  /\ Lookup(x, "tail")
  /\ UNCHANGED <<current, nrec, queue, worker, session, snap, closing, workerVars, live,
                 resume, drainVars, fate, voided>>

ResetDeny(x) ==
  /\ At(x, "lock") /\ Holds(x)
  /\ Goto(x, "deny")
  /\ UNCHANGED <<recordVars, queue, worker, session, opr, snap, closing, workerVars, live,
                 resume, drainVars, histVars>>

(* The queue is dropped and the worker cancelled. *)
ResetCancel(x) ==
  LET r == opr[x] IN
  /\ At(x, "deny") /\ x \in Resets
  /\ DropQueue(r)
  /\ cancelled' = IF Busy(r) THEN cancelled \cup {worker[r]} ELSE cancelled
  /\ Goto(x, "join")
  /\ UNCHANGED <<recordVars, worker, session, opr, snap, closing, wpc, wrec, witem, wcli, live,
                 resume, drainVars, voided>>

(* The record leaves the table and its lock is released. *)
PopRecord(x) ==
  /\ current' = 0
  /\ Unlock(x)
  /\ Goto(x, "tail")

(* The worker is gone: the client is closed, then the record dropped. *)
ResetJoined(x) ==
  LET r == opr[x] IN
  /\ At(x, "join") /\ ~Busy(r)
  /\ worker' = [worker EXCEPT ![r] = None]
  /\ closing' = [closing EXCEPT ![x] = session[r]]
  /\ session' = [session EXCEPT ![r] = None]
  /\ IF session[r] = None THEN PopRecord(x) ELSE Goto(x, "close") /\ UNCHANGED <<current, lockq>>
  /\ UNCHANGED <<nrec, queue, opr, snap, workerVars, live, resume, drainVars, histVars>>

ResetClosed(x) ==
  /\ At(x, "close")
  /\ live' = live \ {closing[x]}
  /\ closing' = [closing EXCEPT ![x] = None]
  /\ PopRecord(x)
  /\ UNCHANGED <<nrec, queue, worker, session, opr, snap, workerVars, resume, drainVars,
                 histVars>>

(* db.reset_thread() clears the resume ids. *)
ResetTail(x) ==
  /\ At(x, "tail")
  /\ resume' = None
  /\ Goto(x, "done")
  /\ UNCHANGED <<recordVars, queue, worker, session, opr, snap, closing, workerVars, live,
                 drainVars, histVars>>

-----------------------------------------------------------------------------
(* _evict_session, and on_mode_or_model_or_cwd_change for an idle thread *)

EvictLookup(e) ==
  /\ At(e, "start")
  /\ Lookup(e, "done")
  /\ UNCHANGED <<current, nrec, queue, worker, session, snap, closing, workerVars, live,
                 resume, drainVars, histVars>>

(* The client is taken out of the record and closed under the lock. *)
DropClient(o) ==
  /\ closing' = [closing EXCEPT ![o] = session[opr[o]]]
  /\ session' = [session EXCEPT ![opr[o]] = None]
  /\ Goto(o, "close")
  /\ UNCHANGED <<recordVars, queue, worker, opr, snap, workerVars, live, resume, drainVars,
                 histVars>>

LeaveLock(o) ==
  /\ Unlock(o)
  /\ Goto(o, "done")
  /\ UNCHANGED <<current, nrec, queue, worker, session, opr, snap, closing, workerVars, live,
                 resume, drainVars, histVars>>

EvictSkip(e) ==
  /\ At(e, "lock") /\ Holds(e)
  /\ Busy(opr[e]) \/ session[opr[e]] = None
  /\ LeaveLock(e)

(* Only the client of an idle thread goes.                                 *)
EvictDrop(e) ==
  /\ At(e, "lock") /\ Holds(e)
  /\ ~Busy(opr[e]) /\ session[opr[e]] # None
  /\ DropClient(e)

EvictClosed(e) ==
  /\ At(e, "close")
  /\ live' = live \ {closing[e]}
  /\ closing' = [closing EXCEPT ![e] = None]
  /\ Unlock(e)
  /\ Goto(e, "done")
  /\ UNCHANGED <<current, nrec, queue, worker, session, opr, snap, workerVars, resume,
                 drainVars, histVars>>

-----------------------------------------------------------------------------
(* rotate_in_place: like _evict_session, but the resume ids are cleared    *)
(* first and nothing asks whether the worker is busy.                      *)

RotateDb(o) ==
  /\ At(o, "start")
  /\ resume' = None
  /\ Goto(o, "read")
  /\ UNCHANGED <<recordVars, queue, worker, session, opr, snap, closing, workerVars, live,
                 drainVars, histVars>>

RotateLookup(o) ==
  /\ At(o, "read")
  /\ IF current # 0 /\ session[current] # None
     THEN AskLock(o, current)
     ELSE Goto(o, "done") /\ UNCHANGED <<lockq, opr>>
  /\ UNCHANGED <<current, nrec, queue, worker, session, snap, closing, workerVars, live,
                 resume, drainVars, histVars>>

RotateLocked(o) ==
  /\ At(o, "lock") /\ Holds(o)
  /\ IF session[opr[o]] = None THEN LeaveLock(o) ELSE DropClient(o)

-----------------------------------------------------------------------------
(* drain: no new turns, wait for the active ones. *)

DrainStart ==
  /\ drained = "no"
  /\ draining' = TRUE
  /\ drained' = IF Active = {} THEN "yes" ELSE "waiting"
  /\ UNCHANGED <<recordVars, queue, worker, session, opVars, workerVars, live, resume, histVars>>

DrainTimeout ==
  /\ drained = "waiting"
  /\ drained' = "timeout"
  /\ UNCHANGED <<recordVars, queue, worker, session, opVars, workerVars, live, resume, draining,
                 histVars>>

-----------------------------------------------------------------------------

SubmitNext(h) ==
  \/ SubmitRead(h) \/ SubmitLookup(h) \/ SubmitRetry(h)
  \/ SubmitInject(h) \/ SubmitInjected(h) \/ SubmitRejected(h) \/ SubmitQueue(h)
  \/ SubmitBuild(h) \/ SubmitRebuild(h) \/ SubmitRebuilt(h)

WorkerNext(w) ==
  \/ WorkerStart(w) \/ WorkerAdmitted(w) \/ WorkerPersist(w) \/ WorkerTurnEnds(w)
  \/ WorkerLoop(w) \/ WorkerCancelled(w)

StopNext(s) ==
  StopLookup(s) \/ StopNothing(s) \/ StopQueue(s) \/ StopInterrupt(s) \/ StopDone(s)

ResetNext(x) ==
  \/ ResetLookup(x) \/ ResetDeny(x) \/ ResetCancel(x) \/ ResetJoined(x) \/ ResetClosed(x)
  \/ ResetTail(x)

EvictNext(e) == EvictLookup(e) \/ EvictSkip(e) \/ EvictDrop(e) \/ EvictClosed(e)

RotateNext(o) == RotateDb(o) \/ RotateLookup(o) \/ RotateLocked(o) \/ EvictClosed(o)

Next ==
  \/ \E h \in Submits : SubmitNext(h) \/ WorkerNext(h)
  \/ \E s \in Stops : StopNext(s)
  \/ \E x \in Resets : ResetNext(x)
  \/ \E e \in Evicts : EvictNext(e)
  \/ \E o \in Rotates : RotateNext(o)
  \/ DrainStart \/ DrainTimeout

Spec == Init /\ [][Next]_vars

(* The event loop runs every coroutine that can go on, the database and    *)
(* Telegram answer, and a turn ends.  Nobody has to call a handler.        *)
Called(o) == ~At(o, "start")

Fairness ==
  /\ \A h \in Submits : WF_vars(Called(h) /\ SubmitNext(h)) /\ WF_vars(WorkerNext(h))
  /\ \A s \in Stops : WF_vars(Called(s) /\ StopNext(s))
  /\ \A x \in Resets : WF_vars(Called(x) /\ ResetNext(x))
  /\ \A e \in Evicts : WF_vars(Called(e) /\ EvictNext(e))
  /\ \A o \in Rotates : WF_vars(Called(o) /\ RotateNext(o))

FairSpec == Spec /\ Fairness

-----------------------------------------------------------------------------

(* A worker with a prompt in hand. *)
Serving(w) == wpc[w] \in {"prepare", "running", "notice", "unwind"}

(* "One turn at a time per thread": two workers of the thread never have a *)
(* prompt in hand at once, whichever records they serve.                   *)
OneTurnAtATime ==
  \A v, w \in Submits : Serving(v) /\ Serving(w) => v = w

(* At most one Claude client is open for the thread, and it can be reached *)
(* from the record in the table or is being closed: none leaks, and no two *)
(* processes write one transcript.                                         *)
OneClient ==
  \A c \in live :
    /\ live = {c}
    /\ \/ current # 0 /\ session[current] = c
       \/ \E o \in Ops : closing[o] = c

(* An accepted prompt is kept: in the queue it has a live worker that will *)
(* take it, whatever an ending worker and a handler do to each other, and  *)
(* it is never taken from the queue to find no client to run on.           *)
PromptsKept ==
  /\ \A r \in Recs : queue[r] # <<>> /\ ~draining => Busy(r)
  /\ \A h \in Submits : fate[h] # "lost"

(* The thread as a line of prompts: those in the queue of its record, the  *)
(* one a worker has in hand, and those that are over.                      *)
Waiting == IF current = 0 THEN <<>> ELSE queue[current]
InHand == {witem[w] : w \in {v \in Submits : Serving(v)}}
Settled ==
  {h \in Submits : fate[h] \in {"rejected", "injected", "ran", "dropped", "lost"}} \ InHand

Line == INSTANCE PromptQueue WITH
  Prompts <- Submits, Capacity <- MaxQueued,
  waiting <- Waiting, inHand <- InHand, settled <- Settled, shut <- draining

(* "Messages during a run queue in the same session": prompts are answered *)
(* one at a time in the order in which they were accepted, each once,      *)
(* through stops, resets, new records and new workers; a message sent to   *)
(* the running turn overtakes none that waits, one is refused only when    *)
(* MaxQueued wait, and a prompt leaves the line only to be answered or     *)
(* because the whole line is dropped.                                      *)
PromptsInOrder == Line!Spec

(* Every call of a handler returns: the lock, the join of a cancelled      *)
(* worker and the closing of clients never wait on each other in a circle. *)
HandlersReturn == \A o \in Ops : Called(o) ~> At(o, "done")

(* Every accepted prompt is settled: its turn ran, or a stop or reset      *)
(* dropped it, or the user was told that there is no session to run it on. *)
PromptsSettled ==
  \A h \in Submits : fate[h] = "queued" ~> draining \/ fate[h] \in {"ran", "dropped", "lost"}

(* A thread never hangs: every call returns and every prompt is settled.   *)
CallsSettle == HandlersReturn /\ PromptsSettled

(* "Drop queued chained prompts so nothing new runs after stop."           *)
NothingNewRunsAfterStop ==
  \A w \in Submits : wpc[w] = "running" => witem[w] \notin voided

=============================================================================
