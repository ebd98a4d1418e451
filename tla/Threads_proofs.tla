-------------------------- MODULE Threads_proofs --------------------------
(***************************************************************************)
(* What MCThreads checks on a few threads, messages and taps, proved for   *)
(* any number of them.  Clients: no turn loses its client, no running      *)
(* shell has two owners or is forgotten, and shutdown leaves nothing       *)
(* behind.  Registry (Reg): a burst stays together, the cap holds outside  *)
(* the named race, and an occurrence is submitted once.  Inbox (In): what  *)
(* is held back is given up once, and the rate limit counts every turn.    *)
(***************************************************************************)
EXTENDS MCThreads, FiniteSetTheorems, FunctionTheorems, TLAPS

-----------------------------------------------------------------------------
(* Clients                                                                 *)

Labels == {"idle", "wait", "closing", "run", "spawn", "evict", "asked", "join", "off", "sweeps",
           "updates", "records", "done"}

TypeInv ==
  /\ at \in [Proc -> Labels]
  /\ lock \in [Thread -> Proc \cup {None}]
  /\ client \in [Thread -> Nat] /\ cli \in Nat \ {0}
  /\ held \in [Thread -> Shell \cup {None}] /\ stash \in [Thread -> Shell \cup {None}]
  /\ inhand \in [Proc -> Shell \cup {None}]
  /\ job \in [Proc -> Seq(Thread)]
  /\ alive \subseteq Shell /\ unborn \subseteq Shell

(* The tasks that go through a list of clients.                            *)
Evictors == {W(t) : t \in Thread} \cup {Reaper, Updater}

(* A thread under a turn has a client, and only a client has a shell: the  *)
(* stash holds the shells of threads without one.  A shell is started only *)
(* when the client has none that runs.                                     *)
ClientInv ==
  /\ \A t \in Thread :
       /\ Busy(t) => client[t] # 0
       /\ at[W(t)] = "spawn" => held[t] \notin alive
       /\ client[t] = 0 => held[t] = None
       /\ client[t] # 0 => stash[t] = None
       /\ at[<<"submit", t>>] = "closing" => client[t] = 0
  /\ \A p \in Proc : inhand[p] # None => at[p] = "closing" /\ p \notin Evictors

(* A shell is in at most one place, and in none before it is started.      *)
PlaceInv ==
  /\ \A t, u \in Thread : t # u /\ held[t] # None => held[t] # held[u]
  /\ \A t, u \in Thread : t # u /\ stash[t] # None => stash[t] # stash[u]
  /\ \A p, q \in Proc : p # q /\ inhand[p] # None => inhand[p] # inhand[q]
  /\ \A t, u \in Thread : held[t] # None => held[t] # stash[u]
  /\ \A t \in Thread, p \in Proc : inhand[p] # None => inhand[p] # held[t] /\ inhand[p] # stash[t]
  /\ \A t \in Thread : held[t] \notin unborn /\ stash[t] \notin unborn
  /\ \A p \in Proc : inhand[p] \notin unborn
  /\ alive \cap unborn = {}

(* A running shell is in one, or the reaper popped it for another's sake.  *)
Placed(sh) ==
  \/ \E t \in Thread : held[t] = sh \/ stash[t] = sh
  \/ \E p \in Proc : inhand[p] = sh
NoneForgotten == \A sh \in alive : sh \in lost \/ Placed(sh)

(* Who closes a client holds the thread's lock.                            *)
Locks(p, t) ==
  \/ p \in {<<"submit", t>>, <<"reset", t>>, <<"change", t>>} /\ at[p] = "closing"
  \/ p = <<"reset", t>> /\ at[p] = "join"
  \/ p \in Evictors /\ at[p] = "closing" /\ job[p] # <<>> /\ Head(job[p]) = t
  \/ p = Closer /\ at[p] \in {"join", "closing"} /\ Head(job[p]) = t
LockInv == \A p \in Proc, t \in Thread : Locks(p, t) => lock[t] = p

(* A task that visits a client has it on its list; the reaper is through   *)
(* with clients when it comes to the shells.                               *)
JobInv ==
  /\ \A p \in Evictors : at[p] = "asked" => job[p] # <<>>
  /\ at[Closer] \in {"join", "closing"} => job[Closer] # <<>>
  /\ phase = "shells" => job[Reaper] = <<>>

(* The threads aclose() is done with have no client any more, and no task  *)
(* has a shell of theirs in hand.                                          *)
Visited(t) ==
  \/ at[Closer] = "done"
  \/ at[Closer] \in {"records", "join", "closing"} /\ \A i \in DOMAIN job[Closer] : job[Closer][i] # t
Stripped(t) == client[t] = 0 /\ \A k \in {"submit", "reset", "change"} : inhand[<<k, t>>] = None

CloseInv ==
  /\ at[Closer] = "closing" => client[Head(job[Closer])] = 0
  /\ late = {} => \A t \in Thread : Visited(t) => Stripped(t)
  /\ late = {} /\ at[Closer] = "done" => \A t \in Thread : stash[t] = None

IInv == TypeInv /\ ClientInv /\ PlaceInv /\ NoneForgotten /\ LockInv /\ JobInv /\ CloseInv

-----------------------------------------------------------------------------
(* Tasks and lists                                                         *)

(* The tasks are told from each other by their names.                      *)
LEMMA Procs ==
  /\ \A t \in Thread : /\ W(t) \in Evictors
                       /\ \A k \in {"submit", "reset", "change"} :
                            <<k, t>> \in Proc \ Evictors /\ <<k, t>> # Closer
  /\ {Reaper, Updater} \subseteq Evictors /\ Closer \in Proc \ Evictors
  /\ Evictors \subseteq Proc
  /\ \A t, u \in Thread : W(t) = W(u) => t = u
  /\ \A t \in Thread : W(t) # Reaper /\ W(t) # Updater
  /\ Reaper # Updater
BY DEF Proc, W, Reaper, Updater, Closer, Evictors

(* A list of threads has them all, and nothing else.                       *)
LEMMA Lists ==
  ASSUME ClientsAssumption, NEW S \in SUBSET Thread, NEW s \in SetToSeqs(S)
  PROVE  s \in Seq(Thread) /\ \A t \in S : \E i \in DOMAIN s : s[i] = t
<1>1. IsFiniteSet(S) /\ Cardinality(S) \in Nat
  BY FS_Subset, FS_CardinalityType DEF ClientsAssumption
<1> DEFINE D == 1 .. Cardinality(S)
<1>2. s \in [D -> S] /\ \A i, j \in D : i # j => s[i] # s[j] BY DEF SetToSeqs
<1>3. s \in Seq(Thread) BY <1>1, <1>2
<1>4. IsFiniteSet(D) /\ Cardinality(D) = Cardinality(S) BY <1>1, FS_Interval
<1>5. s \in Injection(D, S) BY <1>2 DEF Injection, IsInjective
<1>6. s \in Surjection(D, S) BY <1>1, <1>4, <1>5, FS_Injection
<1> QED BY <1>2, <1>3, <1>6 DEF Surjection

-----------------------------------------------------------------------------
(* What a step leaves alone                                                *)

(* Shells that stay where they are.                                        *)
LEMMA ShellsStay ==
  ASSUME IInv, UNCHANGED <<held, stash, inhand, alive, unborn, lost>>
  PROVE  PlaceInv' /\ NoneForgotten'
BY DEF IInv, PlaceInv, NoneForgotten, Placed

(* One task moves, and takes or leaves the lock of one thread.             *)
LEMMA LocksKept ==
  ASSUME IInv, NEW p \in Proc, NEW t \in Thread,
         \A q \in Proc, u \in Thread : q # p /\ Locks(q, u)' => Locks(q, u),
         \A u \in Thread : Locks(p, u)' => lock'[u] = p,
         \A u \in Thread \ {t} : lock'[u] = lock[u],
         lock'[t] = lock[t] \/ lock[t] \in {None, p}, None \notin Proc
  PROVE  LockInv'
BY DEF IInv, LockInv

(* What aclose() went through stays closed.                                *)
LEMMA ClosedKept ==
  ASSUME IInv, at'[Closer] = at[Closer], job'[Closer] = job[Closer],
         at[Closer] = "closing" => client'[Head(job[Closer])] = client[Head(job[Closer])],
         late' = {} => late = {},
         \A t \in Thread : late' = {} /\ Visited(t) /\ Stripped(t) => Stripped(t)',
         \A t \in Thread : late' = {} /\ Visited(t) /\ Stripped(t) /\ stash[t] = None => stash'[t] = None
  PROVE  CloseInv'
<1>1. \A t \in Thread : Visited(t)' <=> Visited(t) BY DEF Visited
<1> QED BY <1>1 DEF IInv, CloseInv, Visited

(* A step of a task that touches no client, no shell and no lock.          *)
LEMMA Quiet ==
  ASSUME ClientsAssumption, IInv, NEW p \in Proc \ {Closer}, NEW l \in Labels,
         at' = [at EXCEPT ![p] = l], l \notin {"closing", "join"},
         inhand[p] = None, \A t \in Thread : p = W(t) => at[p] # "idle",
         job' \in [Proc -> Seq(Thread)], \A q \in Proc : q # p => job'[q] = job[q],
         l = "asked" => job'[p] # <<>>,
         \A t \in Thread : p = W(t) /\ l = "spawn" => held[t] \notin alive,
         cli' \in Nat \ {0}, phase' = phase \/ phase' # "shells",
         p = Reaper => phase' # "shells",
         UNCHANGED <<lock, client, held, stash, inhand, alive, unborn, late, lost>>
  PROVE  IInv'
<1> USE Procs DEF IInv
<1>1. at \in [Proc -> Labels] /\ \A q \in Proc : at'[q] = IF q = p THEN l ELSE at[q]
  BY DEF TypeInv
<1>2. TypeInv' BY <1>1 DEF TypeInv
<1>3. ClientInv'
  <2>1. \A t \in Thread : Busy(t)' => Busy(t) BY <1>1 DEF Busy
  <2>2. \A t \in Thread : at'[<<"submit", t>>] = "closing" => at[<<"submit", t>>] = "closing"
    BY <1>1
  <2>3. \A t \in Thread : at'[W(t)] = "spawn" => held[t] \notin alive BY <1>1 DEF ClientInv
  <2> QED BY <2>1, <2>2, <2>3, <1>1 DEF ClientInv
<1>4. PlaceInv' /\ NoneForgotten' BY ShellsStay
<1>5. LockInv'
  <2>1. \A q \in Proc, u \in Thread : Locks(q, u)' => Locks(q, u) BY <1>1 DEF Locks
  <2> QED BY <2>1 DEF LockInv
<1>6. JobInv'
  <2>1. \A q \in Evictors : at'[q] = "asked" => job'[q] # <<>> BY <1>1 DEF JobInv
  <2> QED BY <2>1, <1>1 DEF JobInv
<1>7. CloseInv'
  <2>1. \A t \in Thread : Stripped(t) => Stripped(t)' BY DEF Stripped
  <2> QED BY <2>1, <1>1, ClosedKept
<1> QED BY <1>2, <1>3, <1>4, <1>5, <1>6, <1>7

(* The steps that only move a task, or its list, or the phase.             *)
LEMMA QuietActions ==
  ASSUME ClientsAssumption, IInv,
         \/ \E t \in Thread : \/ Submit(t) \/ Ask("reset", t) \/ Ask("change", t) \/ ChangeDeferred(t)
                              \/ WorkerRelieves(t) \/ WorkerRuns(t) \/ ShellSpawns(t) \/ WorkerEnds(t)
         \/ \E p \in Evictors : EvictAsk(p) \/ EvictSkip(p)
         \/ Update \/ UpdateEnds \/ SweepTtl \/ SweepCap \/ SweepStale
  PROVE  IInv'
<1> USE Procs DEF shellVars, sweepVars, histVars, Goto
<1>0. /\ at \in [Proc -> Labels] /\ job \in [Proc -> Seq(Thread)] /\ cli \in Nat \ {0}
      /\ \A p \in Proc : inhand[p] # None => at[p] = "closing" /\ p \notin Evictors
  BY DEF IInv, TypeInv, ClientInv
<1>1. ASSUME NEW k \in {"submit", "reset", "change"}, NEW t \in Thread, NEW l \in {"idle", "wait"},
             at[<<k, t>>] \in {"idle", "wait"}, at' = [at EXCEPT ![<<k, t>>] = l],
             UNCHANGED <<lock, client, shellVars, sweepVars, cli, histVars>>
      PROVE  IInv'
  <2> DEFINE p == <<k, t>>
  <2>1. \A u \in Thread : p # W(u) BY DEF W
  <2>2. p \in Proc \ {Closer} /\ p # Reaper BY ZenonT(30)
  <2>3. inhand[p] = None BY <2>2, <1>0, <1>1
  <2>4. l \in Labels /\ l \notin {"closing", "join", "asked"} BY DEF Labels
  <2>5. job' \in [Proc -> Seq(Thread)] /\ \A q \in Proc : q # p => job'[q] = job[q] BY <1>0, <1>1
  <2>6. UNCHANGED <<lock, client, held, stash, inhand, alive, unborn, late, lost, phase, cli>> BY <1>1
  <2> HIDE DEF p
  <2> QED BY <2>1, <2>2, <2>3, <2>4, <2>5, <2>6, <1>0, <1>1, Quiet DEF p
<1>2. ASSUME NEW p \in Evictors, NEW l \in {"idle", "run", "spawn", "evict"}, at[p] # "idle",
             at' = [at EXCEPT ![p] = l],
             job' = job \/ \E s \in Seq(Thread) : job' = [job EXCEPT ![p] = s],
             UNCHANGED <<lock, client, shellVars, phase, cli, histVars>>,
             \A t \in Thread : p = W(t) /\ l = "spawn" => held[t] \notin alive,
             p = Reaper => phase # "shells"
      PROVE  IInv'
  <2>1. job' \in [Proc -> Seq(Thread)] /\ \A q \in Proc : q # p => job'[q] = job[q] BY <1>0, <1>2
  <2>2. inhand[p] = None BY <1>0
  <2>3. l \in Labels /\ l \notin {"closing", "join", "asked"} BY DEF Labels
  <2>4. p \in Proc \ {Closer} OBVIOUS
  <2>5. UNCHANGED <<lock, client, held, stash, inhand, alive, unborn, late, lost, phase, cli>> BY <1>2
  <2> QED BY <2>1, <2>2, <2>3, <2>4, <2>5, <1>0, <1>2, Quiet
<1>3. ASSUME NEW t \in Thread, Submit(t) \/ Ask("reset", t) \/ Ask("change", t) \/ ChangeDeferred(t)
      PROVE  IInv'
  BY <1>3, <1>1 DEF Submit, Ask, ChangeDeferred
<1>4. ASSUME NEW t \in Thread, WorkerRelieves(t) PROVE IInv'
  <2>1. \E s \in Seq(Thread) : job' = [job EXCEPT ![W(t)] = s]
    <3>1. IdleThreads \subseteq Thread BY DEF IdleThreads, LiveThreads
    <3> QED BY <1>4, <3>1, Lists DEF WorkerRelieves
  <2> QED BY <2>1, <1>4, <1>2 DEF WorkerRelieves
<1>5. ASSUME NEW t \in Thread, WorkerRuns(t) \/ ShellSpawns(t) \/ WorkerEnds(t) PROVE IInv'
  <2>1. CASE WorkerRuns(t) \/ WorkerEnds(t) BY <2>1, <1>2 DEF WorkerRuns, WorkerEnds
  <2>2. CASE ShellSpawns(t)
    <3>1. held[t] \notin alive BY <2>2 DEF ShellSpawns, HasLiveShell, IInv, TypeInv, ClientsAssumption
    <3> QED BY <2>2, <3>1, <1>2 DEF ShellSpawns
  <2> QED BY <2>1, <2>2, <1>5
<1>6. ASSUME NEW p \in Evictors, EvictAsk(p) \/ EvictSkip(p) PROVE IInv'
  <2>1. p = Reaper => phase # "shells" BY <1>6 DEF EvictAsk, EvictSkip, IInv, JobInv
  <2>2. job[p] # <<>> /\ at[p] # "idle" BY <1>6 DEF EvictAsk, EvictSkip, IInv, JobInv
  <2>3. CASE Goto(p, "asked") /\ UNCHANGED job
    <3>1. UNCHANGED <<lock, client, shellVars, phase, cli, histVars>> BY <1>6 DEF EvictAsk, EvictSkip
    <3> QED BY <2>1, <2>2, <2>3, <3>1, <1>0, Quiet DEF Labels
  <2>4. CASE Proceed(p, "evict")
    <3>1. \E s \in Seq(Thread) : job' = [job EXCEPT ![p] = s]
      <4>1. Tail(job[p]) \in Seq(Thread) /\ <<>> \in Seq(Thread) BY <2>2, <1>0
      <4> QED BY <2>4, <4>1 DEF Proceed, Rest
    <3>2. UNCHANGED <<lock, client, shellVars, phase, cli, histVars>> BY <1>6 DEF EvictAsk, EvictSkip
    <3> QED BY <2>1, <2>2, <2>4, <3>1, <3>2, <1>2 DEF Proceed
  <2> QED BY <2>3, <2>4, <1>6 DEF EvictAsk, EvictSkip
<1>7. CASE Update
  <2>1. \E s \in Seq(Thread) : job' = [job EXCEPT ![Updater] = s]
    <3>1. IdleThreads \subseteq Thread BY DEF IdleThreads, LiveThreads
    <3> QED BY <1>7, <3>1, Lists DEF Update
  <2>2. job' \in [Proc -> Seq(Thread)] /\ \A q \in Proc : q # Updater => job'[q] = job[q] BY <2>1, <1>0
  <2>3. Updater \in Proc \ {Closer} /\ Updater # Reaper /\ \A t \in Thread : Updater # W(t) OBVIOUS
  <2>4. UNCHANGED <<lock, client, held, stash, inhand, alive, unborn, late, lost, phase>>
        /\ at' = [at EXCEPT ![Updater] = "evict"] /\ cli' = cli + 1 /\ at[Updater] = "idle"
    BY <1>7 DEF Update
  <2>5. inhand[Updater] = None /\ cli' \in Nat \ {0} /\ "evict" \in Labels
    BY <2>3, <2>4, <1>0 DEF Labels
  <2> QED BY <2>2, <2>3, <2>4, <2>5, Quiet, ZenonT(30)
<1>8. CASE UpdateEnds BY <1>8, <1>2 DEF UpdateEnds
<1>9. ASSUME NEW from \in Phases, NEW to \in {"ttl", "cap", "stale"},
             NEW S \in SUBSET Thread, NEW s \in SetToSeqs(S), Sweep(from, to, s)
      PROVE  IInv'
  <2>1. s \in Seq(Thread) BY Lists
  <2>2. job' \in [Proc -> Seq(Thread)] /\ \A q \in Proc : q # Reaper => job'[q] = job[q]
    BY <2>1, <1>9, <1>0 DEF Sweep
  <2>3. Reaper \in Proc \ {Closer} /\ \A t \in Thread : Reaper # W(t) OBVIOUS
  <2>4. UNCHANGED <<lock, client, held, stash, inhand, alive, unborn, late, lost, cli>>
        /\ at' = [at EXCEPT ![Reaper] = "evict"] /\ phase' = to
    BY <1>9 DEF Sweep
  <2>5. inhand[Reaper] = None /\ cli' \in Nat \ {0} /\ phase' # "shells" /\ "evict" \in Labels
    BY <2>3, <2>4, <1>0 DEF Labels
  <2> QED BY <2>2, <2>3, <2>4, <2>5, Quiet
<1>10. CASE SweepTtl \/ SweepCap \/ SweepStale
  <2>1. IdleThreads \subseteq Thread BY DEF IdleThreads, LiveThreads
  <2>2. CASE SweepTtl
    <3>1. PICK S \in SUBSET IdleThreads : \E s \in SetToSeqs(S) : Sweep("rest", "ttl", s) BY <2>2 DEF SweepTtl
    <3>2. PICK s \in SetToSeqs(S) : Sweep("rest", "ttl", s) BY <3>1
    <3> QED BY <3>2, <2>1, <1>9 DEF Phases
  <2>3. CASE SweepCap
    <3>1. PICK S \in SUBSET IdleThreads : \E s \in SetToSeqs(S) : Sweep("ttl", "cap", s) BY <2>3 DEF SweepCap
    <3>2. PICK s \in SetToSeqs(S) : Sweep("ttl", "cap", s) BY <3>1
    <3> QED BY <3>2, <2>1, <1>9 DEF Phases
  <2>4. CASE SweepStale
    <3>1. (IF cli > 1 THEN IdleThreads ELSE {}) \subseteq Thread BY <2>1
    <3>2. PICK s \in SetToSeqs(IF cli > 1 THEN IdleThreads ELSE {}) : Sweep("cap", "stale", s)
      BY <2>4 DEF SweepStale
    <3> QED BY <3>1, <3>2, <1>9 DEF Phases
  <2> QED BY <2>2, <2>3, <2>4, <1>10
<1> QED BY <1>3, <1>4, <1>5, <1>6, <1>7, <1>8, <1>10

-----------------------------------------------------------------------------
(* Steps that take a client                                                *)

(* A task takes the client of an idle thread, and its shell, to close      *)
(* them; a shell it does not take is dead.                                 *)
LEMMA Takes ==
  ASSUME ClientsAssumption, IInv, NEW p \in Proc \ Evictors, NEW t \in Thread, ~Busy(t),
         inhand[p] = None, at' = [at EXCEPT ![p] = "closing"],
         client' = [client EXCEPT ![t] = 0], held' = [held EXCEPT ![t] = None],
         NEW sh \in {held[t], None}, inhand' = [inhand EXCEPT ![p] = sh],
         held[t] \in alive => sh = held[t],
         \/ p \in {<<"submit", t>>, <<"reset", t>>, <<"change", t>>}
         \/ p = Closer /\ at[p] = "join" /\ Head(job[p]) = t,
         lock' = [lock EXCEPT ![t] = p], lock[t] \in {None, p},
         UNCHANGED <<stash, alive, unborn, job, phase, cli, late, lost>>
  PROVE  IInv'
<1> USE Procs DEF IInv
<1>1. /\ at \in [Proc -> Labels] /\ client \in [Thread -> Nat] /\ lock \in [Thread -> Proc \cup {None}]
      /\ held \in [Thread -> Shell \cup {None}] /\ inhand \in [Proc -> Shell \cup {None}]
      /\ None \notin Proc /\ None \notin alive
  BY DEF TypeInv, ClientsAssumption
<1>2. /\ \A q \in Proc : at'[q] = IF q = p THEN "closing" ELSE at[q]
      /\ \A u \in Thread : client'[u] = IF u = t THEN 0 ELSE client[u]
      /\ \A u \in Thread : held'[u] = IF u = t THEN None ELSE held[u]
      /\ \A q \in Proc : inhand'[q] = IF q = p THEN sh ELSE inhand[q]
      /\ \A u \in Thread : lock'[u] = IF u = t THEN p ELSE lock[u]
  BY <1>1
<1>a. p = Closer => at[p] = "join" /\ Head(job[p]) = t BY Zenon
<1>b. \A u \in Thread, k \in {"submit", "reset", "change"} : p = <<k, u>> => u = t
  <2> SUFFICES ASSUME NEW u \in Thread, NEW k \in {"submit", "reset", "change"}, p = <<k, u>> PROVE u = t
    OBVIOUS
  <2>1. p # Closer OBVIOUS
  <2>2. p \in {<<"submit", t>>, <<"reset", t>>, <<"change", t>>} BY <2>1, Zenon
  <2>3. p[2] = u /\ p[2] = t BY <2>2
  <2> QED BY <2>3
<1>3. TypeInv' BY <1>1 DEF TypeInv, Labels
<1>4. ClientInv'
  <2>1. \A u \in Thread : Busy(u)' <=> Busy(u) BY <1>2, ZenonT(30) DEF Busy
  <2>2. \A u \in Thread : at'[<<"submit", u>>] = "closing" =>
          at[<<"submit", u>>] = "closing" \/ u = t
    BY <1>2, <1>b
  <2>3. \A u \in Thread : at'[W(u)] = "spawn" => held'[u] \notin alive BY <1>1, <1>2, ZenonT(30) DEF ClientInv
  <2> QED BY <2>1, <2>2, <2>3, <1>2 DEF ClientInv
<1>5. PlaceInv' BY <1>2 DEF PlaceInv
<1>6. NoneForgotten'
  <2>1. ASSUME NEW x \in alive, Placed(x) PROVE Placed(x)' BY <2>1, <1>1, <1>2 DEF Placed
  <2> QED BY <2>1 DEF NoneForgotten
<1>7. LockInv'
  <2>1. \A q \in Proc, u \in Thread : q # p /\ Locks(q, u)' => Locks(q, u) BY <1>2 DEF Locks
  <2>2. \A u \in Thread : Locks(p, u)' => u = t BY <1>a, <1>b DEF Locks
  <2> QED BY <2>1, <2>2, <1>1, <1>2, LocksKept
<1>8. JobInv' BY <1>2, <1>a DEF JobInv
<1>9. CloseInv'
  <2>1. \A u \in Thread : Visited(u)' <=> Visited(u) BY <1>2, <1>a DEF Visited
  <2>2. \A u \in Thread : Stripped(u) => Stripped(u)'
    <3>1. \A u \in Thread, k \in {"submit", "reset", "change"} :
            inhand[<<k, u>>] = None /\ client[u] = 0 => inhand'[<<k, u>>] = None
      <4> SUFFICES ASSUME NEW u \in Thread, NEW k \in {"submit", "reset", "change"},
                          inhand[<<k, u>>] = None, client[u] = 0
                   PROVE  inhand'[<<k, u>>] = None
        OBVIOUS
      <4>1. CASE <<k, u>> = p
        <5>1. held[t] = None BY <4>1, <1>b DEF ClientInv
        <5> QED BY <4>1, <5>1, <1>2
      <4>2. CASE <<k, u>> # p BY <4>2, <1>2
      <4> QED BY <4>1, <4>2
    <3> QED BY <3>1, <1>2 DEF Stripped
  <2>3. at'[Closer] = "closing" => client'[Head(job'[Closer])] = 0
    <3>1. CASE p = Closer BY <3>1, <1>2, <1>a
    <3>2. CASE p # Closer
      <4>1. at[Closer] = "closing" => job[Closer] # <<>> BY DEF JobInv
      <4>2. at[Closer] = "closing" => Head(job[Closer]) \in Thread BY <4>1 DEF TypeInv
      <4> QED BY <3>2, <4>2, <1>2 DEF CloseInv
    <3> QED BY <3>1, <3>2
  <2>4. at'[Closer] = "done" => at[Closer] = "done" BY <1>2
  <2> QED BY <2>1, <2>2, <2>3, <2>4 DEF CloseInv
<1> QED BY <1>3, <1>4, <1>5, <1>6, <1>7, <1>8, <1>9

(* The rebuild, reset, a settings change and aclose() take a client alike. *)
LEMMA TakingActions ==
  ASSUME ClientsAssumption, IInv,
         \/ \E t \in Thread : SubmitRebuild(t) \/ ResetJoined(t) \/ ChangeCloses(t)
         \/ CloseJoined
  PROVE  IInv'
<1> USE Procs DEF shellVars, sweepVars, histVars, Goto, TakeWithShell
<1>0. /\ lock \in [Thread -> Proc \cup {None}] /\ held \in [Thread -> Shell \cup {None}]
      /\ None \notin alive
      /\ \A p \in Proc : inhand[p] # None => at[p] = "closing"
  BY DEF IInv, TypeInv, ClientInv, ClientsAssumption
<1>1. ASSUME NEW t \in Thread, SubmitRebuild(t) PROVE IInv'
  <2> DEFINE p == <<"submit", t>>
             sh == IF HasLiveShell(t) THEN held[t] ELSE None
  <2>1. p \in Proc \ Evictors /\ inhand[p] = None BY <1>0, <1>1 DEF SubmitRebuild
  <2>2. sh \in {held[t], None} /\ (held[t] \in alive => sh = held[t]) BY <1>0 DEF HasLiveShell
  <2>3. /\ ~Busy(t) /\ lock[t] = None /\ lock' = [lock EXCEPT ![t] = p]
        /\ client' = [client EXCEPT ![t] = 0] /\ inhand' = [inhand EXCEPT ![p] = sh]
        /\ held' = [held EXCEPT ![t] = None] /\ at' = [at EXCEPT ![p] = "closing"]
        /\ UNCHANGED <<stash, alive, unborn, job, phase, cli, late, lost>>
    BY <1>1 DEF SubmitRebuild
  <2> QED BY <2>1, <2>2, <2>3, Takes
<1>2. ASSUME NEW t \in Thread, ResetJoined(t) PROVE IInv'
  <2> DEFINE p == <<"reset", t>>
  <2>1. p \in Proc \ Evictors /\ inhand[p] = None BY <1>0, <1>2 DEF ResetJoined
  <2>2. lock[t] = p /\ lock' = [lock EXCEPT ![t] = p]
    BY <2>1, <1>0, <1>2 DEF ResetJoined, IInv, LockInv, Locks
  <2>3. /\ ~Busy(t) /\ client' = [client EXCEPT ![t] = 0] /\ inhand' = [inhand EXCEPT ![p] = held[t]]
        /\ held' = [held EXCEPT ![t] = None] /\ at' = [at EXCEPT ![p] = "closing"]
        /\ UNCHANGED <<stash, alive, unborn, job, phase, cli, late, lost>>
    BY <1>2 DEF ResetJoined
  <2> QED BY <2>1, <2>2, <2>3, Takes
<1>3. ASSUME NEW t \in Thread, ChangeCloses(t) PROVE IInv'
  <2> DEFINE p == <<"change", t>>
  <2>1. p \in Proc \ Evictors /\ inhand[p] = None BY <1>0, <1>3 DEF ChangeCloses
  <2>2. /\ ~Busy(t) /\ lock[t] = None /\ lock' = [lock EXCEPT ![t] = p]
        /\ client' = [client EXCEPT ![t] = 0] /\ inhand' = [inhand EXCEPT ![p] = held[t]]
        /\ held' = [held EXCEPT ![t] = None] /\ at' = [at EXCEPT ![p] = "closing"]
        /\ UNCHANGED <<stash, alive, unborn, job, phase, cli, late, lost>>
    BY <1>3 DEF ChangeCloses
  <2> QED BY <2>1, <2>2, Takes
<1>4. CASE CloseJoined
  <2> DEFINE t == Head(job[Closer])
  <2>1. Closer \in Proc \ Evictors /\ inhand[Closer] = None /\ at[Closer] = "join"
    BY <1>0, <1>4 DEF CloseJoined
  <2>2. t \in Thread
    <3>1. job[Closer] # <<>> /\ job[Closer] \in Seq(Thread) BY <2>1 DEF IInv, JobInv, TypeInv
    <3> QED BY <3>1
  <2>3. lock[t] = Closer BY <2>1, <2>2 DEF IInv, LockInv, Locks
  <2>4. lock' = [lock EXCEPT ![t] = Closer] BY <2>2, <2>3, <1>0, <1>4 DEF CloseJoined
  <2>5. /\ ~Busy(t) /\ client' = [client EXCEPT ![t] = 0]
        /\ inhand' = [inhand EXCEPT ![Closer] = held[t]]
        /\ held' = [held EXCEPT ![t] = None] /\ at' = [at EXCEPT ![Closer] = "closing"]
        /\ UNCHANGED <<stash, alive, unborn, job, phase, cli, late, lost>>
    BY <1>4 DEF CloseJoined
  <2> HIDE DEF t
  <2> QED BY <2>1, <2>2, <2>3, <2>4, <2>5, Takes DEF t
<1> QED BY <1>1, <1>2, <1>3, <1>4

-----------------------------------------------------------------------------
(* handle_text                                                             *)

(* The worker starts if it did not run.                                    *)
LEMMA Starts ==
  ASSUME IInv, NEW t \in Thread, Started(t)
  PROVE  /\ at' \in [Proc -> Labels]
         /\ at'[<<"submit", t>>] = "idle" /\ at'[W(t)] # "idle"
         /\ at[W(t)] # "idle" => at'[W(t)] = at[W(t)]
         /\ at[W(t)] = "idle" => at'[W(t)] = "wait"
         /\ \A q \in Proc \ {<<"submit", t>>, W(t)} : at'[q] = at[q]
BY Procs DEF IInv, TypeInv, Started, Labels

(* handle_text finds a client: the worker starts, if it did not run.       *)
LEMMA SubmitReuseIInv ==
  ASSUME ClientsAssumption, IInv, NEW t \in Thread, SubmitReuse(t)
  PROVE  IInv'
<1> USE Procs DEF shellVars, sweepVars, histVars
<1>1. /\ at[<<"submit", t>>] = "wait" /\ client[t] # 0 /\ Started(t)
      /\ UNCHANGED <<lock, client, held, stash, expired, alive, unborn, inhand, job, phase, cli, late, lost>>
  BY DEF SubmitReuse
<1>2. /\ at' \in [Proc -> Labels]
      /\ at'[<<"submit", t>>] = "idle" /\ at'[W(t)] # "idle"
      /\ at[W(t)] # "idle" => at'[W(t)] = at[W(t)]
      /\ at[W(t)] = "idle" => at'[W(t)] = "wait"
      /\ \A q \in Proc \ {<<"submit", t>>, W(t)} : at'[q] = at[q]
  BY <1>1, Starts
<1>3. \A q \in Proc : at'[q] = "closing" => at[q] = "closing" BY <1>2
<1>4. TypeInv' BY <1>1, <1>2 DEF IInv, TypeInv
<1>5. ClientInv'
  <2>1. \A u \in Thread : Busy(u)' => Busy(u) \/ u = t BY <1>2 DEF Busy
  <2>2. \A q \in Proc : inhand[q] # None => at'[q] = "closing" BY <1>1, <1>2 DEF IInv, ClientInv
  <2>3. \A u \in Thread : at'[W(u)] = "spawn" => at[W(u)] = "spawn" BY <1>2
  <2> QED BY <2>1, <2>2, <2>3, <1>1, <1>3 DEF IInv, ClientInv
<1>6. PlaceInv' /\ NoneForgotten' BY <1>1, ShellsStay
<1>7. LockInv'
  <2>1. \A q \in Proc, u \in Thread : Locks(q, u)' => Locks(q, u) BY <1>1, <1>2, <1>3 DEF Locks
  <2> QED BY <2>1, <1>1 DEF IInv, LockInv
<1>8. JobInv' BY <1>1, <1>2 DEF IInv, JobInv
<1>9. CloseInv'
  <2>1. at'[Closer] = at[Closer] BY <1>2
  <2>2. \A u \in Thread : Stripped(u) => Stripped(u)' BY <1>1 DEF Stripped
  <2> QED BY <2>1, <2>2, <1>1, ClosedKept
<1> QED BY <1>4, <1>5, <1>6, <1>7, <1>8, <1>9 DEF IInv

(* A client is built, and the thread's shell goes to it.                   *)
LEMMA SubmitBuildIInv ==
  ASSUME ClientsAssumption, IInv, NEW t \in Thread, SubmitBuild(t)
  PROVE  IInv'
<1> USE Procs DEF sweepVars, histVars
<1> DEFINE p == <<"submit", t>>
           sh == IF inhand[p] # None THEN inhand[p] ELSE stash[t]
<1>0. /\ client \in [Thread -> Nat] /\ lock \in [Thread -> Proc \cup {None}] /\ cli \in Nat \ {0}
      /\ held \in [Thread -> Shell \cup {None}] /\ stash \in [Thread -> Shell \cup {None}]
      /\ inhand \in [Proc -> Shell \cup {None}]
      /\ None \notin Proc /\ None \notin alive /\ alive \subseteq Shell
  BY DEF IInv, TypeInv, ClientsAssumption
<1>1. /\ \/ at[p] = "wait" /\ lock[t] = None /\ client[t] = 0
         \/ at[p] = "closing"
      /\ lock' = [lock EXCEPT ![t] = None] /\ client' = [client EXCEPT ![t] = cli]
      /\ held' = [held EXCEPT ![t] = IF sh \in alive THEN sh ELSE None]
      /\ alive' = IF inhand[p] # None /\ stash[t] # None THEN alive \ {stash[t]} ELSE alive
      /\ stash' = [stash EXCEPT ![t] = None]
      /\ inhand' = [inhand EXCEPT ![p] = None]
      /\ late' = (IF Up THEN late ELSE late \cup {t}) /\ Started(t)
      /\ UNCHANGED <<unborn, job, phase, cli, lost>>
  BY Zenon DEF SubmitBuild, Reattach
<1>2. /\ at' \in [Proc -> Labels]
      /\ at'[p] = "idle" /\ at'[W(t)] # "idle"
      /\ at[W(t)] # "idle" => at'[W(t)] = at[W(t)]
      /\ at[W(t)] = "idle" => at'[W(t)] = "wait"
      /\ \A q \in Proc \ {p, W(t)} : at'[q] = at[q]
  BY <1>1, Starts
<1>3. /\ \A u \in Thread : client'[u] = IF u = t THEN cli ELSE client[u]
      /\ \A u \in Thread : lock'[u] = IF u = t THEN None ELSE lock[u]
      /\ \A u \in Thread : stash'[u] = IF u = t THEN None ELSE stash[u]
      /\ \A u \in Thread : held'[u] = IF u = t THEN IF sh \in alive THEN sh ELSE None ELSE held[u]
      /\ \A q \in Proc : inhand'[q] = IF q = p THEN None ELSE inhand[q]
  BY <1>0, <1>1
<1>4. client[t] = 0 /\ held[t] = None BY <1>1 DEF IInv, ClientInv
<1>5. lock[t] \in {None, p} BY <1>1 DEF IInv, LockInv, Locks
<1>6. TypeInv'
  <2>1. client' \in [Thread -> Nat] /\ lock' \in [Thread -> Proc \cup {None}]
        /\ stash' \in [Thread -> Shell \cup {None}] /\ inhand' \in [Proc -> Shell \cup {None}]
    BY <1>0, <1>1
  <2>2. held' \in [Thread -> Shell \cup {None}] BY <1>0, <1>1
  <2>3. alive' \subseteq Shell BY <1>0, <1>1
  <2> QED BY <2>1, <2>2, <2>3, <1>1, <1>2 DEF IInv, TypeInv
<1>7. ClientInv'
  <2>1. \A u \in Thread : u # t => (Busy(u)' <=> Busy(u)) BY <1>2 DEF Busy
  <2>2. \A u \in Thread : u # t => at'[<<"submit", u>>] = at[<<"submit", u>>] BY <1>2
  <2>3. \A q \in Proc : inhand'[q] # None => at'[q] = "closing" /\ q \notin Evictors
    BY <1>2, <1>3 DEF IInv, ClientInv
  <2>4. cli # 0 BY <1>0
  <2>5. \A u \in Thread : at'[W(u)] = "spawn" => held'[u] \notin alive'
    <3>1. ~Busy(t) BY <1>4 DEF IInv, ClientInv
    <3>2. at'[W(t)] = "wait" BY <3>1, <1>2 DEF Busy
    <3>3. \A u \in Thread : u # t => at'[W(u)] = at[W(u)] /\ held'[u] = held[u] BY <1>2, <1>3
    <3>4. alive' \subseteq alive BY <1>1
    <3> QED BY <3>2, <3>3, <3>4, ZenonT(30) DEF IInv, ClientInv
  <2> QED BY <2>1, <2>2, <2>3, <2>4, <2>5, <1>2, <1>3 DEF IInv, ClientInv
<1>8. PlaceInv'
  <2>1. \A u \in Thread : held'[u] # None /\ u # t => held'[u] = held[u] BY <1>3
  <2>2. held'[t] # None => held'[t] \in {inhand[p], stash[t]} BY <1>3
  <2>3. \A u \in Thread : stash'[u] # None => u # t /\ stash'[u] = stash[u] BY <1>3
  <2>4. \A q \in Proc : inhand'[q] # None => q # p /\ inhand'[q] = inhand[q] BY <1>3
  <2>5. None \notin unborn BY DEF IInv, TypeInv, ClientsAssumption
  <2>6. alive' \subseteq alive /\ unborn' = unborn BY <1>1
  <2>7. PlaceInv /\ p \in Proc BY DEF IInv
  <2> HIDE DEF p
  <2>a. \A u, v \in Thread : u # v /\ held'[u] # None => held'[u] # held'[v]
    BY <2>1, <2>2, <2>7 DEF PlaceInv
  <2>b. \A u, v \in Thread : u # v /\ stash'[u] # None => stash'[u] # stash'[v]
    BY <2>3, <2>7 DEF PlaceInv
  <2>c. \A q, r \in Proc : q # r /\ inhand'[q] # None => inhand'[q] # inhand'[r]
    BY <2>4, <2>7 DEF PlaceInv
  <2>d. \A u, v \in Thread : held'[u] # None => held'[u] # stash'[v]
    BY <2>1, <2>2, <2>3, <2>7 DEF PlaceInv
  <2>e. \A u \in Thread, q \in Proc : inhand'[q] # None => inhand'[q] # held'[u] /\ inhand'[q] # stash'[u]
    BY <2>1, <2>2, <2>3, <2>4, <2>7 DEF PlaceInv
  <2>f. \A u \in Thread : held'[u] \notin unborn' /\ stash'[u] \notin unborn'
    BY <2>1, <2>2, <2>3, <2>5, <2>6, <2>7 DEF PlaceInv
  <2>g. \A q \in Proc : inhand'[q] \notin unborn' BY <2>4, <2>5, <2>6, <2>7 DEF PlaceInv
  <2>h. alive' \cap unborn' = {} BY <2>6, <2>7 DEF PlaceInv
  <2> QED BY <2>a, <2>b, <2>c, <2>d, <2>e, <2>f, <2>g, <2>h DEF PlaceInv
<1>9. NoneForgotten'
  <2>1. ASSUME NEW x \in alive', Placed(x) PROVE Placed(x)'
    <3>1. x \in alive /\ x # None BY <1>0, <1>1
    <3>2. CASE \E u \in Thread : held[u] = x BY <3>1, <3>2, <1>3, <1>4 DEF Placed
    <3>3. CASE \E u \in Thread : stash[u] = x
      <4>1. PICK u \in Thread : stash[u] = x BY <3>3
      <4>2. CASE u # t BY <4>1, <4>2, <1>3 DEF Placed
      <4>3. CASE u = t
        <5>1. inhand[p] = None BY <4>1, <4>3, <3>1, <1>1
        <5>2. held'[t] = x BY <5>1, <4>1, <4>3, <3>1, <1>3
        <5> QED BY <5>2 DEF Placed
      <4> QED BY <4>2, <4>3
    <3>4. CASE \E q \in Proc : inhand[q] = x
      <4>1. PICK q \in Proc : inhand[q] = x BY <3>4
      <4>2. CASE q # p BY <4>1, <4>2, <1>3 DEF Placed
      <4>3. CASE q = p
        <5>1. held'[t] = x BY <4>1, <4>3, <3>1, <1>3
        <5> QED BY <5>1 DEF Placed
      <4> QED BY <4>2, <4>3
    <3> QED BY <2>1, <3>2, <3>3, <3>4 DEF Placed
  <2>2. alive' \subseteq alive BY <1>1
  <2> QED BY <2>1, <2>2, <1>1 DEF IInv, NoneForgotten
<1>10. LockInv'
  <2>1. \A q \in Proc, u \in Thread : q # p /\ Locks(q, u)' => Locks(q, u) BY <1>1, <1>2 DEF Locks
  <2>2. \A u \in Thread : ~Locks(p, u)' BY <1>2 DEF Locks
  <2>3. \A u \in Thread \ {t} : lock'[u] = lock[u] BY <1>3
  <2>4. p \in Proc /\ \A u \in Thread : Locks(p, u)' => lock'[u] = p BY <2>2
  <2> HIDE DEF p
  <2> QED BY <2>1, <2>3, <2>4, <1>0, <1>5, LocksKept
<1>11. JobInv' BY <1>1, <1>2 DEF IInv, JobInv
<1>12. CloseInv'
  <2>1. at'[Closer] = at[Closer] BY <1>2
  <2>2. late' = {} => Up BY <1>1
  <2>3. Up => ~Visited(t) /\ at[Closer] # "closing" BY DEF Up, Visited
  <2>4. \A u \in Thread : u # t /\ Stripped(u) => Stripped(u)' BY <1>3 DEF Stripped
  <2>5. \A u \in Thread : Visited(u)' <=> Visited(u) BY <2>1, <1>1 DEF Visited
  <2>6. at[Closer] = "closing" => Head(job[Closer]) # t /\ Head(job[Closer]) \in Thread
    <3>1. SUFFICES ASSUME at[Closer] = "closing"
                   PROVE  Head(job[Closer]) # t /\ Head(job[Closer]) \in Thread
      OBVIOUS
    <3>2. job[Closer] # <<>> /\ job[Closer] \in Seq(Thread) BY <3>1 DEF IInv, JobInv, TypeInv
    <3>3. Head(job[Closer]) \in Thread BY <3>2
    <3>4. lock[Head(job[Closer])] = Closer BY <3>1, <3>3 DEF IInv, LockInv, Locks
    <3> QED BY <3>3, <3>4, <1>0, <1>5
  <2>7. Up => \A u \in Thread : ~Visited(u) BY DEF Up, Visited
  <2> QED BY <2>1, <2>2, <2>4, <2>6, <2>7, <1>1, <1>3, ClosedKept
<1> QED BY <1>6, <1>7, <1>8, <1>9, <1>10, <1>11, <1>12 DEF IInv

-----------------------------------------------------------------------------
(* Shells that start, and clients that are evicted                         *)

(* A command of shell mode starts a shell, or runs without one.            *)
LEMMA ShellStartsIInv ==
  ASSUME ClientsAssumption, IInv, NEW t \in Thread, ShellStarts(t)
  PROVE  IInv'
<1> USE Procs DEF sweepVars, histVars, Goto
<1>0. /\ at[W(t)] = "spawn" /\ held[t] \notin alive /\ client[t] # 0
      /\ UNCHANGED <<lock, client, stash, inhand, job, phase, cli, late, lost>>
  BY DEF ShellStarts, IInv, ClientInv, Busy
<1>1. CASE at' = [at EXCEPT ![W(t)] = "idle"] /\ UNCHANGED <<held, unborn, alive>>
  <2>1. W(t) \in Proc \ {Closer} /\ W(t) # Reaper /\ "idle" \in Labels BY DEF Labels
  <2>2. inhand[W(t)] = None /\ job' \in [Proc -> Seq(Thread)] /\ cli' \in Nat \ {0}
    BY <2>1, <1>0 DEF IInv, ClientInv, TypeInv
  <2> QED BY <2>1, <2>2, <1>0, <1>1, Quiet
<1>2. ASSUME NEW sh \in unborn, at' = [at EXCEPT ![W(t)] = "run"],
             held' = [held EXCEPT ![t] = sh], unborn' = unborn \ {sh}, alive' = alive \cup {sh}
      PROVE  IInv'
  <2>0. /\ at \in [Proc -> Labels] /\ held \in [Thread -> Shell \cup {None}]
        /\ unborn \subseteq Shell /\ alive \subseteq Shell /\ None \notin Shell
    BY DEF IInv, TypeInv, ClientsAssumption
  <2>1. /\ \A q \in Proc : at'[q] = IF q = W(t) THEN "run" ELSE at[q]
        /\ \A u \in Thread : held'[u] = IF u = t THEN sh ELSE held[u]
        /\ sh # None
    BY <1>2, <2>0
  <2>2. TypeInv' BY <1>0, <1>2, <2>0 DEF IInv, TypeInv, Labels
  <2>3. ClientInv'
    <3>1. \A u \in Thread : Busy(u)' <=> Busy(u) BY <1>0, <2>1 DEF Busy
    <3>2. \A q \in Proc : at'[q] \in {"spawn", "closing"} => at[q] = at'[q] BY <2>1
    <3>3. \A u \in Thread : at'[W(u)] = "spawn" => held'[u] \notin alive'
      <4>1. \A u \in Thread : at'[W(u)] = "spawn" => u # t BY <2>1
      <4>2. \A u \in Thread : held[u] # sh BY DEF IInv, PlaceInv
      <4>3. \A u \in Thread : at'[W(u)] = "spawn" => held'[u] = held[u] /\ held[u] \notin alive
        BY <4>1, <3>2, <2>1 DEF IInv, ClientInv
      <4>4. alive' = alive \cup {sh} BY <1>2
      <4> QED BY <4>2, <4>3, <4>4
    <3> QED BY <3>1, <3>2, <3>3, <1>0, <2>0, <2>1 DEF IInv, ClientInv
  <2>4. PlaceInv'
    <3>1. /\ \A u \in Thread : held[u] # sh /\ stash[u] # sh
          /\ \A q \in Proc : inhand[q] # sh
          /\ sh \notin alive
      BY DEF IInv, PlaceInv
    <3>2. /\ \A u, v \in Thread : u # v /\ held'[u] # None => held'[u] # held'[v]
          /\ \A u, v \in Thread : held'[u] # None => held'[u] # stash'[v]
      BY <3>1, <2>1, <1>0 DEF IInv, PlaceInv
    <3>3. \A u \in Thread, q \in Proc : inhand'[q] # None => inhand'[q] # held'[u] /\ inhand'[q] # stash'[u]
      BY <3>1, <2>1, <1>0 DEF IInv, PlaceInv
    <3>4. /\ \A u \in Thread : held'[u] \notin unborn' /\ stash'[u] \notin unborn'
          /\ \A q \in Proc : inhand'[q] \notin unborn'
          /\ alive' \cap unborn' = {}
      BY <3>1, <2>1, <1>0, <1>2 DEF IInv, PlaceInv
    <3>5. /\ \A u, v \in Thread : u # v /\ stash'[u] # None => stash'[u] # stash'[v]
          /\ \A p, q \in Proc : p # q /\ inhand'[p] # None => inhand'[p] # inhand'[q]
      BY <1>0 DEF IInv, PlaceInv
    <3> QED BY <3>2, <3>3, <3>4, <3>5 DEF PlaceInv
  <2>5. NoneForgotten'
    <3>1. Placed(sh)' BY <2>1 DEF Placed
    <3>2. ASSUME NEW x \in alive, Placed(x) PROVE Placed(x)' BY <3>2, <1>0, <2>1 DEF Placed
    <3> QED BY <3>1, <3>2, <1>0, <1>2 DEF IInv, NoneForgotten
  <2>6. LockInv'
    <3>1. \A q \in Proc, u \in Thread : Locks(q, u)' => Locks(q, u) BY <1>0, <2>1 DEF Locks
    <3> QED BY <3>1, <1>0 DEF IInv, LockInv
  <2>7. JobInv' BY <1>0, <2>1 DEF IInv, JobInv
  <2>8. CloseInv'
    <3>1. \A u \in Thread : Stripped(u) => Stripped(u)' BY <1>0 DEF Stripped
    <3> QED BY <3>1, <1>0, <2>1, ClosedKept
  <2> QED BY <2>2, <2>3, <2>4, <2>5, <2>6, <2>7, <2>8 DEF IInv
<1>3. CASE /\ at' = [at EXCEPT ![W(t)] = "run"] /\ unborn # {}
           /\ LET sh == CHOOSE x \in unborn : TRUE
              IN  /\ held' = [held EXCEPT ![t] = sh]
                  /\ unborn' = unborn \ {sh} /\ alive' = alive \cup {sh}
  BY <1>3, <1>2
<1> QED BY <1>1, <1>3 DEF ShellStarts

(* A shell leaves the client for the stash, where none was.                *)
LEMMA EvictTakeIInv ==
  ASSUME ClientsAssumption, IInv, NEW p \in Evictors, EvictTake(p)
  PROVE  IInv'
<1> USE Procs DEF sweepVars, histVars, Goto
<1> DEFINE t == Head(job[p])
           sh == IF HasLiveShell(t) THEN held[t] ELSE None
<1>0. /\ at \in [Proc -> Labels] /\ client \in [Thread -> Nat] /\ lock \in [Thread -> Proc \cup {None}]
      /\ held \in [Thread -> Shell \cup {None}] /\ stash \in [Thread -> Shell \cup {None}]
      /\ job \in [Proc -> Seq(Thread)] /\ alive \subseteq Shell /\ None \notin Proc /\ None \notin Shell
  BY DEF IInv, TypeInv, ClientsAssumption
<1>1. at[p] = "asked" /\ job[p] # <<>> /\ p \in Proc /\ p # Closer BY DEF EvictTake, IInv, JobInv
<1>2. t \in Thread BY <1>0, <1>1
<1>3. /\ lock[t] = None /\ client[t] # 0 /\ ~Busy(t) /\ stash[t] = None
      /\ UNCHANGED <<alive, unborn, inhand, job, phase, cli, late, lost>>
  BY <1>2 DEF EvictTake, IInv, ClientInv
<1>4. /\ \A q \in Proc : at'[q] = IF q = p THEN "closing" ELSE at[q]
      /\ \A u \in Thread : lock'[u] = IF u = t THEN p ELSE lock[u]
      /\ \A u \in Thread : client'[u] = IF u = t THEN 0 ELSE client[u]
      /\ \A u \in Thread : held'[u] = IF u = t THEN None ELSE held[u]
      /\ \A u \in Thread : stash'[u] = IF u = t THEN sh ELSE stash[u]
  BY <1>0, <1>1, <1>2, <1>3 DEF EvictTake
<1>5. TypeInv'
  <2>1. at' \in [Proc -> Labels] BY <1>0 DEF EvictTake, Labels
  <2>2. lock' \in [Thread -> Proc \cup {None}] /\ client' \in [Thread -> Nat]
        /\ held' \in [Thread -> Shell \cup {None}]
    BY <1>0, <1>1 DEF EvictTake
  <2>3. stash' \in [Thread -> Shell \cup {None}] BY <1>0, <1>2 DEF EvictTake
  <2> QED BY <2>1, <2>2, <2>3, <1>3 DEF IInv, TypeInv
<1>s. sh \in {held[t], None} /\ (held[t] \in alive => sh = held[t]) BY <1>0 DEF HasLiveShell
<1> HIDE DEF t, sh
<1>6. ClientInv'
  <2>1. \A u \in Thread : Busy(u)' <=> Busy(u)
    <3>1. ASSUME NEW u \in Thread, p = W(u) PROVE at[W(u)] # "idle" BY <3>1, <1>1
    <3> QED BY <3>1, <1>4 DEF Busy
  <2>2. \A u \in Thread : at'[<<"submit", u>>] = at[<<"submit", u>>] BY <1>4
  <2>3. \A u \in Thread : at'[W(u)] = "spawn" => held'[u] \notin alive BY <1>0, <1>4 DEF IInv, ClientInv
  <2>4. \A q \in Proc : inhand[q] # None => q # p BY DEF IInv, ClientInv
  <2> QED BY <2>1, <2>2, <2>3, <2>4, <1>3, <1>4 DEF IInv, ClientInv
<1>7. PlaceInv'
  <2>0. PlaceInv /\ stash[t] = None /\ inhand' = inhand /\ unborn' = unborn BY <1>3 DEF IInv
  <2>u. None \notin unborn BY <1>0 DEF IInv, TypeInv
  <2>1. \A u \in Thread : held'[u] # None => u # t /\ held'[u] = held[u] BY <1>4
  <2>2. \A u \in Thread : stash'[u] # None => \/ u # t /\ stash'[u] = stash[u]
                                              \/ u = t /\ stash'[u] = held[t]
    BY <1>4, <1>s
  <2>a. \A u, v \in Thread : u # v /\ held'[u] # None => held'[u] # held'[v]
    BY <2>0, <2>1 DEF PlaceInv
  <2>b. \A u, v \in Thread : u # v /\ stash'[u] # None => stash'[u] # stash'[v]
    BY <2>0, <2>2, <1>2 DEF PlaceInv
  <2>d. \A u, v \in Thread : held'[u] # None => held'[u] # stash'[v]
    BY <2>0, <2>1, <2>2, <1>2 DEF PlaceInv
  <2>e. \A u \in Thread, q \in Proc : inhand'[q] # None => inhand'[q] # held'[u] /\ inhand'[q] # stash'[u]
    BY <2>0, <2>1, <2>2, <1>2 DEF PlaceInv
  <2>f. \A u \in Thread : held'[u] \notin unborn' /\ stash'[u] \notin unborn'
    BY <2>0, <2>u, <2>1, <2>2, <1>2 DEF PlaceInv
  <2> QED BY <2>0, <2>a, <2>b, <2>d, <2>e, <2>f, <1>3 DEF PlaceInv
<1>8. NoneForgotten'
  <2>1. ASSUME NEW x \in alive, Placed(x) PROVE Placed(x)'
    <3>0. x # None BY <1>0
    <3>1. CASE held[t] = x
      <4>1. stash'[t] = x BY <3>1, <1>2, <1>4, <1>s
      <4> QED BY <4>1, <1>2 DEF Placed
    <3>2. CASE \E u \in Thread : u # t /\ held[u] = x BY <3>2, <1>4 DEF Placed
    <3>3. CASE \E u \in Thread : stash[u] = x
      <4>1. PICK u \in Thread : stash[u] = x BY <3>3
      <4>2. stash'[u] = x BY <4>1, <3>0, <1>3, <1>4
      <4> QED BY <4>2 DEF Placed
    <3>4. CASE \E q \in Proc : inhand[q] = x BY <3>4, <1>3 DEF Placed
    <3> QED BY <2>1, <3>1, <3>2, <3>3, <3>4 DEF Placed
  <2> QED BY <2>1, <1>3 DEF IInv, NoneForgotten
<1>9. LockInv'
  <2>1. \A q \in Proc, u \in Thread : q # p /\ Locks(q, u)' => Locks(q, u) BY <1>3, <1>4 DEF Locks
  <2>2. \A u \in Thread : Locks(p, u)' => u = t BY <1>3 DEF Locks, t
  <2>3. \A u \in Thread \ {t} : lock'[u] = lock[u] BY <1>4
  <2>4. \A u \in Thread : Locks(p, u)' => lock'[u] = p BY <2>2, <1>4
  <2> QED BY <2>1, <2>3, <2>4, <1>0, <1>1, <1>2, <1>3, LocksKept
<1>10. JobInv' BY <1>3, <1>4 DEF IInv, JobInv
<1>11. CloseInv'
  <2>1. \A u \in Thread : Stripped(u) => Stripped(u)' BY <1>3, <1>4 DEF Stripped
  <2>2. at[Closer] = "closing" => client'[Head(job[Closer])] = client[Head(job[Closer])]
    <3>1. SUFFICES ASSUME at[Closer] = "closing"
                   PROVE  client'[Head(job[Closer])] = client[Head(job[Closer])]
      OBVIOUS
    <3>2. job[Closer] # <<>> BY <3>1 DEF IInv, JobInv
    <3>3. Head(job[Closer]) \in Thread BY <3>2, <1>0
    <3>4. client[Head(job[Closer])] = 0 BY <3>1 DEF IInv, CloseInv
    <3> QED BY <3>3, <3>4, <1>4
  <2>3. \A u \in Thread : Stripped(u) /\ stash[u] = None => stash'[u] = None
    BY <1>2, <1>3, <1>4 DEF Stripped
  <2> QED BY <2>1, <2>2, <2>3, <1>1, <1>3, <1>4, ClosedKept
<1> QED BY <1>5, <1>6, <1>7, <1>8, <1>9, <1>10, <1>11 DEF IInv

-----------------------------------------------------------------------------
(* Locks that are taken and let go                                         *)

(* A task that closes whatever client the thread has takes its lock.       *)
LEMMA TakesLock ==
  ASSUME ClientsAssumption, IInv, NEW p \in Proc \ Evictors, NEW t \in Thread, inhand[p] = None,
         at' = [at EXCEPT ![p] = "join"],
         \/ p = <<"reset", t>>
         \/ p = Closer /\ at[p] = "records" /\ job[p] # <<>> /\ Head(job[p]) = t,
         lock' = [lock EXCEPT ![t] = p], lock[t] = None,
         UNCHANGED <<client, held, stash, inhand, alive, unborn, job, phase, cli, late, lost>>
  PROVE  IInv'
<1> USE Procs
<1>1. /\ at \in [Proc -> Labels] /\ lock \in [Thread -> Proc \cup {None}] /\ None \notin Proc
      /\ \A q \in Proc : at'[q] = IF q = p THEN "join" ELSE at[q]
      /\ \A u \in Thread : lock'[u] = IF u = t THEN p ELSE lock[u]
  BY DEF IInv, TypeInv, ClientsAssumption
<1>2. TypeInv' BY <1>1 DEF IInv, TypeInv, Labels
<1>3. ClientInv'
  <2>1. \A u \in Thread : Busy(u)' <=> Busy(u) BY <1>1, ZenonT(30) DEF Busy
  <2>2. \A q \in Proc : at'[q] \in {"spawn", "closing"} => at[q] = at'[q] BY <1>1
  <2> QED BY <2>1, <2>2, <1>1 DEF IInv, ClientInv
<1>4. PlaceInv' /\ NoneForgotten' BY ShellsStay
<1>5. LockInv'
  <2>1. \A q \in Proc, u \in Thread : q # p /\ Locks(q, u)' => Locks(q, u) BY <1>1 DEF Locks
  <2>2. ASSUME NEW u \in Thread, Locks(p, u)' PROVE u = t
    <3>1. at'[p] = "join" BY <1>1
    <3>2. p = <<"reset", u>> \/ (p = Closer /\ Head(job[p]) = u) BY <3>1, <2>2 DEF Locks
    <3>3. CASE p = Closer BY <3>2, <3>3, Zenon
    <3>4. CASE p # Closer
      <4>1. p = <<"reset", u>> /\ p = <<"reset", t>> BY <3>2, <3>4, Zenon
      <4>2. p[2] = u /\ p[2] = t BY <4>1
      <4> QED BY <4>2
    <3> QED BY <3>3, <3>4
  <2> QED BY <2>1, <2>2, <1>1, LocksKept
<1>6. JobInv' BY <1>1 DEF IInv, JobInv
<1>7. CloseInv'
  <2>1. \A u \in Thread : Stripped(u)' <=> Stripped(u) BY DEF Stripped
  <2>2. \A u \in Thread : Visited(u)' <=> Visited(u) BY <1>1 DEF Visited
  <2>3. at'[Closer] = "done" <=> at[Closer] = "done" BY <1>1
  <2>4. at'[Closer] = "closing" <=> at[Closer] = "closing" BY <1>1
  <2> QED BY <2>1, <2>2, <2>3, <2>4 DEF IInv, CloseInv
<1> QED BY <1>2, <1>3, <1>4, <1>5, <1>6, <1>7 DEF IInv

(* A client is closed: the shell in hand is killed, and a stashed one that *)
(* is dropped with it.                                                     *)
LEMMA Closes ==
  ASSUME ClientsAssumption, IInv, NEW p \in Proc \ Evictors, NEW t \in Thread,
         at[p] = "closing", NEW l \in {"idle", "records"}, at' = [at EXCEPT ![p] = l],
         \/ p \in {<<"reset", t>>, <<"change", t>>} /\ UNCHANGED job
         \/ p = Closer /\ l = "records" /\ Head(job[p]) = t /\ job' = [job EXCEPT ![p] = Tail(@)],
         NEW S, alive' = alive \ S, inhand[p] \in S, inhand' = [inhand EXCEPT ![p] = None],
         stash' = stash \/ (stash' = [stash EXCEPT ![t] = None] /\ stash[t] \in S),
         lock' = [lock EXCEPT ![t] = None],
         UNCHANGED <<client, held, unborn, phase, cli, late, lost>>
  PROVE  IInv'
<1> USE Procs
<1>1. /\ at \in [Proc -> Labels] /\ lock \in [Thread -> Proc \cup {None}] /\ None \notin Proc
      /\ job \in [Proc -> Seq(Thread)] /\ None \notin alive /\ alive' \subseteq alive
      /\ stash \in [Thread -> Shell \cup {None}] /\ inhand \in [Proc -> Shell \cup {None}]
      /\ None \notin unborn
  BY DEF IInv, TypeInv, ClientsAssumption
<1>2. /\ \A q \in Proc : at'[q] = IF q = p THEN l ELSE at[q]
      /\ \A u \in Thread : lock'[u] = IF u = t THEN None ELSE lock[u]
      /\ \A u \in Thread : stash'[u] = stash[u] \/ (u = t /\ stash'[u] = None /\ stash[u] \in S)
      /\ \A q \in Proc : inhand'[q] = IF q = p THEN None ELSE inhand[q]
      /\ \A q \in Proc : q # p => job'[q] = job[q]
  <2>1. /\ \A q \in Proc : at'[q] = IF q = p THEN l ELSE at[q]
        /\ \A u \in Thread : lock'[u] = IF u = t THEN None ELSE lock[u]
        /\ \A q \in Proc : inhand'[q] = IF q = p THEN None ELSE inhand[q]
    BY <1>1
  <2>2. \A u \in Thread : stash'[u] = stash[u] \/ (u = t /\ stash'[u] = None /\ stash[u] \in S)
    BY <1>1
  <2>3. job' = job \/ job' = [job EXCEPT ![p] = Tail(@)] BY Zenon
  <2>4. \A q \in Proc : q # p => job'[q] = job[q] BY <2>3, <1>1
  <2> QED BY <2>1, <2>2, <2>4
<1>3. p = Closer => job[p] # <<>> /\ job'[p] = Tail(job[p])
  BY <1>1, Zenon DEF IInv, JobInv
<1>4. TypeInv'
  <2>1. at' \in [Proc -> Labels] /\ lock' \in [Thread -> Proc \cup {None}]
        /\ inhand' \in [Proc -> Shell \cup {None}] /\ alive' \subseteq Shell
    BY <1>1 DEF Labels, IInv, TypeInv
  <2>2. stash' \in [Thread -> Shell \cup {None}] BY <1>1
  <2>3. job' \in [Proc -> Seq(Thread)]
    <3>1. CASE p = Closer
      <4>1. Tail(job[p]) \in Seq(Thread) BY <3>1, <1>1, <1>3
      <4>2. job' = [job EXCEPT ![p] = Tail(@)] BY <3>1
      <4> QED BY <4>1, <4>2, <1>1
    <3>2. CASE p # Closer BY <3>2, <1>1
    <3> QED BY <3>1, <3>2
  <2> QED BY <2>1, <2>2, <2>3 DEF IInv, TypeInv
<1>5. ClientInv'
  <2>1. \A u \in Thread : Busy(u)' <=> Busy(u) BY <1>2 DEF Busy
  <2>2. \A q \in Proc : at'[q] \in {"spawn", "closing"} => at[q] = at'[q] BY <1>2
  <2>3. \A u \in Thread : client[u] # 0 => stash'[u] = None BY <1>2 DEF IInv, ClientInv
  <2>4. \A u \in Thread : at'[W(u)] = "spawn" => held'[u] \notin alive'
    BY <2>2, <1>1 DEF IInv, ClientInv
  <2>5. \A q \in Proc : inhand'[q] # None => at'[q] = "closing" /\ q \notin Evictors
    BY <1>2 DEF IInv, ClientInv
  <2>6. \A u \in Thread : at'[<<"submit", u>>] = "closing" => client[u] = 0
    BY <2>2 DEF IInv, ClientInv
  <2>7. \A u \in Thread : (Busy(u) => client[u] # 0) /\ (client[u] = 0 => held[u] = None)
    BY DEF IInv, ClientInv
  <2> QED BY <2>1, <2>3, <2>4, <2>5, <2>6, <2>7 DEF ClientInv
<1>6. PlaceInv'
  <2>1. \A u \in Thread : stash'[u] # None => stash'[u] = stash[u] BY <1>2
  <2>2. \A q \in Proc : inhand'[q] # None => inhand'[q] = inhand[q] BY <1>2
  <2>3. PlaceInv /\ held' = held /\ unborn' = unborn BY DEF IInv
  <2>a. \A u, v \in Thread : u # v /\ stash'[u] # None => stash'[u] # stash'[v]
    BY <2>1, <2>3 DEF PlaceInv
  <2>b. \A q, r \in Proc : q # r /\ inhand'[q] # None => inhand'[q] # inhand'[r]
    BY <2>2, <2>3 DEF PlaceInv
  <2>c. \A u, v \in Thread : held'[u] # None => held'[u] # stash'[v] BY <2>1, <2>3 DEF PlaceInv
  <2>d. \A u \in Thread, q \in Proc : inhand'[q] # None => inhand'[q] # held'[u] /\ inhand'[q] # stash'[u]
    BY <2>1, <2>2, <2>3 DEF PlaceInv
  <2>e. \A u \in Thread : held'[u] \notin unborn' /\ stash'[u] \notin unborn'
    BY <2>1, <2>3, <1>1 DEF PlaceInv
  <2>f. \A q \in Proc : inhand'[q] \notin unborn' BY <2>2, <2>3, <1>1 DEF PlaceInv
  <2>g. alive' \cap unborn' = {} BY <2>3, <1>1 DEF PlaceInv
  <2> QED BY <2>3, <2>a, <2>b, <2>c, <2>d, <2>e, <2>f, <2>g DEF PlaceInv
<1>7. NoneForgotten'
  <2>1. ASSUME NEW x \in alive', Placed(x) PROVE Placed(x)'
    <3>1. x \notin S OBVIOUS
    <3> QED BY <2>1, <3>1, <1>2 DEF Placed
  <2> QED BY <2>1, <1>1 DEF IInv, NoneForgotten
<1>8. LockInv'
  <2>1. \A q \in Proc, u \in Thread : q # p /\ Locks(q, u)' => Locks(q, u) BY <1>2 DEF Locks
  <2>2. \A u \in Thread : ~Locks(p, u)' BY <1>2 DEF Locks
  <2>3. lock[t] = p
    <3>1. Locks(p, t) BY DEF Locks
    <3> QED BY <3>1 DEF IInv, LockInv
  <2>4. \A u \in Thread \ {t} : lock'[u] = lock[u] BY <1>2
  <2> QED BY <2>1, <2>2, <2>3, <2>4, <1>1, LocksKept
<1>9. JobInv' BY <1>2 DEF IInv, JobInv
<1>10. CloseInv'
  <2>1. \A u \in Thread : Stripped(u) => Stripped(u)' BY <1>2 DEF Stripped
  <2>2. CASE p # Closer
    <3>1. at'[Closer] = at[Closer] /\ job'[Closer] = job[Closer] BY <2>2, <1>2
    <3>2. \A u \in Thread : stash[u] = None => stash'[u] = None BY <1>2
    <3> QED BY <2>1, <3>1, <3>2, ClosedKept
  <2>3. CASE p = Closer
    <3>1. l = "records" /\ Head(job[Closer]) = t BY <2>3, Zenon
    <3>2. ASSUME NEW u \in Thread, Visited(u)', u # t PROVE Visited(u)
      <4>1. \A i \in DOMAIN Tail(job[Closer]) : Tail(job[Closer])[i] # u
        BY <2>3, <3>1, <3>2, <1>2, <1>3 DEF Visited
      <4>2. job[Closer] \in Seq(Thread) /\ job[Closer] # <<>> BY <2>3, <1>1, <1>3
      <4>3. \A i \in DOMAIN job[Closer] : job[Closer][i] # u
        <5> SUFFICES ASSUME NEW i \in DOMAIN job[Closer] PROVE job[Closer][i] # u OBVIOUS
        <5>1. CASE i = 1 BY <5>1, <3>1, <3>2, <4>2
        <5>2. CASE i # 1
          <6>1. i - 1 \in DOMAIN Tail(job[Closer]) /\ Tail(job[Closer])[i - 1] = job[Closer][i]
            BY <5>2, <4>2
          <6> QED BY <6>1, <4>1
        <5> QED BY <5>1, <5>2
      <4> QED BY <4>3, <2>3 DEF Visited
    <3>3. Stripped(t)
      <4>1. client[t] = 0 BY <2>3, <3>1 DEF IInv, CloseInv
      <4>2. lock[t] = Closer BY <2>3, <3>1 DEF IInv, LockInv, Locks
      <4>3. \A k \in {"submit", "reset", "change"} : inhand[<<k, t>>] = None
        <5> SUFFICES ASSUME NEW k \in {"submit", "reset", "change"}, inhand[<<k, t>>] # None PROVE FALSE
          OBVIOUS
        <5>1. at[<<k, t>>] = "closing" BY DEF IInv, ClientInv
        <5>2. Locks(<<k, t>>, t) BY <5>1 DEF Locks
        <5>3. lock[t] = <<k, t>> BY <5>2 DEF IInv, LockInv
        <5> QED BY <5>3, <4>2
      <4> QED BY <4>1, <4>3 DEF Stripped
    <3>4. at'[Closer] = "records" BY <2>3, <3>1, <1>2
    <3> QED BY <2>1, <3>2, <3>3, <3>4 DEF IInv, CloseInv
  <2> QED BY <2>2, <2>3
<1> QED BY <1>4, <1>5, <1>6, <1>7, <1>8, <1>9, <1>10 DEF IInv

(* An evicting task lets go of the lock it holds, if it holds one.         *)
LEMMA LetsGo ==
  ASSUME ClientsAssumption, IInv, NEW p \in Evictors, NEW l \in {"idle", "evict"},
         at[p] # "idle" \/ l = "idle",
         at' = [at EXCEPT ![p] = l],
         \/ lock' = lock
         \/ at[p] = "closing" /\ job[p] # <<>> /\ lock' = [lock EXCEPT ![Head(job[p])] = None],
         NEW s \in Seq(Thread), job' = [job EXCEPT ![p] = s],
         \/ phase' = phase /\ (p = Reaper => s = <<>> \/ phase # "shells")
         \/ phase' # "shells",
         UNCHANGED <<client, held, stash, inhand, alive, unborn, cli, late, lost>>
  PROVE  IInv'
<1> USE Procs
<1>1. /\ at \in [Proc -> Labels] /\ lock \in [Thread -> Proc \cup {None}] /\ None \notin Proc
      /\ job \in [Proc -> Seq(Thread)] /\ p \in Proc /\ p # Closer
  BY DEF IInv, TypeInv, ClientsAssumption
<1>2. /\ \A q \in Proc : at'[q] = IF q = p THEN l ELSE at[q]
      /\ \A q \in Proc : job'[q] = IF q = p THEN s ELSE job[q]
  BY <1>1
<1>3. TypeInv'
  <2>1. at' \in [Proc -> Labels] /\ job' \in [Proc -> Seq(Thread)] BY <1>1 DEF Labels
  <2>2. lock' \in [Thread -> Proc \cup {None}] BY <1>1
  <2> QED BY <2>1, <2>2 DEF IInv, TypeInv
<1>4. ClientInv'
  <2>1. \A u \in Thread : Busy(u)' => Busy(u) BY <1>2 DEF Busy
  <2>2. \A q \in Proc : at'[q] \in {"spawn", "closing"} => at[q] = at'[q] BY <1>2
  <2>3. \A q \in Proc : inhand[q] # None => at'[q] = "closing" /\ q \notin Evictors
    BY <1>2 DEF IInv, ClientInv
  <2> QED BY <2>1, <2>2, <2>3 DEF IInv, ClientInv
<1>5. PlaceInv' /\ NoneForgotten' BY ShellsStay
<1>6. LockInv'
  <2>1. \A q \in Proc, u \in Thread : q # p /\ Locks(q, u)' => Locks(q, u) BY <1>2 DEF Locks
  <2>2. \A u \in Thread : ~Locks(p, u)' BY <1>2 DEF Locks
  <2>3. CASE lock' = lock BY <2>1, <2>2, <2>3 DEF IInv, LockInv
  <2>4. CASE at[p] = "closing" /\ job[p] # <<>> /\ lock' = [lock EXCEPT ![Head(job[p])] = None]
    <3> DEFINE t == Head(job[p])
    <3>1. t \in Thread BY <2>4, <1>1
    <3>2. Locks(p, t) BY <2>4 DEF Locks
    <3>3. lock[t] = p BY <3>1, <3>2, <1>1 DEF IInv, LockInv
    <3>4. \A u \in Thread \ {t} : lock'[u] = lock[u] BY <2>4, <1>1
    <3> HIDE DEF t
    <3> QED BY <2>1, <2>2, <3>1, <3>3, <3>4, <1>1, LocksKept
  <2> QED BY <2>3, <2>4
<1>7. JobInv'
  <2>1. phase' = "shells" => job'[Reaper] = <<>> BY <1>2 DEF IInv, JobInv
  <2> QED BY <2>1, <1>2 DEF IInv, JobInv
<1>8. CloseInv'
  <2>1. \A u \in Thread : Stripped(u) => Stripped(u)' BY DEF Stripped
  <2> QED BY <2>1, <1>1, <1>2, ClosedKept
<1> QED BY <1>3, <1>4, <1>5, <1>6, <1>7, <1>8 DEF IInv

(* The steps of reset, settings change, aclose() and eviction that take or *)
(* leave the lock of a thread.                                             *)
LEMMA LockActions ==
  ASSUME ClientsAssumption, IInv,
         \/ \E t \in Thread : ResetLocks(t) \/ ResetEnds(t) \/ ChangeEnds(t)
         \/ \E p \in Evictors : EvictClosed(p) \/ Cancelled(p)
         \/ CloseLocks \/ CloseClosed
  PROVE  IInv'
<1> USE Procs DEF shellVars, sweepVars, histVars, Goto
<1>0. /\ job \in [Proc -> Seq(Thread)]
      /\ \A p \in Proc : inhand[p] # None => at[p] = "closing"
      /\ at[Closer] \in {"join", "closing"} => job[Closer] # <<>>
  BY DEF IInv, TypeInv, ClientInv, JobInv
<1>1. ASSUME NEW t \in Thread, ResetLocks(t) PROVE IInv'
  <2> DEFINE p == <<"reset", t>>
  <2>1. p \in Proc \ Evictors /\ inhand[p] = None BY <1>0, <1>1 DEF ResetLocks
  <2>2. /\ at' = [at EXCEPT ![p] = "join"] /\ lock' = [lock EXCEPT ![t] = p] /\ lock[t] = None
        /\ UNCHANGED <<client, held, stash, inhand, alive, unborn, job, phase, cli, late, lost>>
    BY <1>1 DEF ResetLocks
  <2> QED BY <2>1, <2>2, TakesLock
<1>2. CASE CloseLocks
  <2> DEFINE t == Head(job[Closer])
  <2>1. at[Closer] = "records" /\ job[Closer] # <<>> BY <1>2 DEF CloseLocks
  <2>2. t \in Thread /\ Closer \in Proc \ Evictors /\ inhand[Closer] = None BY <2>1, <1>0
  <2>3. /\ at' = [at EXCEPT ![Closer] = "join"] /\ lock' = [lock EXCEPT ![t] = Closer] /\ lock[t] = None
        /\ UNCHANGED <<client, held, stash, inhand, alive, unborn, job, phase, cli, late, lost>>
    BY <1>2 DEF CloseLocks
  <2> HIDE DEF t
  <2> QED BY <2>1, <2>2, <2>3, TakesLock DEF t
<1>3. ASSUME NEW t \in Thread, ResetEnds(t) PROVE IInv'
  <2> DEFINE p == <<"reset", t>>
             S == {inhand[p], stash[t]}
  <2>1. p \in Proc \ Evictors /\ at[p] = "closing" /\ inhand[p] \in S BY <1>3 DEF ResetEnds
  <2>2. /\ at' = [at EXCEPT ![p] = "idle"] /\ UNCHANGED job /\ alive' = alive \ S
        /\ inhand' = [inhand EXCEPT ![p] = None] /\ stash' = [stash EXCEPT ![t] = None] /\ stash[t] \in S
        /\ lock' = [lock EXCEPT ![t] = None]
        /\ UNCHANGED <<client, held, unborn, phase, cli, late, lost>>
    BY <1>3 DEF ResetEnds
  <2> HIDE DEF S
  <2> QED BY <2>1, <2>2, Closes
<1>4. ASSUME NEW t \in Thread, ChangeEnds(t) PROVE IInv'
  <2> DEFINE p == <<"change", t>>
             S == {inhand[p]}
  <2>1. p \in Proc \ Evictors /\ at[p] = "closing" /\ inhand[p] \in S BY <1>4 DEF ChangeEnds
  <2>2. /\ at' = [at EXCEPT ![p] = "idle"] /\ UNCHANGED job /\ alive' = alive \ S
        /\ inhand' = [inhand EXCEPT ![p] = None] /\ stash' = stash
        /\ lock' = [lock EXCEPT ![t] = None]
        /\ UNCHANGED <<client, held, unborn, phase, cli, late, lost>>
    BY <1>4 DEF ChangeEnds, Kill
  <2> HIDE DEF S
  <2> QED BY <2>1, <2>2, Closes
<1>5. CASE CloseClosed
  <2> DEFINE t == Head(job[Closer])
             S == {inhand[Closer]}
  <2>1. at[Closer] = "closing" /\ job[Closer] # <<>> BY <1>0, <1>5 DEF CloseClosed
  <2>2. t \in Thread /\ Closer \in Proc \ Evictors /\ inhand[Closer] \in S BY <2>1, <1>0
  <2>3. /\ at' = [at EXCEPT ![Closer] = "records"] /\ job' = [job EXCEPT ![Closer] = Tail(@)]
        /\ alive' = alive \ S /\ inhand' = [inhand EXCEPT ![Closer] = None] /\ stash' = stash
        /\ lock' = [lock EXCEPT ![t] = None]
        /\ UNCHANGED <<client, held, unborn, phase, cli, late, lost>>
    BY <1>5 DEF CloseClosed, Kill
  <2> HIDE DEF S, t
  <2> QED BY <2>1, <2>2, <2>3, Closes DEF t
<1>6. ASSUME NEW p \in Evictors, EvictClosed(p) PROVE IInv'
  <2>1. /\ at[p] = "closing" /\ job[p] # <<>> /\ lock' = [lock EXCEPT ![Head(job[p])] = None]
        /\ at' = [at EXCEPT ![p] = "evict"] /\ phase' = phase
        /\ UNCHANGED <<client, held, stash, inhand, alive, unborn, cli, late, lost>>
    BY <1>6 DEF EvictClosed, Proceed
  <2>2. PICK s \in Seq(Thread) : job' = [job EXCEPT ![p] = s]
    <3>1. Tail(job[p]) \in Seq(Thread) /\ <<>> \in Seq(Thread) BY <2>1, <1>0
    <3> QED BY <3>1, <1>6 DEF EvictClosed, Proceed, Rest
  <2>3. p = Reaper => phase # "shells" BY <2>1 DEF IInv, JobInv
  <2> QED BY <2>1, <2>2, <2>3, LetsGo
<1>7. ASSUME NEW p \in Evictors, Cancelled(p) PROVE IInv'
  <2>1. /\ lock' = lock \/ (at[p] = "closing" /\ job[p] # <<>> /\ lock' = [lock EXCEPT ![Head(job[p])] = None])
        /\ at' = [at EXCEPT ![p] = "idle"] /\ job' = [job EXCEPT ![p] = <<>>]
        /\ UNCHANGED <<client, held, stash, inhand, alive, unborn, cli, late, lost>>
    BY <1>7 DEF Cancelled
  <2>2. phase' = phase \/ phase' # "shells" BY <1>7 DEF Cancelled
  <2>3. <<>> \in Seq(Thread) OBVIOUS
  <2> QED BY <2>1, <2>2, <2>3, <1>7, LetsGo
<1> QED BY <1>1, <1>2, <1>3, <1>4, <1>5, <1>6, <1>7

-----------------------------------------------------------------------------
(* The reaper and aclose()                                                 *)

(* The entries of the stash the reaper goes through, and those it keeps    *)
(* for later.                                                              *)
LEMMA ReapShellsIInv ==
  ASSUME ClientsAssumption, IInv, job[Reaper] = <<>>, NEW listed, ReapShells(listed),
         UNCHANGED <<lock, client, held, unborn, inhand, job, cli, late>>
  PROVE  IInv'
<1> USE Procs DEF Goto
<1>0. /\ at \in [Proc -> Labels] /\ stash \in [Thread -> Shell \cup {None}] /\ None \notin unborn
      /\ None \notin alive
  BY DEF IInv, TypeInv, ClientsAssumption
<1>1. CASE /\ at' = [at EXCEPT ![Reaper] = "idle"] /\ phase' = "rest"
           /\ UNCHANGED <<alive, stash, expired, lost>>
  <2>1. Reaper \in Proc \ {Closer} /\ "idle" \in Labels /\ \A t \in Thread : Reaper # W(t) BY DEF Labels
  <2>2. inhand[Reaper] = None /\ job' \in [Proc -> Seq(Thread)] /\ cli' \in Nat \ {0}
    BY <2>1 DEF IInv, ClientInv, TypeInv
  <2> QED BY <2>1, <2>2, <1>1, Quiet
<1>2. ASSUME NEW e, at' = [at EXCEPT ![Reaper] = "closing"], phase' = "shells",
             alive' = alive \ {e.sh}, stash' = [stash EXCEPT ![e.t] = None],
             lost' = lost \cup ({stash[e.t]} \ {e.sh, None})
      PROVE  IInv'
  <2>1. /\ \A q \in Proc : at'[q] = IF q = Reaper THEN "closing" ELSE at[q]
        /\ \A u \in Thread : stash'[u] = IF u = e.t THEN None ELSE stash[u]
        /\ alive' \subseteq alive
    BY <1>2, <1>0
  <2>2. TypeInv' BY <1>2, <1>0 DEF IInv, TypeInv, Labels
  <2>3. ClientInv'
    <3>1. \A u \in Thread : Busy(u)' <=> Busy(u) BY <2>1 DEF Busy
    <3>2. \A q \in Proc \ Evictors : at'[q] = at[q] BY <2>1
    <3>3. \A u \in Thread : at'[W(u)] = "spawn" => held'[u] \notin alive'
      <4>1. \A u \in Thread : at'[W(u)] = at[W(u)] BY <2>1
      <4>2. \A u \in Thread : at[W(u)] = "spawn" => held[u] \notin alive BY DEF IInv, ClientInv
      <4> QED BY <4>1, <4>2, <2>1
    <3> QED BY <3>1, <3>2, <3>3, <2>1 DEF IInv, ClientInv
  <2>4. PlaceInv'
    <3>1. \A u \in Thread : stash'[u] # None => stash'[u] = stash[u] BY <2>1
    <3>2. \A u, v \in Thread : u # v /\ stash'[u] # None => stash'[u] # stash'[v]
      BY <3>1 DEF IInv, PlaceInv
    <3>3. \A u, v \in Thread : held'[u] # None => held'[u] # stash'[v] BY <3>1 DEF IInv, PlaceInv
    <3>4. \A u \in Thread, q \in Proc : inhand'[q] # None => inhand'[q] # held'[u] /\ inhand'[q] # stash'[u]
      BY <3>1 DEF IInv, PlaceInv
    <3>5. \A u \in Thread : held'[u] \notin unborn' /\ stash'[u] \notin unborn'
      BY <3>1, <1>0 DEF IInv, PlaceInv
    <3> QED BY <3>2, <3>3, <3>4, <3>5, <2>1 DEF IInv, PlaceInv
  <2>5. NoneForgotten'
    <3>1. ASSUME NEW x \in alive', Placed(x), x \notin lost' PROVE Placed(x)'
      <4>1. x # e.sh /\ x # None BY <1>2, <1>0
      <4>2. \A u \in Thread : stash[u] = x => u # e.t BY <3>1, <4>1, <1>2
      <4> QED BY <3>1, <4>2, <2>1 DEF Placed
    <3> QED BY <3>1, <2>1, <1>2 DEF IInv, NoneForgotten
  <2>6. LockInv'
    <3>1. \A q \in Proc, u \in Thread : Locks(q, u)' => Locks(q, u) BY <2>1 DEF Locks
    <3> QED BY <3>1 DEF IInv, LockInv
  <2>7. JobInv' BY <2>1 DEF IInv, JobInv
  <2>8. CloseInv'
    <3>1. \A u \in Thread : Stripped(u) => Stripped(u)' BY DEF Stripped
    <3> QED BY <3>1, <2>1, ClosedKept
  <2> QED BY <2>2, <2>3, <2>4, <2>5, <2>6, <2>7, <2>8 DEF IInv
<1> DEFINE Due(e) == e.old \/ e.sh \notin alive
           first == SelectInSeq(listed, Due)
<1>3. CASE first = 0 BY <1>1, <1>3 DEF ReapShells
<1>4. CASE first # 0 BY <1>2, <1>4 DEF ReapShells, Kill
<1> QED BY <1>3, <1>4

(* Whichever list of entries it goes through, the reaper has no client in  *)
(* hand.                                                                   *)
LEMMA SweepShellsIInv ==
  ASSUME ClientsAssumption, IInv, SweepShells
  PROVE  IInv'
<1>1. job[Reaper] = <<>> BY DEF SweepShells, IInv, JobInv
<1>2. PICK listed : ReapShells(listed)
  <2>1. CASE \E s \in SetToSeqs({[t |-> t, sh |-> stash[t], old |-> t \in expired] :
                                   t \in {u \in Thread : stash[u] # None}}) : ReapShells(s)
    BY <2>1
  <2>2. CASE ReapShells(doomed) BY <2>2
  <2> QED BY <2>1, <2>2 DEF SweepShells
<1>3. UNCHANGED <<lock, client, held, unborn, inhand, job, cli, late>> BY DEF SweepShells
<1> QED BY <1>1, <1>2, <1>3, ReapShellsIInv

(* aclose() from one part to the next: it visits the threads one by one,   *)
(* all of them.                                                            *)
LEMMA ClosingActions ==
  ASSUME ClientsAssumption, IInv, CloseSweeps \/ CloseUpdates \/ CloseRecords \/ CloseEnds
  PROVE  IInv'
<1> USE Procs DEF shellVars, sweepVars, histVars, Goto
<1>0. /\ at \in [Proc -> Labels] /\ job \in [Proc -> Seq(Thread)] /\ None \notin alive
      /\ stash \in [Thread -> Shell \cup {None}] /\ None \notin unborn
  BY DEF IInv, TypeInv, ClientsAssumption
<1>1. PICK l \in {"sweeps", "updates", "records", "done"} : at' = [at EXCEPT ![Closer] = l]
  BY DEF CloseSweeps, CloseUpdates, CloseRecords, CloseEnds
<1>2. /\ \A q \in Proc : at'[q] = IF q = Closer THEN l ELSE at[q]
      /\ at[Closer] \notin {"join", "closing"}
      /\ UNCHANGED <<lock, client, held, inhand, unborn, phase, cli, late, lost>>
  BY <1>0, <1>1 DEF CloseSweeps, CloseUpdates, CloseRecords, CloseEnds, Up
<1>3. /\ \A u \in Thread : stash'[u] \in {stash[u], None}
      /\ alive' \subseteq alive /\ \A x \in alive' : \A u \in Thread : stash[u] = x => stash'[u] = x
      /\ \A u \in Thread : stash[u] = None => stash'[u] = None
      /\ stash' \in [Thread -> Shell \cup {None}]
  <2>1. CASE UNCHANGED <<stash, alive>> BY <2>1, <1>0
  <2>2. CASE CloseEnds BY <2>2, <1>0 DEF CloseEnds
  <2> QED BY <2>1, <2>2 DEF CloseSweeps, CloseUpdates, CloseRecords
<1>4. job' \in [Proc -> Seq(Thread)] /\ \A q \in Evictors : job'[q] = job[q]
  <2>1. CASE UNCHANGED job BY <2>1, <1>0
  <2>2. CASE CloseRecords
    <3>1. PICK s \in SetToSeqs(Thread) : job' = [job EXCEPT ![Closer] = s] BY <2>2 DEF CloseRecords
    <3>2. s \in Seq(Thread) BY Lists
    <3> QED BY <3>1, <3>2, <1>0
  <2> QED BY <2>1, <2>2 DEF CloseSweeps, CloseUpdates, CloseEnds
<1>5. TypeInv'
  <2>1. at' \in [Proc -> Labels] BY <1>0, <1>1 DEF Labels
  <2> QED BY <2>1, <1>2, <1>3, <1>4 DEF IInv, TypeInv
<1>6. ClientInv'
  <2>1. \A u \in Thread : Busy(u)' <=> Busy(u) BY <1>2 DEF Busy
  <2>2. \A q \in Proc \ {Closer} : at'[q] = at[q] BY <1>2
  <2>3. inhand[Closer] = None BY <1>2 DEF IInv, ClientInv
  <2>4. \A u \in Thread : at'[W(u)] = "spawn" => held'[u] \notin alive'
    <3>1. \A u \in Thread : at'[W(u)] = at[W(u)] BY <1>2
    <3>2. \A u \in Thread : at[W(u)] = "spawn" => held[u] \notin alive BY DEF IInv, ClientInv
    <3> QED BY <3>1, <3>2, <1>2, <1>3
  <2> QED BY <2>1, <2>2, <2>3, <2>4, <1>2, <1>3 DEF IInv, ClientInv
<1>7. PlaceInv'
  <2>1. \A u \in Thread : stash'[u] # None => stash'[u] = stash[u] BY <1>3
  <2>2. \A u, v \in Thread : u # v /\ stash'[u] # None => stash'[u] # stash'[v]
    BY <2>1 DEF IInv, PlaceInv
  <2>3. \A u, v \in Thread : held'[u] # None => held'[u] # stash'[v] BY <2>1, <1>2 DEF IInv, PlaceInv
  <2>4. \A u \in Thread, q \in Proc : inhand'[q] # None => inhand'[q] # held'[u] /\ inhand'[q] # stash'[u]
    BY <2>1, <1>2 DEF IInv, PlaceInv
  <2>5. \A u \in Thread : held'[u] \notin unborn' /\ stash'[u] \notin unborn'
    BY <2>1, <1>0, <1>2 DEF IInv, PlaceInv
  <2> QED BY <2>2, <2>3, <2>4, <2>5, <1>2, <1>3 DEF IInv, PlaceInv
<1>8. NoneForgotten'
  <2>1. ASSUME NEW x \in alive', Placed(x) PROVE Placed(x)' BY <2>1, <1>2, <1>3 DEF Placed
  <2> QED BY <2>1, <1>2, <1>3 DEF IInv, NoneForgotten
<1>9. LockInv'
  <2>1. \A q \in Proc, u \in Thread : Locks(q, u)' => Locks(q, u) BY <1>2, <1>4 DEF Locks
  <2> QED BY <2>1, <1>2 DEF IInv, LockInv
<1>10. JobInv'
  <2>1. at'[Closer] \notin {"join", "closing"} BY <1>2
  <2>2. \A q \in Evictors : at'[q] = at[q] BY <1>2
  <2> QED BY <2>1, <2>2, <1>2, <1>4 DEF IInv, JobInv
<1>11. CloseInv'
  <2>1. \A u \in Thread : Stripped(u)' <=> Stripped(u) BY <1>2 DEF Stripped
  <2>2. at'[Closer] = l /\ l # "closing" BY <1>2
  <2>3. CASE CloseEnds
    <3>1. at[Closer] = "records" /\ job[Closer] = <<>> BY <2>3 DEF CloseEnds
    <3>2. \A u \in Thread : Visited(u) BY <3>1 DEF Visited
    <3>3. \A u \in Thread : stash'[u] = None BY <2>3 DEF CloseEnds
    <3> QED BY <3>2, <3>3, <2>1, <2>2, <1>2 DEF IInv, CloseInv
  <2>4. CASE CloseRecords
    <3>1. PICK s \in SetToSeqs(Thread) : job' = [job EXCEPT ![Closer] = s] BY <2>4 DEF CloseRecords
    <3>2. job'[Closer] = s BY <3>1, <1>0
    <3>3. \A u \in Thread : \E i \in DOMAIN s : s[i] = u BY Lists
    <3>4. at'[Closer] = "records" BY <2>4, <1>0 DEF CloseRecords
    <3>5. \A u \in Thread : ~Visited(u)' BY <3>2, <3>3, <3>4 DEF Visited
    <3> QED BY <3>4, <3>5 DEF CloseInv
  <2>5. CASE CloseSweeps \/ CloseUpdates
    <3>1. at'[Closer] \in {"sweeps", "updates"} BY <2>5, <1>0 DEF CloseSweeps, CloseUpdates
    <3>2. \A u \in Thread : ~Visited(u)' BY <3>1 DEF Visited
    <3> QED BY <3>1, <3>2 DEF CloseInv
  <2> QED BY <2>3, <2>4, <2>5
<1> QED BY <1>5, <1>6, <1>7, <1>8, <1>9, <1>10, <1>11 DEF IInv

(* A shell that dies by itself; one that grows old in the stash.           *)
LEMMA TimeActions ==
  ASSUME ClientsAssumption, IInv, (\E t \in Thread : Expire(t)) \/ \E sh \in Shell : ShellDies(sh)
  PROVE  IInv'
<1>1. /\ UNCHANGED <<at, lock, client, held, stash, inhand, unborn, job, phase, cli, late, lost>>
      /\ alive' \subseteq alive
  BY DEF Expire, ShellDies, Kill, sweepVars, histVars
<1>2. TypeInv' /\ LockInv' /\ JobInv' BY <1>1 DEF IInv, TypeInv, LockInv, Locks, JobInv
<1>3. ClientInv' BY <1>1 DEF IInv, ClientInv, Busy
<1>4. PlaceInv' BY <1>1 DEF IInv, PlaceInv
<1>5. NoneForgotten' BY <1>1 DEF IInv, NoneForgotten, Placed
<1>6. CloseInv' BY <1>1 DEF IInv, CloseInv, Visited, Stripped
<1> QED BY <1>2, <1>3, <1>4, <1>5, <1>6 DEF IInv

-----------------------------------------------------------------------------
(* The invariant of the specification                                      *)

(* No task runs and nothing is alive.                                      *)
LEMMA InitIInv ==
  ASSUME ClientsAssumption, Init
  PROVE  IInv
<1> USE Procs DEF Init
<1>0. \A p \in Proc : at[p] = IF p = Closer THEN "off" ELSE "idle" OBVIOUS
<1>1. TypeInv
  <2>1. at \in [Proc -> Labels] BY DEF Labels
  <2>2. job \in [Proc -> Seq(Thread)] OBVIOUS
  <2> QED BY <2>1, <2>2 DEF TypeInv
<1>2. ClientInv BY <1>0 DEF ClientInv, Busy
<1>3. PlaceInv BY DEF PlaceInv, ClientsAssumption
<1>4. NoneForgotten BY DEF NoneForgotten
<1>5. LockInv BY <1>0 DEF LockInv, Locks
<1>6. JobInv BY <1>0 DEF JobInv
<1>7. CloseInv BY <1>0 DEF CloseInv, Visited
<1> QED BY <1>1, <1>2, <1>3, <1>4, <1>5, <1>6, <1>7 DEF IInv

(* Every action of every task keeps the invariant.                         *)
LEMMA NextIInv ==
  ASSUME ClientsAssumption, IInv, [Next]_vars
  PROVE  IInv'
<1>1. CASE UNCHANGED vars
  <2>1. UNCHANGED <<at, lock, client, held, stash, inhand, alive, unborn, job, phase, cli, late, lost>>
    BY <1>1 DEF vars, shellVars, sweepVars, histVars
  <2>2. TypeInv' /\ LockInv' /\ JobInv' BY <2>1 DEF IInv, TypeInv, LockInv, Locks, JobInv
  <2>3. ClientInv' BY <2>1 DEF IInv, ClientInv, Busy
  <2>4. PlaceInv' /\ NoneForgotten' BY <2>1, ShellsStay
  <2>5. CloseInv' BY <2>1 DEF IInv, CloseInv, Visited, Stripped
  <2> QED BY <2>2, <2>3, <2>4, <2>5 DEF IInv
<1>2. ASSUME NEW p \in Evictors, Evicting(p) PROVE IInv'
  BY <1>2, QuietActions, EvictTakeIInv, LockActions DEF Evicting
<1>3. ASSUME NEW t \in Thread, Submitting(t) PROVE IInv'
  BY <1>3, SubmitReuseIInv, SubmitBuildIInv, TakingActions DEF Submitting
<1>4. ASSUME NEW t \in Thread, Working(t) PROVE IInv'
  BY <1>4, QuietActions, ShellStartsIInv DEF Working
<1>5. ASSUME NEW t \in Thread, Resetting(t) \/ Changing(t) PROVE IInv'
  BY <1>5, QuietActions, TakingActions, LockActions DEF Resetting, Changing
<1>6. CASE Sweeping BY <1>6, QuietActions, SweepShellsIInv DEF Sweeping
<1>7. CASE Closing BY <1>7, ClosingActions, TakingActions, LockActions DEF Closing
<1>8. CASE Tasks BY <1>2, <1>3, <1>4, <1>5, <1>6, <1>7, <1>8, Procs, QuietActions DEF Tasks
<1>9. CASE Calls BY <1>9, QuietActions, TimeActions, ClosingActions DEF Calls
<1> QED BY <1>1, <1>8, <1>9 DEF Next

(* The places of shells, the locks and the tasks fit together in every     *)
(* state.                                                                  *)
THEOREM ClientsStay == MCSpec => []IInv
<1>1. MCInit => IInv
  BY InitIInv, ThreadsAssumption DEF MCInit
<1>2. IInv /\ [MCNext]_mcvars => IInv'
  <2> SUFFICES ASSUME IInv, [MCNext]_mcvars PROVE IInv'
    OBVIOUS
  <2>1. [Next]_vars
    BY DEF MCNext, mcvars, vars
  <2> QED
    BY <2>1, NextIInv, ThreadsAssumption
<1> QED
  BY <1>1, <1>2, PTL DEF MCSpec

-----------------------------------------------------------------------------
(* What it says of the bot                                                 *)

(* The owners of a running shell are the one place it is in.               *)
LEMMA OneOwner ==
  ASSUME ClientsAssumption, IInv
  PROVE  ShellHasOneOwner
<1> SUFFICES ASSUME NEW sh \in alive
             PROVE  Cardinality(Owners(sh)) = 1 \/ (sh \in lost /\ Owners(sh) = {})
  BY DEF ShellHasOneOwner
<1>0. sh # None BY DEF IInv, TypeInv, ClientsAssumption
<1>1. \A t, u \in Thread : held[t] = sh => stash[u] # sh /\ (held[u] = sh => u = t)
  BY <1>0 DEF IInv, PlaceInv
<1>2. \A t, u \in Thread : stash[t] = sh /\ stash[u] = sh => t = u BY <1>0 DEF IInv, PlaceInv
<1>3. \A p, q \in Proc : inhand[p] = sh /\ inhand[q] = sh => p = q BY <1>0 DEF IInv, PlaceInv
<1>4. \A t \in Thread, p \in Proc : inhand[p] = sh => held[t] # sh /\ stash[t] # sh
  BY <1>0 DEF IInv, PlaceInv
<1>5. ASSUME NEW x, Owners(sh) = {x} PROVE Cardinality(Owners(sh)) = 1 BY <1>5, FS_Singleton
<1>6. ASSUME NEW t \in Thread, held[t] = sh PROVE Owners(sh) = {<<"client", t>>}
  BY <1>6, <1>1, <1>4 DEF Owners
<1>7. ASSUME NEW t \in Thread, stash[t] = sh PROVE Owners(sh) = {<<"stash", t>>}
  BY <1>7, <1>1, <1>2, <1>4 DEF Owners
<1>8. ASSUME NEW p \in Proc, inhand[p] = sh PROVE Owners(sh) = {<<"task", p>>}
  BY <1>8, <1>3, <1>4 DEF Owners
<1>9. CASE Placed(sh) BY <1>5, <1>6, <1>7, <1>8, <1>9 DEF Placed
<1>10. CASE ~Placed(sh)
  <2>1. Owners(sh) = {} BY <1>10 DEF Placed, Owners
  <2>2. sh \in lost BY <1>10 DEF IInv, NoneForgotten
  <2> QED BY <2>1, <2>2
<1> QED BY <1>9, <1>10

(* When every thread is stripped there is no place left for a shell.       *)
LEMMA AllClosed ==
  ASSUME ClientsAssumption, IInv
  PROVE  ClosedIsClosed
<1> SUFFICES ASSUME at[Closer] = "done", late = {}
             PROVE  LiveThreads = {} /\ alive \subseteq lost
  BY DEF ClosedIsClosed
<1>1. \A t \in Thread : Stripped(t) /\ stash[t] = None BY DEF IInv, CloseInv, Visited
<1>2. LiveThreads = {} BY <1>1 DEF LiveThreads, Stripped
<1>3. \A t \in Thread : held[t] = None BY <1>1 DEF Stripped, IInv, ClientInv
<1>4. \A p \in Proc : inhand[p] = None
  <2> SUFFICES ASSUME NEW p \in Proc, inhand[p] # None PROVE FALSE OBVIOUS
  <2>1. p \notin Evictors /\ p # Closer BY Procs DEF IInv, ClientInv
  <2>2. \E t \in Thread, k \in {"submit", "reset", "change"} : p = <<k, t>>
    BY <2>1 DEF Proc, Evictors, W
  <2> QED BY <2>2, <1>1 DEF Stripped
<1>5. \A sh \in alive : ~Placed(sh)
  <2>1. None \notin alive BY DEF IInv, TypeInv, ClientsAssumption
  <2> QED BY <2>1, <1>1, <1>3, <1>4 DEF Placed
<1> QED BY <1>2, <1>5 DEF IInv, NoneForgotten

(* A running shell is in one client, in one entry of the stash or in the   *)
(* hands of one task, unless the reaper popped it for another's sake.      *)
THEOREM ShellOwned == MCSpec => []ShellHasOneOwner
<1>1. IInv => ShellHasOneOwner BY OneOwner, ThreadsAssumption
<1> QED BY <1>1, ClientsStay, PTL

(* Nothing that takes a client takes it from under a turn.                 *)
THEOREM TurnSafe == MCSpec => []TurnKeepsClient
<1>1. IInv => TurnKeepsClient BY DEF IInv, ClientInv, TurnKeepsClient, Busy
<1> QED BY <1>1, ClientsStay, PTL

(* After aclose() no client and no shell is left, but for a late message   *)
(* and the shells the reaper popped.                                       *)
THEOREM ShutdownCloses == MCSpec => []ClosedIsClosed
<1>1. IInv => ClosedIsClosed BY AllClosed, ThreadsAssumption
<1> QED BY <1>1, ClientsStay, PTL

-----------------------------------------------------------------------------
(* Registry                                                                *)

(* Where the code of a task can be, and what it returns to.                *)
Finding == {"resolve", "heal", "first", "heal point"}
Tidying == {"page", "stats", "each", "name", "tidy reset", "tidy delete"}
Rotating == {"count", "evict", "reset", "delete", "create", "in place", "point", "settle"} \cup Tidying
MsgAt == Finding \cup Rotating \cup {"idle", "lock", "decide", "ensure", "submit", "done"}
TapAt == Tidying \cup {"first", "heal point", "count", "create", "point", "keep", "seen", "star",
                       "user reset", "user delete", "gone", "advance", "enable", "idle", "done"}
SchedulerAt == {"idle", "guard", "disable", "advance", "ensure", "submit", "stamp"}
TaskAt == MsgAt \cup TapAt \cup SchedulerAt

Locals == [pc : TaskAt, after : TaskAt, key : Reg!Key \cup {0}, cands : SUBSET Reg!Key,
           titled : SUBSET Reg!Key, spent : SUBSET Reg!Key, victim : Reg!Key \cup {0}, counted : Nat,
           alone : BOOLEAN, calm : BOOLEAN, slot : Nat, nxt : Nat, on : BOOLEAN]

MsgLocal(r) ==
  /\ r.pc \in MsgAt
  /\ r.pc \in Finding => r.after \in {"lock", "ensure", "decide"}
  /\ r.pc \in Tidying => r.after = "settle"
  /\ r.pc \in Rotating \cup {"heal point", "decide", "ensure", "submit"} => r.key # 0
TapLocal(r) ==
  /\ r.pc \in TapAt
  /\ r.pc \in {"first", "heal point"} \cup Tidying => r.after = "done"
  /\ r.pc \in {"count", "create"} => r.after \in {"keep", "done"}
  /\ r.pc = "point" => r.after \in {"keep", "done", "seen"}
SweeperLocal(r) ==
  /\ r.pc \in Tidying \cup {"idle"}
  /\ r.pc \in Tidying => r.after = "idle"
LocalOK(p, r) ==
  /\ r \in Locals
  /\ p \in Msg => MsgLocal(r)
  /\ p \in Tap => TapLocal(r)
  /\ p = Sweeper => SweeperLocal(r)
  /\ p = Scheduler => r.pc \in SchedulerAt /\ (r.pc # "idle" => r.key # 0)

Store ==
  /\ rows \subseteq Reg!Key /\ used \subseteq Reg!Key /\ seq \in Reg!Key
  /\ row \in [Reg!Key -> [name : Reg!Name, fav : BOOLEAN, active : BOOLEAN]]
  /\ current \in Reg!Key \cup {0} /\ seen \in {"never", "fresh", "stale"}
  /\ keyLock \in Msg \cup {None}
  /\ turns \in [Reg!Key -> SUBSET (Msg \cup {Scheduler})]
  /\ sch \in [there : BOOLEAN, on : BOOLEAN, next : Nat \ {0}, key : Reg!Key]
  /\ now \in 0..MaxTime /\ home \in Reg!Key \cup {0} /\ left \in Nat
  /\ fired \subseteq 1..MaxTime
  /\ astray = FALSE /\ over = FALSE /\ twice = FALSE
TaskInv == task \in [Reg!Task -> Locals] /\ \A p \in Reg!Task : LocalOK(p, task[p])

(* Between the second look-up of _rotate_if_idle and the decision it makes *)
(* a message has the lock.                                                 *)
Inside(r) == r.pc \in Rotating \cup {"decide"} \/ (r.pc \in Finding /\ r.after = "decide")
RotateInv == \A m \in Msg : Inside(task[m]) => keyLock = m

(* The home of the burst is the current session, and fresh.  A message     *)
(* that has the lock and was not disturbed is about the current session;   *)
(* when it rotates, there is no home to part from.                         *)
AboutKey == {"decide", "count", "evict", "reset", "delete", "in place", "settle"} \cup Tidying
Follows(r, c, h, s) ==
  /\ r.calm /\ r.pc \in AboutKey => r.key = c
  /\ r.calm /\ r.pc \in Rotating => s # "stale"
  /\ r.pc \in Rotating \/ ~r.calm => h = 0
HomeInv ==
  /\ home # 0 => home = current /\ seen # "stale"
  /\ keyLock # None => Follows(task[keyLock], current, home, seen)

(* Who counted alone finds no more rows than he counted, and one less when *)
(* there were too many.                                                    *)
Bounded(r, n) ==
  r.alone => /\ r.pc \in Reg!Counted => n <= r.counted
             /\ r.pc = "create" => n < SessionCap \/ n < r.counted
CapInv == \A p \in Reg!Task : Bounded(task[p], Reg!Cardinality(rows))

(* What was submitted lies before the next run, the occurrence in hand and *)
(* the time the sweep is about to write.                                   *)
DueInv ==
  LET r == task[Scheduler] IN
  /\ \A f \in fired : f < sch.next /\ f <= now
  /\ r.pc \in {"guard", "disable", "advance", "ensure", "submit"} =>
       r.slot \in 1..now /\ \A f \in fired : f < r.slot
  /\ r.pc \in {"ensure", "submit"} => r.slot < sch.next /\ r.slot < r.nxt
  /\ r.pc = "stamp" => r.nxt # 0 /\ \A f \in fired : f < r.nxt

RegInv == Store /\ TaskInv /\ RotateInv /\ HomeInv /\ CapInv /\ DueInv
-----------------------------------------------------------------------------
(* Tasks                                                                   *)

(* Every task has one of four roles.                                       *)
LEMMA Roles ==
  ASSUME Reg!RegistryAssumption
  PROVE  /\ \A p \in Reg!Task : p \in Msg \/ p \in Tap \/ p = Sweeper \/ p = Scheduler
         /\ \A m \in Msg : m \in Reg!Task /\ m \notin Tap /\ m # Sweeper /\ m # Scheduler /\ m # None
         /\ \A u \in Tap : u \in Reg!Task /\ u \notin Msg /\ u # Sweeper /\ u # Scheduler
         /\ Sweeper \in Reg!Task /\ Sweeper \notin Msg \cup Tap /\ Sweeper # Scheduler
         /\ Scheduler \in Reg!Task /\ Scheduler \notin Msg \cup Tap
         /\ None \notin Reg!Task
BY DEF Reg!RegistryAssumption, Reg!Task

(* Keys are numbered from 1.                                               *)
LEMMA KeyType ==
  ASSUME Reg!RegistryAssumption
  PROVE  Reg!Key \subseteq Nat \ {0} /\ 1 \in Reg!Key /\ 2 \in Reg!Key /\ 0 \notin Reg!Key /\ IsFiniteSet(Reg!Key)
<1>1. IsFiniteSet(1..MaxKey) BY FS_Interval DEF Reg!RegistryAssumption
<1> QED BY <1>1 DEF Reg!RegistryAssumption, Reg!Key

(* A task at rest.                                                         *)
LEMMA RestType ==
  ASSUME Reg!RegistryAssumption, NEW l \in TaskAt
  PROVE  /\ Reg!Rest(l) \in Locals /\ Reg!Rest(l).pc = l /\ Reg!Rest(l).after = "done" /\ Reg!Rest(l).key = 0
         /\ Reg!Rest(l).calm = TRUE /\ Reg!Rest(l).alone = TRUE /\ Reg!Rest(l).counted = 0
         /\ Reg!Rest(l).cands = {} /\ Reg!Rest(l).slot = 0 /\ Reg!Rest(l).nxt = 0
<1>1. "done" \in TaskAt BY DEF TaskAt, MsgAt
<1> QED BY <1>1 DEF Reg!Rest, Reg!Local, Locals

(* The registry counts the way everybody does.                            *)
LEMMA RegCount == \A S : Reg!Cardinality(S) = Cardinality(S)
BY DEF Cardinality, Reg!Cardinality

(* Rows are finitely many.                                                 *)
LEMMA RowsFinite ==
  ASSUME Reg!RegistryAssumption, NEW S \in SUBSET Reg!Key
  PROVE  /\ IsFiniteSet(S) /\ Reg!Cardinality(S) \in Nat
         /\ \A T \in SUBSET S : Reg!Cardinality(T) \in Nat /\ Reg!Cardinality(T) <= Reg!Cardinality(S)
         /\ \A k \in S : Reg!Cardinality(S \ {k}) = Reg!Cardinality(S) - 1
<1> USE RegCount
<1>1. IsFiniteSet(S) BY KeyType, FS_Subset
<1>2. Cardinality(S) \in Nat BY <1>1, FS_CardinalityType
<1>3. ASSUME NEW T \in SUBSET S PROVE Cardinality(T) \in Nat /\ Cardinality(T) <= Cardinality(S)
  BY <1>1, FS_Subset, FS_CardinalityType
<1>4. ASSUME NEW k \in S PROVE Cardinality(S \ {k}) = Cardinality(S) - 1
  BY <1>1, <1>4, FS_RemoveElement
<1> QED BY <1>1, <1>2, <1>3, <1>4

(* Two states of a task that differ in what a neighbour may change.        *)
Like(s, r) ==
  /\ s \in Locals /\ s.pc = r.pc /\ s.after = r.after /\ s.key = r.key /\ s.counted = r.counted
  /\ s.slot = r.slot /\ s.nxt = r.nxt /\ (s.alone => r.alone) /\ (s.calm => r.calm)

(* What the task that moves has to show of itself; the others are kept.    *)
LEMMA TasksKept ==
  ASSUME RegInv, NEW p \in Reg!Task, task' \in [Reg!Task -> Locals], LocalOK(p, task'[p]),
         \A q \in Reg!Task \ {p} : Like(task'[q], task[q])
  PROVE  TaskInv'
<1>1. ASSUME NEW q \in Reg!Task, q # p PROVE LocalOK(q, task'[q])
  <2>1. LocalOK(q, task[q]) /\ Like(task'[q], task[q]) BY <1>1 DEF RegInv, TaskInv
  <2> QED BY <2>1 DEF LocalOK, Like, MsgLocal, TapLocal, SweeperLocal
<1>2. \A q \in Reg!Task : LocalOK(q, task'[q]) BY <1>1
<1> QED BY <1>2 DEF TaskInv, LocalOK, MsgLocal, TapLocal, SweeperLocal

(* A task that enters the rotation must have the lock.                     *)
LEMMA LockKept ==
  ASSUME Reg!RegistryAssumption, RegInv, NEW p \in Reg!Task, task' \in [Reg!Task -> Locals], keyLock' = keyLock,
         p \in Msg /\ Inside(task'[p]) => keyLock = p,
         \A q \in Reg!Task \ {p} : Like(task'[q], task[q])
  PROVE  RotateInv'
<1>1. ASSUME NEW q \in Msg, Inside(task'[q]) PROVE keyLock = q
  <2>1. CASE q # p
    <3>1. Like(task'[q], task[q]) BY <2>1, Roles
    <3>2. Inside(task[q]) BY <1>1, <3>1 DEF Like, Inside
    <3> QED BY <3>2 DEF RegInv, RotateInv
  <2> QED BY <1>1, <2>1
<1> QED BY <1>1 DEF RotateInv, Inside

(* Only the holder of the lock has to show what it follows.                *)
LEMMA HomeKept ==
  ASSUME Reg!RegistryAssumption, RegInv, NEW p \in Reg!Task, task' \in [Reg!Task -> Locals], keyLock' = keyLock,
         current' = current, home' = home, seen' = seen \/ seen' = "fresh",
         keyLock = p => Follows(task'[p], current', home', seen'),
         \A q \in Reg!Task \ {p} : Like(task'[q], task[q]) /\ task'[q].calm = task[q].calm
  PROVE  HomeInv'
<1>1. home' # 0 => home' = current' /\ seen' # "stale" BY DEF RegInv, HomeInv
<1>2. ASSUME keyLock # None PROVE Follows(task'[keyLock], current', home', seen')
  <2>0. keyLock \in Reg!Task BY <1>2, Roles DEF RegInv, Store
  <2>1. CASE keyLock # p
    <3>1. Like(task'[keyLock], task[keyLock]) /\ task'[keyLock].calm = task[keyLock].calm
          /\ Follows(task[keyLock], current, home, seen)
      BY <1>2, <2>0, <2>1 DEF RegInv, HomeInv
    <3> QED BY <3>1 DEF Like, Follows
  <2> QED BY <2>1
<1>3. keyLock' # None => Follows(task'[keyLock'], current', home', seen') BY <1>2
<1> QED BY <1>1, <1>3 DEF HomeInv, Follows

(* After a disturbance there is no burst to follow.                        *)
LEMMA HomeDisturbed ==
  ASSUME Reg!RegistryAssumption, RegInv, task' \in [Reg!Task -> Locals], keyLock' = keyLock, home' = 0,
         keyLock # None => task'[keyLock].calm = FALSE
  PROVE  HomeInv'
BY DEF HomeInv, Follows

(* A count stays exact as rows go; a row that comes ends it for the others. *)
LEMMA CapKept ==
  ASSUME Reg!RegistryAssumption, RegInv, NEW p \in Reg!Task, task' \in [Reg!Task -> Locals], rows' \subseteq Reg!Key,
         Bounded(task'[p], Reg!Cardinality(rows')),
         \A q \in Reg!Task \ {p} : Like(task'[q], task[q]),
         rows' \subseteq rows \/ \A q \in Reg!Task \ {p} : task[q].pc \in Reg!Counted => ~task'[q].alone
  PROVE  CapInv'
<1>1. SessionCap \in Nat /\ rows \subseteq Reg!Key BY DEF Reg!RegistryAssumption, RegInv, Store
<1>2. ASSUME NEW q \in Reg!Task, q # p PROVE Bounded(task'[q], Reg!Cardinality(rows'))
  <2>1. Like(task'[q], task[q]) /\ Bounded(task[q], Reg!Cardinality(rows)) /\ task[q].counted \in Nat
    BY <1>2 DEF RegInv, CapInv, TaskInv, Locals
  <2>2. CASE rows' \subseteq rows
    <3>1. Reg!Cardinality(rows') \in Nat /\ Reg!Cardinality(rows) \in Nat
          /\ Reg!Cardinality(rows') <= Reg!Cardinality(rows)
      BY <1>1, <2>2, RowsFinite
    <3> QED BY <1>1, <2>1, <3>1 DEF Bounded, Like, Reg!Counted
  <2>3. CASE task[q].pc \in Reg!Counted => ~task'[q].alone
    BY <2>1, <2>3 DEF Bounded, Like, Reg!Counted
  <2> QED BY <1>2, <2>2, <2>3
<1> QED BY <1>2 DEF CapInv, Bounded

(* Who leaves the schedule alone changes nothing of what is due.           *)
LEMMA DueKept ==
  ASSUME Reg!RegistryAssumption, RegInv, NEW p \in Reg!Task, p # Scheduler, task' \in [Reg!Task -> Locals],
         \A q \in Reg!Task \ {p} : Like(task'[q], task[q]),
         fired' = fired, now' = now, sch'.next = sch.next
  PROVE  DueInv'
<1>1. Like(task'[Scheduler], task[Scheduler]) BY Roles
<1> QED BY <1>1 DEF RegInv, DueInv, Like

-----------------------------------------------------------------------------
(* Where a task that moves may be.                                         *)
Lawful(p, r, s, n) ==
  /\ LocalOK(p, r)
  /\ p \in Msg /\ Inside(r) => keyLock = p
  /\ keyLock = p => Follows(r, current, home, s)
  /\ Bounded(r, n)

(* Two states of a task in two places.                                     *)
Keeps(r, s) ==
  /\ r \in Locals /\ r.after = s.after /\ r.key = s.key /\ r.calm = s.calm
  /\ r.alone = s.alone /\ r.counted = s.counted

(* A step of one task that leaves the pointer and adds no row.             *)
LEMMA StepParts ==
  ASSUME Reg!RegistryAssumption, RegInv, NEW p \in Reg!Task, NEW r, task' = [task EXCEPT ![p] = r],
         Lawful(p, r, seen', Reg!Cardinality(rows')),
         seen' = seen \/ seen' = "fresh", rows' \subseteq rows, UNCHANGED <<current, home, keyLock>>
  PROVE  /\ TaskInv' /\ RotateInv' /\ HomeInv' /\ CapInv'
         /\ task' \in [Reg!Task -> Locals] /\ task'[p] = r /\ \A q \in Reg!Task \ {p} : Like(task'[q], task[q])
<1>0. /\ LocalOK(p, r) /\ (p \in Msg /\ Inside(r) => keyLock = p)
      /\ (keyLock = p => Follows(r, current, home, seen')) /\ Bounded(r, Reg!Cardinality(rows'))
  BY DEF Lawful
<1>1. task \in [Reg!Task -> Locals] /\ r \in Locals /\ rows \subseteq Reg!Key
  BY <1>0 DEF RegInv, TaskInv, Store, LocalOK
<1>2. task' \in [Reg!Task -> Locals] /\ task'[p] = r BY <1>1
<1>3. \A q \in Reg!Task \ {p} : Like(task'[q], task[q]) /\ task'[q].calm = task[q].calm
  BY <1>1 DEF Like
<1>4. TaskInv' BY <1>0, <1>2, <1>3, TasksKept
<1>5. RotateInv' BY <1>0, <1>2, <1>3, LockKept
<1>6. HomeInv' BY <1>0, <1>2, <1>3, HomeKept
<1>7. Bounded(task'[p], Reg!Cardinality(rows')) BY <1>0, <1>2
<1>8. CapInv' BY <1>1, <1>2, <1>3, <1>7, CapKept
<1> QED BY <1>2, <1>3, <1>4, <1>5, <1>6, <1>8

(* If besides the schedule is left alone.                                  *)
LEMMA StepTo ==
  ASSUME Reg!RegistryAssumption, RegInv, NEW p \in Reg!Task, p # Scheduler, NEW r, task' = [task EXCEPT ![p] = r],
         Lawful(p, r, seen', Reg!Cardinality(rows')),
         seen' = seen \/ seen' = "fresh", sch'.next = sch.next,
         rows' \subseteq rows, UNCHANGED <<current, home, keyLock, now, fired>>
  PROVE  TaskInv' /\ RotateInv' /\ HomeInv' /\ CapInv' /\ DueInv'
<1>1. /\ TaskInv' /\ RotateInv' /\ HomeInv' /\ CapInv' /\ task' \in [Reg!Task -> Locals]
      /\ \A q \in Reg!Task \ {p} : Like(task'[q], task[q])
  BY StepParts
<1>2. DueInv' BY <1>1, DueKept
<1> QED BY <1>1, <1>2

(* A step that disturbs the message with the lock, so that it starts no    *)
(* burst and ends one.                                                     *)
LEMMA DisturbTo ==
  ASSUME Reg!RegistryAssumption, RegInv, NEW p \in Reg!Task, p # Scheduler, NEW r,
         task' = Reg!Disturbed([task EXCEPT ![p] = r]), LocalOK(p, r), p \in Msg /\ Inside(r) => keyLock = p,
         Bounded(r, Reg!Cardinality(rows')), home' = 0, rows' \subseteq rows, sch'.next = sch.next,
         UNCHANGED <<keyLock, now, fired>>
  PROVE  TaskInv' /\ RotateInv' /\ HomeInv' /\ CapInv' /\ DueInv'
<1> DEFINE a == [task EXCEPT ![p] = r]
<1>1. task \in [Reg!Task -> Locals] /\ r \in Locals /\ rows \subseteq Reg!Key BY DEF RegInv, TaskInv, Store, LocalOK
<1>2. a \in [Reg!Task -> Locals] /\ a[p] = r /\ \A q \in Reg!Task \ {p} : a[q] = task[q] BY <1>1
<1>3. \A q \in Reg!Task : task'[q] = IF q = keyLock THEN [a[q] EXCEPT !.calm = FALSE] ELSE a[q]
  BY DEF Reg!Disturbed
<1> HIDE DEF a
<1>4. ASSUME NEW q \in Reg!Task PROVE task'[q] \in Locals /\ Like(task'[q], a[q]) /\ (q = keyLock => ~task'[q].calm)
  <2>1. a[q] \in Locals BY <1>2
  <2>2. CASE q = keyLock
    <3>1. task'[q] = [a[q] EXCEPT !.calm = FALSE] BY <1>3, <2>2
    <3> QED BY <2>1, <3>1 DEF Like, Locals
  <2>3. CASE q # keyLock
    <3>1. task'[q] = a[q] BY <1>3, <2>3
    <3> QED BY <2>1, <2>3, <3>1 DEF Like
  <2> QED BY <2>2, <2>3
<1>5. task' \in [Reg!Task -> Locals] BY <1>4 DEF Reg!Disturbed
<1>6. \A q \in Reg!Task \ {p} : Like(task'[q], task[q]) BY <1>2, <1>4
<1>7. Like(task'[p], r) BY <1>2, <1>4
<1>8. /\ LocalOK(p, task'[p]) /\ (p \in Msg /\ Inside(task'[p]) => keyLock = p)
      /\ Bounded(task'[p], Reg!Cardinality(rows'))
  BY <1>7 DEF Like, LocalOK, MsgLocal, TapLocal, SweeperLocal, Inside, Bounded
<1>9. TaskInv' BY <1>5, <1>6, <1>8, TasksKept
<1>10. RotateInv' BY <1>5, <1>6, <1>8, LockKept
<1>11. keyLock # None => task'[keyLock].calm = FALSE
  <2>1. keyLock # None => keyLock \in Reg!Task BY Roles DEF RegInv, Store
  <2> QED BY <1>4, <2>1 DEF Locals
<1>12. HomeInv' BY <1>5, <1>11, HomeDisturbed
<1>13. rows' \subseteq Reg!Key BY <1>1
<1>14. CapInv' BY <1>5, <1>6, <1>8, <1>13, CapKept
<1>15. DueInv' BY <1>5, <1>6, DueKept
<1> QED BY <1>9, <1>10, <1>12, <1>14, <1>15

(* A step that makes a row.                                                *)
LEMMA AppearTo ==
  ASSUME Reg!RegistryAssumption, RegInv, NEW p \in Reg!Task, NEW r, Reg!Appear(p, r), rows' \subseteq Reg!Key,
         LocalOK(p, r), p \in Msg /\ Inside(r) => keyLock = p, keyLock = p => Follows(r, current, home, seen),
         r.pc \notin Reg!Counted, UNCHANGED <<current, seen, home, keyLock>>
  PROVE  /\ TaskInv' /\ RotateInv' /\ HomeInv' /\ CapInv'
         /\ task' \in [Reg!Task -> Locals] /\ task'[p] = r /\ \A q \in Reg!Task \ {p} : Like(task'[q], task[q])
<1>1. task \in [Reg!Task -> Locals] /\ r \in Locals BY DEF RegInv, TaskInv, LocalOK
<1>2. /\ task'[p] = r
      /\ \A q \in Reg!Task \ {p} : task'[q] = [task[q] EXCEPT !.alone = @ /\ task[q].pc \notin Reg!Counted]
  BY DEF Reg!Appear
<1>3. ASSUME NEW q \in Reg!Task \ {p}
      PROVE  /\ task'[q] \in Locals /\ Like(task'[q], task[q]) /\ task'[q].calm = task[q].calm
             /\ (task[q].pc \in Reg!Counted => ~task'[q].alone)
  <2> DEFINE b == task[q].alone /\ task[q].pc \notin Reg!Counted
  <2>1. b \in BOOLEAN /\ task'[q] = [task[q] EXCEPT !.alone = b] /\ task[q] \in Locals BY <1>1, <1>2
  <2>2. (b => task[q].alone) /\ (task[q].pc \in Reg!Counted => ~b) BY <1>1 DEF Locals
  <2> HIDE DEF b
  <2> QED BY <2>1, <2>2 DEF Like, Locals
<1>4. task' \in [Reg!Task -> Locals]
  <2>1. DOMAIN task' = Reg!Task /\ task' = [q \in Reg!Task |-> task'[q]] BY DEF Reg!Appear
  <2>2. \A q \in Reg!Task : task'[q] \in Locals BY <1>1, <1>2, <1>3
  <2> QED BY <2>1, <2>2
<1>5. \A q \in Reg!Task \ {p} : Like(task'[q], task[q]) /\ task'[q].calm = task[q].calm BY <1>3
<1>6. TaskInv' BY <1>2, <1>4, <1>5, TasksKept
<1>7. RotateInv' BY <1>2, <1>4, <1>5, LockKept
<1>8. HomeInv' BY <1>2, <1>4, <1>5, HomeKept
<1>9. Bounded(task'[p], Reg!Cardinality(rows')) BY <1>2 DEF Bounded, Reg!Counted
<1>10. CapInv' BY <1>3, <1>4, <1>5, <1>9, CapKept
<1> QED BY <1>2, <1>4, <1>5, <1>6, <1>7, <1>8, <1>10

(* What is known of the task that moves.                                   *)
Setting(p) ==
  /\ LocalOK(p, task[p]) /\ task[p] \in Locals /\ rows \subseteq Reg!Key /\ current \in Reg!Key \cup {0}
  /\ keyLock \in Msg \cup {None} /\ (p \in Msg /\ Inside(task[p]) => keyLock = p)
  /\ (keyLock = p => Follows(task[p], current, home, seen))
  /\ Bounded(task[p], Reg!Cardinality(rows)) /\ Reg!Cardinality(rows) \in Nat
  /\ (home # 0 => home = current /\ seen # "stale") /\ seq \in Reg!Key /\ 1..seq \subseteq Reg!Key

(* It follows from the invariant.                                          *)
LEMMA Known ==
  ASSUME Reg!RegistryAssumption, RegInv, NEW p \in Reg!Task
  PROVE  Setting(p)
<1>1. rows \subseteq Reg!Key /\ Reg!Cardinality(rows) \in Nat BY RowsFinite DEF RegInv, Store
<1>2. LocalOK(p, task[p]) /\ task[p] \in Locals BY DEF RegInv, TaskInv
<1>3. p \in Msg /\ Inside(task[p]) => keyLock = p BY DEF RegInv, RotateInv
<1>4. keyLock = p => Follows(task[p], current, home, seen)
  BY Roles DEF RegInv, HomeInv, Reg!RegistryAssumption, Reg!Task
<1>5. Bounded(task[p], Reg!Cardinality(rows)) BY DEF RegInv, CapInv
<1>6. seq \in Reg!Key /\ 1..seq \subseteq Reg!Key BY DEF RegInv, Store, Reg!Key, Reg!RegistryAssumption
<1> QED BY <1>1, <1>2, <1>3, <1>4, <1>5, <1>6 DEF Setting, RegInv, Store, HomeInv

(* A tap moves anywhere but into the middle of a creation.                 *)
LEMMA TapMove ==
  ASSUME Reg!RegistryAssumption, RegInv, NEW u \in Tap, NEW r \in Locals, TapLocal(r), r.pc \notin Reg!Counted,
         NEW s, NEW n
  PROVE  Lawful(u, r, s, n)
<1>1. u \in Reg!Task /\ u \notin Msg /\ u # Sweeper /\ u # Scheduler /\ keyLock # u
  BY Roles DEF RegInv, Store
<1> QED BY <1>1 DEF Lawful, LocalOK, Bounded, Reg!Counted

(* A task that tidies goes on tidying.                                     *)
LEMMA TidyMove ==
  ASSUME Reg!RegistryAssumption, RegInv, NEW p \in Reg!Task, NEW r \in Locals, task[p].pc \in Tidying,
    r.pc \in Tidying,
         Keeps(r, task[p]), NEW n
  PROVE  p # Scheduler /\ Lawful(p, r, seen, n)
<1>1. Setting(p) BY Known
<1>2. p # Scheduler BY <1>1 DEF Setting, LocalOK, SchedulerAt, Tidying
<1>3. r.pc \notin Reg!Counted BY DEF Tidying, Reg!Counted
<1>4. LocalOK(p, r)
  BY <1>1, <1>2 DEF Setting, Keeps, LocalOK, MsgLocal, TapLocal, SweeperLocal, MsgAt, TapAt,
     Rotating, Finding, Tidying
<1>5. p \in Msg /\ Inside(r) => keyLock = p BY <1>1 DEF Setting, Inside, Rotating
<1>6. keyLock = p => Follows(r, current, home, seen)
  BY <1>1 DEF Setting, Keeps, Follows, AboutKey, Rotating
<1> QED BY <1>2, <1>3, <1>4, <1>5, <1>6 DEF Lawful, Bounded, Reg!Counted

(* A task that has tidied returns to where it came from.                   *)
LEMMA TidyEnd ==
  ASSUME Reg!RegistryAssumption, RegInv, NEW p \in Reg!Task, task[p].pc \in Tidying, NEW n
  PROVE  p # Scheduler /\ Lawful(p, Reg!Back(task[p]), seen, n)
<1>1. Setting(p) BY Known
<1>2. p # Scheduler BY <1>1 DEF Setting, LocalOK, SchedulerAt, Tidying
<1>3. CASE p \in Msg
  <2> DEFINE r == [task[p] EXCEPT !.pc = "settle"]
  <2>1. task[p].after = "settle" BY <1>1, <1>3 DEF Setting, LocalOK, MsgLocal
  <2>2. Reg!Back(task[p]) = r BY <2>1 DEF Reg!Back
  <2>3. Keeps(r, task[p]) /\ r.pc = "settle"
    BY <1>1 DEF Setting, Keeps, Locals, TaskAt, MsgAt, Rotating
  <2> HIDE DEF r
  <2>4. Lawful(p, r, seen, n)
    BY <1>1, <1>2, <1>3, <2>3, Roles DEF Keeps, Setting, Lawful, LocalOK, MsgLocal, TapLocal,
       SweeperLocal, MsgAt, TapAt, SchedulerAt, TaskAt, Finding, Rotating, Tidying, Inside,
       Follows, AboutKey, Bounded, Reg!Counted
  <2> QED BY <1>2, <2>2, <2>4
<1>4. CASE p \in Tap
  <2>1. task[p].after = "done" BY <1>1, <1>4 DEF Setting, LocalOK, TapLocal
  <2>2. Reg!Back(task[p]) = Reg!Rest("done") BY <2>1 DEF Reg!Back
  <2>3. "done" \in TaskAt BY DEF TaskAt, TapAt
  <2>4. TapLocal(Reg!Rest("done")) /\ Reg!Rest("done").pc \notin Reg!Counted
    BY <2>3, RestType DEF TapLocal, TapAt, Tidying, Reg!Counted
  <2> QED BY <1>2, <1>4, <2>2, <2>3, <2>4, RestType, TapMove
<1>5. CASE p = Sweeper
  <2>1. task[p].after = "idle" BY <1>1, <1>5 DEF Setting, LocalOK, SweeperLocal
  <2>2. Reg!Back(task[p]) = Reg!Rest("idle") BY <2>1 DEF Reg!Back
  <2>3. "idle" \in TaskAt BY DEF TaskAt, TapAt
  <2>4. keyLock # Sweeper BY Roles, <1>1 DEF Setting
  <2>5. SweeperLocal(Reg!Rest("idle")) /\ Reg!Rest("idle").pc \notin Reg!Counted
    BY <2>3, RestType DEF SweeperLocal, Tidying, Reg!Counted
  <2> QED BY <1>2, <1>5, <2>2, <2>3, <2>4, <2>5, RestType, Roles DEF Lawful, LocalOK, Bounded
<1> QED BY <1>2, <1>3, <1>4, <1>5, Roles

(* A message or tap that is done stands for nothing.                       *)
LEMMA AtRest ==
  ASSUME Reg!RegistryAssumption, RegInv, NEW p \in Msg \cup Tap, NEW s, NEW n
  PROVE  Lawful(p, Reg!Rest("done"), s, n)
<1>1. "done" \in TaskAt BY DEF TaskAt, TapAt
<1>2. MsgLocal(Reg!Rest("done")) /\ TapLocal(Reg!Rest("done")) /\ ~Inside(Reg!Rest("done"))
  BY <1>1, RestType DEF MsgLocal, MsgAt, TapLocal, TapAt, Tidying, Finding, Rotating, Inside
<1>3. Reg!Rest("done").pc \notin Reg!Counted BY <1>1, RestType DEF Reg!Counted
<1>4. Reg!Rest("done").calm /\ Reg!Rest("done").pc \notin AboutKey \cup Rotating
  BY <1>1, RestType DEF AboutKey, Rotating, Tidying
<1> QED BY <1>1, <1>2, <1>3, <1>4, RestType, Roles DEF Lawful, LocalOK, Bounded, Follows, Reg!Counted

(* A message looks up its session.                                         *)
LEMMA ResolveStep ==
  ASSUME Reg!RegistryAssumption, RegInv, NEW p \in Reg!Task, Reg!Resolve(p)
  PROVE  RegInv'
<1> USE Roles, KeyType
<1>0. Setting(p) BY Known
<1>1. p \in Msg /\ task[p].pc = "resolve" /\ task[p].after \in {"lock", "ensure", "decide"}
  BY <1>0 DEF Reg!Resolve, Setting, Reg!In, LocalOK, MsgLocal, TapLocal, TapAt, SweeperLocal, SchedulerAt,
     Finding, Tidying
<1>2. Store' BY <1>0, <1>1 DEF RegInv, Store, Reg!Resolve, Reg!db, Reg!hist
<1>3. UNCHANGED <<rows, current, home, keyLock, now, fired, seen, sch>> /\ sch'.next = sch.next
  BY DEF Reg!Resolve, Reg!db, Reg!hist, Reg!Event, Reg!Begin
<1>4. CASE current \in rows
  <2> DEFINE r == Reg!Back([task[p] EXCEPT !.key = current])
  <2>1. task' = [task EXCEPT ![p] = r] BY <1>4 DEF Reg!Resolve, Reg!Set, Reg!Goto, Reg!Return, Reg!End
  <2>2. r \in Locals /\ r.pc = task[p].after /\ r.after = task[p].after /\ r.key = current
        /\ r.calm = task[p].calm /\ r.alone = task[p].alone /\ r.counted = task[p].counted
    BY <1>0, <1>1, <1>4, ZenonT(30) DEF Reg!Back, Setting, Reg!Begin, Reg!In, Keeps, Locals, TaskAt, MsgAt, Finding,
       Rotating, Tidying
  <2> HIDE DEF r
  <2>3. Lawful(p, r, seen, Reg!Cardinality(rows))
    BY <1>0, <1>1, <2>2, <1>4 DEF Keeps, Setting, Lawful, LocalOK, MsgLocal, TapLocal,
       SweeperLocal, MsgAt, TapAt, SchedulerAt, TaskAt, Finding, Rotating, Tidying, Inside,
       Follows, AboutKey, Bounded, Reg!Counted
  <2> QED BY <1>1, <1>2, <1>3, <2>1, <2>3, StepTo DEF RegInv
<1>5. CASE current \notin rows
  <2> DEFINE r == [task[p] EXCEPT !.pc = "heal"]
  <2>1. task' = [task EXCEPT ![p] = r] BY <1>5 DEF Reg!Resolve, Reg!Set, Reg!Goto, Reg!Return, Reg!End
  <2>2. r \in Locals /\ r.pc = "heal" /\ Keeps(r, task[p])
    BY <1>0, <1>1, <1>5 DEF Setting, Reg!Begin, Reg!In, Keeps, Locals, TaskAt, MsgAt, Finding, Rotating,
       Tidying
  <2> HIDE DEF r
  <2>3. Lawful(p, r, seen, Reg!Cardinality(rows))
    BY <1>0, <1>1, <2>2, <1>5 DEF Keeps, Setting, Lawful, LocalOK, MsgLocal, MsgAt, Finding,
       Rotating, Tidying, Inside, Follows, AboutKey, Bounded, Reg!Counted
  <2> QED BY <1>1, <1>2, <1>3, <2>1, <2>3, StepTo DEF RegInv
<1> QED BY <1>1, <1>4, <1>5

(* A pointer that dangles: another session, or a first one.                *)
LEMMA HealStep ==
  ASSUME Reg!RegistryAssumption, RegInv, NEW p \in Reg!Task, Reg!Heal(p)
  PROVE  RegInv'
<1> USE Roles, KeyType
<1>0. Setting(p) BY Known
<1>1. p \in Msg /\ task[p].pc = "heal" /\ task[p].after \in {"lock", "ensure", "decide"}
  BY <1>0 DEF Reg!Heal, Setting, Reg!In, Reg!Begin, LocalOK, MsgLocal, MsgAt, TapLocal, TapAt, SweeperLocal,
     SchedulerAt, Finding, Rotating, Tidying
<1>2. Store'
  BY <1>0, <1>1 DEF Setting, RegInv, Store, Reg!Heal, Reg!db, Reg!hist, Reg!Event, Reg!Begin, Locals, Reg!NewRow, Reg!Name
<1>3. UNCHANGED <<rows, current, home, keyLock, now, fired, seen, sch>> /\ sch'.next = sch.next
  BY DEF Reg!Heal, Reg!db, Reg!hist, Reg!Event, Reg!Begin
<1>4. CASE rows = {}
  <2> DEFINE r == [task[p] EXCEPT !.pc = "first"]
  <2>1. task' = [task EXCEPT ![p] = r] BY <1>4 DEF Reg!Heal, Reg!Set, Reg!Goto, Reg!Return, Reg!End
  <2>2. r \in Locals /\ r.pc = "first" /\ Keeps(r, task[p])
    BY <1>0, <1>1, <1>4 DEF Setting, Reg!Begin, Reg!In, Keeps, Locals, TaskAt, MsgAt, Finding, Rotating,
       Tidying
  <2> HIDE DEF r
  <2>3. Lawful(p, r, seen, Reg!Cardinality(rows))
    BY <1>0, <1>1, <2>2, <1>4 DEF Keeps, Setting, Lawful, LocalOK, MsgLocal, MsgAt, Finding,
       Rotating, Tidying, Inside, Follows, AboutKey, Bounded, Reg!Counted
  <2> QED BY <1>1, <1>2, <1>3, <2>1, <2>3, StepTo DEF RegInv
<1>5. CASE rows # {}
  <2>0. PICK k \in rows : task' = [task EXCEPT ![p] = [task[p] EXCEPT !.pc = "heal point", !.key = k]]
    BY <1>5 DEF Reg!Heal, Reg!Set, Reg!Goto
  <2> DEFINE r == [task[p] EXCEPT !.pc = "heal point", !.key = k]
  <2>1. task' = [task EXCEPT ![p] = r] BY <2>0, <1>5 DEF Reg!Heal, Reg!Set, Reg!Goto, Reg!Return, Reg!End
  <2>2. r \in Locals /\ r.pc = "heal point" /\ r.after = task[p].after /\ r.key = k /\ k # 0
        /\ r.calm = task[p].calm
    BY <1>0, <1>1, <2>0, <1>5 DEF Setting, Reg!Begin, Reg!In, Keeps, Locals, TaskAt, MsgAt, Finding,
       Rotating, Tidying
  <2> HIDE DEF r
  <2>3. Lawful(p, r, seen, Reg!Cardinality(rows))
    BY <1>0, <1>1, <2>0, <2>2, <1>5 DEF Keeps, Setting, Lawful, LocalOK, MsgLocal, TapLocal,
       SweeperLocal, MsgAt, TapAt, SchedulerAt, TaskAt, Finding, Rotating, Tidying, Inside,
       Follows, AboutKey, Bounded, Reg!Counted
  <2> QED BY <1>1, <1>2, <1>3, <2>1, <2>3, StepTo DEF RegInv
<1> QED BY <1>1, <1>4, <1>5 DEF Reg!Heal

(* The rows are counted.                                                   *)
LEMMA CountStep ==
  ASSUME Reg!RegistryAssumption, RegInv, NEW p \in Reg!Task, Reg!Count(p)
  PROVE  RegInv'
<1> USE Roles, KeyType
<1>0. Setting(p) BY Known
<1>1. p \in Msg \cup Tap /\ task[p].pc = "count" /\ (p \in Tap => task[p].after \in {"keep", "done"})
  BY <1>0 DEF Setting, Reg!Count, Setting, Reg!In, LocalOK, TapLocal, SweeperLocal, SchedulerAt, Tidying
<1>2. Store' BY <1>0, <1>1 DEF RegInv, Store, Reg!Count, Reg!db, Reg!hist
<1>3. UNCHANGED <<rows, current, home, keyLock, now, fired, seen, sch>> /\ sch'.next = sch.next
  BY DEF Reg!Count, Reg!db, Reg!hist, Reg!Event, Reg!Begin
<1>4. CASE Reg!Cardinality(rows) >= SessionCap /\ p \notin Msg
  <2> DEFINE r == Reg!Rest("done")
  <2>1. task' = [task EXCEPT ![p] = r] BY <1>4 DEF Reg!Count, Reg!Set, Reg!End
  <2>2. Lawful(p, r, seen', Reg!Cardinality(rows)) BY <1>0, <1>1, <1>4, AtRest DEF Setting, Inside, Tidying
  <2> QED BY <1>1, <1>2, <1>3, <2>1, <2>2, StepTo DEF RegInv
<1>5. CASE Reg!Cardinality(rows) < SessionCap
  <2> DEFINE r == [task[p] EXCEPT !.pc = "create", !.counted = Reg!Cardinality(rows), !.alone = TRUE]
  <2>1. task' = [task EXCEPT ![p] = r] BY <1>0, <1>5 DEF Reg!RegistryAssumption, Setting, Reg!Count, Reg!Set
  <2>2. r \in Locals /\ r.pc = "create" /\ r.after = task[p].after
        /\ r.key = task[p].key /\ r.calm = task[p].calm /\ r.counted = Reg!Cardinality(rows)
    BY <1>0, <1>1, <1>5 DEF Setting, Reg!Begin, Reg!In, Keeps, Locals, TaskAt, MsgAt, Finding, Rotating,
       Tidying
  <2> HIDE DEF r
  <2>3. Lawful(p, r, seen, Reg!Cardinality(rows))
    BY <1>0, <1>1, <2>2, <1>5 DEF Setting, Lawful, LocalOK, MsgLocal, TapLocal, MsgAt, TapAt,
       Finding, Rotating, Tidying, Inside, Follows, AboutKey, Bounded
  <2> QED BY <1>1, <1>2, <1>3, <2>1, <2>3, StepTo DEF RegInv
<1>6. CASE ~(Reg!Cardinality(rows) < SessionCap) /\ p \in Msg
  <2> DEFINE r == [task[p] EXCEPT !.pc = "evict", !.counted = Reg!Cardinality(rows), !.alone = TRUE]
  <2>1. task' = [task EXCEPT ![p] = r] BY <1>0, <1>6 DEF Reg!Count, Reg!Set
  <2>2. r \in Locals /\ r.pc = "evict" /\ r.after = task[p].after
        /\ r.key = task[p].key /\ r.calm = task[p].calm /\ r.counted = Reg!Cardinality(rows)
    BY <1>0, <1>1, <1>6 DEF Setting, Reg!Begin, Reg!In, Keeps, Locals, TaskAt, MsgAt, Finding, Rotating,
       Tidying
  <2> HIDE DEF r
  <2>3. Lawful(p, r, seen, Reg!Cardinality(rows))
    BY <1>0, <1>1, <2>2, <1>6 DEF Setting, Lawful, LocalOK, MsgLocal, MsgAt, Finding, Rotating,
       Tidying, Inside, Follows, AboutKey, Bounded
  <2> QED BY <1>1, <1>2, <1>3, <2>1, <2>3, StepTo DEF RegInv
<1> QED BY <1>0, <1>1, <1>4, <1>5, <1>6 DEF Reg!RegistryAssumption, Setting

(* An empty session that may go, or none.                                  *)
LEMMA EvictStep ==
  ASSUME Reg!RegistryAssumption, RegInv, NEW p \in Reg!Task, Reg!Evict(p)
  PROVE  RegInv'
<1> USE Roles, KeyType
<1>0. Setting(p) BY Known
<1>1. p \in Msg /\ task[p].pc = "evict"
  BY <1>0 DEF Reg!Evict, Setting, Reg!In, Reg!Begin, LocalOK, MsgLocal, MsgAt, TapLocal, TapAt, SweeperLocal,
     SchedulerAt, Finding, Rotating, Tidying
<1>2. Store'
  BY <1>0, <1>1 DEF Setting, RegInv, Store, Reg!Evict, Reg!db, Reg!hist, Reg!Event, Reg!Begin, Locals, Reg!NewRow, Reg!Name
<1>3. UNCHANGED <<rows, current, home, keyLock, now, fired, seen, sch>> /\ sch'.next = sch.next
  BY DEF Reg!Evict, Reg!db, Reg!hist, Reg!Event, Reg!Begin
<1>4. CASE {k \in rows \ {task[p].key} : ~row[k].fav /\ k \notin used} = {}
  <2> DEFINE r == [task[p] EXCEPT !.pc = "in place"]
  <2>1. task' = [task EXCEPT ![p] = r] BY <1>4 DEF Reg!Evict, Reg!Set, Reg!Goto, Reg!Return, Reg!End
  <2>2. r \in Locals /\ r.pc = "in place" /\ Keeps(r, task[p])
    BY <1>0, <1>1, <1>4 DEF Setting, Reg!Begin, Reg!In, Keeps, Locals, TaskAt, MsgAt, Finding, Rotating,
       Tidying
  <2> HIDE DEF r
  <2>3. Lawful(p, r, seen, Reg!Cardinality(rows))
    BY <1>0, <1>1, <2>2, <1>4 DEF Keeps, Setting, Lawful, LocalOK, MsgLocal, TapLocal,
       SweeperLocal, MsgAt, TapAt, SchedulerAt, TaskAt, Finding, Rotating, Tidying, Inside,
       Follows, AboutKey, Bounded, Reg!Counted
  <2> QED BY <1>1, <1>2, <1>3, <2>1, <2>3, StepTo DEF RegInv
<1>5. CASE {k \in rows \ {task[p].key} : ~row[k].fav /\ k \notin used} # {}
  <2>0. PICK k \in rows :
          task' = [task EXCEPT ![p] = [task[p] EXCEPT !.pc = "reset", !.after = "create", !.victim = k]]
    BY <1>5 DEF Reg!Evict, Reg!Set, Reg!Goto
  <2> DEFINE r == [task[p] EXCEPT !.pc = "reset", !.after = "create", !.victim = k]
  <2>1. task' = [task EXCEPT ![p] = r] BY <2>0, <1>5 DEF Reg!Evict, Reg!Set, Reg!Goto, Reg!Return, Reg!End
  <2>2. r \in Locals /\ r.pc = "reset" /\ r.key = task[p].key /\ r.calm = task[p].calm
        /\ r.alone = task[p].alone /\ r.counted = task[p].counted
    BY <1>0, <1>1, <2>0, <1>5 DEF Setting, Reg!Begin, Reg!In, Keeps, Locals, TaskAt, MsgAt, Finding,
       Rotating, Tidying
  <2> HIDE DEF r
  <2>3. Lawful(p, r, seen, Reg!Cardinality(rows))
    BY <1>0, <1>1, <2>0, <2>2, <1>5 DEF Setting, Lawful, LocalOK, MsgLocal, MsgAt, Finding,
       Rotating, Tidying, Inside, Follows, AboutKey, Bounded, Reg!Counted
  <2> QED BY <1>1, <1>2, <1>3, <2>1, <2>3, StepTo DEF RegInv
<1> QED BY <1>1, <1>4, <1>5 DEF Reg!Evict

(* The listing of sessions that may be tidied, and their usage.            *)
LEMMA PageStep ==
  ASSUME Reg!RegistryAssumption, RegInv, NEW p \in Reg!Task, Reg!Page(p)
  PROVE  RegInv'
<1> USE Roles, KeyType
<1>0. Setting(p) BY Known
<1>1. task[p].pc \in Tidying /\ p # Scheduler
  BY <1>0 DEF Reg!Page, Setting, Reg!In, LocalOK, SchedulerAt, Tidying
<1>2. Store' BY <1>0, <1>1 DEF RegInv, Store, Reg!Page, Reg!db, Reg!hist
<1>3. UNCHANGED <<rows, current, home, keyLock, now, fired, seen, sch>> /\ sch'.next = sch.next
  BY DEF Reg!Page, Reg!db, Reg!hist, Reg!Event, Reg!Begin
<1>4. CASE {k \in rows \ {task[p].key} : /\ ~row[k].fav /\ row[k].name # "pinned" /\ turns[k] = {}} = {}
  <2> DEFINE r == Reg!Back(task[p])
  <2>1. task' = [task EXCEPT ![p] = r] BY <1>4 DEF Reg!Page, Reg!Set, Reg!Goto, Reg!Return, Reg!End
  <2>2. Lawful(p, r, seen, Reg!Cardinality(rows)) BY <1>1, TidyEnd DEF Tidying
  <2> QED BY <1>1, <1>2, <1>3, <2>1, <2>2, StepTo DEF RegInv
<1>5. CASE {k \in rows \ {task[p].key} : /\ ~row[k].fav /\ row[k].name # "pinned" /\ turns[k] = {}} # {}
  <2> DEFINE old == {k \in rows \ {task[p].key} :
                       /\ ~row[k].fav /\ row[k].name # "pinned" /\ turns[k] = {}}
             r == [task[p] EXCEPT !.pc = "stats", !.cands = old,
                                !.titled = {k \in old : row[k].name # "default"}]
  <2>1. task' = [task EXCEPT ![p] = r] BY <1>5 DEF Reg!Page, Reg!Set, Reg!Goto, Reg!Return, Reg!End
  <2>2. r \in Locals /\ Keeps(r, task[p]) /\ r.pc \in Tidying
    BY <1>0, <1>1, <1>5 DEF Setting, Keeps, Locals, TaskAt, MsgAt, Rotating, Tidying
  <2> HIDE DEF r
  <2>3. Lawful(p, r, seen, Reg!Cardinality(rows)) BY <1>1, <1>5, <2>2, TidyMove DEF Tidying
  <2> QED BY <1>1, <1>2, <1>3, <2>1, <2>3, StepTo DEF RegInv
<1> QED BY <1>1, <1>4, <1>5

(* Their usage.                                                            *)
LEMMA StatsStep ==
  ASSUME Reg!RegistryAssumption, RegInv, NEW p \in Reg!Task, Reg!Stats(p)
  PROVE  RegInv'
<1> USE Roles, KeyType
<1>0. Setting(p) BY Known
<1>1. task[p].pc \in Tidying /\ p # Scheduler
  BY <1>0 DEF Reg!Stats, Setting, Reg!In, LocalOK, SchedulerAt, Tidying
<1>2. Store' BY <1>0, <1>1 DEF RegInv, Store, Reg!Stats, Reg!db, Reg!hist
<1>3. UNCHANGED <<rows, current, home, keyLock, now, fired, seen, sch>> /\ sch'.next = sch.next
  BY DEF Reg!Stats, Reg!db, Reg!hist, Reg!Event, Reg!Begin
<1>4. CASE TRUE
  <2> DEFINE r == [task[p] EXCEPT !.pc = "each", !.spent = task[p].cands \cap used]
  <2>1. task' = [task EXCEPT ![p] = r] BY <1>4 DEF Reg!Stats, Reg!Set, Reg!Goto, Reg!Return, Reg!End
  <2>2. r \in Locals /\ Keeps(r, task[p]) /\ r.pc \in Tidying
    BY <1>0, <1>1, <1>4 DEF Setting, Keeps, Locals, TaskAt, MsgAt, Rotating, Tidying
  <2> HIDE DEF r
  <2>3. Lawful(p, r, seen, Reg!Cardinality(rows)) BY <1>1, <1>4, <2>2, TidyMove DEF Tidying
  <2> QED BY <1>1, <1>2, <1>3, <2>1, <2>3, StepTo DEF RegInv
<1> QED BY <1>1, <1>4

(* Nothing is left to tidy.                                                *)
LEMMA TidiedStep ==
  ASSUME Reg!RegistryAssumption, RegInv, NEW p \in Reg!Task, Reg!Tidied(p)
  PROVE  RegInv'
<1> USE Roles, KeyType
<1>0. Setting(p) BY Known
<1>1. task[p].pc \in Tidying /\ p # Scheduler
  BY <1>0 DEF Reg!Tidied, Setting, Reg!In, LocalOK, SchedulerAt, Tidying
<1>2. Store' BY <1>0, <1>1 DEF RegInv, Store, Reg!Tidied, Reg!db, Reg!hist
<1>3. UNCHANGED <<rows, current, home, keyLock, now, fired, seen, sch>> /\ sch'.next = sch.next
  BY DEF Reg!Tidied, Reg!db, Reg!hist, Reg!Event, Reg!Begin
<1>4. CASE TRUE
  <2> DEFINE r == Reg!Back(task[p])
  <2>1. task' = [task EXCEPT ![p] = r] BY <1>4 DEF Reg!Tidied, Reg!Set, Reg!Goto, Reg!Return, Reg!End
  <2>2. Lawful(p, r, seen, Reg!Cardinality(rows)) BY <1>1, TidyEnd DEF Tidying
  <2> QED BY <1>1, <1>2, <1>3, <2>1, <2>2, StepTo DEF RegInv
<1> QED BY <1>1, <1>4

(* An untitled session gets a name.                                        *)
LEMMA NameStep ==
  ASSUME Reg!RegistryAssumption, RegInv, NEW p \in Reg!Task, Reg!NameIt(p)
  PROVE  RegInv'
<1> USE Roles, KeyType
<1>0. Setting(p) BY Known
<1>1. task[p].pc \in Tidying /\ p # Scheduler
  BY <1>0 DEF Reg!NameIt, Setting, Reg!In, LocalOK, SchedulerAt, Tidying
<1>2. Store' BY <1>0, <1>1 DEF RegInv, Store, Reg!NameIt, Reg!hist, Reg!Name
<1>3. UNCHANGED <<rows, current, home, keyLock, now, fired, seen, sch>> /\ sch'.next = sch.next
  BY DEF Reg!NameIt, Reg!db, Reg!hist, Reg!Event, Reg!Begin
<1>4. CASE TRUE
  <2> DEFINE r == [task[p] EXCEPT !.pc = "each", !.victim = 0]
  <2>1. task' = [task EXCEPT ![p] = r] BY <1>4 DEF Reg!NameIt, Reg!Set, Reg!Goto, Reg!Return, Reg!End
  <2>2. r \in Locals /\ Keeps(r, task[p]) /\ r.pc \in Tidying
    BY <1>0, <1>1, <1>4 DEF Setting, Keeps, Locals, TaskAt, MsgAt, Rotating, Tidying
  <2> HIDE DEF r
  <2>3. Lawful(p, r, seen, Reg!Cardinality(rows)) BY <1>1, <1>4, <2>2, TidyMove DEF Tidying
  <2> QED BY <1>1, <1>2, <1>3, <2>1, <2>3, StepTo DEF RegInv
<1> QED BY <1>1, <1>4

(* A message comes.                                                        *)
LEMMA ArriveStep ==
  ASSUME Reg!RegistryAssumption, RegInv, NEW p \in Msg, Reg!Arrive(p)
  PROVE  RegInv'
<1> USE Roles, KeyType
<1>0. Setting(p) BY Known
<1>1. task[p].pc = "idle" /\ p \in Msg
  BY <1>0 DEF Reg!Arrive, Reg!In, Reg!Begin
<1>2. Store' BY <1>0, <1>1 DEF RegInv, Store, Reg!Arrive, Reg!db, Reg!hist, Reg!Event, Reg!Begin
<1>3. UNCHANGED <<rows, current, home, keyLock, now, fired, seen, sch>> /\ sch'.next = sch.next
  BY DEF Reg!Arrive, Reg!db, Reg!hist, Reg!Event, Reg!Begin
<1>4. CASE IdleReset
  <2> DEFINE r == [task[p] EXCEPT !.pc = "resolve", !.after = "lock"]
  <2>1. task' = [task EXCEPT ![p] = r] BY <1>4 DEF Reg!Arrive, Reg!Set, Reg!Goto, Reg!Return, Reg!End
  <2>2. r \in Locals /\ r.pc = "resolve" /\ r.after = "lock" /\ r.calm = task[p].calm
    BY <1>0, <1>1, <1>4 DEF Setting, Reg!Begin, Reg!In, Keeps, Locals, TaskAt, MsgAt, Finding, Rotating,
       Tidying
  <2> HIDE DEF r
  <2>3. Lawful(p, r, seen, Reg!Cardinality(rows))
    BY <1>0, <1>1, <2>2, <1>4 DEF Setting, Lawful, LocalOK, MsgLocal, MsgAt, Finding, Rotating,
       Tidying, Inside, Follows, AboutKey, Bounded, Reg!Counted
  <2> QED BY <1>1, <1>2, <1>3, <2>1, <2>3, StepTo DEF RegInv
<1>5. CASE ~IdleReset
  <2> DEFINE r == [task[p] EXCEPT !.pc = "resolve", !.after = "ensure"]
  <2>1. task' = [task EXCEPT ![p] = r] BY <1>5 DEF Reg!Arrive, Reg!Set, Reg!Goto, Reg!Return, Reg!End
  <2>2. r \in Locals /\ r.pc = "resolve" /\ r.after = "ensure" /\ r.calm = task[p].calm
    BY <1>0, <1>1, <1>5 DEF Setting, Reg!Begin, Reg!In, Keeps, Locals, TaskAt, MsgAt, Finding, Rotating,
       Tidying
  <2> HIDE DEF r
  <2>3. Lawful(p, r, seen, Reg!Cardinality(rows))
    BY <1>0, <1>1, <2>2, <1>5 DEF Setting, Lawful, LocalOK, MsgLocal, MsgAt, Finding, Rotating,
       Tidying, Inside, Follows, AboutKey, Bounded, Reg!Counted
  <2> QED BY <1>1, <1>2, <1>3, <2>1, <2>3, StepTo DEF RegInv
<1> QED BY <1>1, <1>4, <1>5

(* The sweeper looks into a user's sessions.                               *)
LEMMA SweepStep ==
  ASSUME Reg!RegistryAssumption, RegInv, NEW p \in Reg!Task, p = Sweeper, Reg!Sweep
  PROVE  RegInv'
<1> USE Roles, KeyType
<1>0. Setting(p) BY Known
<1>1. task[p].pc = "idle"
  BY <1>0 DEF Reg!Sweep, Reg!In, Reg!Begin
<1>2. Store' BY <1>0, <1>1 DEF RegInv, Store, Reg!Sweep, Reg!db, Reg!hist, Reg!Event, Reg!Begin
<1>3. UNCHANGED <<rows, current, home, keyLock, now, fired, seen, sch>> /\ sch'.next = sch.next
  BY DEF Reg!Sweep, Reg!db, Reg!hist, Reg!Event, Reg!Begin
<1>4. CASE TRUE
  <2> DEFINE r == [task[p] EXCEPT !.pc = "page", !.after = "idle", !.key = current]
  <2>1. task' = [task EXCEPT ![p] = r] BY <1>4 DEF Reg!Sweep, Reg!Set, Reg!Goto, Reg!Return, Reg!End
  <2>2. r \in Locals /\ r.pc = "page" /\ r.after = "idle"
    BY <1>0, <1>1, <1>4, ZenonT(30) DEF Setting, Reg!Begin, Reg!In, Keeps, Locals, TaskAt, MsgAt, Finding, Rotating,
       Tidying
  <2> HIDE DEF r
  <2>3. Lawful(p, r, seen, Reg!Cardinality(rows))
    BY <1>0, <1>1, <2>2, <1>4 DEF Setting, Lawful, LocalOK, SweeperLocal, Tidying, Bounded, Reg!Counted
  <2> QED BY <1>1, <1>2, <1>3, <2>1, <2>3, StepTo DEF RegInv
<1> QED BY <1>1, <1>4

(* /new and the menu's New.                                                *)
LEMMA NewStep ==
  ASSUME Reg!RegistryAssumption, RegInv, NEW u \in Tap, Reg!New(u)
  PROVE  RegInv'
<1> USE Roles, KeyType
<1>0. Setting(u) BY Known
<1>1. task[u].pc = "idle"
  BY <1>0 DEF Reg!New, Reg!In, Reg!Begin
<1>2. Store' BY <1>0, <1>1 DEF RegInv, Store, Reg!New, Reg!db, Reg!hist, Reg!Event, Reg!Begin
<1>3. UNCHANGED <<rows, current, home, keyLock, now, fired, seen, sch>> /\ sch'.next = sch.next
  BY DEF Reg!New, Reg!db, Reg!hist, Reg!Event, Reg!Begin
<1>4. CASE TRUE
  <2>0. PICK button \in BOOLEAN :
          task' = [task EXCEPT ![u] = [task[u] EXCEPT !.pc = "count",
                                                !.after = IF button THEN "keep" ELSE "done"]]
    BY <1>4 DEF Reg!New, Reg!Set, Reg!Goto
  <2> DEFINE r == [task[u] EXCEPT !.pc = "count", !.after = IF button THEN "keep" ELSE "done"]
  <2>1. task' = [task EXCEPT ![u] = r] BY <2>0, <1>4 DEF Reg!New, Reg!Set, Reg!Goto, Reg!Return, Reg!End
  <2>2. r \in Locals /\ r.pc = "count" /\ r.after \in {"keep", "done"}
    BY <1>0, <1>1, <2>0, <1>4, ZenonT(30) DEF Setting, Reg!Begin, Reg!In, Locals, TaskAt, TapAt, Tidying
  <2> HIDE DEF r
  <2>3. Lawful(u, r, seen', Reg!Cardinality(rows))
    BY <1>1, <2>2, TapMove DEF TapLocal, TapAt, Tidying, Reg!Counted
  <2> QED BY <1>1, <1>2, <1>3, <2>1, <2>3, StepTo DEF RegInv
<1> QED BY <1>1, <1>4 DEF Reg!New

(* The menu's New goes on to tidy.                                         *)
LEMMA NewKeepsStep ==
  ASSUME Reg!RegistryAssumption, RegInv, NEW u \in Tap, Reg!NewKeeps(u)
  PROVE  RegInv'
<1> USE Roles, KeyType
<1>0. Setting(u) BY Known
<1>1. task[u].pc = "keep"
  BY <1>0 DEF Reg!NewKeeps, Reg!In
<1>2. Store' BY <1>0, <1>1 DEF RegInv, Store, Reg!NewKeeps, Reg!db, Reg!hist
<1>3. UNCHANGED <<rows, current, home, keyLock, now, fired, seen, sch>> /\ sch'.next = sch.next
  BY DEF Reg!NewKeeps, Reg!db, Reg!hist, Reg!Event, Reg!Begin
<1>4. CASE TRUE
  <2> DEFINE r == [task[u] EXCEPT !.pc = "page", !.after = "done", !.key = current]
  <2>1. task' = [task EXCEPT ![u] = r] BY <1>4 DEF Reg!NewKeeps, Reg!Set, Reg!Goto, Reg!Return, Reg!End
  <2>2. r \in Locals /\ r.pc = "page" /\ r.after = "done"
    BY <1>0, <1>1, <1>4 DEF Setting, Reg!Begin, Reg!In, Locals, TaskAt, TapAt, Tidying
  <2> HIDE DEF r
  <2>3. Lawful(u, r, seen', Reg!Cardinality(rows))
    BY <1>1, <2>2, TapMove DEF TapLocal, TapAt, Tidying, Reg!Counted
  <2> QED BY <1>1, <1>2, <1>3, <2>1, <2>3, StepTo DEF RegInv
<1> QED BY <1>1, <1>4

(* A session is chosen, and seen.                                          *)
LEMMA SwitchStep ==
  ASSUME Reg!RegistryAssumption, RegInv, NEW u \in Tap, Reg!Switch(u)
  PROVE  RegInv'
<1> USE Roles, KeyType
<1>0. Setting(u) BY Known
<1>1. task[u].pc = "idle"
  BY <1>0 DEF Reg!Switch, Reg!In, Reg!Begin
<1>2. Store' BY <1>0, <1>1 DEF RegInv, Store, Reg!Switch, Reg!db, Reg!hist, Reg!Event, Reg!Begin
<1>3. UNCHANGED <<rows, current, home, keyLock, now, fired, seen, sch>> /\ sch'.next = sch.next
  BY DEF Reg!Switch, Reg!db, Reg!hist, Reg!Event, Reg!Begin
<1>4. CASE TRUE
  <2>0. PICK k \in rows :
          task' = [task EXCEPT ![u] = [task[u] EXCEPT !.pc = "point", !.after = "seen", !.key = k]]
    BY <1>4 DEF Reg!Switch, Reg!Set, Reg!Goto
  <2> DEFINE r == [task[u] EXCEPT !.pc = "point", !.after = "seen", !.key = k]
  <2>1. task' = [task EXCEPT ![u] = r] BY <2>0, <1>4 DEF Reg!Switch, Reg!Set, Reg!Goto, Reg!Return, Reg!End
  <2>2. r \in Locals /\ r.pc = "point" /\ r.after = "seen"
    BY <1>0, <1>1, <2>0, <1>4 DEF Setting, Reg!Begin, Reg!In, Locals, TaskAt, TapAt, Tidying
  <2> HIDE DEF r
  <2>3. Lawful(u, r, seen', Reg!Cardinality(rows))
    BY <1>1, <2>2, TapMove DEF TapLocal, TapAt, Tidying, Reg!Counted
  <2> QED BY <1>1, <1>2, <1>3, <2>1, <2>3, StepTo DEF RegInv
<1> QED BY <1>1, <1>4 DEF Reg!Switch

(* The clock of the idle rotation starts anew.                             *)
LEMMA SwitchSeenStep ==
  ASSUME Reg!RegistryAssumption, RegInv, NEW u \in Tap, Reg!SwitchSeen(u)
  PROVE  RegInv'
<1> USE Roles, KeyType
<1>0. Setting(u) BY Known
<1>1. task[u].pc = "seen"
  BY <1>0 DEF Reg!SwitchSeen, Reg!In
<1>2. Store' BY <1>0, <1>1 DEF RegInv, Store, Reg!SwitchSeen, Reg!hist
<1>3. UNCHANGED <<rows, current, home, keyLock, now, fired, sch>> /\ sch'.next = sch.next /\ seen' = "fresh"
  BY DEF Reg!SwitchSeen, Reg!db, Reg!hist, Reg!Event, Reg!Begin
<1>4. CASE TRUE
  <2> DEFINE r == [task[u] EXCEPT !.pc = "page", !.after = "done"]
  <2>1. task' = [task EXCEPT ![u] = r] BY <1>4 DEF Reg!SwitchSeen, Reg!Set, Reg!Goto, Reg!Return, Reg!End
  <2>2. r \in Locals /\ r.pc = "page" /\ r.after = "done"
    BY <1>0, <1>1, <1>4 DEF Setting, Reg!Begin, Reg!In, Locals, TaskAt, TapAt, Tidying
  <2> HIDE DEF r
  <2>3. Lawful(u, r, seen', Reg!Cardinality(rows))
    BY <1>1, <2>2, TapMove DEF TapLocal, TapAt, Tidying, Reg!Counted
  <2> QED BY <1>1, <1>2, <1>3, <2>1, <2>3, StepTo DEF RegInv
<1> QED BY <1>1, <1>4

(* A star is asked for.                                                    *)
LEMMA FavoriteStep ==
  ASSUME Reg!RegistryAssumption, RegInv, NEW u \in Tap, Reg!Favorite(u)
  PROVE  RegInv'
<1> USE Roles, KeyType
<1>0. Setting(u) BY Known
<1>1. task[u].pc = "idle"
  BY <1>0 DEF Reg!Favorite, Reg!In, Reg!Begin
<1>2. Store' BY <1>0, <1>1 DEF RegInv, Store, Reg!Favorite, Reg!db, Reg!hist, Reg!Event, Reg!Begin
<1>3. UNCHANGED <<rows, current, home, keyLock, now, fired, seen, sch>> /\ sch'.next = sch.next
  BY DEF Reg!Favorite, Reg!db, Reg!hist, Reg!Event, Reg!Begin
<1>4. CASE TRUE
  <2>0. PICK k \in rows :
          task' = [task EXCEPT ![u] = [task[u] EXCEPT !.pc = "star", !.key = k, !.on = ~row[k].fav]]
    BY <1>4 DEF Reg!Favorite, Reg!Set, Reg!Goto
  <2> DEFINE r == [task[u] EXCEPT !.pc = "star", !.key = k, !.on = ~row[k].fav]
  <2>1. task' = [task EXCEPT ![u] = r] BY <2>0, <1>4 DEF Reg!Favorite, Reg!Set, Reg!Goto, Reg!Return, Reg!End
  <2>2. r \in Locals /\ r.pc = "star"
    BY <1>0, <1>1, <2>0, <1>4, ZenonT(30) DEF Setting, Reg!Begin, Reg!In, Locals, TaskAt, TapAt, Tidying
  <2> HIDE DEF r
  <2>3. Lawful(u, r, seen', Reg!Cardinality(rows))
    BY <1>1, <2>2, TapMove DEF TapLocal, TapAt, Tidying, Reg!Counted
  <2> QED BY <1>1, <1>2, <1>3, <2>1, <2>3, StepTo DEF RegInv
<1> QED BY <1>1, <1>4 DEF Reg!Favorite

(* The star is written.                                                    *)
LEMMA StarStep ==
  ASSUME Reg!RegistryAssumption, RegInv, NEW u \in Tap, Reg!Star(u)
  PROVE  RegInv'
<1> USE Roles, KeyType
<1>0. Setting(u) BY Known
<1>1. task[u].pc = "star"
  BY <1>0 DEF Reg!Star, Reg!In
<1>2. Store' BY <1>0, <1>1 DEF Setting, RegInv, Store, Reg!Star, Reg!End, Reg!hist, Locals
<1>3. UNCHANGED <<rows, current, home, keyLock, now, fired, seen, sch>> /\ sch'.next = sch.next
  BY DEF Reg!Star, Reg!hist
<1>4. CASE TRUE
  <2> DEFINE r == Reg!Rest("done")
  <2>1. task' = [task EXCEPT ![u] = r] BY <1>4 DEF Reg!Star, Reg!End, Reg!Set, Reg!Set, Reg!End
  <2>2. Lawful(u, r, seen', Reg!Cardinality(rows)) BY <1>0, <1>1, <1>4, AtRest DEF Setting, Inside, Tidying
  <2> QED BY <1>1, <1>2, <1>3, <2>1, <2>2, StepTo DEF RegInv
<1> QED BY <1>1, <1>4

(* A name is pinned.                                                       *)
LEMMA RenameStep ==
  ASSUME Reg!RegistryAssumption, RegInv, NEW u \in Tap, Reg!Rename(u)
  PROVE  RegInv'
<1> USE Roles, KeyType
<1>0. Setting(u) BY Known
<1>1. task[u].pc = "idle"
  BY <1>0 DEF Reg!Rename, Reg!In, Reg!Begin
<1>2. Store' BY <1>0, <1>1 DEF RegInv, Store, Reg!Rename, Reg!hist, Reg!Event, Reg!Begin, Reg!Name
<1>3. UNCHANGED <<rows, current, home, keyLock, now, fired, seen, sch>> /\ sch'.next = sch.next
  BY DEF Reg!Rename, Reg!hist
<1>4. CASE TRUE
  <2> DEFINE r == Reg!Rest("done")
  <2>1. task' = [task EXCEPT ![u] = r] BY <1>4 DEF Reg!Rename, Reg!End, Reg!Set, Reg!Set, Reg!End
  <2>2. Lawful(u, r, seen', Reg!Cardinality(rows)) BY <1>0, <1>1, <1>4, AtRest DEF Setting, Inside, Tidying
  <2> QED BY <1>1, <1>2, <1>3, <2>1, <2>2, StepTo DEF RegInv
<1> QED BY <1>1, <1>4

(* A deletion is confirmed.                                                *)
LEMMA DeleteAskedStep ==
  ASSUME Reg!RegistryAssumption, RegInv, NEW u \in Tap, Reg!DeleteAsked(u)
  PROVE  RegInv'
<1> USE Roles, KeyType
<1>0. Setting(u) BY Known
<1>1. task[u].pc = "idle"
  BY <1>0 DEF Reg!DeleteAsked, Reg!In, Reg!Begin
<1>2. Store' BY <1>0, <1>1 DEF RegInv, Store, Reg!DeleteAsked, Reg!db, Reg!hist, Reg!Event, Reg!Begin
<1>3. UNCHANGED <<rows, current, home, keyLock, now, fired, seen, sch>> /\ sch'.next = sch.next
  BY DEF Reg!DeleteAsked, Reg!db, Reg!hist, Reg!Event, Reg!Begin
<1>4. CASE TRUE
  <2>0. PICK k \in 1..seq : task' = [task EXCEPT ![u] = [task[u] EXCEPT !.pc = "user reset", !.victim = k]]
    BY <1>4 DEF Reg!DeleteAsked, Reg!Set, Reg!Goto
  <2> DEFINE r == [task[u] EXCEPT !.pc = "user reset", !.victim = k]
  <2>1. task' = [task EXCEPT ![u] = r] BY <2>0, <1>4 DEF Reg!DeleteAsked, Reg!Set, Reg!Goto, Reg!Return, Reg!End
  <2>2. r \in Locals /\ r.pc = "user reset"
    BY <1>0, <1>1, <2>0, <1>4 DEF Setting, Reg!Begin, Reg!In, Locals, TaskAt, TapAt, Tidying
  <2> HIDE DEF r
  <2>3. Lawful(u, r, seen', Reg!Cardinality(rows))
    BY <1>1, <2>2, TapMove DEF TapLocal, TapAt, Tidying, Reg!Counted
  <2> QED BY <1>1, <1>2, <1>3, <2>1, <2>3, StepTo DEF RegInv
<1> QED BY <1>1, <1>4 DEF Reg!DeleteAsked

(* What is current after it.                                               *)
LEMMA RepointStep ==
  ASSUME Reg!RegistryAssumption, RegInv, NEW u \in Tap, Reg!Repoint(u)
  PROVE  RegInv'
<1> USE Roles, KeyType
<1>0. Setting(u) BY Known
<1>1. task[u].pc = "gone"
  BY <1>0 DEF Reg!Repoint, Setting, Reg!In, Reg!Begin, LocalOK, MsgLocal, MsgAt, TapLocal, TapAt, SweeperLocal,
     SchedulerAt, Finding, Rotating, Tidying
<1>2. Store'
  BY <1>0, <1>1 DEF Setting, RegInv, Store, Reg!Repoint, Reg!db, Reg!hist, Reg!Event, Reg!Begin, Locals, Reg!NewRow, Reg!Name
<1>3. UNCHANGED <<rows, current, home, keyLock, now, fired, seen, sch>> /\ sch'.next = sch.next
  BY DEF Reg!Repoint, Reg!db, Reg!hist, Reg!Event, Reg!Begin
<1>4. CASE current # task[u].victim
  <2> DEFINE r == Reg!Rest("done")
  <2>1. task' = [task EXCEPT ![u] = r] BY <1>4 DEF Reg!Repoint, Reg!Set, Reg!Goto, Reg!Return, Reg!End
  <2>2. Lawful(u, r, seen', Reg!Cardinality(rows)) BY <1>0, <1>1, <1>4, AtRest DEF Setting, Inside, Tidying
  <2> QED BY <1>1, <1>2, <1>3, <2>1, <2>2, StepTo DEF RegInv
<1>5. CASE current = task[u].victim /\ rows = {}
  <2> DEFINE r == [task[u] EXCEPT !.pc = "first", !.after = "done"]
  <2>1. task' = [task EXCEPT ![u] = r] BY <1>5 DEF Reg!Repoint, Reg!Set, Reg!Goto, Reg!Return, Reg!End
  <2>2. r \in Locals /\ r.pc = "first" /\ r.after = "done"
    BY <1>0, <1>1, <1>5 DEF Setting, Reg!Begin, Reg!In, Locals, TaskAt, TapAt, Tidying
  <2> HIDE DEF r
  <2>3. Lawful(u, r, seen', Reg!Cardinality(rows))
    BY <1>1, <2>2, TapMove DEF TapLocal, TapAt, Tidying, Reg!Counted
  <2> QED BY <1>1, <1>2, <1>3, <2>1, <2>3, StepTo DEF RegInv
<1>6. CASE current = task[u].victim /\ rows # {}
  <2>0. PICK k \in rows :
          task' = [task EXCEPT ![u] = [task[u] EXCEPT !.pc = "point", !.after = "done", !.key = k]]
    BY <1>6 DEF Reg!Repoint, Reg!Set, Reg!Goto
  <2> DEFINE r == [task[u] EXCEPT !.pc = "point", !.after = "done", !.key = k]
  <2>1. task' = [task EXCEPT ![u] = r] BY <2>0, <1>6 DEF Reg!Repoint, Reg!Set, Reg!Goto, Reg!Return, Reg!End
  <2>2. r \in Locals /\ r.pc = "point" /\ r.after = "done"
    BY <1>0, <1>1, <2>0, <1>6 DEF Setting, Reg!Begin, Reg!In, Locals, TaskAt, TapAt, Tidying
  <2> HIDE DEF r
  <2>3. Lawful(u, r, seen', Reg!Cardinality(rows))
    BY <1>1, <2>2, TapMove DEF TapLocal, TapAt, Tidying, Reg!Counted
  <2> QED BY <1>1, <1>2, <1>3, <2>1, <2>3, StepTo DEF RegInv
<1> QED BY <1>1, <1>4, <1>5, <1>6 DEF Reg!Repoint

(* A schedule is paused or resumed.                                        *)
LEMMA ToggleStep ==
  ASSUME Reg!RegistryAssumption, RegInv, NEW u \in Tap, Reg!Toggle(u)
  PROVE  RegInv'
<1> USE Roles, KeyType
<1>0. Setting(u) BY Known
<1>1. task[u].pc = "idle"
  BY <1>0 DEF Reg!Toggle, Reg!In, Reg!Begin
<1>2. Store' BY <1>0, <1>1 DEF RegInv, Store, Reg!Toggle, Reg!db, Reg!hist, Reg!Event, Reg!Begin
<1>3. UNCHANGED <<rows, current, home, keyLock, now, fired, seen, sch>> /\ sch'.next = sch.next
  BY DEF Reg!Toggle, Reg!db, Reg!hist, Reg!Event, Reg!Begin
<1>4. CASE TRUE
  <2> DEFINE r == [task[u] EXCEPT !.pc = IF sch.on THEN "enable" ELSE "advance", !.on = ~sch.on]
  <2>1. task' = [task EXCEPT ![u] = r] BY <1>4 DEF Reg!Toggle, Reg!Set, Reg!Goto, Reg!Return, Reg!End
  <2>2. r \in Locals /\ r.pc \in {"enable", "advance"}
    BY <1>0, <1>1, <1>4, ZenonT(30) DEF Setting, Reg!Begin, Reg!In, Locals, TaskAt, TapAt, Tidying
  <2> HIDE DEF r
  <2>3. Lawful(u, r, seen', Reg!Cardinality(rows))
    BY <1>1, <2>2, TapMove DEF TapLocal, TapAt, Tidying, Reg!Counted
  <2> QED BY <1>1, <1>2, <1>3, <2>1, <2>3, StepTo DEF RegInv
<1> QED BY <1>1, <1>4

(* Its switch is written.                                                  *)
LEMMA EnableStep ==
  ASSUME Reg!RegistryAssumption, RegInv, NEW u \in Tap, Reg!ToggleEnable(u)
  PROVE  RegInv'
<1> USE Roles, KeyType
<1>0. Setting(u) BY Known
<1>1. task[u].pc = "enable"
  BY <1>0 DEF Reg!ToggleEnable, Reg!In
<1>2. Store' BY <1>0, <1>1 DEF Setting, RegInv, Store, Reg!ToggleEnable, Reg!db, Reg!hist, Locals
<1>3. UNCHANGED <<rows, current, home, keyLock, now, fired, seen>> /\ sch'.next = sch.next
  BY DEF Reg!ToggleEnable, Reg!db, Reg!hist, Reg!Event, Reg!Begin
<1>4. CASE TRUE
  <2> DEFINE r == Reg!Rest("done")
  <2>1. task' = [task EXCEPT ![u] = r] BY <1>4 DEF Reg!ToggleEnable, Reg!Set, Reg!Goto, Reg!Return, Reg!End
  <2>2. Lawful(u, r, seen', Reg!Cardinality(rows)) BY <1>0, <1>1, <1>4, AtRest DEF Setting, Inside, Tidying
  <2> QED BY <1>1, <1>2, <1>3, <2>1, <2>2, StepTo DEF RegInv
<1> QED BY <1>1, <1>4

(* It is deleted.                                                          *)
LEMMA UnscheduleStep ==
  ASSUME Reg!RegistryAssumption, RegInv, NEW u \in Tap, Reg!Unschedule(u)
  PROVE  RegInv'
<1> USE Roles, KeyType
<1>0. Setting(u) BY Known
<1>1. task[u].pc = "idle"
  BY <1>0 DEF Reg!Unschedule, Reg!In, Reg!Begin
<1>2. Store'
  <2>1. sch' \in [there : BOOLEAN, on : BOOLEAN, next : Nat \ {0}, key : Reg!Key]
    BY DEF RegInv, Store, Reg!Unschedule
  <2> QED BY <2>1 DEF RegInv, Store, Reg!Unschedule, Reg!db, Reg!hist, Reg!Event, Reg!Begin
<1>3. UNCHANGED <<rows, current, home, keyLock, now, fired, seen>> /\ sch'.next = sch.next
  BY DEF Reg!Unschedule, Reg!db, Reg!hist, Reg!Event, Reg!Begin
<1>4. CASE TRUE
  <2> DEFINE r == Reg!Rest("done")
  <2>1. task' = [task EXCEPT ![u] = r] BY <1>4 DEF Reg!Unschedule, Reg!Set, Reg!Goto, Reg!Return, Reg!End
  <2>2. Lawful(u, r, seen', Reg!Cardinality(rows)) BY <1>0, <1>1, <1>4, AtRest DEF Setting, Inside, Tidying
  <2> QED BY <1>1, <1>2, <1>3, <2>1, <2>2, StepTo DEF RegInv
<1> QED BY <1>1, <1>4

(* The session that goes is reset.                                         *)
LEMMA ResetStep ==
  ASSUME Reg!RegistryAssumption, RegInv, NEW p \in Reg!Task, Reg!Reset(p)
  PROVE  RegInv'
<1> USE Roles, KeyType
<1>0. Setting(p) BY Known
<1>1. task[p].pc \in {"reset", "tidy reset", "user reset"} /\ p # Scheduler
  BY <1>0 DEF Reg!Reset, Setting, Reg!In, Reg!Begin, LocalOK, MsgLocal, MsgAt, TapLocal, TapAt, SweeperLocal,
     SchedulerAt, Finding, Rotating, Tidying
<1>2. Store'
  BY <1>0, <1>1 DEF Setting, RegInv, Store, Reg!Reset, Reg!db, Reg!hist, Reg!Event, Reg!Begin, Locals, Reg!NewRow, Reg!Name
<1>3. UNCHANGED <<rows, current, home, keyLock, now, fired, seen, sch>> /\ sch'.next = sch.next
  BY DEF Reg!Reset, Reg!db, Reg!hist, Reg!Event, Reg!Begin
<1>4. CASE task[p].pc = "reset"
  <2> DEFINE r == [task[p] EXCEPT !.pc = "delete"]
  <2>1. task' = [task EXCEPT ![p] = r] BY <1>4 DEF Reg!In, Reg!Reset, Reg!Set, Reg!Goto
  <2>2. r \in Locals /\ r.pc = "delete" /\ Keeps(r, task[p])
    BY <1>0, <1>1, <1>4 DEF Setting, Reg!Begin, Reg!In, Keeps, Locals, TaskAt, MsgAt, Finding, Rotating,
       Tidying
  <2> HIDE DEF r
  <2>3. Lawful(p, r, seen, Reg!Cardinality(rows))
    BY <1>0, <1>1, <2>2, <1>4 DEF Keeps, Setting, Lawful, LocalOK, MsgLocal, TapLocal,
       SweeperLocal, MsgAt, TapAt, Finding, Rotating, Tidying, Inside, Follows, AboutKey, Bounded,
       Reg!Counted
  <2> QED BY <1>1, <1>2, <1>3, <2>1, <2>3, StepTo DEF RegInv
<1>5. CASE task[p].pc = "tidy reset"
  <2> DEFINE r == [task[p] EXCEPT !.pc = "tidy delete"]
  <2>1. task' = [task EXCEPT ![p] = r] BY <1>5 DEF Reg!In, Reg!Reset, Reg!Set, Reg!Goto, Reg!Return, Reg!End
  <2>2. r \in Locals /\ Keeps(r, task[p]) /\ r.pc \in Tidying
    BY <1>0, <1>1, <1>5 DEF Setting, Keeps, Locals, TaskAt, MsgAt, Rotating, Tidying
  <2> HIDE DEF r
  <2>3. Lawful(p, r, seen, Reg!Cardinality(rows)) BY <1>1, <1>5, <2>2, TidyMove DEF Tidying
  <2> QED BY <1>1, <1>2, <1>3, <2>1, <2>3, StepTo DEF RegInv
<1>6. CASE task[p].pc = "user reset"
  <2> DEFINE r == [task[p] EXCEPT !.pc = "user delete"]
  <2>1. task' = [task EXCEPT ![p] = r] BY <1>6 DEF Reg!In, Reg!Reset, Reg!Set, Reg!Goto, Reg!Return, Reg!End
  <2>2. r \in Locals /\ r.pc = "user delete"
    BY <1>0, <1>1, <1>6 DEF Setting, Reg!Begin, Reg!In, Keeps, Locals, TaskAt, MsgAt, TapAt, Finding,
       Rotating, Tidying
  <2> HIDE DEF r
  <2>3. Lawful(p, r, seen, Reg!Cardinality(rows))
    BY <1>0, <1>1, <2>2, <1>6 DEF Keeps, Setting, Lawful, LocalOK, MsgLocal, TapLocal,
       SweeperLocal, MsgAt, TapAt, SchedulerAt, TaskAt, Finding, Rotating, Tidying, Inside,
       Follows, AboutKey, Bounded, Reg!Counted
  <2> QED BY <1>1, <1>2, <1>3, <2>1, <2>3, StepTo DEF RegInv
<1> QED BY <1>1, <1>4, <1>5, <1>6

(* A message hands its prompt over.                                        *)
LEMMA SubmitStep ==
  ASSUME Reg!RegistryAssumption, RegInv, NEW p \in Reg!Task, p # Scheduler, Reg!Submit(p)
  PROVE  RegInv'
<1> USE Roles, KeyType
<1>0. Setting(p) BY Known
<1>1. task[p].pc = "submit" /\ p \in Msg
  BY <1>0 DEF Reg!Submit, Setting, Reg!In, LocalOK, TapLocal, TapAt, SweeperLocal, Tidying
<1>2. Store'
  BY <1>0, <1>1 DEF Setting, RegInv, Store, Reg!Submit, Reg!db, Reg!hist, Reg!Event, Reg!Begin, Locals, Reg!NewRow, Reg!Name
<1>3. UNCHANGED <<rows, current, home, keyLock, now, fired, seen, sch>> /\ sch'.next = sch.next
  BY DEF Reg!Submit, Reg!db, Reg!hist, Reg!Event, Reg!Begin
<1>4. CASE TRUE
  <2> DEFINE r == Reg!Rest("done")
  <2>1. task' = [task EXCEPT ![p] = r] BY <1>4 DEF Reg!Submit, Reg!Set, Reg!Goto, Reg!Return, Reg!End
  <2>2. Lawful(p, r, seen', Reg!Cardinality(rows)) BY <1>0, <1>1, <1>4, AtRest DEF Setting, Inside, Tidying
  <2> QED BY <1>1, <1>2, <1>3, <2>1, <2>2, StepTo DEF RegInv
<1> QED BY <1>1, <1>4

(* One of the listed sessions is left alone, named or archived.            *)
LEMMA EachStep ==
  ASSUME Reg!RegistryAssumption, RegInv, NEW p \in Reg!Task, Reg!Each(p)
  PROVE  RegInv'
<1> USE Roles, KeyType
<1>0. Setting(p) BY Known
<1>1. PICK k \in task[p].cands :
        LET r == [task[p] EXCEPT !.cands = @ \ {k}, !.victim = k]
            spare == Reg!Set(p, [r EXCEPT !.victim = 0])
            name == Reg!Set(p, [r EXCEPT !.pc = "name"])
            archive == Reg!Set(p, [r EXCEPT !.pc = "tidy reset"]) IN
        task[p].pc = "each" /\ (spare \/ name \/ archive)
  BY DEF Reg!Each, Reg!In
<1>2. Store' BY DEF RegInv, Store, Reg!Each, Reg!db, Reg!hist
<1>3. UNCHANGED <<rows, current, home, keyLock, now, fired, seen, sch>> BY DEF Reg!Each, Reg!db, Reg!hist
<1>4. k \in Reg!Key /\ task[p].cands \ {k} \in SUBSET Reg!Key BY <1>0 DEF Setting, Locals
<1>5. PICK r : /\ task' = [task EXCEPT ![p] = r] /\ r \in Locals /\ Keeps(r, task[p])
               /\ r.pc \in {"each", "name", "tidy reset"}
  <2> DEFINE s == [[task[p] EXCEPT !.cands = @ \ {k}, !.victim = k] EXCEPT !.victim = 0]
             n == [[task[p] EXCEPT !.cands = @ \ {k}, !.victim = k] EXCEPT !.pc = "name"]
             a == [[task[p] EXCEPT !.cands = @ \ {k}, !.victim = k] EXCEPT !.pc = "tidy reset"]
  <2>1. task' = [task EXCEPT ![p] = s] \/ task' = [task EXCEPT ![p] = n] \/ task' = [task EXCEPT ![p] = a]
    BY <1>1 DEF Reg!Set
  <2>2. s \in Locals /\ Keeps(s, task[p]) /\ s.pc = "each" BY <1>0, <1>1, <1>4 DEF Setting, Keeps, Locals
  <2>3. n \in Locals /\ Keeps(n, task[p]) /\ n.pc = "name"
    BY <1>0, <1>4 DEF Setting, Keeps, Locals, TaskAt, MsgAt, Rotating, Tidying
  <2>4. a \in Locals /\ Keeps(a, task[p]) /\ a.pc = "tidy reset"
    BY <1>0, <1>4 DEF Setting, Keeps, Locals, TaskAt, MsgAt, Rotating, Tidying
  <2> HIDE DEF s, n, a
  <2> QED BY <2>1, <2>2, <2>3, <2>4
<1>6. p # Scheduler /\ Lawful(p, r, seen, Reg!Cardinality(rows))
  BY <1>1, <1>5, TidyMove DEF Tidying
<1> QED BY <1>2, <1>3, <1>5, <1>6, StepTo DEF RegInv

(* A new pointer in place of one that dangles.                             *)
LEMMA HealPointStep ==
  ASSUME Reg!RegistryAssumption, RegInv, NEW p \in Reg!Task, Reg!HealPoint(p)
  PROVE  RegInv'
<1> USE Roles, KeyType
<1> DEFINE r == Reg!Back(task[p])
<1>0. Setting(p) BY Known
<1>1. /\ task[p].pc = "heal point" /\ p \in Msg \cup Tap
      /\ (p \in Msg => task[p].after \in {"lock", "ensure", "decide"} /\ task[p].key # 0)
      /\ (p \in Tap => task[p].after = "done")
  BY <1>0 DEF Reg!HealPoint, Reg!In, Setting, LocalOK, MsgLocal, TapLocal, SweeperLocal, SchedulerAt,
     Finding, Tidying
<1>2. task' = Reg!Disturbed([task EXCEPT ![p] = r]) /\ home' = 0 BY DEF Reg!HealPoint, Reg!Disturb
<1>3. UNCHANGED <<rows, keyLock, now, fired, sch>> BY DEF Reg!HealPoint
<1>4. Store' BY <1>0, <1>1, <1>2 DEF Setting, RegInv, Store, Reg!HealPoint, Locals
<1>5. /\ LocalOK(p, r) /\ (p \in Msg /\ Inside(r) => keyLock = p) /\ r.pc \notin Reg!Counted
  <2>1. CASE p \in Msg
    <3>1. /\ r \in Locals /\ r.pc = task[p].after /\ r.after = task[p].after /\ r.key = task[p].key
      BY <1>0, <1>1, <2>1 DEF Setting, Reg!Back, Locals
    <3> HIDE DEF r
    <3> QED
      BY <1>0, <1>1, <2>1, <3>1 DEF Setting, LocalOK, MsgLocal, MsgAt, Finding, Rotating, Tidying,
         Inside, Reg!Counted
  <2>2. CASE p \in Tap
    <3>1. r = Reg!Rest("done") BY <1>1, <2>2 DEF Reg!Back
    <3> HIDE DEF r
    <3> QED BY <2>2, <3>1, AtRest, RestType DEF Lawful, Reg!Counted, TaskAt, TapAt
  <2> QED BY <1>1, <2>1, <2>2
<1> HIDE DEF r
<1>6. Bounded(r, Reg!Cardinality(rows')) BY <1>5 DEF Bounded, Reg!Counted
<1>7. p # Scheduler BY <1>1
<1> QED BY <1>2, <1>3, <1>4, <1>5, <1>6, <1>7, DisturbTo DEF RegInv

(* The pointer moves: a rotating message is about the new session, anyone  *)
(* else disturbs it.                                                       *)
LEMMA PointStep ==
  ASSUME Reg!RegistryAssumption, RegInv, NEW p \in Reg!Task, Reg!Point(p)
  PROVE  RegInv'
<1> USE Roles, KeyType
<1>0. Setting(p) BY Known
<1>1. /\ task[p].pc = "point" /\ p \in Msg \cup Tap /\ task[p].key \in Reg!Key \cup {0}
      /\ (p \in Msg => task[p].key # 0 /\ keyLock = p)
      /\ (p \in Tap => task[p].after \in {"keep", "done", "seen"})
  BY <1>0 DEF Reg!Point, Reg!In, Setting, Locals, LocalOK, MsgLocal, TapLocal, SweeperLocal, SchedulerAt,
     Rotating, Tidying, Inside
<1>2. current' = task[p].key /\ UNCHANGED <<rows, keyLock, now, fired, sch, seen>> BY DEF Reg!Point
<1>3. Store' BY <1>0, <1>1 DEF Setting, RegInv, Store, Reg!Point, Reg!Disturb
<1>4. CASE p \in Tap
  <2> DEFINE r == Reg!Back(task[p])
  <2>1. task' = Reg!Disturbed([task EXCEPT ![p] = r]) /\ home' = 0 BY <1>4 DEF Reg!Point, Reg!Disturb
  <2>2. LocalOK(p, r) /\ r.pc \notin Reg!Counted
    <3>1. CASE task[p].after = "done"
      <4>1. r = Reg!Rest("done") BY <3>1 DEF Reg!Back
      <4> HIDE DEF r
      <4> QED BY <1>4, <4>1, AtRest, RestType DEF Lawful, Reg!Counted, TaskAt, TapAt
    <3>2. CASE task[p].after # "done"
      <4>1. r \in Locals /\ r.pc \in {"keep", "seen"}
        BY <1>0, <1>1, <1>4, <3>2 DEF Setting, Reg!Back, Locals, TaskAt, TapAt
      <4> HIDE DEF r
      <4> QED BY <1>4, <4>1 DEF LocalOK, TapLocal, TapAt, Tidying, Reg!Counted
    <3> QED BY <3>1, <3>2
  <2> HIDE DEF r
  <2>3. Bounded(r, Reg!Cardinality(rows')) BY <2>2 DEF Bounded, Reg!Counted
  <2> QED BY <1>2, <1>3, <1>4, <2>1, <2>2, <2>3, DisturbTo DEF RegInv
<1>5. CASE p \in Msg
  <2> DEFINE r == [task[p] EXCEPT !.pc = "page", !.after = "settle"]
  <2>1. task' = [task EXCEPT ![p] = r] /\ home' = home BY <1>5 DEF Reg!Point, Reg!Set
  <2>2. task \in [Reg!Task -> Locals] BY DEF RegInv, TaskInv
  <2>3. r \in Locals /\ r.pc = "page" /\ r.after = "settle" /\ r.key = task[p].key /\ r.calm = task[p].calm
    BY <1>0 DEF Setting, Locals, TaskAt, MsgAt, Rotating, Tidying
  <2> HIDE DEF r
  <2>4. task' \in [Reg!Task -> Locals] /\ task'[p] = r /\ \A q \in Reg!Task \ {p} : task'[q] = task[q]
    BY <2>1, <2>2, <2>3
  <2>5. \A q \in Reg!Task \ {p} : Like(task'[q], task[q]) BY <2>2, <2>4 DEF Like
  <2>6. LocalOK(p, r) BY <1>1, <1>5, <2>3 DEF LocalOK, MsgLocal, MsgAt, Finding, Tidying, Rotating
  <2>7. TaskInv' BY <2>4, <2>5, <2>6, TasksKept
  <2>8. RotateInv' BY <1>1, <1>2, <1>5, <2>4, <2>5, LockKept
  <2>9. HomeInv'
    <3>1. Follows(task[p], current, home, seen) BY <1>0, <1>1, <1>5 DEF Setting
    <3>2. home = 0 /\ (task[p].calm => seen # "stale") BY <1>1, <3>1 DEF Follows, Rotating
    <3>3. keyLock' = p /\ keyLock' # None /\ home' = 0 /\ seen' = seen BY <1>1, <1>2, <1>5, <2>1, <3>2
    <3>4. Follows(task'[p], current', home', seen') BY <1>2, <2>3, <2>4, <3>2, <3>3 DEF Follows
    <3> QED BY <3>3, <3>4 DEF HomeInv, Follows
  <2>10. Bounded(task'[p], Reg!Cardinality(rows')) BY <2>3, <2>4 DEF Bounded, Reg!Counted
  <2>11. rows' \subseteq Reg!Key /\ rows' \subseteq rows BY <1>0, <1>2 DEF Setting
  <2>12. CapInv' BY <2>4, <2>5, <2>10, <2>11, CapKept
  <2>13. DueInv' BY <1>2, <1>5, <2>4, <2>5, DueKept
  <2> QED BY <1>3, <2>7, <2>8, <2>9, <2>12, <2>13 DEF RegInv
<1> QED BY <1>1, <1>4, <1>5

(* A message gets the lock.                                                *)
LEMMA AcquireStep ==
  ASSUME Reg!RegistryAssumption, RegInv, NEW m \in Msg, Reg!Acquire(m)
  PROVE  RegInv'
<1> USE Roles
<1> DEFINE r == [task[m] EXCEPT !.pc = "resolve", !.after = "decide", !.calm = TRUE]
<1>0. Setting(m) BY Known
<1>1. keyLock = None /\ keyLock' = m /\ task' = [task EXCEPT ![m] = r] BY DEF Reg!Acquire, Reg!Set
<1>2. UNCHANGED <<rows, current, home, seen, now, fired, sch>> BY DEF Reg!Acquire, Reg!db, Reg!hist
<1>3. Store' BY DEF RegInv, Store, Reg!Acquire, Reg!db, Reg!hist
<1>4. task \in [Reg!Task -> Locals] BY DEF RegInv, TaskInv
<1>5. r \in Locals /\ r.pc = "resolve" /\ r.after = "decide" /\ r.calm
  BY <1>0 DEF Setting, Locals, TaskAt, MsgAt, Finding
<1> HIDE DEF r
<1>6. task' \in [Reg!Task -> Locals] /\ task'[m] = r /\ \A q \in Reg!Task \ {m} : task'[q] = task[q]
  BY <1>1, <1>4, <1>5
<1>7. \A q \in Reg!Task \ {m} : Like(task'[q], task[q]) BY <1>4, <1>6 DEF Like
<1>8. LocalOK(m, r) BY <1>5 DEF LocalOK, MsgLocal, MsgAt, Finding, Tidying, Rotating
<1>9. TaskInv' BY <1>6, <1>7, <1>8, TasksKept
<1>10. RotateInv'
  <2>1. \A q \in Msg : q # m => ~Inside(task'[q]) BY <1>1, <1>6 DEF RegInv, RotateInv
  <2> QED BY <1>1, <2>1 DEF RotateInv, Inside
<1>11. HomeInv'
  <2>1. Follows(task'[m], current', home', seen')
    BY <1>5, <1>6 DEF Follows, AboutKey, Rotating, Tidying
  <2> QED BY <1>1, <1>2, <2>1 DEF RegInv, HomeInv, Follows
<1>12. Bounded(task'[m], Reg!Cardinality(rows')) BY <1>5, <1>6 DEF Bounded, Reg!Counted
<1>13. rows' \subseteq Reg!Key /\ rows' \subseteq rows BY <1>0, <1>2 DEF Setting
<1>14. CapInv' BY <1>6, <1>7, <1>12, <1>13, CapKept
<1>15. DueInv' BY <1>2, <1>6, <1>7, DueKept
<1> QED BY <1>3, <1>9, <1>10, <1>11, <1>14, <1>15 DEF RegInv

(* A message that knows its session lets the lock go; undisturbed, it is   *)
(* the current one, and where the burst went.                              *)
LEMMA SettleTo ==
  ASSUME Reg!RegistryAssumption, RegInv, NEW m \in Msg, keyLock = m, NEW k \in Reg!Key, Reg!Settle(m, k),
         task[m].calm => k = current /\ seen' # "stale",
         seen' = seen \/ seen' = "fresh", ~task[m].calm => home = 0,
         UNCHANGED <<rows, current, now, sch>>
  PROVE  /\ TaskInv' /\ RotateInv' /\ HomeInv' /\ CapInv' /\ DueInv'
         /\ home' \in Reg!Key \cup {0} /\ keyLock' = None /\ astray' = FALSE /\ UNCHANGED <<over, fired, twice>>
<1> USE Roles, KeyType
<1> DEFINE r == [Reg!Rest("ensure") EXCEPT !.key = k]
<1>0. Setting(m) BY Known
<1>1. /\ keyLock' = None /\ task' = [task EXCEPT ![m] = r] /\ UNCHANGED <<over, fired, twice>>
      /\ home' = IF task[m].calm THEN k ELSE home
      /\ astray' = (astray \/ (task[m].calm /\ home \notin {0, k}))
  BY DEF Reg!Settle, Reg!Set
<1>2. task \in [Reg!Task -> Locals] /\ astray = FALSE /\ home \in Reg!Key \cup {0} BY DEF RegInv, TaskInv, Store
<1>3. r \in Locals /\ r.pc = "ensure" /\ r.key = k
  <2>1. "ensure" \in TaskAt BY DEF TaskAt, MsgAt
  <2>2. Reg!Rest("ensure") \in Locals /\ Reg!Rest("ensure").pc = "ensure" BY <2>1, RestType
  <2> QED BY <2>2 DEF Locals
<1> HIDE DEF r
<1>4. task' \in [Reg!Task -> Locals] /\ task'[m] = r /\ \A q \in Reg!Task \ {m} : task'[q] = task[q]
  BY <1>1, <1>2, <1>3
<1>5. \A q \in Reg!Task \ {m} : Like(task'[q], task[q]) BY <1>2, <1>4 DEF Like
<1>6. LocalOK(m, r) BY <1>3 DEF LocalOK, MsgLocal, MsgAt, Finding, Tidying
<1>7. TaskInv' BY <1>4, <1>5, <1>6, TasksKept
<1>8. RotateInv'
  <2>1. \A q \in Msg : q # m => ~Inside(task'[q]) BY <1>4 DEF RegInv, RotateInv
  <2>2. ~Inside(task'[m]) BY <1>3, <1>4 DEF Inside, Rotating, Tidying, Finding
  <2> QED BY <2>1, <2>2 DEF RotateInv, Inside
<1>9. HomeInv'
  <2>1. home # 0 => home = current /\ seen # "stale" BY <1>0 DEF Setting
  <2>2. home' # 0 => home' = current' /\ seen' # "stale" BY <1>1, <2>1
  <2> QED BY <1>1, <2>2 DEF HomeInv, Follows
<1>10. astray' = FALSE
  <2>1. home # 0 => home = current BY <1>0 DEF Setting
  <2> QED BY <1>1, <1>2, <2>1
<1>11. Bounded(task'[m], Reg!Cardinality(rows')) BY <1>3, <1>4 DEF Bounded, Reg!Counted
<1>12. rows' \subseteq Reg!Key /\ rows' \subseteq rows BY <1>0 DEF Setting
<1>13. CapInv' BY <1>4, <1>5, <1>11, <1>12, CapKept
<1>14. DueInv' BY <1>1, <1>4, <1>5, DueKept
<1>15. home' \in Reg!Key \cup {0} BY <1>1, <1>2
<1> QED BY <1>1, <1>7, <1>8, <1>9, <1>10, <1>13, <1>14, <1>15

(* The decision whether to rotate.                                         *)
LEMMA DecideStep ==
  ASSUME Reg!RegistryAssumption, RegInv, NEW m \in Msg, Reg!Decide(m)
  PROVE  RegInv'
<1> USE Roles, KeyType
<1> DEFINE k == task[m].key
<1>0. Setting(m) BY Known
<1>1. task[m].pc = "decide" /\ seen' = "fresh" /\ UNCHANGED <<rows, current, now, sch>>
  BY DEF Reg!Decide, Reg!In
<1>2. keyLock = m /\ k \in Reg!Key /\ Follows(task[m], current, home, seen) /\ LocalOK(m, task[m])
  BY <1>0, <1>1 DEF Setting, Inside, LocalOK, MsgLocal, Locals
<1>3. CASE k \in rows /\ row[k].active /\ seen = "stale"
  <2> DEFINE r == [task[m] EXCEPT !.pc = "count"]
  <2>1. task' = [task EXCEPT ![m] = r] /\ UNCHANGED <<keyLock, Reg!hist>> BY <1>3 DEF Reg!Decide, Reg!Goto, Reg!Set
  <2>2. r.pc = "count" /\ Keeps(r, task[m])
    BY <1>0 DEF Setting, Keeps, Locals, TaskAt, MsgAt, Rotating
  <2>3. home = 0 BY <1>0, <1>3 DEF Setting
  <2> HIDE DEF r
  <2>4. LocalOK(m, r)
    BY <1>1, <1>2, <2>2 DEF Keeps, LocalOK, MsgLocal, MsgAt, Finding, Tidying, Rotating
  <2>5. Follows(r, current, home, seen') BY <1>1, <1>2, <2>2, <2>3 DEF Keeps, Follows, AboutKey
  <2>6. Lawful(m, r, seen', Reg!Cardinality(rows')) BY <1>2, <2>2, <2>4, <2>5 DEF Lawful, Bounded, Reg!Counted
  <2>7. Store' BY <1>1, <2>1 DEF RegInv, Store, Reg!Decide, Reg!hist
  <2> QED BY <1>1, <2>1, <2>6, <2>7, StepTo DEF RegInv, Reg!hist
<1>4. CASE ~(k \in rows /\ row[k].active /\ seen = "stale")
  <2>1. Reg!Settle(m, k) BY <1>4 DEF Reg!Decide
  <2>2. task[m].calm => k = current /\ seen' # "stale" BY <1>1, <1>2 DEF Follows, AboutKey
  <2>3. ~task[m].calm => home = 0 BY <1>2 DEF Follows
  <2> HIDE DEF k
  <2>4. /\ TaskInv' /\ RotateInv' /\ HomeInv' /\ CapInv' /\ DueInv'
        /\ home' \in Reg!Key \cup {0} /\ keyLock' = None /\ astray' = FALSE /\ UNCHANGED <<over, fired, twice>>
    BY <1>1, <1>2, <2>1, <2>2, <2>3, SettleTo
  <2>5. Store' BY <1>1, <2>4 DEF RegInv, Store, Reg!Decide
  <2> QED BY <2>4, <2>5 DEF RegInv
<1> QED BY <1>3, <1>4

(* A rotation ends, with a new session or with the old one kept.           *)
LEMMA RotatedStep ==
  ASSUME Reg!RegistryAssumption, RegInv, NEW m \in Msg, Reg!RotateInPlace(m) \/ Reg!Rotated(m)
  PROVE  RegInv'
<1> USE Roles, KeyType
<1> DEFINE k == task[m].key
<1>0. Setting(m) BY Known
<1>1. /\ task[m].pc \in {"in place", "settle"} /\ Reg!Settle(m, k)
      /\ UNCHANGED <<rows, row, used, seq, current, seen, turns, now, sch, left>>
  BY DEF Reg!RotateInPlace, Reg!Rotated, Reg!In, Reg!db
<1>2. /\ keyLock = m /\ k \in Reg!Key /\ Follows(task[m], current, home, seen)
  BY <1>0, <1>1 DEF Setting, Inside, LocalOK, MsgLocal, Locals, Rotating
<1>3. (task[m].calm => k = current /\ seen' # "stale") /\ (~task[m].calm => home = 0)
  BY <1>1, <1>2 DEF Follows, AboutKey, Rotating
<1> HIDE DEF k
<1>4. /\ TaskInv' /\ RotateInv' /\ HomeInv' /\ CapInv' /\ DueInv'
      /\ home' \in Reg!Key \cup {0} /\ keyLock' = None /\ astray' = FALSE /\ UNCHANGED <<over, fired, twice>>
  BY <1>1, <1>2, <1>3, SettleTo
<1>5. Store' BY <1>1, <1>4 DEF RegInv, Store
<1> QED BY <1>4, <1>5 DEF RegInv

(* The session that goes, with its schedules; who is about it is disturbed. *)
LEMMA DeleteStep ==
  ASSUME Reg!RegistryAssumption, RegInv, NEW p \in Reg!Task, Reg!Delete(p)
  PROVE  RegInv'
<1> USE Roles, KeyType
<1> DEFINE k == task[p].victim
<1>0. Setting(p) BY Known
<1>1. /\ task[p].pc \in {"delete", "tidy delete", "user delete"} /\ p # Scheduler
      /\ (task[p].pc = "delete" => p \in Msg /\ keyLock = p) /\ (task[p].pc = "user delete" => p \in Tap)
  BY <1>0 DEF Reg!Delete, Setting, LocalOK, MsgLocal, MsgAt, TapLocal, TapAt, SweeperLocal,
     SchedulerAt, Finding, Rotating, Tidying, Inside
<1>2. /\ rows' = rows \ {k} /\ rows' \subseteq rows /\ UNCHANGED <<keyLock, now, fired, seen, current>>
      /\ sch' = [sch EXCEPT !.there = sch.there /\ sch.key # k]
  BY DEF Reg!Delete
<1>3. sch'.next = sch.next /\ sch' \in [there : BOOLEAN, on : BOOLEAN, next : Nat \ {0}, key : Reg!Key]
  <2> DEFINE b == sch.there /\ sch.key # k
  <2>1. sch \in [there : BOOLEAN, on : BOOLEAN, next : Nat \ {0}, key : Reg!Key] BY DEF RegInv, Store
  <2>2. b \in BOOLEAN /\ sch' = [sch EXCEPT !.there = b] BY <1>2, <2>1
  <2> HIDE DEF b
  <2> QED BY <2>1, <2>2
<1>4. PICK r : /\ \/ task' = Reg!Disturbed([task EXCEPT ![p] = r]) /\ home' = 0
                  \/ task' = [task EXCEPT ![p] = r] /\ home' = home
               /\ Lawful(p, r, seen, Reg!Cardinality(rows'))
  <2>1. CASE task[p].pc = "tidy delete"
    <3> DEFINE r == [task[p] EXCEPT !.pc = "each", !.victim = 0]
    <3>1. \/ task' = Reg!Disturbed([task EXCEPT ![p] = r]) /\ home' = 0
          \/ task' = [task EXCEPT ![p] = r] /\ home' = home
      BY <2>1 DEF Reg!Delete, Reg!Disturb, Reg!Set, Reg!In
    <3>2. r \in Locals /\ Keeps(r, task[p]) /\ r.pc \in Tidying
      BY <1>0 DEF Setting, Keeps, Locals, TaskAt, MsgAt, Rotating, Tidying
    <3> HIDE DEF r
    <3>3. Lawful(p, r, seen, Reg!Cardinality(rows')) BY <2>1, <3>2, TidyMove DEF Tidying
    <3> QED BY <3>1, <3>3
  <2>2. CASE task[p].pc = "user delete" /\ k \in rows
    <3> DEFINE r == [task[p] EXCEPT !.pc = "gone"]
    <3>1. \/ task' = Reg!Disturbed([task EXCEPT ![p] = r]) /\ home' = 0
          \/ task' = [task EXCEPT ![p] = r] /\ home' = home
      BY <2>2 DEF Reg!Delete, Reg!Disturb, Reg!Set, Reg!In
    <3>2. r \in Locals /\ r.pc = "gone" BY <1>0 DEF Setting, Locals, TaskAt, TapAt
    <3> HIDE DEF r
    <3>3. Lawful(p, r, seen, Reg!Cardinality(rows'))
      BY <1>1, <2>2, <3>2, TapMove DEF TapLocal, TapAt, Tidying, Reg!Counted
    <3> QED BY <3>1, <3>3
  <2>3. CASE task[p].pc = "user delete" /\ k \notin rows
    <3>1. \/ task' = Reg!Disturbed([task EXCEPT ![p] = Reg!Rest("done")]) /\ home' = 0
          \/ task' = [task EXCEPT ![p] = Reg!Rest("done")] /\ home' = home
      BY <2>3 DEF Reg!Delete, Reg!Disturb, Reg!Set, Reg!In
    <3>2. Lawful(p, Reg!Rest("done"), seen, Reg!Cardinality(rows')) BY <1>1, <2>3, AtRest
    <3> QED BY <3>1, <3>2
  <2>4. CASE task[p].pc = "delete"
    <3> DEFINE l == IF k \in rows THEN "create" ELSE "in place"
               r == [task[p] EXCEPT !.pc = l]
    <3>1. \/ task' = Reg!Disturbed([task EXCEPT ![p] = r]) /\ home' = 0
          \/ task' = [task EXCEPT ![p] = r] /\ home' = home
      BY <2>4 DEF Reg!Delete, Reg!Disturb, Reg!Set, Reg!In
    <3>2. l \in {"create", "in place"} /\ l \in TaskAt BY DEF TaskAt, MsgAt, Rotating
    <3>3. k \in rows => Reg!Cardinality(rows') = Reg!Cardinality(rows) - 1
      BY <1>0, <1>2, RowsFinite DEF Setting
    <3>4. l = "create" => k \in rows OBVIOUS
    <3> HIDE DEF l
    <3>5. r \in Locals /\ Keeps(r, task[p]) /\ r.pc = l BY <1>0, <3>2 DEF Setting, Keeps, Locals
    <3> HIDE DEF r
    <3>6. LocalOK(p, r)
      BY <1>0, <1>1, <2>4, <3>2, <3>5 DEF Setting, Keeps, LocalOK, MsgLocal, MsgAt, Finding,
         Rotating, Tidying
    <3>7. Follows(r, current, home, seen)
      BY <1>0, <1>1, <2>4, <3>2, <3>5 DEF Setting, Keeps, Follows, AboutKey, Rotating
    <3>8. Bounded(r, Reg!Cardinality(rows'))
      <4>1. task[p].alone => Reg!Cardinality(rows) <= task[p].counted
        BY <1>0, <2>4 DEF Setting, Bounded, Reg!Counted
      <4>2. task[p].counted \in Nat /\ Reg!Cardinality(rows) \in Nat BY <1>0 DEF Setting, Locals
      <4>3. l = "create" /\ task[p].alone => Reg!Cardinality(rows') < task[p].counted
        BY <3>3, <3>4, <4>1, <4>2
      <4>4. l = "create" /\ task[p].alone => Reg!Cardinality(rows') <= task[p].counted
        BY <3>3, <3>4, <4>1, <4>2
      <4> QED BY <3>2, <3>5, <4>3, <4>4 DEF Keeps, Bounded, Reg!Counted
    <3>9. Lawful(p, r, seen, Reg!Cardinality(rows')) BY <1>1, <2>4, <3>6, <3>7, <3>8 DEF Lawful
    <3> QED BY <3>1, <3>9
  <2> QED BY <1>1, <2>1, <2>2, <2>3, <2>4
<1>5. home' \in Reg!Key \cup {0} BY <1>4 DEF RegInv, Store
<1>6. Store' BY <1>2, <1>3, <1>5 DEF RegInv, Store, Reg!Delete
<1>7. CASE task' = [task EXCEPT ![p] = r] /\ home' = home
  BY <1>1, <1>2, <1>3, <1>4, <1>6, <1>7, StepTo DEF RegInv
<1>8. CASE task' = Reg!Disturbed([task EXCEPT ![p] = r]) /\ home' = 0
  <2>1. LocalOK(p, r) /\ (p \in Msg /\ Inside(r) => keyLock = p) /\ Bounded(r, Reg!Cardinality(rows'))
    BY <1>4 DEF Lawful
  <2> QED BY <1>1, <1>2, <1>3, <1>6, <1>8, <2>1, DisturbTo DEF RegInv
<1> QED BY <1>4, <1>7, <1>8

(* A first session where there is none.                                    *)
LEMMA HealFirstStep ==
  ASSUME Reg!RegistryAssumption, RegInv, NEW p \in Reg!Task, Reg!HealFirst(p)
  PROVE  RegInv'
<1> USE Roles, KeyType
<1> DEFINE r == [[task[p] EXCEPT !.pc = "heal point"] EXCEPT !.key = seq + 1]
<1>0. Setting(p) BY Known
<1>1. /\ task[p].pc = "first" /\ p \in Msg \cup Tap
      /\ (p \in Msg => task[p].after \in {"lock", "ensure", "decide"})
      /\ (p \in Tap => task[p].after = "done")
  BY <1>0 DEF Reg!HealFirst, Reg!In, Setting, LocalOK, MsgLocal, TapLocal, SweeperLocal, SchedulerAt,
     Finding, Tidying
<1>2. /\ seq < MaxKey /\ rows' = rows \cup {seq + 1} /\ Reg!Appear(p, r)
      /\ seq' = seq + 1 /\ row' = [row EXCEPT ![seq + 1] = Reg!NewRow("default")]
  BY DEF Reg!HealFirst, Reg!Allocate
<1>3. seq + 1 \in Reg!Key BY <1>0, <1>2 DEF Setting, Reg!Key, Reg!RegistryAssumption
<1>4. UNCHANGED <<used, current, seen, keyLock, turns, sch, now, left, Reg!hist>> BY DEF Reg!HealFirst
<1>5. Store' BY <1>2, <1>3, <1>4 DEF RegInv, Store, Reg!NewRow, Reg!Name, Reg!hist
<1>6. /\ r \in Locals /\ r.pc = "heal point" /\ r.after = task[p].after /\ r.key # 0 /\ r.calm = task[p].calm
  BY <1>0, <1>3 DEF Setting, Locals, TaskAt, MsgAt, Finding
<1> HIDE DEF r
<1>7. LocalOK(p, r)
  BY <1>1, <1>6 DEF LocalOK, MsgLocal, MsgAt, TapLocal, TapAt, Finding, Rotating, Tidying
<1>8. p \in Msg /\ Inside(r) => keyLock = p
  BY <1>0, <1>1, <1>6 DEF Setting, Inside, Finding, Rotating, Tidying
<1>9. keyLock = p => Follows(r, current, home, seen)
  BY <1>0, <1>6 DEF Setting, Follows, AboutKey, Rotating, Tidying
<1>10. rows' \subseteq Reg!Key /\ r.pc \notin Reg!Counted BY <1>0, <1>2, <1>3, <1>6 DEF Setting, Reg!Counted
<1>11. /\ TaskInv' /\ RotateInv' /\ HomeInv' /\ CapInv'
       /\ task' \in [Reg!Task -> Locals] /\ \A q \in Reg!Task \ {p} : Like(task'[q], task[q])
  BY <1>2, <1>4, <1>7, <1>8, <1>9, <1>10, AppearTo DEF Reg!hist
<1>12. p # Scheduler BY <1>1
<1>13. DueInv' BY <1>4, <1>11, <1>12, DueKept DEF Reg!hist
<1> QED BY <1>5, <1>11, <1>13 DEF RegInv

(* A session is made: alone, within the cap or after one that went.        *)
LEMMA CreateStep ==
  ASSUME Reg!RegistryAssumption, RegInv, NEW p \in Reg!Task, Reg!Create(p)
  PROVE  RegInv'
<1> USE Roles, KeyType
<1> DEFINE r == [[task[p] EXCEPT !.pc = "point", !.counted = 0, !.alone = TRUE] EXCEPT !.key = seq + 1]
<1>0. Setting(p) BY Known
<1>1. /\ task[p].pc = "create" /\ p \in Msg \cup Tap
      /\ (p \in Tap => task[p].after \in {"keep", "done"})
  BY <1>0 DEF Reg!Create, Reg!In, Setting, LocalOK, TapLocal, SweeperLocal, SchedulerAt, Tidying
<1>2. /\ seq < MaxKey /\ rows' = rows \cup {seq + 1} /\ Reg!Appear(p, r)
      /\ seq' = seq + 1 /\ row' = [row EXCEPT ![seq + 1] = Reg!NewRow("default")]
  BY DEF Reg!Create, Reg!Allocate
<1>3. seq + 1 \in Reg!Key BY <1>0, <1>2 DEF Setting, Reg!Key, Reg!RegistryAssumption
<1>4. UNCHANGED <<used, current, seen, keyLock, turns, sch, now, left, home, astray, fired, twice>>
  BY DEF Reg!Create
<1>5. over' = FALSE
  <2>1. task[p].alone => Reg!Cardinality(rows) < SessionCap \/ Reg!Cardinality(rows) < task[p].counted
    BY <1>0, <1>1 DEF Setting, Bounded
  <2>2. task[p].counted \in Nat /\ Reg!Cardinality(rows) \in Nat /\ SessionCap \in Nat
    BY <1>0 DEF Setting, Locals, Reg!RegistryAssumption
  <2>3. ~(task[p].alone /\ Reg!Cardinality(rows) >= SessionCap /\ Reg!Cardinality(rows) >= task[p].counted)
    BY <2>1, <2>2
  <2> QED BY <2>3 DEF Reg!Create, RegInv, Store
<1>6. Store' BY <1>2, <1>3, <1>4, <1>5 DEF RegInv, Store, Reg!NewRow, Reg!Name
<1>7. /\ r \in Locals /\ r.pc = "point" /\ r.after = task[p].after /\ r.key # 0 /\ r.calm = task[p].calm
  BY <1>0, <1>3 DEF Setting, Locals, TaskAt, TapAt
<1> HIDE DEF r
<1>8. LocalOK(p, r)
  BY <1>1, <1>7 DEF LocalOK, MsgLocal, MsgAt, TapLocal, TapAt, Finding, Rotating, Tidying
<1>9. p \in Msg /\ Inside(r) => keyLock = p BY <1>0, <1>1 DEF Setting, Inside, Rotating
<1>10. keyLock = p => Follows(r, current, home, seen)
  BY <1>0, <1>1, <1>7 DEF Setting, Follows, AboutKey, Rotating, Tidying
<1>11. rows' \subseteq Reg!Key /\ r.pc \notin Reg!Counted BY <1>0, <1>2, <1>3, <1>7 DEF Setting, Reg!Counted
<1>12. /\ TaskInv' /\ RotateInv' /\ HomeInv' /\ CapInv'
       /\ task' \in [Reg!Task -> Locals] /\ \A q \in Reg!Task \ {p} : Like(task'[q], task[q])
  BY <1>2, <1>4, <1>8, <1>9, <1>10, <1>11, AppearTo
<1>13. p # Scheduler BY <1>1
<1>14. DueInv' BY <1>4, <1>12, <1>13, DueKept
<1> QED BY <1>6, <1>12, <1>14 DEF RegInv

(* handle_text and the scheduler bring back the row of a deleted session.  *)
LEMMA EnsureStep ==
  ASSUME Reg!RegistryAssumption, RegInv, NEW p \in Reg!Task, Reg!Ensure(p)
  PROVE  RegInv'
<1> USE Roles, KeyType
<1> DEFINE k == task[p].key
           r == [task[p] EXCEPT !.pc = "submit"]
<1>0. Setting(p) BY Known
<1>1. task[p].pc = "ensure" /\ p \in Msg \cup {Scheduler} /\ k \in Reg!Key
  BY <1>0 DEF Reg!Ensure, Reg!In, Setting, Locals, LocalOK, MsgLocal, TapLocal, TapAt, SweeperLocal, Tidying
<1>2. UNCHANGED <<used, seq, current, seen, keyLock, turns, sch, now, left, Reg!hist>> BY DEF Reg!Ensure
<1>3. \/ task' = [task EXCEPT ![p] = r] /\ UNCHANGED <<rows, row>>
      \/ Reg!Appear(p, r) /\ rows' = rows \cup {k} /\ row' = [row EXCEPT ![k] = Reg!NewRow("null")]
  BY DEF Reg!Ensure, Reg!Goto, Reg!Set
<1>4. Store'
  <2>1. row \in [Reg!Key -> [name : Reg!Name, fav : BOOLEAN, active : BOOLEAN]] /\ rows \subseteq Reg!Key
    BY DEF RegInv, Store
  <2>2. Reg!NewRow("null") \in [name : Reg!Name, fav : BOOLEAN, active : BOOLEAN] BY DEF Reg!NewRow, Reg!Name
  <2>3. rows' \subseteq Reg!Key /\ row' \in [Reg!Key -> [name : Reg!Name, fav : BOOLEAN, active : BOOLEAN]]
    BY <1>1, <1>3, <2>1, <2>2
  <2> QED BY <1>2, <2>3 DEF RegInv, Store, Reg!hist
<1>5. rows' \subseteq Reg!Key BY <1>4 DEF Store
<1>6. /\ r.pc = "submit" /\ Keeps(r, task[p]) /\ r.slot = task[p].slot /\ r.nxt = task[p].nxt
  BY <1>0 DEF Setting, Keeps, Locals, TaskAt, MsgAt
<1> HIDE DEF r
<1>7. LocalOK(p, r) /\ r \in Locals
  BY <1>1, <1>6 DEF Keeps, LocalOK, MsgLocal, MsgAt, SchedulerAt, Finding, Tidying
<1>8. ~Inside(r) /\ r.pc \notin Reg!Counted BY <1>6 DEF Inside, Rotating, Tidying, Finding, Reg!Counted
<1>9. keyLock = p => Follows(r, current, home, seen)
  BY <1>0, <1>1, <1>6 DEF Setting, Keeps, Follows, AboutKey, Rotating, Tidying
<1>10. /\ TaskInv' /\ RotateInv' /\ HomeInv' /\ CapInv'
       /\ task' \in [Reg!Task -> Locals] /\ task'[p] = r /\ \A q \in Reg!Task \ {p} : Like(task'[q], task[q])
  <2>1. CASE Reg!Appear(p, r)
    BY <1>2, <1>5, <1>7, <1>8, <1>9, <2>1, AppearTo DEF Reg!hist
  <2>2. CASE task' = [task EXCEPT ![p] = r] /\ UNCHANGED <<rows, row>>
    <3>1. Lawful(p, r, seen', Reg!Cardinality(rows'))
      BY <1>2, <1>7, <1>8, <1>9 DEF Lawful, Bounded, Reg!Counted
    <3> QED BY <1>2, <2>2, <3>1, StepParts DEF Reg!hist
  <2> QED BY <1>3, <2>1, <2>2
<1>11. DueInv'
  <2>1. CASE p = Scheduler
    BY <1>1, <1>2, <1>6, <1>10, <2>1 DEF RegInv, DueInv, Reg!hist
  <2>2. CASE p # Scheduler BY <1>2, <1>10, <2>2, DueKept DEF Reg!hist
  <2> QED BY <2>1, <2>2
<1> QED BY <1>4, <1>10, <1>11 DEF RegInv

(* A step of the scheduler among its own labels.                           *)
LEMMA SchedulerTo ==
  ASSUME Reg!RegistryAssumption, RegInv, NEW r \in Locals, task' = [task EXCEPT ![Scheduler] = r],
         r.pc \in SchedulerAt, r.pc # "idle" => r.key # 0,
         UNCHANGED <<rows, current, home, keyLock, seen>>
  PROVE  /\ TaskInv' /\ RotateInv' /\ HomeInv' /\ CapInv'
         /\ task' \in [Reg!Task -> Locals] /\ task'[Scheduler] = r
<1>1. Scheduler \in Reg!Task /\ keyLock # Scheduler BY Roles DEF RegInv, Store
<1>2. LocalOK(Scheduler, r) BY Roles DEF LocalOK
<1>3. r.pc \notin Reg!Counted BY DEF SchedulerAt, Reg!Counted
<1>4. Lawful(Scheduler, r, seen', Reg!Cardinality(rows'))
  BY <1>1, <1>2, <1>3, Roles DEF Lawful, Bounded, Reg!Counted
<1> QED BY <1>1, <1>4, StepParts

(* The sweep finds the schedule due.                                       *)
LEMMA DueStep ==
  ASSUME Reg!RegistryAssumption, RegInv, Reg!Due
  PROVE  RegInv'
<1> USE Roles, KeyType
<1> DEFINE r == [task[Scheduler] EXCEPT !.pc = "guard", !.key = sch.key, !.slot = sch.next]
<1>0. task[Scheduler] \in Locals BY DEF RegInv, TaskInv
<1>1. /\ task' = [task EXCEPT ![Scheduler] = r] /\ sch.next <= now
      /\ UNCHANGED <<Reg!db, keyLock, turns, sch, now, Reg!hist>>
  BY DEF Reg!Due, Reg!Set
<1>2. Store' BY DEF RegInv, Store, Reg!Due, Reg!Begin, Reg!Event, Reg!db, Reg!hist
<1>3. sch.next \in Nat \ {0} /\ sch.key \in Reg!Key /\ now \in Nat BY DEF RegInv, Store
<1>4. r \in Locals /\ r.pc = "guard" /\ r.key # 0 /\ r.slot = sch.next
  BY <1>0, <1>3 DEF Locals, TaskAt, SchedulerAt
<1> HIDE DEF r
<1>5. /\ TaskInv' /\ RotateInv' /\ HomeInv' /\ CapInv' /\ task'[Scheduler] = r
  BY <1>1, <1>4, SchedulerTo DEF SchedulerAt, Reg!db, Reg!hist
<1>6. DueInv' BY <1>1, <1>3, <1>4, <1>5 DEF RegInv, DueInv, Reg!db, Reg!hist
<1> QED BY <1>2, <1>5, <1>6 DEF RegInv

(* It may run, is left for the next sweep, or is disabled.                 *)
LEMMA GuardStep ==
  ASSUME Reg!RegistryAssumption, RegInv, Reg!Guard
  PROVE  RegInv'
<1> USE Roles, KeyType
<1>0. task[Scheduler] \in Locals /\ LocalOK(Scheduler, task[Scheduler]) BY DEF RegInv, TaskInv
<1>1. /\ task[Scheduler].pc = "guard" /\ UNCHANGED <<Reg!db, keyLock, turns, sch, now, left, Reg!hist>>
  BY DEF Reg!Guard, Reg!In, Reg!Goto, Reg!Set
<1>2. Store' BY <1>1 DEF RegInv, Store, Reg!db, Reg!hist
<1>3. PICK r \in Locals : /\ task' = [task EXCEPT ![Scheduler] = r]
                          /\ r.pc \in SchedulerAt /\ (r.pc # "idle" => r.key # 0)
                          /\ r.pc \in {"advance", "disable", "idle"}
                            /\ (r.pc # "idle" => r.slot = task[Scheduler].slot)
  <2> DEFINE a == [task[Scheduler] EXCEPT !.pc = "advance"]
             d == [task[Scheduler] EXCEPT !.pc = "disable"]
  <2>1. task' = [task EXCEPT ![Scheduler] = a] \/ task' = [task EXCEPT ![Scheduler] = d]
        \/ task' = [task EXCEPT ![Scheduler] = Reg!Local]
    BY DEF Reg!Guard, Reg!Goto, Reg!Set
  <2>2. a \in Locals /\ a.pc = "advance" /\ a.key # 0 /\ a.slot = task[Scheduler].slot
    BY <1>0, <1>1 DEF Locals, TaskAt, SchedulerAt, LocalOK
  <2>3. d \in Locals /\ d.pc = "disable" /\ d.key # 0 /\ d.slot = task[Scheduler].slot
    BY <1>0, <1>1 DEF Locals, TaskAt, SchedulerAt, LocalOK
  <2>4. Reg!Local \in Locals /\ Reg!Local.pc = "idle" BY DEF Reg!Local, Locals, TaskAt, SchedulerAt, TapAt
  <2> HIDE DEF a, d
  <2> QED BY <2>1, <2>2, <2>3, <2>4 DEF SchedulerAt
<1>4. /\ TaskInv' /\ RotateInv' /\ HomeInv' /\ CapInv' /\ task'[Scheduler] = r
  BY <1>1, <1>3, SchedulerTo DEF Reg!db, Reg!hist
<1>5. DueInv' BY <1>1, <1>3, <1>4 DEF RegInv, DueInv, Reg!hist
<1> QED BY <1>2, <1>4, <1>5 DEF RegInv

(* It is disabled, or moves on to the next occurrence, before anything is  *)
(* submitted.                                                              *)
LEMMA AdvanceStep ==
  ASSUME Reg!RegistryAssumption, RegInv, Reg!Disable \/ Reg!Advance
  PROVE  RegInv'
<1> USE Roles, KeyType
<1>0. /\ task[Scheduler] \in Locals /\ LocalOK(Scheduler, task[Scheduler]) /\ now \in Nat
      /\ sch \in [there : BOOLEAN, on : BOOLEAN, next : Nat \ {0}, key : Reg!Key]
  BY DEF RegInv, TaskInv, Store
<1>1. UNCHANGED <<Reg!db, keyLock, turns, now, left, Reg!hist>> BY DEF Reg!Disable, Reg!Advance
<1>2. sch' \in [there : BOOLEAN, on : BOOLEAN, next : Nat \ {0}, key : Reg!Key]
  <2>1. CASE Reg!Disable BY <1>0, <2>1 DEF Reg!Disable
  <2>2. CASE Reg!Advance
    <3>1. now + 1 \in Nat \ {0} /\ sch' = [sch EXCEPT !.next = now + 1] BY <1>0, <2>2 DEF Reg!Advance
    <3> QED BY <1>0, <3>1
  <2> QED BY <2>1, <2>2
<1>3. Store' BY <1>1, <1>2 DEF RegInv, Store, Reg!db, Reg!hist
<1>4. CASE Reg!Disable
  <2> DEFINE r == [task[Scheduler] EXCEPT !.pc = "stamp", !.nxt = now]
  <2>1. task' = [task EXCEPT ![Scheduler] = r] /\ task[Scheduler].pc = "disable" /\ sch'.next = sch.next
    BY <1>0, <1>4 DEF Reg!Disable, Reg!Set, Reg!In
  <2>2. r \in Locals /\ r.pc = "stamp" /\ r.key # 0 /\ r.nxt = now
    BY <1>0, <2>1 DEF Locals, TaskAt, SchedulerAt, LocalOK
  <2> HIDE DEF r
  <2>3. /\ TaskInv' /\ RotateInv' /\ HomeInv' /\ CapInv' /\ task'[Scheduler] = r
    BY <1>1, <2>1, <2>2, SchedulerTo DEF SchedulerAt, Reg!db, Reg!hist
  <2>4. \A f \in fired : f \in Nat BY DEF RegInv, Store
  <2>5. DueInv' BY <1>0, <1>1, <2>1, <2>2, <2>3, <2>4 DEF RegInv, DueInv, Reg!hist
  <2> QED BY <1>3, <2>3, <2>5 DEF RegInv
<1>5. CASE Reg!Advance
  <2> DEFINE r == [task[Scheduler] EXCEPT !.pc = "ensure", !.nxt = now + 1]
  <2>1. task' = [task EXCEPT ![Scheduler] = r] /\ task[Scheduler].pc = "advance" /\ sch'.next = now + 1
    BY <1>0, <1>5 DEF Reg!Advance, Reg!Set, Reg!In
  <2>2. r \in Locals /\ r.pc = "ensure" /\ r.key # 0 /\ r.nxt = now + 1 /\ r.slot = task[Scheduler].slot
    <3>1. now + 1 \in Nat /\ task[Scheduler].key # 0 BY <1>0, <2>1 DEF LocalOK
    <3> QED BY <1>0, <3>1 DEF Locals, TaskAt, SchedulerAt
  <2> HIDE DEF r
  <2>3. /\ TaskInv' /\ RotateInv' /\ HomeInv' /\ CapInv' /\ task'[Scheduler] = r
    BY <1>1, <2>1, <2>2, SchedulerTo DEF SchedulerAt, Reg!db, Reg!hist
  <2>4. \A f \in fired : f \in Nat BY DEF RegInv, Store
  <2>5. DueInv' BY <1>0, <1>1, <2>1, <2>2, <2>3, <2>4 DEF RegInv, DueInv, Reg!hist
  <2> QED BY <1>3, <2>3, <2>5 DEF RegInv
<1> QED BY <1>4, <1>5

(* The occurrence in hand is submitted: it lies after all that were.       *)
LEMMA FireStep ==
  ASSUME Reg!RegistryAssumption, RegInv, Reg!Submit(Scheduler)
  PROVE  RegInv'
<1> USE Roles, KeyType
<1> DEFINE r == [task[Scheduler] EXCEPT !.pc = "stamp"]
<1>0. /\ task[Scheduler] \in Locals /\ LocalOK(Scheduler, task[Scheduler]) /\ now \in 0..MaxTime
      /\ fired \subseteq 1..MaxTime /\ MaxTime \in Nat /\ sch.next \in Nat
  BY DEF RegInv, TaskInv, Store, Reg!RegistryAssumption
<1>1. /\ task' = [task EXCEPT ![Scheduler] = r] /\ task[Scheduler].pc = "submit"
      /\ fired' = fired \cup {task[Scheduler].slot} /\ twice' = (twice \/ task[Scheduler].slot \in fired)
      /\ turns' = [turns EXCEPT ![task[Scheduler].key] = @ \cup {Scheduler}]
      /\ UNCHANGED <<Reg!db, keyLock, sch, now, left, home, astray, over>>
  BY DEF Reg!Submit, Reg!In, Reg!Goto, Reg!Set
<1>2. /\ task[Scheduler].slot \in 1..now /\ (\A f \in fired : f < task[Scheduler].slot)
      /\ task[Scheduler].slot < sch.next /\ task[Scheduler].slot < task[Scheduler].nxt
  BY <1>1 DEF RegInv, DueInv
<1>3. task[Scheduler].slot \notin fired /\ fired' \subseteq 1..MaxTime BY <1>0, <1>1, <1>2
<1>4. Store' BY <1>1, <1>3 DEF RegInv, Store, Reg!db
<1>5. r \in Locals /\ r.pc = "stamp" /\ r.key # 0 /\ r.nxt = task[Scheduler].nxt
      /\ task[Scheduler].nxt \in Nat
  BY <1>0, <1>1 DEF Locals, TaskAt, SchedulerAt, LocalOK
<1> HIDE DEF r
<1>6. /\ TaskInv' /\ RotateInv' /\ HomeInv' /\ CapInv' /\ task'[Scheduler] = r
  BY <1>1, <1>5, SchedulerTo DEF SchedulerAt, Reg!db
<1>7. \A f \in fired' : f < sch.next /\ f < r.nxt /\ f <= now
  <2>1. \A f \in fired : f \in Nat /\ f <= now /\ f < sch.next BY <1>0 DEF RegInv, DueInv
  <2>2. now \in Nat /\ \A f \in fired : f < task[Scheduler].nxt BY <1>0, <1>2, <1>5, <2>1
  <2> QED BY <1>0, <1>1, <1>2, <1>5, <2>1, <2>2
<1>8. DueInv' BY <1>1, <1>2, <1>5, <1>6, <1>7 DEF DueInv
<1> QED BY <1>4, <1>6, <1>8 DEF RegInv

(* The sweep writes the next run it computed.                              *)
LEMMA StampStep ==
  ASSUME Reg!RegistryAssumption, RegInv, Reg!Stamp
  PROVE  RegInv'
<1> USE Roles, KeyType
<1>0. /\ task[Scheduler] \in Locals
      /\ sch \in [there : BOOLEAN, on : BOOLEAN, next : Nat \ {0}, key : Reg!Key]
  BY DEF RegInv, TaskInv, Store
<1>1. /\ task' = [task EXCEPT ![Scheduler] = Reg!Local] /\ task[Scheduler].pc = "stamp"
      /\ sch' = [sch EXCEPT !.next = task[Scheduler].nxt] /\ UNCHANGED <<Reg!db, keyLock, turns, now, left, Reg!hist>>
  BY DEF Reg!Stamp, Reg!In, Reg!Set
<1>2. task[Scheduler].nxt \in Nat \ {0} /\ \A f \in fired : f < task[Scheduler].nxt
  BY <1>0, <1>1 DEF RegInv, DueInv, Locals
<1>3. sch' \in [there : BOOLEAN, on : BOOLEAN, next : Nat \ {0}, key : Reg!Key]
      /\ sch'.next = task[Scheduler].nxt
  BY <1>0, <1>1, <1>2
<1>4. Store' BY <1>1, <1>3 DEF RegInv, Store, Reg!db, Reg!hist
<1>5. Reg!Local \in Locals /\ Reg!Local.pc = "idle" BY DEF Reg!Local, Locals, TaskAt, SchedulerAt, TapAt
<1>6. /\ TaskInv' /\ RotateInv' /\ HomeInv' /\ CapInv' /\ task'[Scheduler] = Reg!Local
  BY <1>1, <1>5, SchedulerTo DEF SchedulerAt, Reg!db, Reg!hist
<1>7. DueInv' BY <1>1, <1>2, <1>3, <1>5, <1>6 DEF RegInv, DueInv, Reg!hist
<1> QED BY <1>4, <1>6, <1>7 DEF RegInv

(* A resumed schedule next runs after now.                                 *)
LEMMA ResumeStep ==
  ASSUME Reg!RegistryAssumption, RegInv, NEW u \in Tap, Reg!ToggleAdvance(u)
  PROVE  RegInv'
<1> USE Roles, KeyType
<1> DEFINE r == [task[u] EXCEPT !.pc = "enable"]
<1>0. /\ Setting(u) /\ now \in 0..MaxTime /\ MaxTime \in Nat /\ fired \subseteq 1..MaxTime
      /\ sch \in [there : BOOLEAN, on : BOOLEAN, next : Nat \ {0}, key : Reg!Key]
      /\ task \in [Reg!Task -> Locals]
  BY Known DEF RegInv, Store, TaskInv, Reg!RegistryAssumption
<1>1. /\ task' = [task EXCEPT ![u] = r] /\ sch' = [sch EXCEPT !.next = now + 1]
      /\ UNCHANGED <<Reg!db, keyLock, turns, now, left, Reg!hist>>
  BY DEF Reg!ToggleAdvance, Reg!Goto, Reg!Set
<1>2. /\ sch' \in [there : BOOLEAN, on : BOOLEAN, next : Nat \ {0}, key : Reg!Key] /\ sch'.next = now + 1
  BY <1>0, <1>1
<1>3. Store' BY <1>1, <1>2 DEF RegInv, Store, Reg!db, Reg!hist
<1>4. r \in Locals /\ r.pc = "enable" BY <1>0 DEF Setting, Locals, TaskAt, TapAt
<1> HIDE DEF r
<1>5. Lawful(u, r, seen', Reg!Cardinality(rows'))
  BY <1>4, TapMove DEF TapLocal, TapAt, Tidying, Reg!Counted
<1>6. TaskInv' /\ RotateInv' /\ HomeInv' /\ CapInv' BY <1>1, <1>5, StepParts DEF Reg!db, Reg!hist
<1>7. task'[Scheduler] = task[Scheduler] BY <1>0, <1>1
<1>8. \A f \in fired : f <= now
  BY DEF RegInv, DueInv
<1>9. DueInv' BY <1>0, <1>1, <1>2, <1>7, <1>8 DEF RegInv, DueInv, Reg!hist
<1> QED BY <1>3, <1>6, <1>9 DEF RegInv

(* A turn ends; an occurrence comes; the user stays away; a restart.       *)
LEMMA OutsideSteps ==
  ASSUME Reg!RegistryAssumption, RegInv,
         (\E k \in Reg!Key : \E p \in turns[k] : Reg!TurnEnds(k, p)) \/ Reg!Occurs
  PROVE  RegInv'
<1>1. UNCHANGED <<rows, current, seen, keyLock, task, sch, home, fired>>
      /\ now' \in 0..MaxTime /\ (now' = now \/ now' = now + 1)
  <2>1. now \in 0..MaxTime /\ MaxTime \in Nat BY DEF RegInv, Store, Reg!RegistryAssumption
  <2>2. CASE Reg!Occurs BY <2>1, <2>2 DEF Reg!Occurs, Reg!Event, Reg!db, Reg!hist
  <2>3. CASE \E k \in Reg!Key : \E p \in turns[k] : Reg!TurnEnds(k, p) BY <2>1, <2>3 DEF Reg!TurnEnds, Reg!hist
  <2> QED BY <2>2, <2>3
<1>2. Store'
  <2>1. CASE Reg!Occurs BY <1>1, <2>1 DEF RegInv, Store, Reg!Occurs, Reg!Event, Reg!db, Reg!hist
  <2>2. ASSUME NEW k \in Reg!Key, NEW p \in turns[k], Reg!TurnEnds(k, p) PROVE Store'
    <3>1. row \in [Reg!Key -> [name : Reg!Name, fav : BOOLEAN, active : BOOLEAN]] BY DEF RegInv, Store
    <3>2. row' \in [Reg!Key -> [name : Reg!Name, fav : BOOLEAN, active : BOOLEAN]]
      <4>1. PICK title \in BOOLEAN :
              \/ row' = row
              \/ row' = [row EXCEPT ![k].active = TRUE,
                                    ![k].name = IF title /\ @ # "pinned" THEN "title" ELSE @]
        BY <2>2 DEF Reg!TurnEnds
      <4>2. row[k] \in [name : Reg!Name, fav : BOOLEAN, active : BOOLEAN] BY <3>1
      <4>3. CASE row' # row
        <5> DEFINE nm == IF title /\ row[k].name # "pinned" THEN "title" ELSE row[k].name
                   v == [[row[k] EXCEPT !.active = TRUE] EXCEPT !.name = nm]
        <5>1. nm \in Reg!Name BY <4>2 DEF Reg!Name
        <5>2. row' = [row EXCEPT ![k] = v] BY <3>1, <4>1, <4>2, <4>3
        <5> HIDE DEF nm
        <5>3. v \in [name : Reg!Name, fav : BOOLEAN, active : BOOLEAN] BY <4>2, <5>1
        <5> HIDE DEF v
        <5> QED BY <3>1, <5>2, <5>3
      <4> QED BY <3>1, <4>3
    <3>3. used' \subseteq Reg!Key /\ turns' \in [Reg!Key -> SUBSET (Msg \cup {Scheduler})]
      <4>1. used \subseteq Reg!Key /\ turns \in [Reg!Key -> SUBSET (Msg \cup {Scheduler})] BY DEF RegInv, Store
      <4>2. turns[k] \ {p} \in SUBSET (Msg \cup {Scheduler}) BY <4>1
      <4> QED BY <2>2, <4>1, <4>2 DEF Reg!TurnEnds
    <3>4. UNCHANGED <<rows, seq, current, seen, keyLock, task, sch, now, left, Reg!hist>> BY <2>2 DEF Reg!TurnEnds
    <3> QED BY <3>2, <3>3, <3>4 DEF RegInv, Store, Reg!hist
  <2> QED BY <2>1, <2>2
<1>3. TaskInv' BY <1>1 DEF RegInv, TaskInv, LocalOK, MsgLocal, TapLocal, SweeperLocal
<1>4. RotateInv' /\ HomeInv' /\ CapInv'
  BY <1>1 DEF RegInv, RotateInv, HomeInv, CapInv
<1>5. DueInv'
  <2>1. now \in Nat /\ \A f \in fired : f \in Nat BY DEF RegInv, Store
  <2>2. \A f \in fired : f <= now' BY <1>1, <2>1 DEF RegInv, DueInv
  <2>3. 1..now \subseteq 1..now' BY <1>1, <2>1
  <2> QED BY <1>1, <2>2, <2>3 DEF RegInv, DueInv
<1> QED BY <1>2, <1>3, <1>4, <1>5 DEF RegInv

(* The user stays away: what was a burst ends.                             *)
LEMMA AwayStep ==
  ASSUME Reg!RegistryAssumption, RegInv, Reg!StaysAway
  PROVE  RegInv'
<1> USE Roles
<1>1. /\ task' = Reg!Disturbed(task) /\ home' = 0
      /\ UNCHANGED <<rows, row, used, seq, current, keyLock, turns, sch, now, astray, over, fired, twice>>
  BY DEF Reg!StaysAway
<1>2. Store' BY DEF RegInv, Store, Reg!StaysAway, Reg!Event
<1>3. task \in [Reg!Task -> Locals] /\ Scheduler \in Reg!Task BY DEF RegInv, TaskInv
<1>4. task = [task EXCEPT ![Scheduler] = task[Scheduler]] BY <1>3
<1>5. \A q \in Reg!Task : task'[q] = IF q = keyLock THEN [task[q] EXCEPT !.calm = FALSE] ELSE task[q]
  BY <1>1 DEF Reg!Disturbed
<1>6. ASSUME NEW q \in Reg!Task PROVE task'[q] \in Locals /\ Like(task'[q], task[q]) /\ (q = keyLock => ~task'[q].calm)
  <2>1. task[q] \in Locals BY <1>3
  <2>2. CASE q = keyLock
    <3>1. task'[q] = [task[q] EXCEPT !.calm = FALSE] BY <1>5, <2>2
    <3> QED BY <2>1, <3>1 DEF Like, Locals
  <2>3. CASE q # keyLock
    <3>1. task'[q] = task[q] BY <1>5, <2>3
    <3> QED BY <2>1, <2>3, <3>1 DEF Like
  <2> QED BY <2>2, <2>3
<1>7. task' \in [Reg!Task -> Locals] BY <1>1, <1>6 DEF Reg!Disturbed
<1>8. /\ LocalOK(Sweeper, task'[Sweeper]) /\ Bounded(task'[Sweeper], Reg!Cardinality(rows'))
      /\ \A q \in Reg!Task : Like(task'[q], task[q])
  <2>1. LocalOK(Sweeper, task[Sweeper]) /\ Bounded(task[Sweeper], Reg!Cardinality(rows))
        /\ Like(task'[Sweeper], task[Sweeper])
    BY <1>6 DEF RegInv, TaskInv, CapInv
  <2>2. Bounded(task'[Sweeper], Reg!Cardinality(rows')) BY <1>1, <2>1 DEF Like, Bounded
  <2>3. LocalOK(Sweeper, task'[Sweeper]) BY <2>1 DEF Like, LocalOK, SweeperLocal
  <2> QED BY <1>6, <2>2, <2>3
<1>9. TaskInv' BY <1>7, <1>8, TasksKept
<1>10. RotateInv' BY <1>1, <1>7, <1>8, LockKept
<1>11. keyLock # None => task'[keyLock].calm = FALSE
  <2>1. keyLock # None => keyLock \in Reg!Task BY DEF RegInv, Store
  <2> QED BY <1>6, <2>1 DEF Locals
<1>12. HomeInv' BY <1>1, <1>7, <1>11, HomeDisturbed
<1>13. rows' \subseteq Reg!Key /\ rows' \subseteq rows BY <1>1 DEF RegInv, Store
<1>14. CapInv' BY <1>7, <1>8, <1>13, CapKept
<1>15. DueInv' BY <1>1, <1>7, <1>8, DueKept
<1> QED BY <1>2, <1>9, <1>10, <1>12, <1>14, <1>15 DEF RegInv

(* After a restart only the database is left.                              *)
LEMMA CrashStep ==
  ASSUME Reg!RegistryAssumption, RegInv, Reg!Crash
  PROVE  RegInv'
<1> USE Roles
<1>1. /\ \A p \in Reg!Task : task'[p] = [Reg!Local EXCEPT !.pc = IF p \in {Sweeper, Scheduler} \/ Reg!In(p, "idle")
                                                       THEN "idle" ELSE "done"]
      /\ DOMAIN task' = Reg!Task /\ task' = [p \in Reg!Task |-> task'[p]]
      /\ keyLock' = None /\ home' = 0 /\ UNCHANGED <<Reg!db, sch, now, astray, over, fired, twice>>
  BY DEF Reg!Crash
<1>2. Store' BY DEF RegInv, Store, Reg!Crash, Reg!Event, Reg!db
<1>3. Reg!Local \in Locals /\ "idle" \in TaskAt /\ "done" \in TaskAt
  BY DEF Reg!Local, Locals, TaskAt, SchedulerAt, TapAt
<1>4. ASSUME NEW p \in Reg!Task
      PROVE  /\ task'[p] \in Locals /\ task'[p].pc \in {"idle", "done"}
             /\ (p \in {Sweeper, Scheduler} => task'[p].pc = "idle")
  <2> DEFINE l == IF p \in {Sweeper, Scheduler} \/ Reg!In(p, "idle") THEN "idle" ELSE "done"
  <2>1. l \in {"idle", "done"} /\ (p \in {Sweeper, Scheduler} => l = "idle") OBVIOUS
  <2>2. task'[p] = [Reg!Local EXCEPT !.pc = l] BY <1>1
  <2> HIDE DEF l
  <2>3. l \in TaskAt BY <1>3, <2>1
  <2> QED BY <1>3, <2>1, <2>2, <2>3 DEF Locals
<1>5. task' \in [Reg!Task -> Locals] BY <1>1, <1>4
<1>6. \A p \in Reg!Task : LocalOK(p, task'[p])
  BY <1>4 DEF LocalOK, MsgLocal, MsgAt, TapLocal, TapAt, SweeperLocal, SchedulerAt, Finding,
     Rotating, Tidying
<1>7. TaskInv' BY <1>5, <1>6 DEF TaskInv, LocalOK, MsgLocal, TapLocal, SweeperLocal
<1>8. RotateInv' BY <1>4 DEF RotateInv, Inside, Finding, Rotating, Tidying
<1>9. HomeInv' BY <1>1 DEF HomeInv, Follows
<1>10. CapInv' BY <1>4 DEF CapInv, Bounded, Reg!Counted
<1>11. DueInv' BY <1>1, <1>4 DEF RegInv, DueInv
<1> QED BY <1>2, <1>7, <1>8, <1>9, <1>10, <1>11 DEF RegInv

-----------------------------------------------------------------------------
(* The invariant                                                           *)

(* The invariant holds at the start.                                       *)
LEMMA InitRegistry ==
  ASSUME Reg!RegistryAssumption, Reg!Init
  PROVE  RegInv
<1> USE Roles, KeyType
<1>1. /\ task = [p \in Reg!Task |-> Reg!Local] /\ keyLock = None /\ home = 0 /\ fired = {}
      /\ sch = [there |-> TRUE, on |-> TRUE, next |-> 1, key |-> 1]
  BY DEF Reg!Init
<1>2. Reg!Local \in Locals /\ Reg!Local.pc = "idle" BY DEF Reg!Local, Locals, TaskAt, TapAt
<1>3. Store
  <2>1. seq \in Reg!Key /\ rows \subseteq Reg!Key /\ used \subseteq Reg!Key /\ current \in Reg!Key \cup {0}
    BY DEF Reg!Init, Reg!Key, Reg!RegistryAssumption
  <2>2. row \in [Reg!Key -> [name : Reg!Name, fav : BOOLEAN, active : BOOLEAN]]
    <3>1. \A b \in BOOLEAN : [Reg!NewRow("default") EXCEPT !.active = b] 
          \in [name : Reg!Name, fav : BOOLEAN, active : BOOLEAN]
      BY DEF Reg!NewRow, Reg!Name
    <3> QED BY <3>1 DEF Reg!Init
  <2>3. seen \in {"never", "fresh", "stale"} /\ turns \in [Reg!Key -> SUBSET (Msg \cup {Scheduler})]
    BY DEF Reg!Init
  <2>4. now \in 0..MaxTime /\ left \in Nat BY DEF Reg!Init, Reg!RegistryAssumption
  <2>5. astray = FALSE /\ over = FALSE /\ twice = FALSE BY DEF Reg!Init
  <2> QED BY <1>1, <2>1, <2>2, <2>3, <2>4, <2>5 DEF Store
<1>4. \A p \in Reg!Task : task[p] = Reg!Local BY <1>1
<1>5. TaskInv
  BY <1>1, <1>2, <1>4 DEF TaskInv, LocalOK, MsgLocal, MsgAt, TapLocal, TapAt, SweeperLocal,
     SchedulerAt, Finding, Rotating, Tidying
<1>6. RotateInv BY <1>2, <1>4 DEF RotateInv, Inside, Finding, Rotating, Tidying
<1>7. HomeInv BY <1>1 DEF HomeInv
<1>8. CapInv BY <1>2, <1>4 DEF CapInv, Bounded, Reg!Counted
<1>9. DueInv BY <1>1, <1>2, <1>4 DEF DueInv
<1> QED BY <1>3, <1>5, <1>6, <1>7, <1>8, <1>9 DEF RegInv

(* Every step keeps it.                                                    *)
LEMMA NextRegistry ==
  ASSUME Reg!RegistryAssumption, RegInv, [Reg!Next]_(Reg!vars)
  PROVE  RegInv'
<1>1. CASE UNCHANGED Reg!vars
  <2> USE <1>1 DEF Reg!vars, Reg!db, Reg!hist
  <2>1. Store' /\ TaskInv' BY DEF RegInv, Store, TaskInv, LocalOK, MsgLocal, TapLocal, SweeperLocal
  <2>2. RotateInv' /\ HomeInv' /\ CapInv' BY DEF RegInv, RotateInv, HomeInv, CapInv
  <2>3. DueInv' BY DEF RegInv, DueInv
  <2> QED BY <2>1, <2>2, <2>3 DEF RegInv
<1>2. ASSUME NEW p \in Reg!Task, Reg!Work(p) PROVE RegInv'
  <2>1. CASE p # Scheduler
    BY <1>2, <2>1, ResolveStep, HealStep, HealFirstStep, HealPointStep, CountStep, CreateStep, PointStep,
       EnsureStep, SubmitStep, PageStep, StatsStep, TidiedStep, EachStep, NameStep, ResetStep,
         DeleteStep DEF Reg!Work
  <2>2. CASE p = Scheduler
    BY <1>2, <2>2, ResolveStep, HealStep, HealFirstStep, HealPointStep, CountStep, CreateStep, PointStep,
       EnsureStep, FireStep, PageStep, StatsStep, TidiedStep, EachStep, NameStep, ResetStep,
         DeleteStep DEF Reg!Work
  <2> QED BY <2>1, <2>2
<1>3. ASSUME NEW m \in Msg,
             Reg!Arrive(m) \/ Reg!Acquire(m) \/ Reg!Decide(m) \/ Reg!Evict(m) \/ Reg!RotateInPlace(m) \/ Reg!Rotated(m)
      PROVE  RegInv'
  BY <1>3, Roles, ArriveStep, AcquireStep, DecideStep, EvictStep, RotatedStep
<1>4. ASSUME NEW u \in Tap,
             \/ Reg!New(u) \/ Reg!NewKeeps(u) \/ Reg!Switch(u) \/ Reg!SwitchSeen(u) \/ Reg!Favorite(u)
             \/ Reg!Star(u) \/ Reg!Rename(u) \/ Reg!DeleteAsked(u) \/ Reg!Repoint(u) \/ Reg!Toggle(u)
             \/ Reg!ToggleAdvance(u) \/ Reg!ToggleEnable(u) \/ Reg!Unschedule(u)
      PROVE  RegInv'
  BY <1>4, NewStep, NewKeepsStep, SwitchStep, SwitchSeenStep, FavoriteStep, StarStep, RenameStep,
     DeleteAskedStep, RepointStep, ToggleStep, ResumeStep, EnableStep, UnscheduleStep
<1>5. CASE Reg!Sweep BY <1>5, Roles, SweepStep
<1>6. CASE Reg!Due \/ Reg!Guard \/ Reg!Disable \/ Reg!Advance \/ Reg!Stamp
  BY <1>6, DueStep, GuardStep, AdvanceStep, StampStep
<1>7. CASE Reg!StaysAway \/ Reg!Occurs \/ Reg!Crash \/ \E k \in Reg!Key : \E p \in turns[k] : Reg!TurnEnds(k, p)
  BY <1>7, AwayStep, OutsideSteps, CrashStep
<1> QED BY <1>1, <1>2, <1>3, <1>4, <1>5, <1>6, <1>7 DEF Reg!Next

(* IInv always holds.                                                      *)
THEOREM RegistryStays == MCSpec => []RegInv
<1>1. MCInit => RegInv
  BY InitRegistry, ThreadsAssumption DEF MCInit
<1>2. RegInv /\ [MCNext]_mcvars => RegInv'
  <2> SUFFICES ASSUME RegInv, [MCNext]_mcvars PROVE RegInv'
    OBVIOUS
  <2>1. [Reg!Next]_(Reg!vars)
    BY DEF MCNext, mcvars, regVars, Reg!vars, Reg!db, Reg!hist
  <2> QED
    BY <2>1, NextRegistry, ThreadsAssumption
<1> QED
  BY <1>1, <1>2, PTL DEF MCSpec

(* The rows, the pointer and the tasks' locals keep their types.           *)
THEOREM RegistryTypes == MCSpec => []Reg!TypeOK
<1>1. RegInv => Reg!TypeOK
  <2> SUFFICES ASSUME RegInv PROVE Reg!TypeOK OBVIOUS
  <2>1. \A p \in Reg!Task : task[p].key \in Reg!Key \cup {0} /\ task[p].cands \subseteq Reg!Key
    BY DEF RegInv, TaskInv, Locals
  <2> QED BY <2>1 DEF RegInv, Store, Reg!TypeOK
<1> QED BY <1>1, RegistryStays, PTL

(* Messages that nothing separates go to one session, however many there   *)
(* are and whatever the menu, the sweeper and the scheduler do.            *)
THEOREM BurstTogether == MCSpec => []BurstStaysTogether
<1>1. RegInv => BurstStaysTogether BY DEF RegInv, Store, BurstStaysTogether, Reg!BurstStaysTogether
<1> QED BY <1>1, RegistryStays, PTL

(* A creation that no other row overtook stays within the cap.             *)
THEOREM CapHolds == MCSpec => []CapHoldsUnlessRaced
<1>1. RegInv => CapHoldsUnlessRaced BY DEF RegInv, Store, CapHoldsUnlessRaced, Reg!CapHoldsUnlessRaced
<1> QED BY <1>1, RegistryStays, PTL

(* No occurrence is submitted twice, in spite of pauses and crashes.       *)
THEOREM FiredOnce == MCSpec => []OccurrenceFiredOnce
<1>1. RegInv => OccurrenceFiredOnce BY DEF RegInv, Store, OccurrenceFiredOnce, Reg!OccurrenceFiredOnce
<1> QED BY <1>1, RegistryStays, PTL

-----------------------------------------------------------------------------
(* The inbox                                                               *)

(* Every message is in at most one prompt, and in none before its handler  *)
(* is done with it; no prompt is empty.                                    *)
InBuffer(i) == album # None /\ i \in album.parts \cup album.dropped
Sent == {"routed", "done"}
Buffers == [parts : SUBSET Album, dropped : SUBSET Album]
Prompts == [of : SUBSET In!Message, at : {"gate", "submit"}]
PromptInv ==
  /\ DOMAIN pc = In!Message
  /\ album \in {None} \cup Buffers /\ (album # None => \E i \in Album : InBuffer(i))
  /\ prompts \subseteq Prompts
  /\ \A p \in prompts : p.of # {} /\ \A m \in p.of : pc[m] \in Sent
  /\ \A p, q \in prompts : \A m \in In!Message : m \in p.of /\ m \in q.of => p = q

(* The item of an album is with its handler, then in the buffer, then in a *)
(* prompt, then it was got: once each.                                     *)
Unread(i) == got[i] = 0 /\ ~InBuffer(i) /\ \A p \in prompts : i \notin p.of
Buffered(i) == got[i] = 0 /\ InBuffer(i) /\ \A p \in prompts : i \notin p.of
Prompted(i) == got[i] = 0 /\ ~InBuffer(i) /\ \E p \in prompts : i \in p.of
Got(i) == got[i] = 1 /\ ~InBuffer(i) /\ \A p \in prompts : i \notin p.of
AlbumInv ==
  /\ got = [i \in In!Photo |-> got[i]]
  /\ \A i \in Album : IF pc[i] = "routed" THEN Buffered(i) \/ Prompted(i) \/ Got(i) ELSE Unread(i)

(* A command that has asked waits, or one voice note holds it, or it ran   *)
(* once, or it was dropped.                                                *)
ArgInv ==
  /\ asked \in 0..MaxAsks /\ ran \in [1..MaxAsks -> {0, 1}]
  /\ takes \in [Voice -> {None} \cup 1..asked] /\ pending \in {None} \cup 1..asked
  /\ \A a \in 1..MaxAsks : a > asked => ran[a] = 0
  /\ pending # None => ran[pending] = 0 /\ \A v \in Voice : takes[v] # pending
  /\ \A v \in Voice : takes[v] # None => ran[takes[v]] = 0
  /\ \A v, w \in Voice : takes[v] = takes[w] /\ takes[v] # None => v = w

(* Every turn that ended while its session had a row has one of its own.   *)
Ended == [at : Nat, turn : SUBSET In!Message, rowless : BOOLEAN]
MeterInv ==
  /\ clock \in Nat /\ running \subseteq SUBSET In!Message
  /\ IsFiniteSet(usage) /\ ended \subseteq Ended
  /\ \A e \in ended : ~e.rowless => [of |-> In!User, at |-> e.at, turn |-> e.turn] \in usage

BoxInv == PromptInv /\ AlbumInv /\ ArgInv /\ MeterInv

(* Handlers go on without touching a prompt or the buffer.                 *)
LEMMA QuietMail ==
  ASSUME PromptInv, AlbumInv, UNCHANGED <<album, prompts, got>>, DOMAIN pc' = In!Message,
         \A m \in In!Message : pc'[m] = pc[m] \/ (pc[m] \notin Sent /\ pc'[m] # "routed")
  PROVE  PromptInv' /\ AlbumInv'
<1>1. \A i \in Album : i \in In!Message
  BY DEF In!Message, In!Photo
<1>2. \A p \in prompts : \A m \in p.of : m \in In!Message
  BY DEF PromptInv, Prompts
<1>3. PromptInv'
  BY <1>2 DEF PromptInv, Sent, InBuffer
<1>4. \A i \in Album : pc[i] # "routed" => Unread(i)
  BY DEF AlbumInv
<1>5. ASSUME NEW i \in Album
      PROVE  IF pc'[i] = "routed" THEN (Buffered(i) \/ Prompted(i) \/ Got(i))' ELSE Unread(i)'
  <2>1. /\ Unread(i)' <=> Unread(i)
        /\ (Buffered(i) \/ Prompted(i) \/ Got(i))' <=> (Buffered(i) \/ Prompted(i) \/ Got(i))
    BY DEF Unread, Buffered, Prompted, Got, InBuffer
  <2>2. CASE pc'[i] = pc[i]
    BY <2>1, <2>2 DEF AlbumInv
  <2>3. CASE pc[i] \notin Sent /\ pc'[i] # "routed"
    BY <1>4, <2>1, <2>3 DEF Sent
  <2> QED
    BY <1>1, <1>5, <2>2, <2>3
<1> QED
  BY <1>3, <1>5 DEF AlbumInv

(* A message that is no item of an album becomes a prompt.                 *)
LEMMA OwnPrompt ==
  ASSUME PromptInv, AlbumInv, NEW m \in In!Message, m \notin Album, NEW s \in {"gate", "submit"},
         pc[m] \notin Sent, pc' = [pc EXCEPT ![m] = "done"],
         prompts' = prompts \cup {[of |-> {m}, at |-> s]}, UNCHANGED <<album, got>>
  PROVE  PromptInv' /\ AlbumInv'
<1> DEFINE p == [of |-> {m}, at |-> s]
<1>1. p \in Prompts /\ p.of = {m} /\ prompts' = prompts \cup {p}
  BY DEF Prompts
<1> HIDE DEF p
<1>2. \A q \in prompts : q.of \subseteq In!Message /\ m \notin q.of
  BY DEF PromptInv, Prompts
<1>3. /\ DOMAIN pc' = In!Message /\ pc'[m] = "done"
      /\ \A n \in In!Message : n # m => pc'[n] = pc[n]
  BY DEF PromptInv
<1>4. \A q \in prompts' : q.of # {} /\ \A n \in q.of : pc'[n] \in Sent
  BY <1>1, <1>2, <1>3 DEF PromptInv, Sent
<1>5. \A q, r \in prompts' : \A n \in In!Message : n \in q.of /\ n \in r.of => q = r
  BY <1>1, <1>2 DEF PromptInv
<1>6. PromptInv'
  BY <1>1, <1>3, <1>4, <1>5 DEF PromptInv, InBuffer
<1>7. \A i \in Album : pc'[i] = pc[i] /\ i \notin p.of
  BY <1>1, <1>3 DEF In!Message, In!Photo
<1>8. \A i \in Album : /\ Unread(i) => Unread(i)' 
                       /\ (Buffered(i) \/ Prompted(i) \/ Got(i)) => (Buffered(i) \/ Prompted(i) \/ Got(i))'
  BY <1>1, <1>7 DEF Unread, Buffered, Prompted, Got, InBuffer
<1>9. AlbumInv'
  BY <1>7, <1>8 DEF AlbumInv
<1> QED
  BY <1>6, <1>9

(* An item that was read goes to the buffer.                               *)
LEMMA RouteMail ==
  ASSUME In!InboxAssumption, PromptInv, AlbumInv, NEW i \in Album, In!RouteAlbum(i)
  PROVE  PromptInv' /\ AlbumInv'
<1> DEFINE buf == IF album = None THEN [parts |-> {}, dropped |-> {}] ELSE album
<1>1. /\ pc[i] = "route" /\ pc' = [pc EXCEPT ![i] = "routed"] /\ UNCHANGED <<prompts, got>>
      /\ \/ album' = [buf EXCEPT !.dropped = @ \cup {i}]
         \/ album' = [buf EXCEPT !.parts = @ \cup {i}]
  BY DEF In!RouteAlbum, In!Handle
<1>2. buf \in Buffers /\ buf.parts \cup buf.dropped = {j \in Album : InBuffer(j)}
  BY DEF PromptInv, Buffers, InBuffer
<1> HIDE DEF buf
<1>3. album' \in Buffers /\ album'.parts \cup album'.dropped = {j \in Album : InBuffer(j)} \cup {i}
  BY <1>1, <1>2 DEF Buffers
<1>4. album' # None
  BY <1>3 DEF Buffers, In!InboxAssumption
<1>5. \A j \in Album : InBuffer(j)' <=> InBuffer(j) \/ j = i
  BY <1>3, <1>4 DEF InBuffer
<1>6. /\ DOMAIN pc' = In!Message /\ pc'[i] = "routed" /\ Album \subseteq In!Message
      /\ \A n \in In!Message : n # i => pc'[n] = pc[n]
  BY <1>1 DEF PromptInv, In!Message, In!Photo
<1>7. PromptInv'
  <2>1. \E j \in Album : InBuffer(j)'
    BY <1>5
  <2>2. \A p \in prompts : \A m \in p.of : pc'[m] \in Sent
    <3>1. \A p \in prompts : \A m \in p.of : m \in In!Message
      BY DEF PromptInv, Prompts
    <3> QED
      BY <1>6, <3>1 DEF PromptInv, Sent
  <2> QED
    BY <1>1, <1>3, <1>6, <2>1, <2>2 DEF PromptInv
<1>8. Unread(i)
  BY <1>1 DEF AlbumInv
<1>9. Buffered(i)'
  BY <1>1, <1>5, <1>8 DEF Unread, Buffered
<1>10. ASSUME NEW j \in Album, j # i
       PROVE  /\ Unread(j) => Unread(j)'
              /\ (Buffered(j) \/ Prompted(j) \/ Got(j)) => (Buffered(j) \/ Prompted(j) \/ Got(j))'
  <2>1. InBuffer(j)' <=> InBuffer(j)
    BY <1>5, <1>10
  <2> QED
    BY <1>1, <2>1 DEF Unread, Buffered, Prompted, Got
<1>11. AlbumInv'
  BY <1>1, <1>6, <1>9, <1>10 DEF AlbumInv
<1> QED
  BY <1>7, <1>11

(* The buffer becomes a prompt.                                            *)
LEMMA FlushMail ==
  ASSUME PromptInv, AlbumInv, In!FlushAlbum
  PROVE  PromptInv' /\ AlbumInv'
<1> DEFINE items == album.parts \cup album.dropped
           p == [of |-> items, at |-> "gate"]
<1>1. /\ album # None /\ album' = None /\ prompts' = prompts \cup {p} /\ UNCHANGED <<pc, got>>
  BY DEF In!FlushAlbum, In!Prompt
<1>2. items \subseteq Album /\ items # {} /\ \A i \in Album : InBuffer(i) <=> i \in items
  BY <1>1 DEF PromptInv, Buffers, InBuffer
<1>3. p \in Prompts /\ p.of = items /\ Album \subseteq In!Message
  BY <1>2 DEF Prompts, In!Message, In!Photo
<1> HIDE DEF items, p
<1>4. \A i \in items : pc[i] = "routed" /\ Buffered(i)
  BY <1>2 DEF AlbumInv, Unread, Prompted, Got
<1>5. \A q \in prompts : \A i \in items : i \notin q.of
  BY <1>4 DEF Buffered
<1>6. /\ \A q \in prompts' : q.of # {} /\ \A m \in q.of : pc[m] \in Sent
      /\ \A q, r \in prompts' : \A m \in In!Message : m \in q.of /\ m \in r.of => q = r
  BY <1>1, <1>2, <1>3, <1>4, <1>5 DEF PromptInv, Sent
<1>7. PromptInv'
  BY <1>1, <1>3, <1>6 DEF PromptInv
<1>8. \A i \in Album : ~InBuffer(i)'
  BY <1>1 DEF InBuffer
<1>9. \A i \in items : Prompted(i)'
  BY <1>1, <1>2, <1>3, <1>4, <1>8 DEF Buffered, Prompted
<1>10. ASSUME NEW i \in Album, i \notin items
       PROVE  /\ Unread(i) => Unread(i)'
              /\ (Buffered(i) \/ Prompted(i) \/ Got(i)) => (Prompted(i) \/ Got(i))'
  <2>1. ~InBuffer(i) /\ i \notin p.of
    BY <1>2, <1>3, <1>10
  <2> QED
    BY <1>1, <1>8, <2>1 DEF Unread, Buffered, Prompted, Got
<1>11. AlbumInv'
  BY <1>1, <1>4, <1>9, <1>10 DEF AlbumInv
<1> QED
  BY <1>7, <1>11

(* A prompt is taken, by the gate or by the session: its items were got.   *)
LEMMA TakenMail ==
  ASSUME PromptInv, AlbumInv, NEW p \in prompts, prompts' = prompts \ {p}, UNCHANGED <<pc, album>>,
         got' = [i \in In!Photo |-> IF i \in p.of THEN got[i] + 1 ELSE got[i]]
  PROVE  PromptInv' /\ AlbumInv'
<1>1. PromptInv'
  BY DEF PromptInv, InBuffer
<1>2. Album \subseteq In!Photo /\ Album \subseteq In!Message
  BY DEF In!Photo, In!Message
<1>3. ASSUME NEW i \in Album
      PROVE  IF pc[i] = "routed" THEN (Buffered(i) \/ Prompted(i) \/ Got(i))' ELSE Unread(i)'
  <2>1. InBuffer(i)' <=> InBuffer(i)
    BY DEF InBuffer
  <2>2. CASE i \in p.of
    <3>1. pc[i] = "routed" /\ Prompted(i)
      BY <2>2 DEF AlbumInv, Unread, Buffered, Got
    <3>2. \A q \in prompts' : i \notin q.of
      BY <1>2, <2>2 DEF PromptInv
    <3>3. got'[i] = 1
      BY <1>2, <2>2, <3>1 DEF Prompted
    <3> QED
      BY <2>1, <3>1, <3>2, <3>3 DEF Prompted, Got
  <2>3. CASE i \notin p.of
    <3>1. got'[i] = got[i]
      BY <1>2, <2>3
    <3>2. /\ Unread(i) => Unread(i)'
          /\ Buffered(i) \/ Prompted(i) \/ Got(i) => (Buffered(i) \/ Prompted(i) \/ Got(i))'
      BY <2>1, <2>3, <3>1 DEF Unread, Buffered, Prompted, Got
    <3> QED
      BY <3>2 DEF AlbumInv
  <2> QED
    BY <2>2, <2>3
<1> QED
  BY <1>1, <1>3 DEF AlbumInv

(* A prompt passes the gate.                                               *)
LEMMA PassedMail ==
  ASSUME PromptInv, AlbumInv, NEW p \in prompts, UNCHANGED <<pc, album, got>>,
         prompts' = (prompts \ {p}) \cup {[p EXCEPT !.at = "submit"]}
  PROVE  PromptInv' /\ AlbumInv'
<1> DEFINE n == [p EXCEPT !.at = "submit"]
<1>1. n \in Prompts /\ n.of = p.of /\ prompts' = (prompts \ {p}) \cup {n}
  BY DEF PromptInv, Prompts
<1> HIDE DEF n
<1>2. /\ \A q \in prompts' : q.of # {} /\ \A m \in q.of : pc[m] \in Sent
      /\ \A q, r \in prompts' : \A m \in In!Message : m \in q.of /\ m \in r.of => q = r
  BY <1>1 DEF PromptInv
<1>3. PromptInv'
  BY <1>1, <1>2 DEF PromptInv, InBuffer
<1>4. \A i \in Album : (\E q \in prompts' : i \in q.of) <=> (\E q \in prompts : i \in q.of)
  BY <1>1
<1>5. AlbumInv'
  BY <1>4 DEF AlbumInv, Unread, Buffered, Prompted, Got, InBuffer
<1> QED
  BY <1>3, <1>5

(* Every step of the mail.                                                 *)
LEMMA NextMail ==
  ASSUME In!InboxAssumption, PromptInv, AlbumInv, [In!Next]_(In!vars)
  PROVE  PromptInv' /\ AlbumInv'
<1>1. ASSUME UNCHANGED <<pc, album, prompts, got>> PROVE PromptInv' /\ AlbumInv'
  BY <1>1, QuietMail DEF PromptInv
<1>2. ASSUME NEW m \in In!Message, NEW s, In!Handle(m, s), s # "routed", pc[m] \notin Sent,
             UNCHANGED <<album, prompts, got>>
      PROVE  PromptInv' /\ AlbumInv'
  <2>1. DOMAIN pc' = In!Message /\ \A n \in In!Message : pc'[n] = pc[n] \/ (n = m /\ pc'[n] = s)
    BY <1>2 DEF In!Handle, PromptInv
  <2> QED
    BY <1>2, <2>1, QuietMail
<1>3. CASE UNCHANGED In!vars
  BY <1>1, <1>3 DEF In!vars, In!inbox
<1>4. CASE In!Passes \/ In!Reset \/ In!DeleteRow \/ In!Ask \/ In!Cancel \/ \E t \in running : In!TurnEnds(t)
  BY <1>1, <1>4 DEF In!Passes, In!Reset, In!DeleteRow, In!Ask, In!Cancel, In!TurnEnds, In!inbox
<1>5. CASE In!FlushAlbum
  BY <1>5, FlushMail
<1>6. ASSUME NEW p \in prompts, In!Gate(p) PROVE PromptInv' /\ AlbumInv'
  <2>1. CASE In!Blocked
    <3>1. prompts' = prompts \ {p} /\ UNCHANGED <<pc, album>>
      BY <1>6, <2>1 DEF In!Gate
    <3>2. got' = [i \in In!Photo |-> IF i \in p.of THEN got[i] + 1 ELSE got[i]]
      BY <1>6, <2>1 DEF In!Gate
    <3> QED
      BY <3>1, <3>2, TakenMail
  <2>2. CASE ~In!Blocked
    <3>1. prompts' = (prompts \ {p}) \cup {[p EXCEPT !.at = "submit"]} /\ UNCHANGED <<pc, album>>
      BY <1>6, <2>2 DEF In!Gate
    <3>2. got' = [i \in In!Photo |-> got[i]]
      BY <1>6, <2>2 DEF In!Gate
    <3>3. got' = got
      BY <3>2 DEF AlbumInv
    <3> QED
      BY <3>1, <3>3, PassedMail
  <2> QED
    BY <2>1, <2>2
<1>7. ASSUME NEW p \in prompts, In!Submit(p) PROVE PromptInv' /\ AlbumInv'
  <2>1. prompts' = prompts \ {p} /\ UNCHANGED <<pc, album>>
        /\ got' = [i \in In!Photo |-> IF i \in p.of THEN got[i] + 1 ELSE got[i]]
    BY <1>7 DEF In!Submit
  <2> QED
    BY <2>1, TakenMail
<1>8. ASSUME NEW i \in In!Photo, In!Receive(i) \/ In!Downloaded(i) PROVE PromptInv' /\ AlbumInv'
  <2>1. i \in In!Message
    BY DEF In!Message
  <2>2. PICK s \in {"download", "route", "done"} : In!Handle(i, s)
    BY <1>8 DEF In!Receive, In!Downloaded
  <2> QED
    BY <1>2, <1>8, <2>1, <2>2 DEF In!Receive, In!Downloaded, Sent
<1>9. ASSUME NEW i \in Single, In!RouteSingle(i) PROVE PromptInv' /\ AlbumInv'
  BY <1>9, OwnPrompt DEF In!RouteSingle, In!Handle, In!Prompt, In!Message, In!Photo, Sent, In!InboxAssumption
<1>10. ASSUME NEW i \in Album, In!RouteAlbum(i) PROVE PromptInv' /\ AlbumInv'
  BY <1>10, RouteMail
<1>11. ASSUME NEW t \in Text, In!OnText(t) PROVE PromptInv' /\ AlbumInv'
  <2>1. t \in In!Message /\ t \notin Album /\ pc[t] = "unsent"
    BY <1>11 DEF In!Message, In!InboxAssumption, In!OnText
  <2>2. CASE pending # None
    BY <1>2, <1>11, <2>1, <2>2 DEF In!OnText, Sent
  <2>3. CASE pending = None
    BY <1>11, <2>1, <2>3, OwnPrompt DEF In!OnText, In!Handle, In!Prompt, Sent
  <2> QED
    BY <2>2, <2>3
<1>12. ASSUME NEW v \in Voice,
              In!OnVoice(v) \/ In!VoiceFails(v) \/ In!VoiceWorks(v) \/ In!VoiceEnds(v)
       PROVE  PromptInv' /\ AlbumInv'
  <2>1. v \in In!Message /\ v \notin Album
    BY DEF In!Message, In!InboxAssumption
  <2>2. CASE In!OnVoice(v)
    <3>1. PICK s \in {"done", "download"} : In!Handle(v, s)
      BY <2>2 DEF In!OnVoice
    <3> QED
      BY <1>2, <2>1, <2>2, <3>1 DEF In!OnVoice, Sent
  <2>3. CASE In!VoiceFails(v)
    BY <1>2, <2>1, <2>3 DEF In!VoiceFails, Sent
  <2>4. CASE In!VoiceWorks(v)
    <3>1. PICK s \in {"decode", "infer", "shown"} : In!Handle(v, s)
      BY <2>4 DEF In!VoiceWorks
    <3> QED
      BY <1>2, <2>1, <2>4, <3>1 DEF In!VoiceWorks, Sent
  <2>5. CASE In!VoiceEnds(v)
    <3>1. CASE takes[v] # None
      BY <1>2, <2>1, <2>5, <3>1 DEF In!VoiceEnds, Sent
    <3>2. CASE takes[v] = None
      BY <2>1, <2>5, <3>2, OwnPrompt DEF In!VoiceEnds, In!Handle, In!Prompt, Sent
    <3> QED
      BY <3>1, <3>2
  <2> QED
    BY <1>12, <2>2, <2>3, <2>4, <2>5
<1> QED
  BY <1>3, <1>4, <1>5, <1>6, <1>7, <1>8, <1>9, <1>10, <1>11, <1>12 DEF In!Next

(* A command's argument.                                                   *)
LEMMA NextArg ==
  ASSUME In!InboxAssumption, ArgInv, [In!Next]_(In!vars)
  PROVE  ArgInv'
<1>1. None \notin Nat /\ MaxAsks \in Nat
  BY DEF In!InboxAssumption
<1>2. ASSUME UNCHANGED <<pending, takes, asked, ran>> PROVE ArgInv'
  BY <1>2 DEF ArgInv
<1>3. CASE UNCHANGED In!vars
  BY <1>2, <1>3 DEF In!vars, In!args, In!meter
<1>4. CASE In!Passes \/ In!Reset \/ In!DeleteRow \/ In!FlushAlbum \/ \E t \in running : In!TurnEnds(t)
  BY <1>2, <1>4 DEF In!Passes, In!Reset, In!DeleteRow, In!FlushAlbum, In!TurnEnds, In!args
<1>5. ASSUME NEW p \in prompts, In!Gate(p) \/ In!Submit(p) PROVE ArgInv'
  BY <1>2, <1>5 DEF In!Gate, In!Submit, In!args
<1>6. ASSUME NEW i, In!Receive(i) \/ In!Downloaded(i) \/ In!RouteSingle(i) \/ In!RouteAlbum(i) PROVE ArgInv'
  BY <1>2, <1>6 DEF In!Receive, In!Downloaded, In!RouteSingle, In!RouteAlbum, In!args
<1>7. CASE In!Ask
  <2>1. /\ asked' = asked + 1 /\ pending' = asked + 1 /\ asked + 1 \in 1..MaxAsks /\ asked \in Nat
        /\ UNCHANGED <<takes, ran>>
    BY <1>1, <1>7 DEF In!Ask, ArgInv
  <2>2. /\ takes \in [Voice -> {None} \cup 1..asked + 1]
        /\ \A v \in Voice : takes[v] # asked + 1
    BY <1>1, <2>1 DEF ArgInv
  <2> QED
    BY <1>1, <2>1, <2>2 DEF ArgInv
<1>8. CASE In!Cancel
  BY <1>8 DEF In!Cancel, ArgInv
<1>9. ASSUME NEW t \in Text, In!OnText(t) PROVE ArgInv'
  <2>1. pending' = None /\ UNCHANGED <<takes, asked>>
    BY <1>9 DEF In!OnText
  <2>2. CASE pending = None
    BY <1>9, <2>1, <2>2 DEF In!OnText, ArgInv
  <2>3. CASE pending # None
    <3>1. ran' = [ran EXCEPT ![pending] = @ + 1]
      BY <1>9, <2>3 DEF In!OnText, In!Runs
    <3>2. pending \in 1..asked /\ pending \in 1..MaxAsks /\ ran[pending] = 0
      BY <1>1, <2>3 DEF ArgInv
    <3>3. ran' \in [1..MaxAsks -> {0, 1}] /\ \A a \in 1..MaxAsks : a # pending => ran'[a] = ran[a]
      BY <3>1, <3>2 DEF ArgInv
    <3>4. \A v \in Voice : takes[v] # None => ran'[takes[v]] = 0
      <4>1. \A v \in Voice : takes[v] # None => takes[v] \in 1..MaxAsks /\ takes[v] # pending
        BY <1>1, <2>3 DEF ArgInv
      <4> QED
        BY <3>3, <4>1 DEF ArgInv
    <3>5. \A a \in 1..MaxAsks : a > asked => ran'[a] = 0
      BY <1>1, <3>2, <3>3 DEF ArgInv
    <3> QED
      BY <2>1, <3>3, <3>4, <3>5 DEF ArgInv
  <2> QED
    BY <2>2, <2>3
<1>10. ASSUME NEW v \in Voice, In!OnVoice(v) PROVE ArgInv'
  <2>1. /\ takes' = [takes EXCEPT ![v] = pending] /\ pending' = None /\ UNCHANGED <<asked, ran>>
    BY <1>10 DEF In!OnVoice
  <2>2. /\ takes' \in [Voice -> {None} \cup 1..asked] /\ takes'[v] = pending
        /\ \A w \in Voice : w # v => takes'[w] = takes[w]
    BY <2>1 DEF ArgInv
  <2> QED
    BY <2>1, <2>2 DEF ArgInv
<1>11. ASSUME NEW v \in Voice, In!VoiceFails(v) PROVE ArgInv'
  <2>1. /\ takes' = [takes EXCEPT ![v] = None] /\ UNCHANGED <<asked, ran>>
        /\ pending' = IF pending = None THEN takes[v] ELSE pending
    BY <1>11 DEF In!VoiceFails
  <2>2. /\ takes' \in [Voice -> {None} \cup 1..asked] /\ takes'[v] = None
        /\ \A w \in Voice : w # v => takes'[w] = takes[w]
    BY <2>1 DEF ArgInv
  <2> QED
    BY <2>1, <2>2 DEF ArgInv
<1>12. ASSUME NEW v \in Voice, In!VoiceWorks(v) PROVE ArgInv'
  BY <1>2, <1>12 DEF In!VoiceWorks, In!args
<1>13. ASSUME NEW v \in Voice, In!VoiceEnds(v) PROVE ArgInv'
  <2>1. takes' = [takes EXCEPT ![v] = None] /\ UNCHANGED <<pending, asked>>
    BY <1>13 DEF In!VoiceEnds
  <2>2. /\ takes' \in [Voice -> {None} \cup 1..asked] /\ takes'[v] = None
        /\ \A w \in Voice : w # v => takes'[w] = takes[w]
    BY <2>1 DEF ArgInv
  <2>3. CASE takes[v] = None
    BY <1>13, <2>1, <2>2, <2>3 DEF In!VoiceEnds, ArgInv
  <2>4. CASE takes[v] # None
    <3>1. ran' = [ran EXCEPT ![takes[v]] = @ + 1]
      BY <1>13, <2>4 DEF In!VoiceEnds, In!Runs
    <3>2. takes[v] \in 1..asked /\ takes[v] \in 1..MaxAsks /\ ran[takes[v]] = 0
      BY <1>1, <2>4 DEF ArgInv
    <3>3. ran' \in [1..MaxAsks -> {0, 1}] /\ \A a \in 1..MaxAsks : a # takes[v] => ran'[a] = ran[a]
      BY <3>1, <3>2 DEF ArgInv
    <3>4. \A w \in Voice : takes'[w] # None => ran'[takes'[w]] = 0
      <4>1. \A w \in Voice : takes'[w] # None =>
              w # v /\ takes'[w] = takes[w] /\ takes[w] \in 1..MaxAsks /\ takes[w] # takes[v]
        BY <1>1, <2>2, <2>4 DEF ArgInv
      <4> QED
        BY <3>3, <4>1 DEF ArgInv
    <3>5. pending # None => pending \in 1..MaxAsks /\ pending # takes[v] /\ ran'[pending] = 0
      BY <1>1, <3>3 DEF ArgInv
    <3>6. \A a \in 1..MaxAsks : a > asked => ran'[a] = 0
      BY <1>1, <3>2, <3>3 DEF ArgInv
    <3> QED
      BY <2>1, <2>2, <3>3, <3>4, <3>5, <3>6 DEF ArgInv
  <2> QED
    BY <2>3, <2>4
<1> QED
  BY <1>3, <1>4, <1>5, <1>6, <1>7, <1>8, <1>9, <1>10, <1>11, <1>12, <1>13 DEF In!Next

(* The rows of the turns that ended.                                       *)
LEMMA NextMeter ==
  ASSUME PromptInv, MeterInv, [In!Next]_(In!vars)
  PROVE  MeterInv'
<1>1. ASSUME UNCHANGED <<clock, running, usage, ended>> PROVE MeterInv'
  BY <1>1 DEF MeterInv
<1>2. CASE UNCHANGED In!vars
  BY <1>1, <1>2 DEF In!vars, In!args, In!meter
<1>3. CASE In!DeleteRow \/ In!FlushAlbum \/ In!Ask \/ In!Cancel
  BY <1>1, <1>3 DEF In!DeleteRow, In!FlushAlbum, In!Ask, In!Cancel, In!meter
<1>4. ASSUME NEW i, In!Receive(i) \/ In!Downloaded(i) \/ In!RouteSingle(i) \/ In!RouteAlbum(i)
                    \/ In!OnText(i) \/ In!OnVoice(i) \/ In!VoiceFails(i) \/ In!VoiceWorks(i)
                    \/ In!VoiceEnds(i)
      PROVE MeterInv'
  BY <1>1, <1>4 DEF In!Receive, In!Downloaded, In!RouteSingle, In!RouteAlbum, In!OnText, In!OnVoice,
     In!VoiceFails, In!VoiceWorks, In!VoiceEnds, In!meter
<1>5. ASSUME NEW p \in prompts, In!Gate(p) PROVE MeterInv'
  BY <1>1, <1>5 DEF In!Gate, In!meter
<1>6. CASE In!Passes \/ In!Reset
  BY <1>6 DEF In!Passes, In!Reset, MeterInv
<1>7. ASSUME NEW p \in prompts, In!Submit(p) PROVE MeterInv'
  <2>1. p.of \in SUBSET In!Message
    BY DEF PromptInv, Prompts
  <2> QED
    BY <1>7, <2>1 DEF In!Submit, MeterInv
<1>8. ASSUME NEW t \in running, In!TurnEnds(t) PROVE MeterInv'
  <2> DEFINE u == [of |-> IF thread = "gone" THEN None ELSE In!User, at |-> clock, turn |-> t]
             e == [at |-> clock, turn |-> t, rowless |-> (thread = "gone")]
  <2>1. /\ running' = running \ {t} /\ usage' = usage \cup {u} /\ ended' = ended \cup {e}
        /\ clock' = clock
    BY <1>8 DEF In!TurnEnds
  <2>2. /\ e \in Ended /\ e.at = clock /\ e.turn = t
        /\ ~e.rowless => [of |-> In!User, at |-> e.at, turn |-> e.turn] = u
    BY DEF MeterInv, Ended
  <2> HIDE DEF u, e
  <2>3. IsFiniteSet(usage')
    BY <2>1, FS_AddElement DEF MeterInv
  <2> QED
    BY <2>1, <2>2, <2>3 DEF MeterInv
<1> QED
  BY <1>2, <1>3, <1>4, <1>5, <1>6, <1>7, <1>8 DEF In!Next

(* Nothing has been sent.                                                  *)
LEMMA InitInbox == In!InboxAssumption /\ In!Init => BoxInv
<1> SUFFICES ASSUME In!InboxAssumption, In!Init PROVE BoxInv
  OBVIOUS
<1>1. PromptInv
  BY DEF In!Init, PromptInv, InBuffer
<1>2. AlbumInv
  BY DEF In!Init, AlbumInv, Unread, InBuffer, In!Photo, In!Message
<1>3. ArgInv
  BY DEF In!Init, ArgInv, In!InboxAssumption
<1>4. MeterInv
  BY FS_EmptySet DEF In!Init, MeterInv
<1> QED
  BY <1>1, <1>2, <1>3, <1>4 DEF BoxInv

(* The inbox's invariant holds.                                            *)
THEOREM InboxStays == MCSpec => []BoxInv
<1>1. MCInit => BoxInv
  BY InitInbox, ThreadsAssumption DEF MCInit
<1>2. BoxInv /\ [MCNext]_mcvars => BoxInv'
  <2> SUFFICES ASSUME BoxInv, [MCNext]_mcvars PROVE BoxInv'
    OBVIOUS
  <2>1. [In!Next]_(In!vars)
    BY DEF MCNext, mcvars, inVars, In!vars, In!inbox, In!args, In!meter
  <2> QED
    BY <2>1, NextMail, NextArg, NextMeter, ThreadsAssumption DEF BoxInv
<1> QED
  BY <1>1, <1>2, PTL DEF MCSpec

(* The inbox counts the way everybody does.                                *)
LEMMA SameCount == \A S : In!Cardinality(S) = Cardinality(S)
BY DEF Cardinality, In!Cardinality

(* One or none.                                                            *)
LEMMA AtMostOne ==
  ASSUME NEW S, \A x, y \in S : x = y
  PROVE  Cardinality(S) = IF S = {} THEN 0 ELSE 1
<1>1. CASE S = {}
  BY <1>1, FS_EmptySet
<1>2. CASE S # {}
  <2>1. PICK x \in S : S = {x}
    BY <1>2
  <2> QED
    BY <1>2, <2>1, FS_Singleton
<1> QED
  BY <1>1, <1>2

(* Every item of an album that was read is in one prompt or in the buffer  *)
(* (_route_attachment, _flush_album), and a command gets one argument,     *)
(* though a voice note may give it back (on_text, on_voice), for any       *)
(* number of messages, albums and commands.                                *)
THEOREM HeldForOne == MCSpec => []HeldOnce
<1>1. ASSUME BoxInv PROVE In!PartsOnce
  <2> SUFFICES ASSUME NEW i \in Album, pc[i] = "routed"
               PROVE  got[i] + Cardinality({p \in prompts : i \in p.of})
                      + (IF album # None /\ i \in album.parts \cup album.dropped THEN 1 ELSE 0) = 1
    BY SameCount DEF In!PartsOnce
  <2> DEFINE those == {p \in prompts : i \in p.of}
  <2>1. Cardinality(those) = IF those = {} THEN 0 ELSE 1
    <3>1. \A p, q \in those : p = q
      BY <1>1 DEF BoxInv, PromptInv, In!Message, In!Photo
    <3> QED
      BY <3>1, AtMostOne
  <2>2. Buffered(i) \/ Prompted(i) \/ Got(i)
    BY <1>1 DEF BoxInv, AlbumInv
  <2> QED
    BY <2>1, <2>2 DEF Buffered, Prompted, Got, InBuffer
<1>2. ASSUME BoxInv PROVE In!ArgumentOnce
  <2> SUFFICES ASSUME NEW a \in 1..asked
               PROVE  ran[a] + Cardinality({v \in Voice : takes[v] = a})
                      + (IF pending = a THEN 1 ELSE 0) <= 1
    BY SameCount DEF In!ArgumentOnce
  <2> DEFINE those == {v \in Voice : takes[v] = a}
  <2>1. a # None /\ a \in 1..MaxAsks /\ ran[a] \in {0, 1}
    BY <1>2, ThreadsAssumption DEF BoxInv, ArgInv, In!InboxAssumption
  <2>2. Cardinality(those) = IF those = {} THEN 0 ELSE 1
    <3>1. \A v, w \in those : v = w
      BY <1>2, <2>1 DEF BoxInv, ArgInv
    <3> QED
      BY <3>1, AtMostOne
  <2>3. those # {} => ran[a] = 0 /\ pending # a
    BY <1>2, <2>1 DEF BoxInv, ArgInv
  <2>4. pending = a => ran[a] = 0
    BY <1>2, <2>1 DEF BoxInv, ArgInv
  <2> QED
    BY <2>1, <2>2, <2>3, <2>4
<1>3. BoxInv => HeldOnce
  BY <1>1, <1>2 DEF HeldOnce, In!HeldOnce
<1> QED
  BY <1>3, InboxStays, PTL

(* At most as many turns are counted as there are rows.                    *)
LEMMA EndedCounted ==
  ASSUME MeterInv, NEW window \in Nat
  PROVE  /\ In!Used(window) \in Nat
         /\ Cardinality({e \in ended : e.at + window >= clock /\ ~e.rowless}) \in Nat
         /\ Cardinality({e \in ended : e.at + window >= clock /\ ~e.rowless}) <= In!Used(window)
<1> DEFINE E == {e \in ended : e.at + window >= clock /\ ~e.rowless}
           U == {u \in usage : u.of = In!User /\ u.at + window >= clock}
           rowOf == [e \in E |-> [of |-> In!User, at |-> e.at, turn |-> e.turn]]
<1>1. In!Used(window) = Cardinality(U)
  BY SameCount DEF In!Used
<1>2. IsFiniteSet(U)
  BY FS_Subset DEF MeterInv
<1>3. rowOf \in [E -> U]
  BY DEF MeterInv
<1>4. \A e, f \in E : rowOf[e] = rowOf[f] => e = f
  <2> SUFFICES ASSUME NEW e \in E, NEW f \in E, rowOf[e] = rowOf[f] PROVE e = f
    OBVIOUS
  <2>1. e.at = f.at /\ e.turn = f.turn
    OBVIOUS
  <2>2. e \in Ended /\ f \in Ended /\ e.rowless = f.rowless
    BY DEF MeterInv, Ended
  <2> QED
    BY <2>1, <2>2 DEF Ended
<1> HIDE DEF rowOf, E, U
<1>5. rowOf \in Injection(E, U)
  BY <1>3, <1>4 DEF Injection, IsInjective
<1>6. Cardinality(E) <= Cardinality(U)
  BY <1>2, <1>5, FS_Injection
<1>7. Cardinality(U) \in Nat /\ Cardinality(E) \in Nat
  BY <1>2, <1>5, FS_CardinalityType, FS_Injection
<1> QED
  BY <1>1, <1>6, <1>7 DEF E

(* Only the gate lets a prompt that waits for it through.                  *)
LEMMA OnlyTheGate ==
  ASSUME PromptInv, In!Next, NEW p \in prompts, p.at = "gate",
         [p EXCEPT !.at = "submit"] \in prompts'
  PROVE  ~In!Blocked
<1> DEFINE n == [p EXCEPT !.at = "submit"]
<1>1. n.of = p.of /\ n.at = "submit" /\ n # p
  BY DEF PromptInv, Prompts
<1> HIDE DEF n
<1>2. PICK m \in p.of : m \in In!Message /\ pc[m] \in Sent
  BY DEF PromptInv, Prompts
<1>3. n \notin prompts
  BY <1>1, <1>2 DEF PromptInv
<1>4. n \in prompts' \ prompts
  BY <1>3 DEF n
<1>5. ASSUME NEW of, In!Prompt(of, "gate") PROVE FALSE
  BY <1>1, <1>4, <1>5 DEF In!Prompt
<1>6. ASSUME prompts' = prompts PROVE FALSE
  BY <1>4, <1>6
<1>7. ASSUME NEW q \in prompts, In!Gate(q) PROVE ~In!Blocked
  <2> SUFFICES ASSUME In!Blocked PROVE FALSE
    OBVIOUS
  <2>1. prompts' \subseteq prompts
    BY <1>7 DEF In!Gate
  <2> QED
    BY <1>4, <2>1
<1>8. ASSUME NEW q \in prompts, In!Submit(q) PROVE FALSE
  BY <1>4, <1>8 DEF In!Submit
<1>9. ASSUME NEW v \in Voice, In!VoiceEnds(v) PROVE FALSE
  <2>1. CASE takes[v] # None
    BY <1>6, <1>9, <2>1 DEF In!VoiceEnds
  <2>2. CASE takes[v] = None
    <3>1. n = [of |-> {v}, at |-> "submit"]
      BY <1>4, <1>9, <2>2 DEF In!VoiceEnds, In!Prompt
    <3>2. pc[v] \in Sent
      BY <1>1, <1>2, <3>1
    <3> QED
      BY <1>9, <3>2 DEF In!VoiceEnds, Sent
  <2> QED
    BY <2>1, <2>2
<1>10. CASE In!Passes \/ In!Reset \/ In!DeleteRow \/ In!Ask \/ In!Cancel \/ \E t \in running : In!TurnEnds(t)
  BY <1>6, <1>10 DEF In!Passes, In!Reset, In!DeleteRow, In!Ask, In!Cancel, In!TurnEnds, In!inbox
<1>11. CASE In!FlushAlbum
  BY <1>5, <1>11 DEF In!FlushAlbum
<1>12. ASSUME NEW i, In!Receive(i) \/ In!Downloaded(i) \/ In!RouteAlbum(i) \/ In!OnVoice(i)
                     \/ In!VoiceFails(i) \/ In!VoiceWorks(i)
       PROVE  FALSE
  BY <1>6, <1>12 DEF In!Receive, In!Downloaded, In!RouteAlbum, In!OnVoice, In!VoiceFails, In!VoiceWorks
<1>13. ASSUME NEW i, In!RouteSingle(i) PROVE FALSE
  BY <1>5, <1>13 DEF In!RouteSingle
<1>14. ASSUME NEW t, In!OnText(t) PROVE FALSE
  BY <1>5, <1>6, <1>14 DEF In!OnText
<1> QED
  BY <1>7, <1>8, <1>9, <1>10, <1>11, <1>12, <1>13, <1>14 DEF In!Next

(* A prompt passes the gate only while the turns that ended within each    *)
(* window are below the user's limit (get_user_usage_window, add_usage),   *)
(* for any number of turns and any limits.                                 *)
THEOREM LimitKept == MCSpec => LimitHolds
<1> DEFINE Passed == \A p \in prompts : p.at = "gate" /\ [p EXCEPT !.at = "submit"] \in prompts' =>
             \A window \in {In!Short, In!Week} :
               In!Cardinality({e \in ended : e.at + window >= clock /\ ~e.rowless}) < In!WindowCap[window]
<1>1. ASSUME BoxInv, In!Next PROVE Passed
  <2> SUFFICES ASSUME NEW p \in prompts, p.at = "gate", [p EXCEPT !.at = "submit"] \in prompts',
                      NEW window \in {In!Short, In!Week}
               PROVE  In!Cardinality({e \in ended : e.at + window >= clock /\ ~e.rowless})
                      < In!WindowCap[window]
    OBVIOUS
  <2>1. ~(In!Used(window) >= In!WindowCap[window])
    BY <1>1, OnlyTheGate DEF BoxInv, In!Blocked
  <2>2. window \in Nat
    BY DEF In!Short, In!Week
  <2>3. In!WindowCap[window] \in Nat
    BY ThreadsAssumption DEF In!WindowCap, In!InboxAssumption
  <2> DEFINE recent == {e \in ended : e.at + window >= clock /\ ~e.rowless}
  <2>4. /\ In!Used(window) \in Nat /\ Cardinality(recent) \in Nat
        /\ Cardinality(recent) <= In!Used(window)
    BY <1>1, <2>2, EndedCounted DEF BoxInv
  <2>5. In!Cardinality(recent) = Cardinality(recent)
    BY SameCount
  <2> QED
    BY <2>1, <2>3, <2>4, <2>5
<1>2. BoxInv /\ [MCNext]_mcvars => [Passed]_(In!vars)
  <2>1. [MCNext]_mcvars => [In!Next]_(In!vars)
    BY DEF MCNext, mcvars, inVars, In!vars, In!inbox, In!args, In!meter
  <2> QED
    BY <1>1, <2>1
<1> QED
  BY <1>2, InboxStays, PTL DEF MCSpec, LimitHolds, In!LimitHolds

=============================================================================
