----------------------- MODULE SessionManager_proofs -----------------------
(***************************************************************************)
(* What SessionManager checks on three prompts and one call of each other  *)
(* handler, proved for any number of calls: one turn at a time, one open   *)
(* client that can be reached, prompts that are kept, and a thread that    *)
(* implements the line of PromptQueue.  Resets may be many, one after the  *)
(* other: a second one that waits for the lock of the first drops the      *)
(* record made in between (see the README).                                *)
(***************************************************************************)
EXTENDS SessionManager, FiniteSetTheorems, TLAPS

(* A reset from its look-up to the pop of the record.                      *)
Resetting(x) == opc[x] \in {"lock", "deny", "join", "close"}
ResetsApart == \A x, y \in Resets : Resetting(x) /\ Resetting(y) => x = y

(* Types, by whose state it is; a turn runs on a client.                   *)
Labels == {"start", "read", "lock", "inject", "build", "deny", "interrupt", "join", "close",
           "tail", "done"}
Places == {"none", "start", "prepare", "running", "notice", "unwind", "outbox", "done"}
RecordTypes ==
  /\ current \in Recs \cup {0} /\ nrec \in Nat
  /\ lockq \in [Recs -> Seq(Ops)] /\ queue \in [Recs -> Seq(Submits)]
  /\ worker \in [Recs -> Submits \cup {None}] /\ session \in [Recs -> Submits \cup {None}]
CallTypes ==
  /\ opc \in [Ops -> Labels] /\ opr \in [Ops -> Recs \cup {0}]
  /\ snap \in [Submits -> Submits \cup {None}] /\ resume \in Submits \cup {None}
  /\ closing \in [Ops -> Submits \cup {None}]
TurnTypes ==
  /\ wpc \in [Submits -> Places] /\ wrec \in [Submits -> Recs \cup {0}]
  /\ witem \in [Submits -> Submits \cup {None}] /\ wcli \in [Submits -> Submits \cup {None}]
  /\ cancelled \subseteq Submits /\ live \subseteq Submits
  /\ draining \in BOOLEAN /\ drained \in {"no", "waiting", "yes", "timeout"}
  /\ fate \in [Submits -> Fates] /\ voided \subseteq Submits
  /\ \A w \in Submits : wpc[w] = "running" => wcli[w] # None
TypeInv == RecordTypes /\ CallTypes /\ TurnTypes

(* What a call does after it got the lock, it does with the lock.          *)
Section(o) == opc[o] \in {"inject", "build", "deny", "interrupt", "join", "close"}
LockInv == \A o \in Ops : Section(o) => Holds(o)

(* A record is numbered once per reset that has ended.                     *)
Ended == {x \in Resets : opc[x] \in {"tail", "done"}}
CountInv == nrec <= Cardinality(Ended) + (IF current = 0 THEN 0 ELSE 1)

(* Prompts are queued, clients closed and records dropped for the record   *)
(* in the table only; every other record is empty.                         *)
Here(r) == r = current /\ current # 0
RecordInv ==
  /\ \A h \in Submits : Section(h) => Here(opr[h])
  /\ \A x \in Resets : Resetting(x) => Here(opr[x])
  /\ \A o \in Ops : At(o, "close") => Here(opr[o]) /\ session[opr[o]] = None
  /\ \A r \in Recs : r # current => queue[r] = <<>> /\ session[r] = None /\ worker[r] = None

(* A task that is not over is the worker of the record in the table; only  *)
(* a reset that waits for it has cancelled it, and then forgets it.        *)
Lives(w) == wpc[w] \notin {"none", "done"}
WorkerInv ==
  /\ \A w \in Submits :
       /\ Lives(w) => Here(current) /\ worker[current] = w
       /\ Lives(w) /\ wpc[w] # "start" => wrec[w] = current
       /\ wpc[w] # "none" => At(w, "done")
       /\ w \in cancelled => wpc[w] # "none"
       /\ w \in cancelled /\ Lives(w) => \E x \in Resets : At(x, "join")
  /\ \A r \in Recs : worker[r] # None => wpc[worker[r]] # "none"
  /\ \A x \in Resets : At(x, "close") => worker[opr[x]] = None

(* A queue that is not empty has a worker; a reset that waits for the      *)
(* worker has emptied it.                                                  *)
QueueInv ==
  /\ \A r \in Recs : queue[r] # <<>> /\ ~draining => Busy(r)
  /\ \A x \in Resets : opc[x] \in {"join", "close"} => queue[opr[x]] = <<>>

(* An open client is the record's, or the one a call is closing.           *)
ClientInv ==
  /\ \A c \in live : (current # 0 /\ session[current] = c) \/ \E o \in Ops : closing[o] = c
  /\ \A o \in Ops : closing[o] # None => At(o, "close")

(* Unless a rotation took it, a worker has a client to run on.             *)
ServedInv ==
  Rotates = {} => /\ \A w \in Submits : Lives(w) => session[current] # None
                  /\ \A h \in Submits : fate[h] # "lost"

IInv == /\ TypeInv /\ LockInv /\ CountInv /\ RecordInv
        /\ WorkerInv /\ QueueInv /\ ClientInv /\ ServedInv
-----------------------------------------------------------------------------
(* Calls, records and locks                                                *)

(* The calls of every handler are calls, and no call is of two handlers.   *)
LEMMA OpsDisjoint ==
  /\ Submits \subseteq Ops /\ Stops \subseteq Ops /\ Resets \subseteq Ops
  /\ Evicts \subseteq Ops /\ Rotates \subseteq Ops
  /\ \A o \in Stops \cup Evicts \cup Rotates : o \notin Submits /\ o \notin Resets
  /\ \A h \in Submits : h \notin Resets
  /\ None \notin Submits /\ None \notin Ops
BY CallsAssumption DEF Ops

(* Records are numbered from 1; 0 is no record.                            *)
LEMMA RecsType == Cardinality(Resets) \in Nat /\ Recs \subseteq Nat \ {0}
BY CallsAssumption, FS_CardinalityType DEF Recs

(* There are never more resets ended than there are.                       *)
LEMMA EndedType ==
  IsFiniteSet(Ended) /\ Cardinality(Ended) \in Nat /\ Cardinality(Ended) <= Cardinality(Resets)
<1>1. Ended \subseteq Resets BY DEF Ended
<1> QED BY <1>1, CallsAssumption, FS_Subset, FS_CardinalityType

(* A record can always be made.                                            *)
LEMMA RecordMade ==
  ASSUME IInv
  PROVE  RecordHere \in Recs /\ RecordHere # 0
<1>1. CASE current = 0
  <2>1. nrec <= Cardinality(Ended) + 0 BY <1>1 DEF IInv, CountInv
  <2>2. nrec + 1 <= Cardinality(Resets) + 1 /\ nrec \in Nat
    BY <2>1, EndedType, RecsType DEF IInv, TypeInv, RecordTypes
  <2> QED BY <2>2, <1>1, RecsType DEF RecordHere, Recs
<1>2. CASE current # 0 BY <1>2, RecsType DEF RecordHere, IInv, TypeInv, RecordTypes
<1> QED BY <1>1, <1>2

(* Who has a lock keeps it while another lets go of his.                   *)
LEMMA UnlockKeeps ==
  ASSUME IInv, NEW o \in Ops, Holds(o), Unlock(o)
  PROVE  /\ lockq' \in [Recs -> Seq(Ops)]
         /\ \A p \in Ops : p # o /\ Section(p) =>
              opr[p] # 0 /\ lockq'[opr[p]] # <<>> /\ Head(lockq'[opr[p]]) = p
<1>1. /\ lockq \in [Recs -> Seq(Ops)] /\ opr[o] \in Recs /\ lockq[opr[o]] # <<>>
      /\ \A p \in Ops : opr[p] \in Recs \cup {0}
  BY DEF IInv, TypeInv, RecordTypes, CallTypes, Holds
<1>2. Tail(lockq[opr[o]]) \in Seq(Ops) BY <1>1
<1>3. lockq' \in [Recs -> Seq(Ops)] BY <1>1, <1>2 DEF Unlock
<1>4. ASSUME NEW p \in Ops, p # o, Section(p)
      PROVE  opr[p] # 0 /\ lockq'[opr[p]] # <<>> /\ Head(lockq'[opr[p]]) = p
  <2>1. Holds(p) BY <1>4 DEF IInv, LockInv
  <2>2. opr[p] # opr[o] BY <2>1, <1>4 DEF Holds
  <2> QED BY <2>1, <2>2, <1>1 DEF Holds, Unlock
<1> QED BY <1>3, <1>4

(* Who has a lock keeps it while another asks for it.                      *)
LEMMA AskKeeps ==
  ASSUME IInv, NEW o \in Ops, NEW r \in Recs, NEW q \in [Recs -> Seq(Ops)],
         lockq' = [q EXCEPT ![r] = Append(@, o)]
  PROVE  /\ lockq' \in [Recs -> Seq(Ops)]
         /\ \A p \in Ops : opr[p] # 0 /\ q[opr[p]] # <<>> /\ Head(q[opr[p]]) = p =>
              opr[p] # 0 /\ lockq'[opr[p]] # <<>> /\ Head(lockq'[opr[p]]) = p
<1>1. \A p \in Ops : opr[p] \in Recs \cup {0} BY DEF IInv, TypeInv, CallTypes
<1>2. Append(q[r], o) \in Seq(Ops) BY SMT
<1>3. q[r] # <<>> => Append(q[r], o) # <<>> /\ Head(Append(q[r], o)) = Head(q[r]) BY SMT
<1>4. \A u \in Recs : lockq'[u] = IF u = r THEN Append(q[r], o) ELSE q[u] BY SMT
<1>5. ASSUME NEW p \in Ops, opr[p] # 0, q[opr[p]] # <<>>, Head(q[opr[p]]) = p
      PROVE  lockq'[opr[p]] # <<>> /\ Head(lockq'[opr[p]]) = p
  <2>1. opr[p] \in Recs BY <1>1, <1>5
  <2>2. CASE opr[p] = r BY <2>1, <2>2, <1>3, <1>4, <1>5
  <2>3. CASE opr[p] # r BY <2>1, <2>3, <1>4, <1>5
  <2> QED BY <2>2, <2>3
<1>6. lockq' \in [Recs -> Seq(Ops)] BY <1>2, SMT
<1> QED BY <1>5, <1>6

(* Ended resets are counted.                                               *)
LEMMA CountKept ==
  ASSUME IInv, Ended \subseteq Ended', IsFiniteSet(Ended'),
         \/ nrec' = nrec /\ current' = current
         \/ MakeRecord
  PROVE  CountInv'
<1>1. Cardinality(Ended) <= Cardinality(Ended') /\ Cardinality(Ended') \in Nat /\ Cardinality(Ended) \in Nat
  BY FS_Subset, FS_CardinalityType, EndedType
<1>2. nrec \in Nat /\ nrec <= Cardinality(Ended) + (IF current = 0 THEN 0 ELSE 1)
  BY DEF IInv, TypeInv, RecordTypes, CountInv
<1>3. CASE nrec' = nrec /\ current' = current BY <1>1, <1>2, <1>3 DEF CountInv
<1>4. CASE MakeRecord
  <2>1. CASE current = 0
    <3>1. nrec' = nrec + 1 /\ current' # 0 BY <2>1, <1>2, <1>4 DEF MakeRecord, RecordHere
    <3> QED BY <2>1, <3>1, <1>1, <1>2 DEF CountInv
  <2>2. CASE current # 0
    <3>1. nrec' = nrec /\ current' = current BY <2>2, <1>4 DEF MakeRecord, RecordHere
    <3> QED BY <3>1, <1>1, <1>2 DEF CountInv
  <2> QED BY <2>1, <2>2
<1> QED BY <1>3, <1>4

-----------------------------------------------------------------------------
(* Calls that come, wait, and go                                           *)

(* A call moves on, with the lock or without, and touches neither worker   *)
(* nor client; it may make the record.                                     *)
LEMMA CallMoves ==
  ASSUME IInv, NEW o \in Ops, NEW l \in Labels \ {"join", "close"}, Goto(o, l),
         opc[o] \notin {"join", "close", "done"}, opc[o] = "tail" => l = "done",
         CallTypes', lockq' \in [Recs -> Seq(Ops)],
         \A p \in Ops : p # o => opr'[p] = opr[p],
         \A p \in Ops : p # o /\ Section(p) => lockq'[opr[p]] # <<>> /\ Head(lockq'[opr[p]]) = p,
         Section(o)' => Holds(o)',
         o \in Submits /\ Section(o)' => opr'[o] = current' /\ current' # 0,
         o \in Resets /\ Resetting(o)' => opr'[o] = current' /\ current' # 0,
         UNCHANGED <<current, nrec>> \/ MakeRecord,
         UNCHANGED <<queue, worker, session, closing, workerVars, live, draining, drained>>,
         fate' \in [Submits -> Fates], \A h \in Submits : fate'[h] = "lost" => fate[h] = "lost",
         voided' \subseteq Submits
  PROVE  IInv'
<1> USE OpsDisjoint DEF workerVars
<1>1. /\ opc \in [Ops -> Labels] /\ \A p \in Ops : opc'[p] = IF p = o THEN l ELSE opc[p]
      /\ \A p \in Ops : opr[p] \in Recs \cup {0}
  BY DEF IInv, TypeInv, CallTypes, Goto
<1>2. \/ current' = current
      \/ current = 0 /\ current' \in Recs /\ current' # 0
  BY RecordMade DEF MakeRecord, RecordHere
<1>3. TypeInv'
  <2>1. current' \in Recs \cup {0} /\ nrec' \in Nat
    BY <1>2 DEF IInv, TypeInv, RecordTypes, MakeRecord
  <2>2. RecordTypes' BY <2>1 DEF IInv, TypeInv, RecordTypes
  <2>3. TurnTypes' BY DEF IInv, TypeInv, TurnTypes
  <2> QED BY <2>2, <2>3 DEF TypeInv
<1>4. LockInv'
  <2>1. ASSUME NEW p \in Ops, p # o, Section(p)' PROVE Holds(p)'
    <3>1. Section(p) BY <2>1, <1>1 DEF Section
    <3>2. opr[p] # 0 BY <3>1 DEF IInv, LockInv, Holds
    <3> QED BY <3>1, <3>2, <2>1 DEF Holds
  <2> QED BY <2>1 DEF LockInv
<1>5. CountInv'
  <2>1. Ended \subseteq Ended' BY <1>1 DEF Ended
  <2>2. IsFiniteSet(Ended')
    <3>1. Ended' \subseteq Resets BY DEF Ended
    <3> QED BY <3>1, CallsAssumption, FS_Subset
  <2> QED BY <2>1, <2>2, CountKept
<1>6. RecordInv'
  <2>1. \A h \in Submits : Section(h)' => opr'[h] = current' /\ current' # 0
    <3>1. \A h \in Submits : h # o /\ Section(h)' => Section(h) BY <1>1 DEF Section
    <3>2. \A h \in Submits : h # o /\ Section(h)' => opr'[h] = current /\ current # 0
      BY <3>1 DEF IInv, RecordInv, Here
    <3> QED BY <3>2, <1>2
  <2>2. \A x \in Resets : Resetting(x)' => opr'[x] = current' /\ current' # 0
    <3>1. \A x \in Resets : x # o /\ Resetting(x)' => Resetting(x) BY <1>1 DEF Resetting
    <3>2. \A x \in Resets : x # o /\ Resetting(x)' => opr'[x] = current /\ current # 0
      BY <3>1 DEF IInv, RecordInv, Here
    <3> QED BY <3>2, <1>2
  <2>3. \A p \in Ops : At(p, "close")' => opr'[p] = current' /\ current' # 0 /\ session'[opr'[p]] = None
    <3>1. \A p \in Ops : At(p, "close")' => p # o /\ At(p, "close") BY <1>1 DEF At
    <3>2. \A p \in Ops : At(p, "close")' => opr'[p] = current /\ current # 0 /\ session[opr[p]] = None
      BY <3>1 DEF IInv, RecordInv, Here
    <3> QED BY <3>1, <3>2, <1>2
  <2>4. \A r \in Recs : r # current' => queue'[r] = <<>> /\ session'[r] = None /\ worker'[r] = None
    BY <1>2, RecsType DEF IInv, RecordInv
  <2> QED BY <2>1, <2>2, <2>3, <2>4 DEF RecordInv, Here
<1>7. WorkerInv'
  <2>1. \A w \in Submits : wpc[w] # "none" => w # o /\ At(w, "done")' BY <1>1 DEF IInv, WorkerInv, At
  <2>2. \A x \in Resets : At(x, "join") => At(x, "join")' BY <1>1 DEF At
  <2>3. \A w \in Submits : Lives(w) => current' = current BY <1>2 DEF IInv, WorkerInv, Here
  <2>4. \A x \in Resets : At(x, "close")' => At(x, "close") /\ opr'[x] = opr[x] BY <1>1 DEF At
  <2> QED BY <2>1, <2>2, <2>3, <2>4 DEF IInv, WorkerInv, Lives, Here
<1>8. QueueInv'
  <2>1. \A x \in Resets : opc'[x] \in {"join", "close"} =>
          x # o /\ opc[x] \in {"join", "close"} /\ opr'[x] = opr[x]
    BY <1>1
  <2> QED BY <2>1 DEF IInv, QueueInv, Busy
<1>9. ClientInv'
  <2>1. \A p \in Ops : At(p, "close") => At(p, "close")' BY <1>1 DEF At
  <2> QED BY <2>1, <1>2 DEF IInv, ClientInv
<1>10. ServedInv'
  <2>1. \A w \in Submits : Lives(w) => current' = current BY <1>2 DEF IInv, WorkerInv, Here
  <2> QED BY <2>1 DEF IInv, ServedInv, Lives
<1> QED BY <1>3, <1>4, <1>5, <1>6, <1>7, <1>8, <1>9, <1>10 DEF IInv

(* A step of a call that leaves the lock alone.                            *)
LEMMA QuietCall ==
  ASSUME IInv, NEW o \in Ops, NEW l \in Labels \ {"lock", "join", "close"}, Goto(o, l),
         opc[o] \notin {"join", "close", "done"}, opc[o] = "tail" => l = "done",
         Section(o)' => Holds(o),
         o \in Submits /\ Section(o)' => Here(opr[o]),
         o \in Resets /\ Resetting(o)' => Here(opr[o]),
         snap' \in [Submits -> Submits \cup {None}], resume' \in Submits \cup {None},
         UNCHANGED <<recordVars, queue, worker, session, opr, closing, workerVars, live, drainVars, histVars>>
  PROVE  IInv'
<1> USE DEF recordVars, drainVars, histVars
<1>1. CallTypes' BY DEF IInv, TypeInv, CallTypes, Goto
<1>2. lockq' \in [Recs -> Seq(Ops)] /\ fate' \in [Submits -> Fates] /\ voided' \subseteq Submits
  BY DEF IInv, TypeInv, RecordTypes, TurnTypes
<1>3. \A p \in Ops : Section(p) => lockq'[opr[p]] # <<>> /\ Head(lockq'[opr[p]]) = p
  BY DEF IInv, LockInv, Holds
<1>4. Section(o)' => Holds(o)' BY DEF Holds
<1> HIDE DEF Section, Resetting, Holds
<1> QED BY <1>1, <1>2, <1>3, <1>4, CallMoves DEF Here

(* A call lets go of the lock and ends.                                    *)
LEMMA CallLeaves ==
  ASSUME IInv, NEW o \in Ops, Holds(o), Unlock(o), Goto(o, "done"),
         opc[o] \notin {"join", "close", "done"},
         UNCHANGED <<current, nrec, queue, worker, session, opr, snap, closing, workerVars, live,
                     resume, drainVars, voided>>,
         fate' \in [Submits -> Fates], \A h \in Submits : fate'[h] = "lost" => fate[h] = "lost"
  PROVE  IInv'
<1> USE DEF drainVars
<1>1. CallTypes' BY DEF IInv, TypeInv, CallTypes, Goto, Labels
<1>2. voided' \subseteq Submits BY DEF IInv, TypeInv, TurnTypes
<1>3. opc'[o] = "done" BY DEF IInv, TypeInv, CallTypes, Goto
<1>4. ~Section(o)' /\ ~Resetting(o)' BY <1>3 DEF Section, Resetting
<1>5. "done" \in Labels \ {"join", "close"} BY DEF Labels
<1> QED BY <1>1, <1>2, <1>4, <1>5, UnlockKeeps, CallMoves

(* A call asks for the lock of the record in the table.                    *)
LEMMA CallAsks ==
  ASSUME IInv, NEW o \in Ops, NEW r \in Recs, AskLock(o, r), ~Section(o),
         opc[o] \notin {"tail", "done"}, r = current' /\ current' # 0,
         UNCHANGED <<current, nrec>> \/ MakeRecord,
         UNCHANGED <<queue, worker, session, snap, closing, workerVars, live, resume, drainVars, histVars>>
  PROVE  IInv'
<1> USE DEF drainVars, histVars, AskLock
<1>1. CallTypes'
  <2>1. opc' \in [Ops -> Labels] BY DEF IInv, TypeInv, CallTypes, Goto, Labels
  <2>2. opr' \in [Ops -> Recs \cup {0}] BY DEF IInv, TypeInv, CallTypes
  <2> QED BY <2>1, <2>2 DEF IInv, TypeInv, CallTypes
<1>2. fate' \in [Submits -> Fates] /\ voided' \subseteq Submits BY DEF IInv, TypeInv, TurnTypes
<1>3. opc'[o] = "lock" /\ opr'[o] = r /\ \A p \in Ops : p # o => opr'[p] = opr[p]
  BY DEF IInv, TypeInv, CallTypes, Goto
<1>4. ~Section(o)' BY <1>3 DEF Section
<1>5. lockq \in [Recs -> Seq(Ops)] BY DEF IInv, TypeInv, RecordTypes
<1>6. \A p \in Ops : Section(p) => opr[p] # 0 /\ lockq[opr[p]] # <<>> /\ Head(lockq[opr[p]]) = p
  BY DEF IInv, LockInv, Holds
<1>7. /\ lockq' \in [Recs -> Seq(Ops)]
      /\ \A p \in Ops : opr[p] # 0 /\ lockq[opr[p]] # <<>> /\ Head(lockq[opr[p]]) = p =>
           opr[p] # 0 /\ lockq'[opr[p]] # <<>> /\ Head(lockq'[opr[p]]) = p
  BY <1>5, AskKeeps
<1>8. \A p \in Ops : p # o /\ Section(p) => lockq'[opr[p]] # <<>> /\ Head(lockq'[opr[p]]) = p
  BY <1>6, <1>7
<1>9. "lock" \in Labels \ {"join", "close"} /\ Goto(o, "lock") /\ opc[o] \notin {"join", "close", "done"}
  BY DEF Labels, Section
<1> QED BY <1>1, <1>2, <1>3, <1>4, <1>7, <1>8, <1>9, CallMoves

(* The steps of the calls that need no more than this.                     *)
LEMMA SubmitSteps ==
  ASSUME IInv, NEW h \in Submits,
         \/ SubmitRead(h) \/ SubmitLookup(h) \/ SubmitInject(h)
         \/ SubmitInjected(h) \/ SubmitRejected(h) \/ SubmitQueue(h)
  PROVE  IInv'
<1> USE OpsDisjoint DEF At
<1>0. opc \in [Ops -> Labels] BY DEF IInv, TypeInv, CallTypes
<1>1. snap \in [Submits -> Submits \cup {None}] /\ resume \in Submits \cup {None}
      /\ fate \in [Submits -> Fates]
  BY DEF IInv, TypeInv, CallTypes, TurnTypes
<1>2. CASE SubmitRead(h)
  <2>1. /\ opc[h] = "start" /\ Goto(h, "read") /\ snap' = [snap EXCEPT ![h] = resume]
        /\ UNCHANGED <<recordVars, queue, worker, session, opr, closing, workerVars, live, resume,
                       drainVars, histVars>>
    BY <1>2 DEF SubmitRead
  <2>2. opc'[h] = "read" /\ ~Section(h)' BY <2>1, <1>0 DEF Goto, Section
  <2>3. "read" \in Labels \ {"lock", "join", "close"} BY DEF Labels
  <2> QED BY <2>1, <2>2, <2>3, <1>1, QuietCall
<1>3. CASE SubmitLookup(h)
  <2>1. RecordHere \in Recs /\ RecordHere # 0 BY RecordMade
  <2>2. /\ opc[h] = "read" /\ MakeRecord /\ AskLock(h, RecordHere) /\ RecordHere = current'
        /\ UNCHANGED <<queue, worker, session, snap, closing, workerVars, live, resume, drainVars, histVars>>
    BY <1>3 DEF SubmitLookup, MakeRecord
  <2>3. ~Section(h) BY <2>2 DEF Section
  <2> HIDE DEF At
  <2> QED BY <2>1, <2>2, <2>3, CallAsks
<1>4. CASE SubmitInject(h)
  <2>1. /\ opc[h] = "lock" /\ Holds(h) /\ current = opr[h] /\ Goto(h, "inject")
        /\ UNCHANGED <<recordVars, queue, worker, session, opr, snap, closing, workerVars, live,
                       resume, drainVars, histVars>>
    BY <1>4 DEF SubmitInject
  <2>2. Here(opr[h]) BY <2>1 DEF Here, Holds
  <2>3. "inject" \in Labels \ {"lock", "join", "close"} BY DEF Labels
  <2> QED BY <2>1, <2>2, <2>3, <1>1, QuietCall
<1>5. CASE SubmitInjected(h) \/ SubmitRejected(h)
  <2>1. opc[h] \in {"lock", "inject"} /\ Holds(h)
    BY <1>5 DEF SubmitInjected, SubmitRejected, IInv, LockInv, Section
  <2>2. PICK f \in {"injected", "rejected"} : fate' = [fate EXCEPT ![h] = f]
    BY <1>5 DEF SubmitInjected, SubmitRejected
  <2>3. fate' \in [Submits -> Fates] /\ \A g \in Submits : fate'[g] = "lost" => fate[g] = "lost"
    BY <2>2, <1>1 DEF Fates
  <2>4. /\ Unlock(h) /\ Goto(h, "done")
        /\ UNCHANGED <<current, nrec, queue, worker, session, opr, snap, closing, workerVars, live,
                       resume, drainVars, voided>>
    BY <1>5 DEF SubmitInjected, SubmitRejected
  <2> QED BY <2>1, <2>3, <2>4, CallLeaves
<1>6. CASE SubmitQueue(h)
  <2>1. /\ opc[h] \in {"lock", "inject"} /\ Goto(h, "build")
        /\ UNCHANGED <<recordVars, queue, worker, session, opr, snap, closing, workerVars, live,
                       resume, drainVars, histVars>>
    BY <1>6 DEF SubmitQueue
  <2>2. Holds(h) BY <1>6 DEF SubmitQueue, IInv, LockInv, Section
  <2>3. Here(opr[h]) BY <1>6, <2>2 DEF SubmitQueue, IInv, RecordInv, Section, Here, Holds
  <2>4. "build" \in Labels \ {"lock", "join", "close"} BY DEF Labels
  <2> QED BY <2>1, <2>2, <2>3, <2>4, <1>1, QuietCall
<1> QED BY <1>2, <1>3, <1>4, <1>5, <1>6

(* handle_text makes the record again when a reset has dropped it.         *)
LEMMA RetryStep ==
  ASSUME IInv, NEW h \in Submits, SubmitRetry(h)
  PROVE  IInv'
<1> USE OpsDisjoint
<1> DEFINE r == RecordHere
           q == [lockq EXCEPT ![opr[h]] = Tail(@)]
<1>1. /\ opc[h] = "lock" /\ Holds(h) /\ MakeRecord /\ r = current'
      /\ opr' = [opr EXCEPT ![h] = r] /\ opc' = opc
      /\ UNCHANGED <<queue, worker, session, opc, snap, closing, workerVars, live, resume,
                     drainVars, histVars>>
  BY DEF SubmitRetry, MakeRecord, At
<1>2. r \in Recs /\ r # 0 BY RecordMade
<1>3. /\ lockq \in [Recs -> Seq(Ops)] /\ opr \in [Ops -> Recs \cup {0}] /\ opc \in [Ops -> Labels]
  BY DEF IInv, TypeInv, RecordTypes, CallTypes
<1>4. q \in [Recs -> Seq(Ops)]
  <2>1. opr[h] \in Recs /\ lockq[opr[h]] # <<>> BY <1>1, <1>3 DEF Holds
  <2>2. Tail(lockq[opr[h]]) \in Seq(Ops) BY <2>1, <1>3
  <2> QED BY <2>2, <1>3
<1>5. \A p \in Ops : p # h /\ Section(p) => opr[p] # 0 /\ q[opr[p]] # <<>> /\ Head(q[opr[p]]) = p
  <2>1. \A p \in Ops : Section(p) => opr[p] # 0 /\ lockq[opr[p]] # <<>> /\ Head(lockq[opr[p]]) = p
    BY DEF IInv, LockInv, Holds
  <2>2. Head(lockq[opr[h]]) = h BY <1>1 DEF Holds
  <2> QED BY <2>1, <2>2, <1>3
<1>6. lockq' = [q EXCEPT ![r] = Append(@, h)] BY DEF SubmitRetry
<1> HIDE DEF q
<1>7. /\ lockq' \in [Recs -> Seq(Ops)]
      /\ \A p \in Ops : p # h /\ Section(p) => lockq'[opr[p]] # <<>> /\ Head(lockq'[opr[p]]) = p
  BY <1>2, <1>4, <1>5, <1>6, AskKeeps
<1>8. CallTypes' BY <1>1, <1>2, <1>3 DEF IInv, TypeInv, CallTypes
<1>9. Goto(h, "lock") /\ opc'[h] = "lock" BY <1>1, <1>3 DEF Goto
<1>10. ~Section(h)' BY <1>9 DEF Section
<1>11. "lock" \in Labels \ {"join", "close"} BY DEF Labels
<1>12. fate' \in [Submits -> Fates] /\ voided' \subseteq Submits
       /\ \A g \in Submits : fate'[g] = "lost" => fate[g] = "lost"
  BY <1>1 DEF IInv, TypeInv, TurnTypes, histVars
<1>13. \A p \in Ops : p # h => opr'[p] = opr[p] BY <1>1, <1>3
<1> QED BY <1>1, <1>2, <1>7, <1>8, <1>9, <1>10, <1>11, <1>12, <1>13, CallMoves DEF drainVars

(* Look-ups, waits and ends of calls, which touch no record.               *)
LEMMA OtherSteps ==
  ASSUME IInv,
         \/ \E s \in Stops : StopLookup(s) \/ StopNothing(s) \/ StopInterrupt(s) \/ StopDone(s)
         \/ \E x \in Resets : ResetLookup(x) \/ ResetDeny(x) \/ ResetTail(x)
         \/ \E e \in Evicts : EvictLookup(e) \/ EvictSkip(e)
         \/ \E o \in Rotates : RotateDb(o) \/ RotateLookup(o)
  PROVE  IInv'
<1> USE OpsDisjoint DEF At
<1>0. /\ opc \in [Ops -> Labels] /\ snap \in [Submits -> Submits \cup {None}]
      /\ resume \in Submits \cup {None} /\ fate \in [Submits -> Fates]
      /\ current # 0 => current \in Recs
  BY DEF IInv, TypeInv, RecordTypes, CallTypes, TurnTypes
<1>1. ASSUME NEW o \in Ops, NEW l \in {"read", "done", "tail"}, Goto(o, l),
             opc[o] \in {"start", "read", "tail"}, opc[o] = "tail" => l = "done",
             UNCHANGED <<recordVars, queue, worker, session, opr, snap, closing, workerVars, live,
                         drainVars, histVars>>,
             resume' \in {resume, None}
      PROVE  IInv'
  <2>1. l \in Labels \ {"lock", "join", "close"} BY DEF Labels
  <2>2. ~Section(o)' /\ ~Resetting(o)' BY <1>0, <1>1 DEF Goto, Section, Resetting
  <2> QED BY <2>1, <2>2, <1>0, <1>1, QuietCall
<1>2. ASSUME NEW o \in Ops, opc[o] \in {"start", "read"}, current # 0, AskLock(o, current),
             UNCHANGED <<current, nrec, queue, worker, session, snap, closing, workerVars, live,
                         resume, drainVars, histVars>>
      PROVE  IInv'
  <2>1. ~Section(o) /\ opc[o] \notin {"tail", "done"} BY <1>2 DEF Section
  <2> QED BY <2>1, <1>0, <1>2, CallAsks
<1>3. ASSUME NEW o \in Ops, Holds(o), opc[o] \in {"lock", "deny", "interrupt"}, Unlock(o), Goto(o, "done"),
             UNCHANGED <<current, nrec, queue, worker, session, opr, snap, closing, workerVars, live,
                         resume, drainVars, histVars>>
      PROVE  IInv'
  BY <1>0, <1>3, CallLeaves DEF histVars
<1>4. ASSUME NEW s \in Stops, StopLookup(s) PROVE IInv'
  BY <1>4, <1>1, <1>2, SMT DEF StopLookup, Lookup, recordVars, histVars
<1>5. ASSUME NEW x \in Resets, ResetLookup(x) PROVE IInv'
  BY <1>5, <1>1, <1>2, SMT DEF ResetLookup, Lookup, recordVars, histVars
<1>6. ASSUME NEW e \in Evicts, EvictLookup(e) PROVE IInv'
  BY <1>6, <1>1, <1>2, SMT DEF EvictLookup, Lookup, recordVars, histVars
<1>7. ASSUME NEW o \in Rotates, RotateLookup(o) PROVE IInv'
  BY <1>7, <1>1, <1>2, SMT DEF RotateLookup, recordVars, histVars
<1>8. ASSUME NEW o \in Rotates, RotateDb(o) PROVE IInv' BY <1>8, <1>1 DEF RotateDb
<1>9. ASSUME NEW x \in Resets, ResetTail(x) PROVE IInv' BY <1>9, <1>1 DEF ResetTail
<1>10. ASSUME NEW s \in Stops, StopNothing(s) \/ StopDone(s) PROVE IInv'
  <2>1. Holds(s) BY <1>10 DEF StopNothing, StopDone, IInv, LockInv, Section
  <2> QED BY <2>1, <1>10, <1>3, SMT DEF StopNothing, StopDone
<1>11. ASSUME NEW e \in Evicts, EvictSkip(e) PROVE IInv' BY <1>11, <1>3 DEF EvictSkip, LeaveLock
<1>12. ASSUME NEW s \in Stops, StopInterrupt(s) PROVE IInv'
  <2>1. opc[s] = "deny" /\ Holds(s) BY <1>12 DEF StopInterrupt, IInv, LockInv, Section
  <2>2. CASE session[opr[s]] = None BY <2>1, <2>2, <1>12, <1>3 DEF StopInterrupt
  <2>3. CASE session[opr[s]] # None
    <3>1. /\ Goto(s, "interrupt")
          /\ UNCHANGED <<recordVars, queue, worker, session, opr, snap, closing, workerVars, live,
                         resume, drainVars, histVars>>
      BY <2>3, <1>12 DEF StopInterrupt, recordVars
    <3>2. "interrupt" \in Labels \ {"lock", "join", "close"} BY DEF Labels
    <3> QED BY <2>1, <3>1, <3>2, <1>0, QuietCall
  <2> QED BY <2>2, <2>3
<1>13. ASSUME NEW x \in Resets, ResetDeny(x) PROVE IInv'
  <2>1. /\ opc[x] = "lock" /\ Holds(x) /\ Goto(x, "deny")
        /\ UNCHANGED <<recordVars, queue, worker, session, opr, snap, closing, workerVars, live,
                       resume, drainVars, histVars>>
    BY <1>13 DEF ResetDeny
  <2>2. Here(opr[x]) BY <2>1 DEF IInv, RecordInv, Resetting
  <2>3. "deny" \in Labels \ {"lock", "join", "close"} BY DEF Labels
  <2> QED BY <2>1, <2>2, <2>3, <1>0, QuietCall
<1> QED BY <1>4, <1>5, <1>6, <1>7, <1>8, <1>9, <1>10, <1>11, <1>12, <1>13

-----------------------------------------------------------------------------
(* Clients that are taken, closed and built                                *)

(* Two calls that work on one record with its lock are one.                *)
LEMMA OneHolder ==
  ASSUME IInv
  PROVE  \A o, p \in Ops : Section(o) /\ Section(p) /\ opr[o] = opr[p] => o = p
BY DEF IInv, LockInv, Holds

(* A record with a client is the one in the table, and nobody closes one.  *)
LEMMA HasClient ==
  ASSUME IInv, NEW o \in Ops, Holds(o), session[opr[o]] # None
  PROVE  opr[o] \in Recs /\ Here(opr[o]) /\ \A p \in Ops : ~At(p, "close")
<1>1. opr[o] \in Recs BY DEF Holds, IInv, TypeInv, CallTypes
<1>2. Here(opr[o]) BY <1>1, RecsType DEF IInv, RecordInv, Here
<1> QED BY <1>1, <1>2 DEF IInv, RecordInv, Here

(* The client leaves the record for the call that will close it.           *)
LEMMA DropsIInv ==
  ASSUME IInv, NEW o \in Ops, o \notin Resets, opc[o] \in {"lock", "build"}, Holds(o),
         session[opr[o]] # None, Busy(opr[o]) => Rotates # {}, DropClient(o)
  PROVE  IInv'
<1> USE OpsDisjoint DEF recordVars, workerVars, drainVars, histVars
<1> DEFINE r == opr[o]
<1>0. r \in Recs /\ Here(r) /\ \A p \in Ops : ~At(p, "close") BY HasClient
<1>1. /\ opc \in [Ops -> Labels] /\ closing \in [Ops -> Submits \cup {None}]
      /\ session \in [Recs -> Submits \cup {None}]
  BY DEF IInv, TypeInv, RecordTypes, CallTypes
<1>2. /\ \A p \in Ops : opc'[p] = IF p = o THEN "close" ELSE opc[p]
      /\ \A p \in Ops : closing'[p] = IF p = o THEN session[r] ELSE closing[p]
      /\ \A u \in Recs : session'[u] = IF u = r THEN None ELSE session[u]
      /\ UNCHANGED <<current, nrec, lockq, queue, worker, opr, snap, wpc, wrec, witem, wcli, cancelled,
                     live, resume, draining, drained, fate, voided>>
  BY <1>1 DEF DropClient, Goto
<1>3. TypeInv'
  <2>1. /\ opc' \in [Ops -> Labels] /\ closing' \in [Ops -> Submits \cup {None}]
        /\ session' \in [Recs -> Submits \cup {None}]
    BY <1>0, <1>1 DEF DropClient, Goto, Labels
  <2> QED BY <2>1, <1>2 DEF IInv, TypeInv, RecordTypes, CallTypes, TurnTypes
<1>4. LockInv' BY <1>2 DEF IInv, LockInv, Section, Holds
<1>5. CountInv'
  <2>1. Ended' = Ended BY <1>2 DEF Ended
  <2> QED BY <2>1, <1>2 DEF IInv, CountInv
<1>6. RecordInv'
  <2>1. \A h \in Submits : Section(h)' => opr[h] = current /\ current # 0
    BY <1>0, <1>2 DEF IInv, RecordInv, Section, Here
  <2>2. \A x \in Resets : Resetting(x)' => opr[x] = current /\ current # 0
    BY <1>2 DEF IInv, RecordInv, Resetting, Here
  <2>3. \A p \in Ops : At(p, "close")' => opr[p] = current /\ current # 0 /\ session'[opr[p]] = None
    BY <1>0, <1>2 DEF At, Here
  <2>4. \A u \in Recs : u # current => queue'[u] = <<>> /\ session'[u] = None /\ worker'[u] = None
    BY <1>2 DEF IInv, RecordInv
  <2> QED BY <2>1, <2>2, <2>3, <2>4, <1>2 DEF RecordInv, Here
<1>7. WorkerInv'
  <2>1. \A x \in Ops : x # o => (At(x, "join")' <=> At(x, "join")) BY <1>2 DEF At
  <2>2. \A w \in Submits : wpc[w] # "none" => At(w, "done")' BY <1>2 DEF IInv, WorkerInv, At
  <2>3. \A x \in Resets : ~At(x, "close")' BY <1>0, <1>2 DEF At
  <2> QED BY <2>1, <2>2, <2>3, <1>2 DEF IInv, WorkerInv, Lives, Here
<1>8. QueueInv' BY <1>2 DEF IInv, QueueInv, Busy
<1>9. ClientInv'
  <2>0. live \subseteq Submits BY DEF IInv, TypeInv, TurnTypes
  <2>1. \A c \in live : session[current] = c BY <2>0, <1>0 DEF IInv, ClientInv
  <2>2. \A c \in live : closing'[o] = c BY <2>1, <1>0, <1>2 DEF Here
  <2>3. \A p \in Ops : closing'[p] # None => At(p, "close")' BY <1>2 DEF IInv, ClientInv, At
  <2> QED BY <2>2, <2>3, <1>2 DEF ClientInv
<1>10. ServedInv'
  <2>1. Rotates = {} => \A w \in Submits : ~Lives(w)
    BY <1>0 DEF IInv, WorkerInv, Lives, Here, Busy
  <2> QED BY <2>1, <1>2 DEF IInv, ServedInv, Lives
<1> QED BY <1>3, <1>4, <1>5, <1>6, <1>7, <1>8, <1>9, <1>10 DEF IInv

(* A rebuild, an eviction and a rotation take the client off the record.   *)
LEMMA DropSteps ==
  ASSUME IInv,
         \/ \E h \in Submits : SubmitRebuild(h)
         \/ \E e \in Evicts : EvictDrop(e)
         \/ \E o \in Rotates : RotateLocked(o)
  PROVE  IInv'
<1> USE OpsDisjoint DEF At
<1>1. ASSUME NEW h \in Submits, SubmitRebuild(h) PROVE IInv'
  <2>1. opc[h] = "build" /\ session[opr[h]] # None /\ ~Busy(opr[h]) /\ DropClient(h)
    BY <1>1 DEF SubmitRebuild, DropClient
  <2>2. Holds(h) BY <2>1 DEF IInv, LockInv, Section
  <2> QED BY <2>1, <2>2, DropsIInv
<1>2. ASSUME NEW e \in Evicts, EvictDrop(e) PROVE IInv' BY <1>2, DropsIInv DEF EvictDrop
<1>3. ASSUME NEW o \in Rotates, RotateLocked(o) PROVE IInv'
  <2>1. opc[o] = "lock" /\ Holds(o) BY <1>3 DEF RotateLocked
  <2>2. CASE session[opr[o]] = None
    <3>1. /\ Unlock(o) /\ Goto(o, "done")
          /\ UNCHANGED <<current, nrec, queue, worker, session, opr, snap, closing, workerVars, live,
                         resume, drainVars, histVars>>
      BY <2>2, <1>3 DEF RotateLocked, LeaveLock
    <3>2. fate' \in [Submits -> Fates] /\ fate' = fate BY <3>1 DEF IInv, TypeInv, TurnTypes, histVars
    <3> QED BY <2>1, <3>1, <3>2, CallLeaves DEF histVars
  <2>3. CASE session[opr[o]] # None
    <3>1. DropClient(o) BY <2>3, <1>3 DEF RotateLocked
    <3> QED BY <2>1, <2>3, <3>1, DropsIInv
  <2> QED BY <2>2, <2>3
<1> QED BY <1>1, <1>2, <1>3

(* A prompt is queued, with a client to run on and a worker to take it.    *)
LEMMA EnqueuesIInv ==
  ASSUME IInv, NEW h \in Submits, opc[h] \in {"build", "close"}, Enqueue(h), Goto(h, "done"),
         closing' = [closing EXCEPT ![h] = None],
         \/ session[opr[h]] # None /\ UNCHANGED <<session, live>>
         \/ /\ session[opr[h]] = None
            /\ session' = [session EXCEPT ![opr[h]] = h] /\ live' = (live \ {closing[h]}) \cup {h}
  PROVE  IInv'
<1> USE OpsDisjoint
<1> DEFINE r == opr[h]
<1>0. Section(h) /\ Holds(h) /\ r \in Recs /\ Here(r)
  BY DEF Section, IInv, LockInv, RecordInv, TypeInv, CallTypes, Holds
<1>1. /\ opc \in [Ops -> Labels] /\ closing \in [Ops -> Submits \cup {None}]
      /\ session \in [Recs -> Submits \cup {None}] /\ worker \in [Recs -> Submits \cup {None}]
      /\ queue \in [Recs -> Seq(Submits)] /\ wpc \in [Submits -> Places] /\ fate \in [Submits -> Fates]
      /\ live \subseteq Submits
  BY DEF IInv, TypeInv, RecordTypes, CallTypes, TurnTypes
<1>2. /\ \A p \in Ops : opc'[p] = IF p = h THEN "done" ELSE opc[p]
      /\ \A p \in Ops : closing'[p] = IF p = h THEN None ELSE closing[p]
      /\ \A u \in Recs : u # r => session'[u] = session[u]
      /\ session'[r] \in Submits
      /\ UNCHANGED <<current, nrec, opr, snap, wrec, witem, wcli, cancelled, resume, draining,
                     drained, voided>>
  BY <1>0, <1>1 DEF Goto, Enqueue, drainVars
<1>3. /\ \A u \in Recs : queue'[u] = IF u = r THEN Append(queue[r], h) ELSE queue[u]
      /\ \A g \in Submits : fate'[g] = IF g = h THEN "queued" ELSE fate[g]
  BY <1>0, <1>1 DEF Enqueue
<1>4. wpc[h] = "none" /\ h \notin cancelled BY DEF IInv, WorkerInv, At
<1>5. \/ Busy(r) /\ UNCHANGED <<worker, wpc>>
      \/ /\ ~Busy(r) /\ worker' = [worker EXCEPT ![r] = h] /\ wpc' = [wpc EXCEPT ![h] = "start"]
  BY DEF Enqueue
<1>6. /\ \A p \in Ops : p # h => opc[p] # "close"
      /\ \A x \in Resets : opc[x] \notin {"join", "close"}
  BY <1>0, OneHolder DEF IInv, RecordInv, Section, Here, Resetting, At
<1>7. TypeInv'
  <2>1. opc' \in [Ops -> Labels] /\ closing' \in [Ops -> Submits \cup {None}]
        /\ session' \in [Recs -> Submits \cup {None}]
    BY <1>1 DEF Goto, Labels
  <2>2. queue' \in [Recs -> Seq(Submits)] /\ lockq' \in [Recs -> Seq(Ops)] /\ fate' \in [Submits -> Fates]
    <3>1. lockq' \in [Recs -> Seq(Ops)] BY <1>0, UnlockKeeps DEF Enqueue
    <3>2. Append(queue[r], h) \in Seq(Submits) BY <1>0, <1>1
    <3>3. queue' \in [Recs -> Seq(Submits)] BY <3>2, <1>1 DEF Enqueue
    <3> QED BY <3>1, <3>3, <1>1 DEF Enqueue, Fates
  <2>3. worker' \in [Recs -> Submits \cup {None}] /\ wpc' \in [Submits -> Places]
    <3>1. CASE UNCHANGED <<worker, wpc>> BY <3>1, <1>1
    <3>2. CASE worker' = [worker EXCEPT ![r] = h] /\ wpc' = [wpc EXCEPT ![h] = "start"]
      <4>1. worker' \in [Recs -> Submits \cup {None}] BY <3>2, <1>1
      <4>2. "start" \in Places BY DEF Places
      <4>3. wpc' \in [Submits -> Places] BY <3>2, <4>2, <1>1
      <4> QED BY <4>1, <4>3
    <3> QED BY <3>1, <3>2, <1>5
  <2>4. \A w \in Submits : wpc'[w] = "running" => wpc[w] = "running" BY <1>1, <1>5
  <2>5. live' \subseteq Submits BY <1>1
  <2> QED BY <2>1, <2>2, <2>3, <2>4, <2>5, <1>2 DEF IInv, TypeInv, RecordTypes, CallTypes, TurnTypes
<1>8. LockInv'
  <2>1. \A p \in Ops : Section(p)' => p # h /\ Section(p) BY <1>2 DEF Section
  <2>2. \A p \in Ops : p # h /\ Section(p) =>
          opr[p] # 0 /\ lockq'[opr[p]] # <<>> /\ Head(lockq'[opr[p]]) = p
    BY <1>0, UnlockKeeps DEF Enqueue
  <2> QED BY <2>1, <2>2, <1>2 DEF LockInv, Holds
<1>9. CountInv'
  <2>1. Ended' = Ended BY <1>2 DEF Ended
  <2> QED BY <2>1, <1>2 DEF IInv, CountInv
<1>10. RecordInv'
  <2>1. \A g \in Submits : Section(g)' => opr[g] = current /\ current # 0
    BY <1>2 DEF IInv, RecordInv, Section, Here
  <2>2. \A x \in Resets : Resetting(x)' => opr[x] = current /\ current # 0
    BY <1>2 DEF IInv, RecordInv, Resetting, Here
  <2>3. \A p \in Ops : ~At(p, "close")' BY <1>2, <1>6 DEF At
  <2>4. \A u \in Recs : u # r => worker'[u] = worker[u] BY <1>1, <1>5
  <2>5. \A u \in Recs : u # current => queue'[u] = <<>> /\ session'[u] = None /\ worker'[u] = None
    BY <2>4, <1>0, <1>2, <1>3 DEF IInv, RecordInv, Here
  <2> QED BY <2>1, <2>2, <2>3, <2>5, <1>2 DEF RecordInv, Here
<1>11. WorkerInv'
  <2>1. \A w \in Submits : wpc[w] # "none" => At(w, "done")' BY <1>2 DEF IInv, WorkerInv, At
  <2>2. At(h, "done")' BY <1>2 DEF At
  <2>3. \A x \in Resets : At(x, "join")' <=> At(x, "join") BY <1>2 DEF At
  <2>4. \A x \in Resets : ~At(x, "close")' BY <1>2, <1>6 DEF At
  <2>5. CASE Busy(r) /\ UNCHANGED <<worker, wpc>>
    BY <2>1, <2>3, <2>4, <2>5, <1>2 DEF IInv, WorkerInv, Lives, Here
  <2>6. CASE ~Busy(r) /\ worker' = [worker EXCEPT ![r] = h] /\ wpc' = [wpc EXCEPT ![h] = "start"]
    <3>1. /\ \A w \in Submits : wpc'[w] = IF w = h THEN "start" ELSE wpc[w]
          /\ \A u \in Recs : worker'[u] = IF u = r THEN h ELSE worker[u]
      BY <2>6, <1>1
    <3>2. \A w \in Submits : ~Lives(w) BY <2>6, <1>0 DEF IInv, WorkerInv, Lives, Here, Busy
    <3>3. \A w \in Submits : Lives(w)' => w = h BY <3>1, <3>2 DEF Lives
    <3>4. \A u \in Recs : worker'[u] # None => wpc'[worker'[u]] # "none"
      <4>1. \A u \in Recs : u # r => worker[u] = None BY <1>0 DEF IInv, RecordInv, Here
      <4> QED BY <4>1, <3>1
    <3> QED BY <2>1, <2>2, <2>4, <3>1, <3>3, <3>4, <1>0, <1>2, <1>4 DEF IInv, WorkerInv, Lives, Here
  <2> QED BY <2>5, <2>6, <1>5
<1>12. QueueInv'
  <2>1. Busy(r)' BY <1>0, <1>1, <1>2, <1>5 DEF Busy
  <2>2. \A u \in Recs : u # r => queue'[u] = <<>> BY <1>0, <1>3 DEF IInv, RecordInv, Here
  <2>3. \A x \in Resets : opc'[x] \notin {"join", "close"} BY <1>2, <1>6
  <2> QED BY <2>1, <2>2, <2>3, <1>2 DEF QueueInv
<1>13. ClientInv'
  <2>1. \A p \in Ops : closing'[p] = None BY <1>2, <1>6 DEF IInv, ClientInv, At
  <2>2. \A c \in live' : session'[current] = c
    <3>1. CASE session[r] # None
      <4>1. \A p \in Ops : closing[p] = None
        BY <3>1, <1>0, HasClient DEF IInv, ClientInv
      <4> QED BY <4>1, <3>1, <1>1 DEF IInv, ClientInv
    <3>2. CASE session[r] = None
      <4>1. \A p \in Ops : p # h => closing[p] = None BY <1>6 DEF IInv, ClientInv, At
      <4>2. \A c \in live : closing[h] = c
        BY <4>1, <3>2, <1>0, <1>1, SMTT(30) DEF IInv, ClientInv, Here
      <4>3. live' = {h} /\ session'[r] = h BY <4>2, <3>2, <1>0, <1>1
      <4> QED BY <4>3, <1>0 DEF Here
    <3> QED BY <3>1, <3>2
  <2> QED BY <2>1, <2>2, <1>0, <1>2 DEF ClientInv, Here
<1>14. ServedInv'
  <2>1. session'[current] # None BY <1>0, <1>2 DEF Here
  <2>2. \A g \in Submits : fate'[g] = "lost" => fate[g] = "lost" BY <1>3
  <2> QED BY <2>1, <2>2, <1>2 DEF IInv, ServedInv
<1> QED BY <1>7, <1>8, <1>9, <1>10, <1>11, <1>12, <1>13, <1>14 DEF IInv

(* A new client is built and the prompt queued.                            *)
LEMMA BuildSteps ==
  ASSUME IInv, NEW h \in Submits, SubmitBuild(h) \/ SubmitRebuilt(h)
  PROVE  IInv'
<1> USE OpsDisjoint DEF At
<1>1. closing \in [Ops -> Submits \cup {None}] /\ live \subseteq Submits
  BY DEF IInv, TypeInv, CallTypes, TurnTypes
<1>2. CASE SubmitBuild(h)
  <2>1. opc[h] = "build" /\ Enqueue(h) /\ Goto(h, "done") /\ closing' = closing
    BY <1>2 DEF SubmitBuild
  <2>2. closing[h] = None BY <2>1 DEF IInv, ClientInv
  <2>3. closing' = [closing EXCEPT ![h] = None] BY <2>1, <2>2, <1>1
  <2>4. live \cup {h} = (live \ {closing[h]}) \cup {h} BY <2>2, <1>1
  <2>5. \/ session[opr[h]] # None /\ UNCHANGED <<session, live>>
        \/ /\ session[opr[h]] = None
           /\ session' = [session EXCEPT ![opr[h]] = h] /\ live' = (live \ {closing[h]}) \cup {h}
    BY <2>4, <1>2 DEF SubmitBuild
  <2> QED BY <2>1, <2>3, <2>5, EnqueuesIInv
<1>3. CASE SubmitRebuilt(h)
  <2>1. /\ opc[h] = "close" /\ Enqueue(h) /\ Goto(h, "done") /\ closing' = [closing EXCEPT ![h] = None]
        /\ session' = [session EXCEPT ![opr[h]] = h] /\ live' = (live \ {closing[h]}) \cup {h}
    BY <1>3 DEF SubmitRebuilt
  <2>2. session[opr[h]] = None BY <2>1 DEF IInv, RecordInv
  <2> QED BY <2>1, <2>2, EnqueuesIInv
<1> QED BY <1>2, <1>3

-----------------------------------------------------------------------------
(* stop and reset                                                          *)

(* The queue is emptied by the holder of the lock.                         *)
LEMMA QueueDropped ==
  ASSUME IInv, NEW o \in Stops \cup Resets, NEW l \in {"deny", "join"}, Section(o)' => Holds(o),
         o \in Resets => opc[o] = "deny",
         o \in Stops => opc[o] = "lock" /\ l = "deny",
         DropQueue(opr[o]), opr[o] \in Recs, Goto(o, l), voided' \subseteq Submits,
         \/ cancelled' = cancelled
         \/ l = "join" /\ Busy(opr[o]) /\ cancelled' = cancelled \cup {worker[opr[o]]},
         UNCHANGED <<recordVars, worker, session, opr, snap, closing, wpc, wrec, witem, wcli, live,
                     resume, drainVars>>
  PROVE  IInv'
<1> USE OpsDisjoint DEF recordVars, drainVars
<1> DEFINE r == opr[o]
<1>1. /\ opc \in [Ops -> Labels] /\ queue \in [Recs -> Seq(Submits)] /\ fate \in [Submits -> Fates]
      /\ worker \in [Recs -> Submits \cup {None}] /\ o \in Ops
  BY DEF IInv, TypeInv, RecordTypes, CallTypes, TurnTypes
<1>2. /\ \A p \in Ops : opc'[p] = IF p = o THEN l ELSE opc[p]
      /\ \A u \in Recs : queue'[u] = IF u = r THEN <<>> ELSE queue[u]
      /\ \A h \in Submits : fate'[h] = "dropped" \/ fate'[h] = fate[h]
  BY <1>1 DEF DropQueue, Goto
<1>3. TypeInv'
  <2>1. opc' \in [Ops -> Labels] BY <1>1 DEF Goto, Labels
  <2>2. queue' \in [Recs -> Seq(Submits)]
    <3>1. <<>> \in Seq(Submits) OBVIOUS
    <3> QED BY <3>1, <1>1 DEF DropQueue
  <2>3. fate' \in [Submits -> Fates] BY <1>1 DEF DropQueue, Fates
  <2>4. cancelled' \subseteq Submits
    <3>1. Busy(r) => worker[r] \in Submits BY <1>1 DEF Busy
    <3> QED BY <3>1 DEF IInv, TypeInv, TurnTypes
  <2> QED BY <2>1, <2>2, <2>3, <2>4 DEF IInv, TypeInv, RecordTypes, CallTypes, TurnTypes
<1>4. LockInv'
  <2>1. \A p \in Ops : p # o /\ Section(p)' => Section(p) BY <1>2 DEF Section
  <2> QED BY <2>1 DEF IInv, LockInv, Holds
<1>5. CountInv'
  <2>1. Ended' = Ended BY <1>2 DEF Ended
  <2> QED BY <2>1 DEF IInv, CountInv
<1>6. RecordInv'
  <2>1. \A h \in Submits : Section(h)' => Section(h) BY <1>2 DEF Section
  <2>2. \A x \in Resets : Resetting(x)' => Resetting(x) BY <1>2 DEF Resetting
  <2>3. \A p \in Ops : At(p, "close")' => At(p, "close") BY <1>2 DEF At
  <2>4. \A u \in Recs : u # current => queue'[u] = <<>> BY <1>2 DEF IInv, RecordInv
  <2> QED BY <2>1, <2>2, <2>3, <2>4 DEF IInv, RecordInv, Here
<1>7. WorkerInv'
  <2>1. \A w \in Submits : wpc[w] # "none" => At(w, "done")' BY <1>2 DEF IInv, WorkerInv, At
  <2>2. \A x \in Resets : At(x, "join") => At(x, "join")' BY <1>2 DEF At
  <2>3. \A x \in Resets : At(x, "close")' => At(x, "close") BY <1>2 DEF At
  <2>4. ASSUME NEW w \in cancelled' 
        PROVE  wpc[w] # "none" /\ (Lives(w) => \E x \in Resets : At(x, "join")')
    <3>1. CASE w \in cancelled BY <3>1, <2>2, <1>1 DEF IInv, WorkerInv, TypeInv, TurnTypes
    <3>2. CASE w \notin cancelled
      <4>1. l = "join" /\ Busy(r) /\ w = worker[r] BY <2>4, <3>2
      <4>2. wpc[w] # "none" BY <4>1, <1>1 DEF IInv, WorkerInv, Busy
      <4>3. o \in Resets /\ At(o, "join")' BY <4>1, <1>2 DEF At
      <4> QED BY <4>2, <4>3
    <3> QED BY <3>1, <3>2
  <2>5. \A w \in Submits : w \in cancelled' =>
          wpc[w] # "none" /\ (Lives(w) => \E x \in Resets : At(x, "join")')
    BY <2>4
  <2> QED BY <2>1, <2>3, <2>5 DEF IInv, WorkerInv, Lives, Here
<1>8. QueueInv'
  <2>1. \A u \in Recs : queue'[u] # <<>> => queue[u] # <<>> BY <1>2
  <2>2. \A x \in Resets : opc'[x] \in {"join", "close"} => queue'[opr[x]] = <<>>
    <3> SUFFICES ASSUME NEW x \in Resets, opc'[x] \in {"join", "close"} PROVE queue'[opr[x]] = <<>>
      OBVIOUS
    <3>1. CASE x = o BY <3>1, <1>2
    <3>2. CASE x # o
      <4>1. opc[x] \in {"join", "close"} BY <3>2, <1>2
      <4>2. opr[x] \in Recs /\ queue[opr[x]] = <<>>
        BY <4>1 DEF IInv, QueueInv, LockInv, Section, Holds, TypeInv, CallTypes
      <4> QED BY <4>2, <1>2
    <3> QED BY <3>1, <3>2
  <2> QED BY <2>1, <2>2 DEF IInv, QueueInv, Busy
<1>9. ClientInv'
  <2>1. \A p \in Ops : At(p, "close") => At(p, "close")' BY <1>2 DEF At
  <2> QED BY <2>1 DEF IInv, ClientInv
<1>10. ServedInv' BY <1>2 DEF IInv, ServedInv, Lives
<1> QED BY <1>3, <1>4, <1>5, <1>6, <1>7, <1>8, <1>9, <1>10 DEF IInv

(* A stop and a reset empty the queue; the reset cancels the worker too.   *)
LEMMA DropQueueSteps ==
  ASSUME IInv, (\E s \in Stops : StopQueue(s)) \/ \E x \in Resets : ResetCancel(x)
  PROVE  IInv'
<1> USE OpsDisjoint DEF At
<1>1. ASSUME NEW s \in Stops, StopQueue(s) PROVE IInv'
  <2>1. /\ opc[s] = "lock" /\ Holds(s) /\ DropQueue(opr[s]) /\ Goto(s, "deny") /\ cancelled' = cancelled
        /\ UNCHANGED <<recordVars, worker, session, opr, snap, closing, wpc, wrec, witem, wcli, live,
                       resume, drainVars>>
    BY <1>1 DEF StopQueue, workerVars
  <2>2. opr[s] \in Recs BY <2>1 DEF Holds, IInv, TypeInv, CallTypes
  <2>3. voided' \subseteq Submits BY <1>1 DEF StopQueue, IInv, TypeInv, TurnTypes
  <2> QED BY <2>1, <2>2, <2>3, QueueDropped
<1>2. ASSUME NEW x \in Resets, ResetCancel(x) PROVE IInv'
  <2>1. /\ opc[x] = "deny" /\ DropQueue(opr[x]) /\ Goto(x, "join")
        /\ UNCHANGED <<recordVars, worker, session, opr, snap, closing, wpc, wrec, witem, wcli, live,
                       resume, drainVars>>
    BY <1>2 DEF ResetCancel
  <2>2. \/ cancelled' = cancelled
        \/ Busy(opr[x]) /\ cancelled' = cancelled \cup {worker[opr[x]]}
    BY <1>2 DEF ResetCancel
  <2>3. Holds(x) BY <2>1 DEF IInv, LockInv, Section
  <2>4. opr[x] \in Recs BY <2>3 DEF Holds, IInv, TypeInv, CallTypes
  <2>5. voided' \subseteq Submits BY <1>2 DEF ResetCancel, IInv, TypeInv, TurnTypes
  <2> QED BY <2>1, <2>2, <2>3, <2>4, <2>5, QueueDropped
<1> QED BY <1>1, <1>2

(* The record leaves the table: nothing was left in it, and nobody else    *)
(* works on it but calls that will find it gone.                           *)
LEMMA PopsIInv ==
  ASSUME IInv, ResetsApart, NEW x \in Resets, opc[x] \in {"join", "close"}, PopRecord(x),
         \A w \in Submits : ~Lives(w), session[opr[x]] = None,
         worker' \in [Recs -> Submits \cup {None}], worker'[opr[x]] = None,
         \A r \in Recs : r # opr[x] => worker'[r] = worker[r],
         closing' = [closing EXCEPT ![x] = None], live' = live \ {closing[x]},
         UNCHANGED <<nrec, queue, session, opr, snap, workerVars, resume, drainVars, histVars>>
  PROVE  IInv'
<1> USE OpsDisjoint DEF drainVars, histVars, workerVars
<1>0. /\ Section(x) /\ Holds(x) /\ opr[x] \in Recs /\ Here(opr[x]) /\ queue[opr[x]] = <<>>
      /\ \A y \in Resets : y # x => ~Resetting(y)
  BY DEF Section, Resetting, IInv, LockInv, RecordInv, QueueInv, TypeInv, CallTypes, Holds, ResetsApart
<1>1. /\ opc \in [Ops -> Labels] /\ closing \in [Ops -> Submits \cup {None}] /\ live \subseteq Submits
  BY DEF IInv, TypeInv, CallTypes, TurnTypes
<1>2. /\ \A p \in Ops : opc'[p] = IF p = x THEN "tail" ELSE opc[p]
      /\ \A p \in Ops : closing'[p] = IF p = x THEN None ELSE closing[p]
      /\ current' = 0
  BY <1>1 DEF PopRecord, Goto
<1>3. \A p \in Ops : p # x => opc[p] # "close" /\ closing[p] = None
  <2>1. \A p \in Ops : At(p, "close") => Section(p) /\ opr[p] = opr[x]
    BY <1>0 DEF IInv, RecordInv, Here, Section, At
  <2>2. \A p \in Ops : p # x => ~At(p, "close") BY <2>1, <1>0, OneHolder
  <2> QED BY <2>2 DEF IInv, ClientInv, At
<1>4. TypeInv'
  <2>1. opc' \in [Ops -> Labels] /\ closing' \in [Ops -> Submits \cup {None}]
    BY <1>1 DEF PopRecord, Goto, Labels
  <2>2. lockq' \in [Recs -> Seq(Ops)] BY <1>0, UnlockKeeps DEF PopRecord
  <2> QED BY <2>1, <2>2, <1>2 DEF IInv, TypeInv, RecordTypes, CallTypes, TurnTypes
<1>5. LockInv'
  <2>1. \A p \in Ops : Section(p)' => p # x /\ Section(p) BY <1>2 DEF Section
  <2>2. \A p \in Ops : p # x /\ Section(p) =>
          opr[p] # 0 /\ lockq'[opr[p]] # <<>> /\ Head(lockq'[opr[p]]) = p
    BY <1>0, UnlockKeeps DEF PopRecord
  <2> QED BY <2>1, <2>2 DEF LockInv, Holds
<1>6. CountInv'
  <2>1. Ended' = Ended \cup {x} /\ x \notin Ended BY <1>2 DEF Ended
  <2>2. Cardinality(Ended') = Cardinality(Ended) + 1 BY <2>1, EndedType, FS_AddElement
  <2>3. nrec <= Cardinality(Ended) + 1 BY <1>0 DEF IInv, CountInv, Here
  <2>4. nrec' <= Cardinality(Ended') + 0
    <3>1. nrec' = nrec /\ nrec \in Nat /\ Cardinality(Ended) \in Nat
      BY EndedType DEF IInv, TypeInv, RecordTypes
    <3> QED BY <3>1, <2>2, <2>3
  <2> QED BY <2>4, <1>2 DEF CountInv
<1>7. RecordInv'
  <2>1. \A h \in Submits : ~Section(h)'
    <3> SUFFICES ASSUME NEW h \in Submits, Section(h)' PROVE FALSE OBVIOUS
    <3>1. Section(h) BY <1>2 DEF Section
    <3>2. opr[h] = opr[x] BY <3>1, <1>0 DEF IInv, RecordInv, Here
    <3> QED BY <3>1, <3>2, <1>0, OneHolder
  <2>2. \A y \in Resets : ~Resetting(y)'
    <3>1. \A y \in Resets : y # x => ~Resetting(y)' BY <1>0, <1>2 DEF Resetting
    <3>2. ~Resetting(x)' BY <1>2 DEF Resetting
    <3> QED BY <3>1, <3>2
  <2>3. \A p \in Ops : ~At(p, "close")' BY <1>2, <1>3 DEF At
  <2>4. \A r \in Recs : queue'[r] = <<>> /\ session'[r] = None /\ worker'[r] = None
    BY <1>0 DEF IInv, RecordInv, Here
  <2> QED BY <2>1, <2>2, <2>3, <2>4 DEF RecordInv
<1>8. WorkerInv'
  <2>1. \A w \in Submits : wpc[w] # "none" => At(w, "done")' BY <1>2 DEF IInv, WorkerInv, At
  <2>2. \A w \in Submits : ~Lives(w)' BY DEF Lives
  <2>3. \A r \in Recs : worker'[r] = None BY <1>0 DEF IInv, RecordInv, Here
  <2>4. \A y \in Resets : ~At(y, "close")' BY <1>2, <1>3 DEF At
  <2> QED BY <2>1, <2>2, <2>3, <2>4 DEF IInv, WorkerInv
<1>9. QueueInv'
  <2>1. \A r \in Recs : queue'[r] = <<>> BY <1>0 DEF IInv, RecordInv, Here
  <2>2. \A y \in Resets : opc'[y] \notin {"join", "close"} BY <1>0, <1>2 DEF Resetting
  <2> QED BY <2>1, <2>2 DEF QueueInv
<1>10. ClientInv'
  <2>1. \A p \in Ops : closing'[p] = None BY <1>2, <1>3
  <2>2. \A c \in live : closing[x] = c BY <1>0, <1>1, <1>3 DEF IInv, ClientInv, Here
  <2>3. live' = {} BY <2>2
  <2> QED BY <2>1, <2>3 DEF ClientInv
<1>11. ServedInv' BY DEF IInv, ServedInv, Lives
<1> QED BY <1>4, <1>5, <1>6, <1>7, <1>8, <1>9, <1>10, <1>11 DEF IInv

(* Nobody works when the record's worker does not.                         *)
LEMMA NobodyLives ==
  ASSUME IInv, current # 0, ~Busy(current)
  PROVE  \A w \in Submits : ~Lives(w)
BY OpsDisjoint DEF IInv, WorkerInv, Lives, Busy, Here

(* The reset goes on when the worker is over, and drops the record when    *)
(* the client is closed: here another reset under way would do harm.       *)
LEMMA ResetSteps ==
  ASSUME IInv, ResetsApart, NEW x \in Resets, ResetJoined(x) \/ ResetClosed(x)
  PROVE  IInv'
<1> USE OpsDisjoint DEF recordVars, drainVars, histVars
<1> DEFINE r == opr[x]
<1>0. /\ opc \in [Ops -> Labels] /\ closing \in [Ops -> Submits \cup {None}] /\ live \subseteq Submits
      /\ session \in [Recs -> Submits \cup {None}] /\ worker \in [Recs -> Submits \cup {None}]
  BY DEF IInv, TypeInv, RecordTypes, CallTypes, TurnTypes
<1>1. opc[x] \in {"join", "close"} BY DEF ResetJoined, ResetClosed, At
<1>2. Section(x) /\ Holds(x) /\ r \in Recs /\ Here(r) /\ queue[r] = <<>>
  BY <1>1 DEF Section, Resetting, IInv, LockInv, RecordInv, QueueInv, TypeInv, CallTypes, Holds
<1>3. \A w \in Submits : ~Lives(w)
  <2>1. ~Busy(r)
    <3>1. CASE ResetJoined(x) BY <3>1 DEF ResetJoined
    <3>2. CASE ResetClosed(x)
      <4>1. worker[r] = None BY <3>2 DEF ResetClosed, IInv, WorkerInv
      <4> QED BY <4>1 DEF Busy
    <3> QED BY <3>1, <3>2
  <2> QED BY <2>1, <1>2, NobodyLives DEF Here
<1>4. CASE ResetJoined(x) /\ session[r] = None
  <2>1. opc[x] = "join" /\ closing[x] = None BY <1>4 DEF ResetJoined, At, IInv, ClientInv
  <2>2. /\ worker' = [worker EXCEPT ![r] = None] /\ closing' = [closing EXCEPT ![x] = None]
        /\ session' = [session EXCEPT ![r] = None] /\ PopRecord(x)
        /\ UNCHANGED <<nrec, queue, opr, snap, workerVars, live, resume, drainVars, histVars>>
    BY <1>4 DEF ResetJoined
  <2>3. /\ worker' \in [Recs -> Submits \cup {None}] /\ worker'[r] = None
        /\ \A u \in Recs : u # r => worker'[u] = worker[u]
    BY <2>2, <1>0, <1>2
  <2>4. session' = session BY <2>2, <1>0, <1>2, <1>4
  <2>5. live' = live \ {closing[x]} BY <2>1, <2>2, <1>0
  <2> QED BY <2>1, <2>2, <2>3, <2>4, <2>5, <1>1, <1>3, <1>4, PopsIInv
<1>5. CASE ResetClosed(x)
  <2>1. session[r] = None /\ worker[r] = None
    BY <1>5 DEF ResetClosed, IInv, RecordInv, WorkerInv
  <2>2. /\ live' = live \ {closing[x]} /\ closing' = [closing EXCEPT ![x] = None] /\ PopRecord(x)
        /\ UNCHANGED <<nrec, queue, worker, session, opr, snap, workerVars, resume, drainVars, histVars>>
    BY <1>5 DEF ResetClosed
  <2> QED BY <2>1, <2>2, <1>0, <1>1, <1>3, PopsIInv
<1>6. CASE ResetJoined(x) /\ session[r] # None
  <2>1. /\ \A p \in Ops : opc'[p] = IF p = x THEN "close" ELSE opc[p]
        /\ \A p \in Ops : closing'[p] = IF p = x THEN session[r] ELSE closing[p]
        /\ \A u \in Recs : session'[u] = IF u = r THEN None ELSE session[u]
        /\ \A u \in Recs : worker'[u] = IF u = r THEN None ELSE worker[u]
        /\ opc[x] = "join"
        /\ UNCHANGED <<current, nrec, lockq, queue, opr, snap, workerVars, live, resume, draining,
                       drained, fate, voided>>
    BY <1>6, <1>0, <1>2 DEF ResetJoined, Goto, At
  <2>2. \A p \in Ops : ~At(p, "close") BY <1>6, <1>2, HasClient
  <2>3. TypeInv'
    <3>1. /\ opc' \in [Ops -> Labels] /\ closing' \in [Ops -> Submits \cup {None}]
          /\ session' \in [Recs -> Submits \cup {None}] /\ worker' \in [Recs -> Submits \cup {None}]
      BY <1>6, <1>0, <1>2 DEF ResetJoined, Goto, Labels
    <3> QED BY <3>1, <2>1 DEF IInv, TypeInv, RecordTypes, CallTypes, TurnTypes, workerVars
  <2>4. LockInv' BY <2>1, <1>2 DEF IInv, LockInv, Section, Holds
  <2>5. CountInv'
    <3>1. Ended' = Ended BY <2>1 DEF Ended
    <3> QED BY <3>1, <2>1 DEF IInv, CountInv
  <2>6. RecordInv'
    <3>1. \A h \in Submits : Section(h)' => Section(h) BY <2>1 DEF Section
    <3>2. \A y \in Resets : Resetting(y)' => Resetting(y) BY <2>1 DEF Resetting
    <3>3. \A p \in Ops : At(p, "close")' => p = x BY <2>1, <2>2 DEF At
    <3>4. session'[r] = None BY <2>1, <1>2
    <3>5. \A u \in Recs : u # current => queue'[u] = <<>> /\ session'[u] = None /\ worker'[u] = None
      BY <2>1 DEF IInv, RecordInv
    <3> QED BY <3>1, <3>2, <3>3, <3>4, <3>5, <2>1, <1>2 DEF IInv, RecordInv, Here
  <2>7. WorkerInv'
    <3>1. \A w \in Submits : wpc[w] # "none" => At(w, "done")' BY <2>1 DEF IInv, WorkerInv, At
    <3>2. \A w \in Submits : ~Lives(w)' BY <2>1, <1>3 DEF Lives, workerVars
    <3>3. \A u \in Recs : worker'[u] = None BY <2>1, <1>2 DEF IInv, RecordInv, Here
    <3>4. \A y \in Resets : opr[y] \in Recs \/ ~At(y, "close")'
      BY <2>1, <2>2, <1>2 DEF At
    <3> QED BY <3>1, <3>2, <3>3, <3>4, <2>1 DEF IInv, WorkerInv, workerVars
  <2>8. QueueInv'
    <3>1. \A u \in Recs : queue'[u] = <<>> BY <2>1, <1>2 DEF IInv, RecordInv, Here
    <3>2. \A y \in Resets : opc'[y] \in {"join", "close"} => opc[y] \in {"join", "close"} BY <2>1
    <3> QED BY <3>1, <3>2, <2>1 DEF IInv, QueueInv
  <2>9. ClientInv'
    <3>1. \A c \in live : session[current] = c BY <2>2, <1>0 DEF IInv, ClientInv
    <3>2. \A c \in live' : closing'[x] = c BY <3>1, <2>1, <1>2 DEF Here
    <3>3. \A p \in Ops : closing'[p] # None => At(p, "close")' BY <2>1, <2>2 DEF IInv, ClientInv, At
    <3> QED BY <3>2, <3>3 DEF ClientInv
  <2>10. ServedInv' BY <2>1, <1>3 DEF IInv, ServedInv, Lives, workerVars
  <2> QED BY <2>3, <2>4, <2>5, <2>6, <2>7, <2>8, <2>9, <2>10 DEF IInv
<1> QED BY <1>4, <1>5, <1>6

(* An evicted client is closed.                                            *)
LEMMA EvictClosedIInv ==
  ASSUME IInv, NEW e \in Evicts \cup Rotates, EvictClosed(e)
  PROVE  IInv'
<1> USE OpsDisjoint DEF drainVars, histVars
<1>0. /\ opc \in [Ops -> Labels] /\ closing \in [Ops -> Submits \cup {None}] /\ live \subseteq Submits
      /\ At(e, "close")
  BY DEF IInv, TypeInv, CallTypes, TurnTypes, EvictClosed
<1>1. Section(e) /\ Holds(e) /\ Here(opr[e]) /\ session[opr[e]] = None
  BY <1>0 DEF At, Section, IInv, LockInv, RecordInv
<1>2. /\ \A p \in Ops : opc'[p] = IF p = e THEN "done" ELSE opc[p]
      /\ \A p \in Ops : closing'[p] = IF p = e THEN None ELSE closing[p]
      /\ live' = live \ {closing[e]}
      /\ UNCHANGED <<current, nrec, queue, worker, session, opr, snap, workerVars, resume, draining,
                     drained, fate, voided>>
  BY <1>0 DEF EvictClosed, Goto
<1>3. TypeInv'
  <2>1. opc' \in [Ops -> Labels] /\ closing' \in [Ops -> Submits \cup {None}]
    BY <1>0 DEF EvictClosed, Goto, Labels
  <2>2. lockq' \in [Recs -> Seq(Ops)] BY <1>1, UnlockKeeps DEF EvictClosed
  <2> QED BY <2>1, <2>2, <1>2 DEF IInv, TypeInv, RecordTypes, CallTypes, TurnTypes, workerVars
<1>4. LockInv'
  <2>1. \A p \in Ops : Section(p)' => p # e /\ Section(p) BY <1>2 DEF Section
  <2>2. \A p \in Ops : p # e /\ Section(p) =>
          opr[p] # 0 /\ lockq'[opr[p]] # <<>> /\ Head(lockq'[opr[p]]) = p
    BY <1>1, UnlockKeeps DEF EvictClosed
  <2> QED BY <2>1, <2>2, <1>2 DEF LockInv, Holds
<1>5. CountInv'
  <2>1. Ended' = Ended BY <1>2 DEF Ended
  <2> QED BY <2>1, <1>2 DEF IInv, CountInv
<1>6. RecordInv' BY <1>2 DEF IInv, RecordInv, Section, Resetting, At, Here
<1>7. WorkerInv' BY <1>2 DEF IInv, WorkerInv, At, Lives, Here, workerVars
<1>8. QueueInv' BY <1>2 DEF IInv, QueueInv, Busy, workerVars
<1>9. ClientInv'
  <2>1. \A c \in live : \E p \in Ops : closing[p] = c BY <1>0, <1>1 DEF IInv, ClientInv, Here
  <2>2. \A c \in live' : \E p \in Ops : p # e /\ closing[p] = c BY <2>1, <1>2
  <2>3. \A p \in Ops : closing'[p] # None => At(p, "close")' BY <1>2 DEF IInv, ClientInv, At
  <2> QED BY <2>2, <2>3, <1>2 DEF ClientInv
<1>10. ServedInv' BY <1>2 DEF IInv, ServedInv, Lives, workerVars
<1> QED BY <1>3, <1>4, <1>5, <1>6, <1>7, <1>8, <1>9, <1>10 DEF IInv

-----------------------------------------------------------------------------
(* The worker                                                              *)

(* The task of the worker, and the record it works on.                     *)
LEMMA WorkerHere ==
  ASSUME IInv, NEW w \in Submits, Lives(w)
  PROVE  /\ current \in Recs /\ worker[current] = w /\ Busy(current)
         /\ wpc[w] # "start" => wrec[w] = current
         /\ \A v \in Submits : Lives(v) => v = w
BY OpsDisjoint DEF IInv, WorkerInv, Lives, Here, Busy, TypeInv, RecordTypes

(* A step of a turn: the worker goes on with the prompt in hand.           *)
LEMMA WorkerMoves ==
  ASSUME IInv, NEW w \in Submits, wpc[w] \in {"prepare", "running", "notice"},
         NEW l \in {"running", "notice", "unwind", "outbox"}, wpc' = [wpc EXCEPT ![w] = l],
         wcli' \in [Submits -> Submits \cup {None}], l = "running" => wcli'[w] # None,
         \A v \in Submits : v # w => wcli'[v] = wcli[v],
         resume' \in Submits \cup {None}, drained' \in {"no", "waiting", "yes", "timeout"},
         fate' \in [Submits -> Fates],
         Rotates = {} => \A h \in Submits : fate'[h] = "lost" => fate[h] = "lost",
         UNCHANGED <<recordVars, queue, worker, session, opVars, wrec, witem, cancelled, live,
                     draining, voided>>
  PROVE  IInv'
<1> USE DEF recordVars, opVars
<1>1. \A v \in Submits : wpc'[v] = IF v = w THEN l ELSE wpc[v] BY DEF IInv, TypeInv, TurnTypes
<1>2. \A v \in Submits : (Lives(v)' <=> Lives(v)) /\ (wpc'[v] = "none" <=> wpc[v] = "none")
                         /\ (wpc'[v] = "done" <=> wpc[v] = "done")
  BY <1>1 DEF Lives
<1>3. TypeInv'
  <2>1. wpc' \in [Submits -> Places] BY DEF IInv, TypeInv, TurnTypes, Places
  <2>2. \A v \in Submits : wpc'[v] = "running" => wcli'[v] # None BY <1>1 DEF IInv, TypeInv, TurnTypes
  <2> QED BY <2>1, <2>2 DEF IInv, TypeInv, RecordTypes, CallTypes, TurnTypes
<1>4. LockInv' BY DEF IInv, LockInv, Section, Holds
<1>5. CountInv' BY DEF IInv, CountInv, Ended
<1>6. RecordInv' BY DEF IInv, RecordInv, Section, Resetting, At, Here
<1>7. WorkerInv'
  <2>1. \A v \in Submits : wpc'[v] \notin {"none", "done", "start"} => v = w \/ wpc[v] # "start"
    BY <1>1
  <2>2. \A r \in Recs : worker[r] # None => wpc'[worker[r]] # "none"
    BY <1>2 DEF IInv, WorkerInv, TypeInv, RecordTypes
  <2>3. Lives(w) /\ wpc[w] # "start" BY DEF Lives
  <2> QED BY <1>2, <2>1, <2>2, <2>3 DEF IInv, WorkerInv, At, Here, Lives
<1>8. QueueInv'
  <2>1. \A r \in Recs : Busy(r)' <=> Busy(r) BY <1>2 DEF Busy, IInv, TypeInv, RecordTypes
  <2> QED BY <2>1 DEF IInv, QueueInv
<1>9. ClientInv' BY DEF IInv, ClientInv, At
<1>10. ServedInv' BY <1>2 DEF IInv, ServedInv
<1> QED BY <1>3, <1>4, <1>5, <1>6, <1>7, <1>8, <1>9, <1>10 DEF IInv

(* A worker gets its slot, keeps the resume id and ends its turn.          *)
LEMMA TurnSteps ==
  ASSUME IInv, NEW w \in Submits, WorkerAdmitted(w) \/ WorkerPersist(w) \/ WorkerTurnEnds(w)
  PROVE  IInv'
<1> USE OpsDisjoint DEF opVars
<1>0. /\ wpc \in [Submits -> Places] /\ wcli \in [Submits -> Submits \cup {None}]
      /\ fate \in [Submits -> Fates] /\ witem \in [Submits -> Submits \cup {None}]
      /\ session \in [Recs -> Submits \cup {None}] /\ snap \in [Submits -> Submits \cup {None}]
      /\ resume \in Submits \cup {None} /\ drained \in {"no", "waiting", "yes", "timeout"}
  BY DEF IInv, TypeInv, RecordTypes, CallTypes, TurnTypes
<1>1. CASE WorkerAdmitted(w)
  <2> DEFINE c == session[wrec[w]]
  <2>0. /\ wpc[w] = "prepare"
        /\ UNCHANGED <<recordVars, queue, worker, session, opc, opr, snap, closing, wrec, witem,
                       cancelled, live, resume, draining, drained, voided>>
    BY <1>1 DEF WorkerAdmitted, drainVars
  <2>1. Lives(w) /\ wrec[w] = current /\ current \in Recs
    BY <2>0, WorkerHere DEF Lives
  <2>2. CASE c = None
    <3>1. wpc' = [wpc EXCEPT ![w] = "notice"] /\ fate' = [fate EXCEPT ![witem[w]] = "lost"] /\ wcli' = wcli
      BY <2>2, <1>1 DEF WorkerAdmitted
    <3>2. Rotates # {} BY <2>1, <2>2 DEF IInv, ServedInv
    <3>3. fate' \in [Submits -> Fates] BY <3>1, <1>0 DEF Fates
    <3> QED BY <2>0, <3>1, <3>2, <3>3, <1>0, WorkerMoves
  <2>3. CASE c # None
    <3>1. /\ wpc' = [wpc EXCEPT ![w] = "running"] /\ fate' = [fate EXCEPT ![witem[w]] = "running"]
          /\ wcli' = [wcli EXCEPT ![w] = c]
      BY <2>3, <1>1 DEF WorkerAdmitted
    <3>2. fate' \in [Submits -> Fates] /\ \A h \in Submits : fate'[h] = "lost" => fate[h] = "lost"
      BY <3>1, <1>0 DEF Fates
    <3>3. /\ wcli' \in [Submits -> Submits \cup {None}] /\ wcli'[w] # None
          /\ \A v \in Submits : v # w => wcli'[v] = wcli[v]
      BY <2>1, <2>3, <3>1, <1>0
    <3> QED BY <2>0, <3>1, <3>2, <3>3, <1>0, WorkerMoves
  <2> QED BY <2>2, <2>3
<1>2. CASE WorkerPersist(w)
  <2>1. /\ wpc[w] = "running" /\ resume' = Conv(wcli[w])
        /\ UNCHANGED <<recordVars, queue, worker, session, opc, opr, snap, closing, wpc, wrec, witem,
                       wcli, cancelled, live, draining, drained, fate, voided>>
    BY <1>2 DEF WorkerPersist, workerVars, drainVars, histVars
  <2>2. wcli[w] \in Submits BY <2>1, <1>0 DEF IInv, TypeInv, TurnTypes
  <2>3. resume' \in Submits \cup {None} BY <2>1, <2>2, <1>0 DEF Conv
  <2>4. wpc' = [wpc EXCEPT ![w] = "running"] BY <2>1, <1>0
  <2> QED BY <2>1, <2>2, <2>3, <2>4, <1>0, WorkerMoves
<1>3. CASE WorkerTurnEnds(w)
  <2>1. /\ wpc[w] \in {"running", "notice"} /\ wpc' = [wpc EXCEPT ![w] = "outbox"]
        /\ wcli' = [wcli EXCEPT ![w] = None]
        /\ drained' \in {drained, "yes"}
        /\ UNCHANGED <<recordVars, queue, worker, session, opc, opr, snap, closing, wrec, witem,
                       cancelled, live, resume, draining, voided>>
    BY <1>3 DEF WorkerTurnEnds, EndTurn
  <2>2. fate' \in [Submits -> Fates] /\ \A h \in Submits : fate'[h] = "lost" => fate[h] = "lost"
    BY <1>3, <1>0 DEF WorkerTurnEnds, Fates
  <2>3. /\ wcli' \in [Submits -> Submits \cup {None}]
        /\ \A v \in Submits : v # w => wcli'[v] = wcli[v]
    BY <2>1, <1>0
  <2> QED BY <2>1, <2>2, <2>3, <1>0, WorkerMoves
<1> QED BY <1>1, <1>2, <1>3

(* The worker ends: nothing is queued, nothing may be started, or a reset  *)
(* has cancelled it.                                                       *)
LEMMA WorkerGone ==
  ASSUME IInv, NEW w \in Submits, Lives(w), wpc' = [wpc EXCEPT ![w] = "done"],
         draining \/ queue[current] = <<>>,
         worker' = worker \/ worker' = [worker EXCEPT ![current] = None],
         wrec' \in [Submits -> Recs \cup {0}],
         \A v \in Submits : v # w => wrec'[v] = wrec[v],
         witem' \in [Submits -> Submits \cup {None}],
         wcli' \in [Submits -> Submits \cup {None}], \A v \in Submits : v # w => wcli'[v] = wcli[v],
         drained' \in {"no", "waiting", "yes", "timeout"},
         fate' \in [Submits -> Fates], \A h \in Submits : fate'[h] = "lost" => fate[h] = "lost",
         UNCHANGED <<recordVars, queue, session, opVars, cancelled, live, resume, draining, voided>>
  PROVE  IInv'
<1> USE OpsDisjoint DEF recordVars, opVars
<1>0. current \in Recs /\ worker[current] = w /\ \A v \in Submits : Lives(v) => v = w
  BY WorkerHere
<1>1. /\ \A v \in Submits : wpc'[v] = IF v = w THEN "done" ELSE wpc[v]
      /\ worker' \in [Recs -> Submits \cup {None}]
      /\ \A r \in Recs : worker'[r] \in {worker[r], None}
  BY <1>0 DEF IInv, TypeInv, RecordTypes, TurnTypes
<1>2. \A v \in Submits : ~Lives(v)' BY <1>0, <1>1 DEF Lives
<1>3. TypeInv'
  <2>1. wpc' \in [Submits -> Places] BY DEF IInv, TypeInv, TurnTypes, Places
  <2>2. \A v \in Submits : wpc'[v] = "running" => wcli'[v] # None BY <1>1 DEF IInv, TypeInv, TurnTypes
  <2> QED BY <2>1, <2>2, <1>1 DEF IInv, TypeInv, RecordTypes, CallTypes, TurnTypes
<1>4. LockInv' BY DEF IInv, LockInv, Section, Holds
<1>5. CountInv' BY DEF IInv, CountInv, Ended
<1>6. RecordInv' BY <1>1 DEF IInv, RecordInv, Section, Resetting, At, Here
<1>7. WorkerInv'
  <2>1. \A v \in Submits : wpc'[v] # "none" => wpc[v] # "none" BY <1>1 DEF Lives
  <2>2. \A v \in Submits : wpc[v] # "none" => wpc'[v] # "none" BY <1>1
  <2>3. \A r \in Recs : worker'[r] # None => worker'[r] = worker[r] /\ worker[r] \in Submits
    BY <1>1
  <2>4. \A r \in Recs : worker'[r] # None => wpc'[worker'[r]] # "none"
    BY <2>2, <2>3 DEF IInv, WorkerInv
  <2>5. \A x \in Resets : At(x, "close")' => worker'[opr'[x]] = None
    <3>1. \A x \in Resets : At(x, "close") => opr[x] \in Recs /\ worker[opr[x]] = None
      BY <1>0 DEF IInv, WorkerInv, RecordInv, Here
    <3> QED BY <3>1, <1>1 DEF At
  <2> QED BY <1>2, <2>1, <2>2, <2>4, <2>5 DEF IInv, WorkerInv, At
<1>8. QueueInv'
  <2>1. \A r \in Recs : queue[r] # <<>> => r = current BY DEF IInv, RecordInv
  <2> QED BY <2>1 DEF IInv, QueueInv
<1>9. ClientInv' BY DEF IInv, ClientInv, At
<1>10. ServedInv' BY <1>2 DEF IInv, ServedInv
<1> QED BY <1>3, <1>4, <1>5, <1>6, <1>7, <1>8, <1>9, <1>10 DEF IInv

(* The top of the loop, for a new worker and for one that ended a turn.    *)
LEMMA TakeNextIInv ==
  ASSUME IInv, NEW w \in Submits, wpc[w] \in {"start", "outbox"}, w \notin cancelled,
         TakeNext(w, current), wrec' = [wrec EXCEPT ![w] = current],
         UNCHANGED <<recordVars, session, opVars, wcli, cancelled, live, resume, drainVars, voided>>
  PROVE  IInv'
<1> USE OpsDisjoint DEF recordVars, opVars, drainVars
<1>0. Lives(w) BY DEF Lives
<1>1. /\ current \in Recs /\ worker[current] = w /\ \A v \in Submits : Lives(v) => v = w
  BY <1>0, WorkerHere
<1>2. /\ wpc \in [Submits -> Places] /\ wrec \in [Submits -> Recs \cup {0}]
      /\ fate \in [Submits -> Fates] /\ witem \in [Submits -> Submits \cup {None}]
      /\ worker \in [Recs -> Submits \cup {None}] /\ queue \in [Recs -> Seq(Submits)]
      /\ wcli \in [Submits -> Submits \cup {None}] /\ drained \in {"no", "waiting", "yes", "timeout"}
  BY DEF IInv, TypeInv, RecordTypes, TurnTypes
<1>3. wrec' \in [Submits -> Recs \cup {0}] /\ \A v \in Submits : wrec'[v] = IF v = w THEN current ELSE wrec[v]
  BY <1>1, <1>2
<1>4. CASE draining \/ queue[current] = <<>>
  <2>1. /\ wpc' = [wpc EXCEPT ![w] = "done"] /\ worker' = [worker EXCEPT ![current] = None]
        /\ witem' = [witem EXCEPT ![w] = None] /\ UNCHANGED <<queue, fate>>
    BY <1>1, <1>2, <1>4 DEF TakeNext
  <2>2. witem' \in [Submits -> Submits \cup {None}] BY <2>1, <1>2
  <2> QED BY <1>0, <1>2, <1>3, <1>4, <2>1, <2>2, WorkerGone
<1>5. CASE ~(draining \/ queue[current] = <<>>)
  <2>0. Head(queue[current]) \in Submits /\ Tail(queue[current]) \in Seq(Submits) BY <1>1, <1>2, <1>5
  <2>1. /\ wpc' = [wpc EXCEPT ![w] = "prepare"] /\ worker' = worker
        /\ witem' = [witem EXCEPT ![w] = Head(queue[current])]
        /\ queue' = [queue EXCEPT ![current] = Tail(@)]
        /\ fate' = [fate EXCEPT ![Head(queue[current])] = "taken"]
    BY <1>5 DEF TakeNext
  <2>2. /\ \A v \in Submits : wpc'[v] = IF v = w THEN "prepare" ELSE wpc[v]
        /\ \A r \in Recs : queue'[r] = IF r = current THEN Tail(queue[current]) ELSE queue[r]
        /\ \A h \in Submits : fate'[h] = "taken" \/ fate'[h] = fate[h]
    BY <2>1, <1>2
  <2>3. \A v \in Submits : (Lives(v)' <=> Lives(v)) /\ (wpc'[v] = "none" <=> wpc[v] = "none")
                           /\ (wpc'[v] = "done" <=> wpc[v] = "done")
    BY <2>2 DEF Lives
  <2>4. TypeInv'
    <3>1. /\ wpc' \in [Submits -> Places] /\ witem' \in [Submits -> Submits \cup {None}]
          /\ queue' \in [Recs -> Seq(Submits)] /\ fate' \in [Submits -> Fates]
      BY <2>0, <2>1, <1>2 DEF Places, Fates
    <3>2. \A v \in Submits : wpc'[v] = "running" => wcli'[v] # None BY <2>2 DEF IInv, TypeInv, TurnTypes
    <3> QED BY <3>1, <3>2, <2>1, <1>3 DEF IInv, TypeInv, RecordTypes, CallTypes, TurnTypes
  <2>5. LockInv' BY DEF IInv, LockInv, Section, Holds
  <2>6. CountInv' BY DEF IInv, CountInv, Ended
  <2>7. RecordInv' BY <2>1, <2>2 DEF IInv, RecordInv, Section, Resetting, At, Here
  <2>8. WorkerInv'
    <3>1. \A r \in Recs : worker[r] # None => wpc'[worker[r]] # "none"
      BY <2>3, <1>2 DEF IInv, WorkerInv
    <3>2. \A v \in Submits : Lives(v)' => v = w /\ wrec'[v] = current BY <2>3, <1>1, <1>3
    <3> QED BY <3>1, <3>2, <2>1, <2>3, <1>0, <1>1 DEF IInv, WorkerInv, At, Here
  <2>9. QueueInv'
    <3>1. \A r \in Recs : queue'[r] # <<>> => r = current BY <2>2 DEF IInv, RecordInv
    <3>2. Busy(current)' BY <2>1, <2>2, <1>1 DEF Busy
    <3>3. \A x \in Resets : opc[x] \in {"join", "close"} => opr[x] = current
      BY DEF IInv, RecordInv, Resetting, Here
    <3>4. \A x \in Resets : opc[x] \notin {"join", "close"} BY <3>3, <1>5 DEF IInv, QueueInv
    <3> QED BY <3>1, <3>2, <3>4 DEF QueueInv
  <2>10. ClientInv' BY DEF IInv, ClientInv, At
  <2>11. ServedInv' BY <2>2, <2>3 DEF IInv, ServedInv
  <2> QED BY <2>4, <2>5, <2>6, <2>7, <2>8, <2>9, <2>10, <2>11 DEF IInv
<1> QED BY <1>4, <1>5

(* A worker takes the next prompt from the queue, or is over.              *)
LEMMA LoopSteps ==
  ASSUME IInv, NEW w \in Submits, WorkerStart(w) \/ WorkerLoop(w)
  PROVE  IInv'
<1> USE OpsDisjoint DEF recordVars
<1>1. wpc[w] \in {"start", "outbox"} /\ w \notin cancelled BY DEF WorkerStart, WorkerLoop
<1>2. Lives(w) BY <1>1 DEF Lives
<1>3. current \in Recs /\ current # 0 /\ (wpc[w] # "start" => wrec[w] = current)
  BY <1>2, WorkerHere, RecsType
<1>4. wrec \in [Submits -> Recs \cup {0}] BY DEF IInv, TypeInv, TurnTypes
<1>5. CASE WorkerStart(w)
  <2>1. RecordHere = current BY <1>3 DEF RecordHere
  <2>2. UNCHANGED <<current, nrec>> BY <2>1, <1>3, <1>5 DEF WorkerStart, MakeRecord
  <2>3. /\ TakeNext(w, current) /\ wrec' = [wrec EXCEPT ![w] = current]
        /\ UNCHANGED <<lockq, session, opVars, wcli, cancelled, live, resume, drainVars, voided>>
    BY <2>1, <1>5 DEF WorkerStart
  <2> QED BY <1>1, <2>2, <2>3, TakeNextIInv
<1>6. CASE WorkerLoop(w)
  <2>1. wpc[w] = "outbox" /\ wrec' = wrec /\ TakeNext(w, wrec[w])
        /\ UNCHANGED <<recordVars, session, opVars, wcli, cancelled, live, resume, drainVars, voided>>
    BY <1>6 DEF WorkerLoop
  <2>2. wrec[w] = current BY <2>1, <1>3
  <2>3. wrec' = [wrec EXCEPT ![w] = current] /\ TakeNext(w, current) BY <2>1, <2>2, <1>4
  <2> QED BY <1>1, <2>1, <2>3, TakeNextIInv
<1> QED BY <1>5, <1>6

(* The cancelled worker unwinds from whatever await it was at.             *)
LEMMA CancelStep ==
  ASSUME IInv, NEW w \in Submits, WorkerCancelled(w)
  PROVE  IInv'
<1> USE OpsDisjoint
<1>0. /\ wpc \in [Submits -> Places] /\ wrec \in [Submits -> Recs \cup {0}]
      /\ fate \in [Submits -> Fates] /\ witem \in [Submits -> Submits \cup {None}]
      /\ wcli \in [Submits -> Submits \cup {None}] /\ drained \in {"no", "waiting", "yes", "timeout"}
      /\ resume \in Submits \cup {None} /\ worker \in [Recs -> Submits \cup {None}]
  BY DEF IInv, TypeInv, RecordTypes, CallTypes, TurnTypes
<1>1. /\ w \in cancelled
      /\ UNCHANGED <<recordVars, queue, session, opVars, wrec, cancelled, live, resume, draining, voided>>
  BY DEF WorkerCancelled
<1>2. CASE wpc[w] = "running"
  <2>1. wpc' = [wpc EXCEPT ![w] = "unwind"] /\ UNCHANGED <<worker, witem, wcli, fate, drained>>
    BY <1>2 DEF WorkerCancelled
  <2> QED BY <1>0, <1>1, <1>2, <2>1, WorkerMoves
<1>3. CASE wpc[w] # "running"
  <2>1. wpc[w] \in {"start", "prepare", "notice", "unwind", "outbox"} /\ wpc' = [wpc EXCEPT ![w] = "done"]
    BY <1>3 DEF WorkerCancelled
  <2>2. Lives(w) BY <2>1 DEF Lives
  <2>3. current \in Recs /\ worker[current] = w /\ (wpc[w] # "start" => wrec[w] = current)
    BY <2>2, WorkerHere
  <2>4. queue[current] = <<>>
    <3>1. PICK x \in Resets : At(x, "join") BY <2>2, <1>1 DEF IInv, WorkerInv
    <3> QED BY <3>1 DEF At, IInv, QueueInv, RecordInv, Resetting, Here
  <2>5. CASE wpc[w] = "start"
    <3>1. UNCHANGED <<worker, witem, wcli, fate, drained>> BY <2>5 DEF WorkerCancelled
    <3> QED BY <1>0, <1>1, <2>1, <2>2, <2>4, <3>1, WorkerGone
  <2>6. CASE wpc[w] # "start"
    <3>1. /\ worker' = [worker EXCEPT ![wrec[w]] = IF @ = w THEN None ELSE @]
          /\ witem' = [witem EXCEPT ![w] = None] /\ wcli' = [wcli EXCEPT ![w] = None]
          /\ drained' \in {drained, "yes"}
      BY <2>6, <1>3 DEF WorkerCancelled, EndTurn
    <3>2. fate' = [fate EXCEPT ![witem[w]] = IF @ \in {"taken", "running"} THEN "dropped" ELSE @]
      BY <2>6, <1>3 DEF WorkerCancelled
    <3>3. fate' \in [Submits -> Fates] /\ \A h \in Submits : fate'[h] = "lost" => fate[h] = "lost"
      BY <3>2, <1>0 DEF Fates
    <3>4. worker' = [worker EXCEPT ![current] = None] BY <3>1, <2>3, <2>6, <1>0
    <3>5. /\ witem' \in [Submits -> Submits \cup {None}] /\ wcli' \in [Submits -> Submits \cup {None}]
          /\ \A v \in Submits : v # w => wcli'[v] = wcli[v]
      BY <3>1, <1>0
    <3>6. drained' \in {"no", "waiting", "yes", "timeout"} BY <3>1, <1>0
    <3> QED BY <1>0, <1>1, <2>1, <2>2, <2>4, <3>3, <3>4, <3>5, <3>6, WorkerGone
  <2> QED BY <2>5, <2>6
<1> QED BY <1>2, <1>3

-----------------------------------------------------------------------------
(* The invariant of the specification                                      *)

(* drain() only forbids new turns.                                         *)
LEMMA DrainSteps ==
  ASSUME IInv, DrainStart \/ DrainTimeout
  PROVE  IInv'
<1>1. /\ draining' \in BOOLEAN /\ (draining => draining')
      /\ drained' \in {"no", "waiting", "yes", "timeout"}
      /\ UNCHANGED <<recordVars, queue, worker, session, opVars, workerVars, live, resume, histVars>>
  BY DEF DrainStart, DrainTimeout, IInv, TypeInv, TurnTypes
<1> USE <1>1 DEF recordVars, opVars, workerVars, histVars
<1>2. TypeInv' BY DEF IInv, TypeInv, RecordTypes, CallTypes, TurnTypes
<1>3. LockInv' /\ CountInv' BY DEF IInv, LockInv, CountInv, Section, Holds, Ended
<1>4. RecordInv' BY DEF IInv, RecordInv, Section, Resetting, At, Here
<1>5. WorkerInv' BY DEF IInv, WorkerInv, At, Lives, Here
<1>6. QueueInv' BY DEF IInv, QueueInv, Busy
<1>7. ClientInv' /\ ServedInv' BY DEF IInv, ClientInv, ServedInv, At, Lives
<1> QED BY <1>2, <1>3, <1>4, <1>5, <1>6, <1>7 DEF IInv

(* The invariant holds before the first call.                              *)
LEMMA InitIInv ==
  ASSUME Init
  PROVE  IInv
<1> USE OpsDisjoint DEF Init
<1>0. /\ \A o \in Ops : opc[o] = "start" /\ closing[o] = None
      /\ \A r \in Recs : queue[r] = <<>> /\ worker[r] = None /\ session[r] = None
      /\ \A w \in Submits : wpc[w] = "none" /\ fate[w] = "new"
  OBVIOUS
<1>1. TypeInv
  <2>1. RecordTypes
    <3>1. lockq \in [Recs -> Seq(Ops)] /\ queue \in [Recs -> Seq(Submits)] OBVIOUS
    <3> QED BY <3>1 DEF RecordTypes
  <2>2. CallTypes
    <3>1. opc \in [Ops -> Labels] BY DEF Labels
    <3> QED BY <3>1 DEF CallTypes
  <2>3. TurnTypes
    <3>1. wpc \in [Submits -> Places] /\ fate \in [Submits -> Fates] BY DEF Places, Fates
    <3> QED BY <3>1, <1>0 DEF TurnTypes
  <2> QED BY <2>1, <2>2, <2>3 DEF TypeInv
<1>2. LockInv BY <1>0 DEF LockInv, Section
<1>3. CountInv BY EndedType DEF CountInv
<1>4. RecordInv BY <1>0 DEF RecordInv, Section, Resetting, At
<1>5. WorkerInv BY <1>0 DEF WorkerInv, Lives, At
<1>6. QueueInv BY <1>0 DEF QueueInv
<1>7. ClientInv BY <1>0 DEF ClientInv
<1>8. ServedInv BY <1>0 DEF ServedInv, Lives
<1> QED BY <1>1, <1>2, <1>3, <1>4, <1>5, <1>6, <1>7, <1>8 DEF IInv

(* Every step keeps the invariant while resets come one after the other.   *)
LEMMA NextIInv ==
  ASSUME IInv, ResetsApart, [Next]_vars
  PROVE  IInv'
<1>1. CASE UNCHANGED vars
  <2> USE <1>1 DEF vars, recordVars, opVars, workerVars, drainVars, histVars
  <2>1. TypeInv' BY DEF IInv, TypeInv, RecordTypes, CallTypes, TurnTypes
  <2>2. LockInv' /\ CountInv' BY DEF IInv, LockInv, CountInv, Section, Holds, Ended
  <2>3. RecordInv' BY DEF IInv, RecordInv, Section, Resetting, At, Here
  <2>4. WorkerInv' BY DEF IInv, WorkerInv, At, Lives, Here
  <2>5. QueueInv' BY DEF IInv, QueueInv, Busy
  <2>6. ClientInv' /\ ServedInv' BY DEF IInv, ClientInv, ServedInv, At, Lives
  <2> QED BY <2>1, <2>2, <2>3, <2>4, <2>5, <2>6 DEF IInv
<1>2. ASSUME NEW h \in Submits, SubmitNext(h) PROVE IInv'
  BY <1>2, SubmitSteps, RetryStep, DropSteps, BuildSteps DEF SubmitNext
<1>3. ASSUME NEW w \in Submits, WorkerNext(w) PROVE IInv'
  BY <1>3, LoopSteps, TurnSteps, CancelStep DEF WorkerNext
<1>4. ASSUME NEW s \in Stops, StopNext(s) PROVE IInv' BY <1>4, OtherSteps, DropQueueSteps DEF StopNext
<1>5. ASSUME NEW x \in Resets, ResetNext(x) PROVE IInv'
  BY <1>5, OtherSteps, DropQueueSteps, ResetSteps DEF ResetNext
<1>6. ASSUME NEW e \in Evicts, EvictNext(e) PROVE IInv'
  BY <1>6, OtherSteps, DropSteps, EvictClosedIInv DEF EvictNext
<1>7. ASSUME NEW o \in Rotates, RotateNext(o) PROVE IInv'
  BY <1>7, OtherSteps, DropSteps, EvictClosedIInv DEF RotateNext
<1> QED BY <1>1, <1>2, <1>3, <1>4, <1>5, <1>6, <1>7, DrainSteps DEF Next

(* The record, its lock, worker, queue and client fit together.            *)
THEOREM Invariant == Spec /\ []ResetsApart => []IInv
BY InitIInv, NextIInv, PTL DEF Spec

-----------------------------------------------------------------------------
(* What it says of the bot                                                 *)

(* Every variable keeps its type, and records are made no more often than  *)
(* resets allow.                                                           *)
THEOREM TypeCorrect == Spec /\ []ResetsApart => []TypeOK
<1>1. IInv => TypeOK
  <2> SUFFICES ASSUME IInv PROVE TypeOK OBVIOUS
  <2>1. nrec <= Cardinality(Ended) + (IF current = 0 THEN 0 ELSE 1) /\ nrec \in Nat
    BY DEF IInv, TypeInv, RecordTypes, CountInv
  <2>2. nrec <= Cardinality(Resets) + 1 BY <2>1, EndedType, RecsType
  <2>3. Cardinality(Recs) = Cardinality(Resets) + 1 BY RecsType, FS_Interval DEF Recs
  <2>4. nrec \in 0 .. Cardinality(Recs) BY <2>1, <2>2, <2>3, RecsType
  <2> QED BY <2>4 DEF IInv, TypeInv, RecordTypes, CallTypes, TurnTypes, TypeOK, Labels, Places
<1> QED BY <1>1, Invariant, PTL

(* Two workers of a thread never have a prompt in hand at once.            *)
THEOREM TurnsOneByOne == Spec /\ []ResetsApart => []OneTurnAtATime
<1>1. IInv => OneTurnAtATime BY WorkerHere DEF OneTurnAtATime, Serving, Lives
<1> QED BY <1>1, Invariant, PTL

(* An open client is the only one, and the record's or about to be closed. *)
THEOREM ClientsOneByOne == Spec /\ []ResetsApart => []OneClient
<1>1. IInv => OneClient
  <2> SUFFICES ASSUME IInv PROVE OneClient OBVIOUS
  <2>1. live \subseteq Submits /\ session \in [Recs -> Submits \cup {None}] /\ current \in Recs \cup {0}
    BY DEF IInv, TypeInv, RecordTypes, TurnTypes
  <2>2. ASSUME NEW o \in Ops, closing[o] # None
        PROVE  current # 0 /\ session[current] = None /\ \A p \in Ops : closing[p] # None => p = o
    <3>1. At(o, "close") BY <2>2 DEF IInv, ClientInv
    <3>2. \A p \in Ops : closing[p] # None => Section(p) /\ opr[p] = current
      BY DEF IInv, ClientInv, RecordInv, Here, At, Section
    <3>3. \A p \in Ops : closing[p] # None => p = o BY <2>2, <3>2, OneHolder
    <3> QED BY <3>1, <3>3 DEF IInv, RecordInv, Here
  <2>3. ASSUME NEW c \in live, NEW d \in live PROVE c = d
    <3>1. c # None /\ d # None BY <2>1, OpsDisjoint
    <3>2. CASE \E o \in Ops : closing[o] # None
      <4>1. PICK o \in Ops : closing[o] # None BY <3>2
      <4>2. /\ \E p \in Ops : closing[p] = c
            /\ \E p \in Ops : closing[p] = d
        BY <4>1, <2>2, <3>1 DEF IInv, ClientInv
      <4> QED BY <4>1, <4>2, <2>2, <3>1
    <3>3. CASE \A o \in Ops : closing[o] = None BY <3>1, <3>3 DEF IInv, ClientInv
    <3> QED BY <3>2, <3>3
  <2>4. \A c \in live : live = {c} BY <2>3
  <2> QED BY <2>4 DEF OneClient, IInv, ClientInv
<1> QED BY <1>1, Invariant, PTL

(* Without a rotation, an accepted prompt has a worker, and the worker a   *)
(* client to run it on.                                                    *)
THEOREM PromptsAreKept ==
  ASSUME Rotates = {}
  PROVE  Spec /\ []ResetsApart => []PromptsKept
<1>1. IInv => PromptsKept BY DEF IInv, QueueInv, ServedInv, PromptsKept
<1> QED BY <1>1, Invariant, PTL

-----------------------------------------------------------------------------
(* The thread is a line of prompts                                         *)

(* A call that has not ended has not submitted its prompt; prompts that    *)
(* wait are queued once; one in hand was taken and is not over; and while  *)
(* a call has the lock, the room it saw in the queue is still there.       *)
FreshInv == \A h \in Submits : ~At(h, "done") => fate[h] = "new"
QueuedInv ==
  \A r \in Recs :
    /\ \A i \in DOMAIN queue[r] : fate[queue[r][i]] = "queued"
    /\ \A i, j \in DOMAIN queue[r] : queue[r][i] = queue[r][j] => i = j
HandInv ==
  \A w \in Submits :
    /\ Serving(w) => witem[w] \in Submits /\ fate[witem[w]] \in {"taken", "running", "lost"}
    /\ wpc[w] = "notice" => fate[witem[w]] = "lost"
    /\ wpc[w] = "outbox" => witem[w] \in Submits /\ fate[witem[w]] \in {"ran", "lost"}
RoomInv ==
  \A h \in Submits :
    /\ At(h, "inject") => queue[opr[h]] = <<>>
    /\ opc[h] \in {"build", "close"} => Len(queue[opr[h]]) < MaxQueued \/ draining
LineInv == FreshInv /\ QueuedInv /\ HandInv /\ RoomInv

(* A step of the line, or none.                                            *)
LineStep == [Line!Next]_(Line!vars)

(* The prompts of the line, of each kind.                                  *)
LEMMA LineFacts ==
  ASSUME IInv, LineInv
  PROVE  /\ Waiting \in Seq(Submits) /\ InHand \subseteq Submits
         /\ \A h \in Submits : fate[h] = "new" => Line!New(h)
         /\ \A w \in Submits : Serving(w) => InHand = {witem[w]} /\ Serving(w) /\ Lives(w)
         /\ (\A w \in Submits : ~Serving(w)) => InHand = {}
<1>1. Waiting \in Seq(Submits) BY DEF Waiting, IInv, TypeInv, RecordTypes
<1>2. InHand \subseteq Submits BY DEF InHand, LineInv, HandInv
<1>3. ASSUME NEW h \in Submits, fate[h] = "new" PROVE Line!New(h)
  <2>1. h \notin InHand BY <1>3 DEF InHand, LineInv, HandInv
  <2>2. h \notin Settled BY <1>3 DEF Settled
  <2>3. h \notin Line!InLine
    BY <1>3, RecsType DEF Line!InLine, Waiting, LineInv, QueuedInv, IInv, TypeInv, RecordTypes
  <2> QED BY <2>1, <2>2, <2>3 DEF Line!New
<1>4. \A w \in Submits : Serving(w) => Lives(w) BY DEF Serving, Lives
<1>5. ASSUME NEW w \in Submits, Serving(w) PROVE InHand = {witem[w]}
  <2>1. \A v \in Submits : Serving(v) => v = w BY <1>4, <1>5, WorkerHere
  <2> QED BY <2>1, <1>5 DEF InHand
<1>6. (\A w \in Submits : ~Serving(w)) => InHand = {} BY DEF InHand
<1> QED BY <1>1, <1>2, <1>3, <1>4, <1>5, <1>6

(* A step that neither queues, takes nor ends a prompt.                    *)
LEMMA QuietLine ==
  ASSUME IInv, LineInv, UNCHANGED <<queue, wpc, witem, fate, draining>>,
         \A h \in Submits : ~At(h, "done")' => ~At(h, "done"),
         RoomInv',
         \/ current' = current
         \/ current = 0 /\ current' \in Recs
         \/ current' = 0 /\ (current # 0 => queue[current] = <<>>)
  PROVE  LineInv' /\ LineStep
<1>1. Waiting' = Waiting
  <2>1. current = 0 /\ current' \in Recs => current' # current /\ queue[current'] = <<>>
    BY RecsType DEF IInv, RecordInv
  <2> QED BY <2>1 DEF Waiting
<1>2. InHand' = InHand BY DEF InHand, Serving
<1>3. Settled' = Settled BY <1>2 DEF Settled
<1>4. LineStep BY <1>1, <1>2, <1>3 DEF LineStep, Line!vars
<1>5. FreshInv' /\ QueuedInv' /\ HandInv' BY DEF LineInv, FreshInv, QueuedInv, HandInv, Serving
<1> QED BY <1>4, <1>5 DEF LineInv

(* Stops, resets, evictions and rotations on their way.                    *)
LEMMA OtherLine ==
  ASSUME IInv, LineInv,
         \/ \E s \in Stops : StopLookup(s) \/ StopNothing(s) \/ StopInterrupt(s) \/ StopDone(s)
         \/ \E x \in Resets : \/ ResetLookup(x) \/ ResetDeny(x) \/ ResetTail(x)
                              \/ ResetJoined(x) \/ ResetClosed(x)
         \/ \E e \in Evicts : EvictNext(e)
         \/ \E o \in Rotates : RotateNext(o)
         \/ DrainTimeout \/ UNCHANGED vars
  PROVE  LineInv' /\ LineStep
<1> USE OpsDisjoint
<1>0. opc \in [Ops -> Labels] /\ opr \in [Ops -> Recs \cup {0}] BY DEF IInv, TypeInv, CallTypes
<1>1. /\ UNCHANGED <<queue, wpc, witem, fate, draining>>
      /\ \A h \in Submits : opc'[h] = opc[h] /\ opr'[h] = opr[h]
  <2> USE <1>0 DEF recordVars, opVars, workerVars, drainVars, histVars, Goto, LeaveLock, DropClient
  <2>1. ASSUME NEW s \in Stops, StopLookup(s) \/ StopNothing(s) \/ StopInterrupt(s) \/ StopDone(s)
        PROVE  <1>1!:
    BY <2>1 DEF StopLookup, StopNothing, StopInterrupt, StopDone, Lookup, AskLock
  <2>2. ASSUME NEW x \in Resets, ResetLookup(x) \/ ResetDeny(x) \/ ResetTail(x)
        PROVE  <1>1!:
    BY <2>2 DEF ResetLookup, ResetDeny, ResetTail, Lookup, AskLock
  <2>3. ASSUME NEW x \in Resets, ResetJoined(x) \/ ResetClosed(x)
        PROVE  <1>1!:
    BY <2>3 DEF ResetJoined, ResetClosed, PopRecord
  <2>4. ASSUME NEW e \in Evicts, EvictNext(e) PROVE <1>1!:
    BY <2>4 DEF EvictNext, EvictLookup, EvictSkip, EvictDrop, EvictClosed, Lookup, AskLock
  <2>5. ASSUME NEW o \in Rotates, RotateNext(o) PROVE <1>1!:
    BY <2>5 DEF RotateNext, RotateDb, RotateLookup, RotateLocked, EvictClosed, AskLock
  <2>6. CASE DrainTimeout \/ UNCHANGED vars BY <2>6 DEF DrainTimeout, vars
  <2> QED BY <2>1, <2>2, <2>3, <2>4, <2>5, <2>6
<1>2. current' = current \/ (current' = 0 /\ queue[current] = <<>>)
  <2> USE DEF recordVars, LeaveLock, DropClient
  <2>1. CASE \E x \in Resets : ResetJoined(x) \/ ResetClosed(x)
    <3>1. PICK x \in Resets : ResetJoined(x) \/ ResetClosed(x) BY <2>1
    <3>2. opc[x] \in {"join", "close"} BY <3>1 DEF ResetJoined, ResetClosed, At
    <3>3. opr[x] = current /\ queue[current] = <<>>
      BY <3>2 DEF IInv, RecordInv, QueueInv, Resetting, Here
    <3>4. current' = current \/ current' = 0 BY <3>1 DEF ResetJoined, ResetClosed, PopRecord
    <3> QED BY <3>3, <3>4
  <2>2. CASE ~\E x \in Resets : ResetJoined(x) \/ ResetClosed(x)
    BY <2>2 DEF StopLookup, StopNothing, StopInterrupt, StopDone, ResetLookup, ResetDeny, ResetTail,
       EvictNext, EvictLookup, EvictSkip, EvictDrop, EvictClosed, RotateNext, RotateDb, RotateLookup,
       RotateLocked, DrainTimeout, vars
  <2> QED BY <2>1, <2>2
<1>3. RoomInv' BY <1>1 DEF LineInv, RoomInv, At
<1>4. \A h \in Submits : ~At(h, "done")' => ~At(h, "done") BY <1>1 DEF At
<1> QED BY <1>1, <1>2, <1>3, <1>4, QuietLine

(* handle_text on its way, up to the queue.                                *)
LEMMA SubmitLine ==
  ASSUME IInv, LineInv, NEW h \in Submits,
         \/ SubmitRead(h) \/ SubmitLookup(h) \/ SubmitRetry(h)
         \/ SubmitInject(h) \/ SubmitQueue(h) \/ SubmitRebuild(h)
  PROVE  LineInv' /\ LineStep
<1> USE OpsDisjoint
<1>0. opc \in [Ops -> Labels] /\ opr \in [Ops -> Recs \cup {0}] BY DEF IInv, TypeInv, CallTypes
<1>1. UNCHANGED <<queue, wpc, witem, fate, draining>>
  BY DEF SubmitRead, SubmitLookup, SubmitRetry, SubmitInject, SubmitQueue, SubmitRebuild, workerVars,
     drainVars, histVars
<1>2. /\ \A g \in Submits : g # h => opc'[g] = opc[g] /\ opr'[g] = opr[g]
      /\ opc[h] # "done"
      /\ opc'[h] \in {"inject", "build", "close"} => opr'[h] = opr[h]
  BY <1>0 DEF SubmitRead, SubmitLookup, SubmitRetry, SubmitInject, SubmitQueue, SubmitRebuild, At, Goto,
     AskLock
<1>3. current' = current \/ (current = 0 /\ current' \in Recs)
  BY RecordMade
  DEF SubmitRead, SubmitLookup, SubmitRetry, SubmitInject, SubmitQueue, SubmitRebuild, recordVars,
      MakeRecord, RecordHere
<1>4. RoomInv'
  <2>1. ASSUME NEW g \in Submits, g # h
        PROVE  /\ At(g, "inject")' => queue'[opr'[g]] = <<>>
               /\ opc'[g] \in {"build", "close"} => Len(queue'[opr'[g]]) < MaxQueued \/ draining'
    BY <2>1, <1>1, <1>2 DEF LineInv, RoomInv, At
  <2>2. opc'[h] = "inject" => queue[opr[h]] = <<>>
    BY <1>0 DEF SubmitRead, SubmitLookup, SubmitRetry, SubmitInject, SubmitQueue, SubmitRebuild, At, Goto,
       AskLock
  <2>3. ASSUME opc'[h] \in {"build", "close"}
        PROVE  Len(queue[opr[h]]) < MaxQueued \/ draining
    <3>1. SubmitQueue(h) \/ SubmitRebuild(h)
      BY <2>3, <1>0 DEF SubmitRead, SubmitLookup, SubmitRetry, SubmitInject, At, Goto, AskLock
    <3>2. CASE opc[h] = "inject"
      <4>1. queue[opr[h]] = <<>> BY <3>2 DEF LineInv, RoomInv, At
      <4> QED BY <4>1, MaxQueuedAssumption
    <3>3. CASE SubmitQueue(h) /\ opc[h] # "inject"
      <4>1. Holds(h) /\ ~(Busy(opr[h]) /\ Len(queue[opr[h]]) >= MaxQueued)
        BY <3>3 DEF SubmitQueue, At
      <4>2. opr[h] \in Recs BY <4>1, <1>0 DEF Holds
      <4>3. queue[opr[h]] \in Seq(Submits) BY <4>2 DEF IInv, TypeInv, RecordTypes
      <4>4. CASE Busy(opr[h]) BY <4>1, <4>3, <4>4, MaxQueuedAssumption
      <4>5. CASE ~Busy(opr[h])
        <5>1. queue[opr[h]] = <<>> \/ draining BY <4>2, <4>5 DEF IInv, QueueInv
        <5> QED BY <5>1, MaxQueuedAssumption
      <4> QED BY <4>4, <4>5
    <3>4. CASE SubmitRebuild(h)
      <4>1. opc[h] = "build" BY <3>4 DEF SubmitRebuild, At
      <4> QED BY <4>1 DEF LineInv, RoomInv
    <3> QED BY <3>1, <3>2, <3>3, <3>4
  <2> QED BY <2>1, <2>2, <2>3, <1>1, <1>2 DEF RoomInv, At
<1>5. \A g \in Submits : ~At(g, "done")' => ~At(g, "done") BY <1>2 DEF At
<1> QED BY <1>1, <1>3, <1>4, <1>5, QuietLine

(* A message joins the turn that runs, or is refused.                      *)
LEMMA JoinLine ==
  ASSUME IInv, LineInv, NEW h \in Submits, SubmitInjected(h) \/ SubmitRejected(h)
  PROVE  LineInv' /\ LineStep
<1> USE OpsDisjoint
<1>0. /\ opc \in [Ops -> Labels] /\ opr \in [Ops -> Recs \cup {0}] /\ fate \in [Submits -> Fates]
      /\ queue \in [Recs -> Seq(Submits)]
  BY DEF IInv, TypeInv, RecordTypes, CallTypes, TurnTypes
<1>1. /\ UNCHANGED <<current, queue, wpc, witem, draining, opr>>
      /\ \A g \in Submits : opc'[g] = IF g = h THEN "done" ELSE opc[g]
      /\ opc[h] \in {"inject", "lock"}
  BY <1>0 DEF SubmitInjected, SubmitRejected, workerVars, drainVars, Goto, At
<1>2. PICK f \in {"injected", "rejected"} : fate' = [fate EXCEPT ![h] = f]
  BY DEF SubmitInjected, SubmitRejected
<1>3. \A g \in Submits : fate'[g] = IF g = h THEN f ELSE fate[g] BY <1>0, <1>2
<1>4. fate[h] = "new" /\ Line!New(h) BY <1>1, LineFacts DEF LineInv, FreshInv, At
<1>5. Waiting' = Waiting /\ InHand' = InHand BY <1>1 DEF Waiting, InHand, Serving
<1>6. Settled' = Settled \cup {h}
  <2>1. h \notin InHand BY <1>4 DEF Line!New
  <2> QED BY <2>1, <1>3, <1>5 DEF Settled
<1>7. Waiting = <<>> \/ Len(Waiting) >= MaxQueued
  <2>1. CASE SubmitInjected(h)
    <3>1. At(h, "inject") BY <2>1 DEF SubmitInjected
    <3>2. queue[opr[h]] = <<>> BY <3>1 DEF LineInv, RoomInv
    <3>3. opr[h] = current BY <3>1 DEF IInv, RecordInv, Section, At, Here
    <3> QED BY <3>2, <3>3 DEF Waiting
  <2>2. CASE SubmitRejected(h)
    <3>1. current = opr[h] /\ opr[h] # 0 /\ Len(queue[opr[h]]) >= MaxQueued
      BY <2>2 DEF SubmitRejected, Holds
    <3> QED BY <3>1 DEF Waiting
  <2> QED BY <2>1, <2>2
<1>8. LineStep
  <2>1. Line!Join(h) \/ Line!Refuse(h)
    BY <1>1, <1>4, <1>5, <1>6, <1>7 DEF Line!Join, Line!Refuse
  <2> QED BY <2>1 DEF LineStep, Line!Next
<1>9. LineInv'
  <2>1. FreshInv' BY <1>1, <1>3 DEF LineInv, FreshInv, At
  <2>2. QueuedInv'
    <3>1. \A r \in Recs : \A i \in DOMAIN queue[r] : queue[r][i] \in Submits /\ queue[r][i] # h
      BY <1>0, <1>4 DEF LineInv, QueuedInv
    <3> QED BY <3>1, <1>1, <1>3 DEF LineInv, QueuedInv
  <2>3. HandInv'
    <3>1. \A w \in Submits : Serving(w) \/ wpc[w] = "outbox" => witem[w] \in Submits /\ witem[w] # h
      BY <1>4 DEF LineInv, HandInv
    <3>2. \A w \in Submits : wpc[w] = "notice" => Serving(w) BY DEF Serving
    <3> QED BY <3>1, <3>2, <1>1, <1>3 DEF LineInv, HandInv, Serving
  <2>4. RoomInv' BY <1>1 DEF LineInv, RoomInv, At
  <2> QED BY <2>1, <2>2, <2>3, <2>4 DEF LineInv
<1> QED BY <1>8, <1>9

(* A prompt is queued.                                                     *)
LEMMA AcceptLine ==
  ASSUME IInv, LineInv, NEW h \in Submits, SubmitBuild(h) \/ SubmitRebuilt(h)
  PROVE  LineInv' /\ LineStep
<1> USE OpsDisjoint
<1> DEFINE r == opr[h]
<1>0. /\ opc \in [Ops -> Labels] /\ opr \in [Ops -> Recs \cup {0}] /\ fate \in [Submits -> Fates]
      /\ queue \in [Recs -> Seq(Submits)] /\ wpc \in [Submits -> Places]
  BY DEF IInv, TypeInv, RecordTypes, CallTypes, TurnTypes
<1>1. /\ opc[h] \in {"build", "close"} /\ Enqueue(h)
      /\ \A g \in Submits : opc'[g] = IF g = h THEN "done" ELSE opc[g]
  BY <1>0 DEF SubmitBuild, SubmitRebuilt, Goto, At
<1>2. r = current /\ current # 0 /\ r \in Recs /\ Section(h)
  BY <1>0, <1>1 DEF IInv, RecordInv, Section, Here
<1>3. /\ \A g \in Submits : g # h => ~Section(g)
      /\ \A g \in Submits : opc[g] \in {"inject", "build", "close"} => Section(g)
  <2>1. \A g \in Submits : Section(g) => opr[g] = r BY <1>2 DEF IInv, RecordInv, Here
  <2> QED BY <2>1, <1>2, OneHolder DEF Section
<1>4. /\ \A g \in Submits : fate'[g] = IF g = h THEN "queued" ELSE fate[g]
      /\ \A u \in Recs : queue'[u] = IF u = r THEN Append(queue[r], h) ELSE queue[u]
      /\ UNCHANGED <<current, witem, draining, opr>>
  BY <1>0, <1>2, <1>1 DEF Enqueue, drainVars
<1>5. fate[h] = "new" /\ Line!New(h) BY <1>1, LineFacts DEF LineInv, FreshInv, At
<1>6. \A w \in Submits : /\ Serving(w)' <=> Serving(w)
                         /\ wpc'[w] = "notice" <=> wpc[w] = "notice"
                         /\ wpc'[w] = "outbox" <=> wpc[w] = "outbox"
  <2>1. wpc[h] = "none" BY <1>1 DEF IInv, WorkerInv, At
  <2>2. wpc' = wpc \/ wpc' = [wpc EXCEPT ![h] = "start"] BY <1>1 DEF Enqueue
  <2> QED BY <2>1, <2>2, <1>0 DEF Serving
<1>7. InHand' = InHand BY <1>4, <1>6 DEF InHand
<1>8. Settled' = Settled
  <2>1. \A g \in Submits : fate'[g] \in {"rejected", "injected", "ran", "dropped", "lost"}
                             <=> fate[g] \in {"rejected", "injected", "ran", "dropped", "lost"}
    BY <1>4, <1>5
  <2> QED BY <2>1, <1>7 DEF Settled
<1>9. Waiting' = Append(Waiting, h) BY <1>2, <1>4 DEF Waiting
<1>10. Len(Waiting) < MaxQueued \/ draining BY <1>1, <1>2 DEF Waiting, LineInv, RoomInv
<1>11. LineStep
  <2>1. Line!Accept(h) BY <1>4, <1>5, <1>7, <1>8, <1>9, <1>10 DEF Line!Accept
  <2> QED BY <2>1 DEF LineStep, Line!Next
<1>12. LineInv'
  <2>1. FreshInv' BY <1>1, <1>4 DEF LineInv, FreshInv, At
  <2>2. QueuedInv'
    <3>1. \A u \in Recs : \A i \in DOMAIN queue[u] :
            queue[u][i] \in Submits /\ queue[u][i] # h /\ fate[queue[u][i]] = "queued"
      BY <1>0, <1>5 DEF LineInv, QueuedInv
    <3>2. ASSUME NEW u \in Recs, u # r
          PROVE  /\ \A i \in DOMAIN queue'[u] : fate'[queue'[u][i]] = "queued"
                 /\ \A i, j \in DOMAIN queue'[u] : queue'[u][i] = queue'[u][j] => i = j
      BY <3>1, <3>2, <1>4 DEF LineInv, QueuedInv
    <3>3. DEFINE q == queue[r]
    <3>4. q \in Seq(Submits) /\ queue'[r] = Append(q, h) BY <1>0, <1>2, <1>4
    <3>5. /\ \A i \in DOMAIN q : q[i] # h /\ q[i] \in Submits /\ fate[q[i]] = "queued"
          /\ \A i, j \in DOMAIN q : q[i] = q[j] => i = j
      BY <3>1, <1>2 DEF LineInv, QueuedInv
    <3> HIDE DEF q
    <3>6. /\ DOMAIN Append(q, h) = DOMAIN q \cup {Len(q) + 1} /\ Len(q) + 1 \notin DOMAIN q
          /\ \A i \in DOMAIN q : Append(q, h)[i] = q[i]
          /\ Append(q, h)[Len(q) + 1] = h
      BY <3>4
    <3>7. /\ \A i \in DOMAIN queue'[r] : fate'[queue'[r][i]] = "queued"
          /\ \A i, j \in DOMAIN queue'[r] : queue'[r][i] = queue'[r][j] => i = j
      BY <3>4, <3>5, <3>6, <1>4
    <3> QED BY <3>2, <3>7 DEF QueuedInv
  <2>3. HandInv'
    <3>1. \A w \in Submits : Serving(w) \/ wpc[w] = "outbox" => witem[w] \in Submits /\ witem[w] # h
      BY <1>5 DEF LineInv, HandInv
    <3>2. \A w \in Submits : wpc[w] = "notice" => Serving(w) BY DEF Serving
    <3> QED BY <3>1, <3>2, <1>4, <1>6 DEF LineInv, HandInv
  <2>4. RoomInv' BY <1>1, <1>3 DEF RoomInv, At
  <2> QED BY <2>1, <2>2, <2>3, <2>4 DEF LineInv
<1> QED BY <1>11, <1>12

(* A worker goes to the top of its loop.                                   *)
LEMMA TakeLine ==
  ASSUME IInv, LineInv, NEW w \in Submits, wpc[w] \in {"start", "outbox"}, TakeNext(w, current),
         UNCHANGED <<current, opc, opr, draining>>
  PROVE  LineInv' /\ LineStep
<1>0. /\ fate \in [Submits -> Fates] /\ wpc \in [Submits -> Places]
      /\ queue \in [Recs -> Seq(Submits)] /\ witem \in [Submits -> Submits \cup {None}]
  BY DEF IInv, TypeInv, RecordTypes, TurnTypes
<1>1. current \in Recs /\ current # 0 /\ \A v \in Submits : Lives(v) => v = w
  <2>1. Lives(w) BY DEF Lives
  <2> QED BY <2>1, WorkerHere, RecsType
<1>2. \A v \in Submits : Serving(v) => v = w BY <1>1 DEF Serving, Lives
<1>3. \A v \in Submits : ~Serving(v) BY <1>2 DEF Serving
<1>4. InHand = {} BY <1>3, LineFacts
<1>5. CASE draining \/ queue[current] = <<>>
  <2>1. /\ UNCHANGED <<queue, fate>>
        /\ \A v \in Submits : wpc'[v] = IF v = w THEN "done" ELSE wpc[v]
        /\ \A v \in Submits : v # w => witem'[v] = witem[v]
    BY <1>5, <1>0 DEF TakeNext
  <2>2. \A v \in Submits : ~Serving(v)' BY <2>1, <1>3 DEF Serving
  <2>3. InHand' = {} BY <2>2 DEF InHand
  <2>4. Waiting' = Waiting /\ Settled' = Settled BY <2>1, <2>3, <1>4 DEF Waiting, Settled
  <2>5. LineStep BY <2>3, <2>4, <1>4 DEF LineStep, Line!vars
  <2>6. FreshInv' /\ QueuedInv' /\ RoomInv' BY <2>1 DEF LineInv, FreshInv, QueuedInv, RoomInv, At
  <2>7. HandInv' BY <2>1, <2>2 DEF LineInv, HandInv, Serving
  <2> QED BY <2>5, <2>6, <2>7 DEF LineInv
<1>6. CASE ~(draining \/ queue[current] = <<>>)
  <2> DEFINE q == queue[current]
             p == Head(q)
  <2>1. /\ wpc' = [wpc EXCEPT ![w] = "prepare"] /\ witem' = [witem EXCEPT ![w] = p]
        /\ queue' = [queue EXCEPT ![current] = Tail(@)] /\ fate' = [fate EXCEPT ![p] = "taken"]
    BY <1>6 DEF TakeNext
  <2>2. q \in Seq(Submits) /\ q # <<>> BY <1>0, <1>1, <1>6
  <2>3. /\ \A i \in DOMAIN q : q[i] \in Submits /\ fate[q[i]] = "queued"
        /\ \A i, j \in DOMAIN q : q[i] = q[j] => i = j
    BY <2>2, <1>1 DEF LineInv, QueuedInv
  <2>4. queue'[current] = Tail(q) /\ \A r \in Recs : r # current => queue'[r] = queue[r]
    BY <2>1, <1>0, <1>1
  <2> HIDE DEF q, p
  <2>5. /\ p = q[1] /\ 1 \in DOMAIN q
        /\ \A i \in DOMAIN Tail(q) : i + 1 \in DOMAIN q /\ Tail(q)[i] = q[i + 1] /\ i \in Nat \ {0}
    BY <2>2 DEF p
  <2>6. p \in Submits /\ fate[p] = "queued" BY <2>3, <2>5
  <2>7. /\ \A h \in Submits : fate'[h] = IF h = p THEN "taken" ELSE fate[h]
        /\ \A v \in Submits : wpc'[v] = IF v = w THEN "prepare" ELSE wpc[v]
        /\ \A v \in Submits : witem'[v] = IF v = w THEN p ELSE witem[v]
    BY <2>1, <1>0
  <2>8. InHand' = {p}
    <3>1. \A v \in Submits : Serving(v)' <=> v = w BY <2>7, <1>3 DEF Serving
    <3> QED BY <3>1, <2>7 DEF InHand
  <2>9. Settled' = Settled
    <3>1. \A h \in Submits : fate'[h] \in {"rejected", "injected", "ran", "dropped", "lost"}
                               <=> fate[h] \in {"rejected", "injected", "ran", "dropped", "lost"}
      BY <2>6, <2>7
    <3>2. p \notin Settled BY <2>6 DEF Settled
    <3> QED BY <3>1, <3>2, <2>8, <1>4 DEF Settled
  <2>10. Waiting = q /\ Waiting' = Tail(q) BY <2>4, <1>1 DEF Waiting, q
  <2>11. LineStep
    <3>1. ~draining BY <1>6
    <3>2. Line!Take BY <3>1, <2>2, <2>8, <2>9, <2>10, <1>4 DEF Line!Take, p
    <3> QED BY <3>2 DEF LineStep, Line!Next
  <2>12. FreshInv' BY <2>6, <2>7 DEF LineInv, FreshInv, At
  <2>13. QueuedInv'
    <3>1. ASSUME NEW r \in Recs, r # current
          PROVE  queue[r] = <<>>
      BY <3>1 DEF IInv, RecordInv
    <3>2. /\ \A i \in DOMAIN Tail(q) : fate'[Tail(q)[i]] = "queued"
          /\ \A i, j \in DOMAIN Tail(q) : Tail(q)[i] = Tail(q)[j] => i = j
      <4>1. \A i \in DOMAIN Tail(q) : Tail(q)[i] \in Submits /\ Tail(q)[i] # p BY <2>3, <2>5
      <4> QED BY <4>1, <2>3, <2>5, <2>7
    <3>3. ASSUME NEW r \in Recs
          PROVE  /\ \A i \in DOMAIN queue'[r] : fate'[queue'[r][i]] = "queued"
                 /\ \A i, j \in DOMAIN queue'[r] : queue'[r][i] = queue'[r][j] => i = j
      <4>1. CASE r = current BY <4>1, <3>2, <2>4
      <4>2. CASE r # current
        <5>1. queue'[r] = <<>> BY <4>2, <3>1, <2>4
        <5>2. DOMAIN <<>> = {} BY SMT
        <5> QED BY <5>1, <5>2, Zenon
      <4> QED BY <4>1, <4>2
    <3> QED BY <3>3, Zenon DEF QueuedInv
  <2>14. HandInv'
    <3>1. \A v \in Submits : v # w => ~Serving(v)' /\ wpc'[v] # "notice" /\ wpc'[v] # "outbox"
      BY <2>7, <1>1 DEF Serving, Lives
    <3>2. wpc'[w] = "prepare" /\ witem'[w] = p /\ fate'[p] = "taken" BY <2>6, <2>7
    <3> QED BY <2>6, <3>1, <3>2 DEF HandInv
  <2>15. RoomInv'
    <3>1. \A h \in Submits : opc[h] \in {"inject", "build", "close"} => opr[h] = current
      BY DEF IInv, RecordInv, Section, Here
    <3>2. Tail(q) \in Seq(Submits) /\ Len(Tail(q)) <= Len(q) /\ Len(q) \in Nat /\ Len(Tail(q)) \in Nat
      BY <2>2
    <3>3. ASSUME NEW h \in Submits, opc[h] \in {"build", "close"} PROVE Len(Tail(q)) < MaxQueued
      <4>1. Len(q) < MaxQueued BY <3>1, <3>3, <1>6 DEF LineInv, RoomInv, q
      <4> QED BY <4>1, <3>2, MaxQueuedAssumption
    <3>4. \A h \in Submits : opc[h] # "inject" BY <3>1, <1>6 DEF LineInv, RoomInv, At
    <3> QED BY <3>1, <3>3, <3>4, <2>4 DEF RoomInv, At
  <2> QED BY <2>11, <2>12, <2>13, <2>14, <2>15 DEF LineInv
<1> QED BY <1>5, <1>6

(* The prompt in hand: its turn begins, ends, or is cancelled.             *)
LEMMA HandLine ==
  ASSUME IInv, LineInv, NEW w \in Submits, Serving(w),
         NEW l \in Places \ {"none", "start", "prepare"}, wpc' = [wpc EXCEPT ![w] = l],
         fate' = [fate EXCEPT ![witem[w]] = fate'[witem[w]]],
         \/ /\ l \in {"running", "unwind", "notice"} /\ witem' = witem
            /\ fate'[witem[w]] \in {"taken", "running", "lost"}
            /\ l = "notice" => fate'[witem[w]] = "lost"
         \/ l = "outbox" /\ witem' = witem /\ fate'[witem[w]] \in {"ran", "lost"}
         \/ /\ l = "done" /\ witem' = [witem EXCEPT ![w] = None]
            /\ fate'[witem[w]] \in {"dropped", "lost"},
         UNCHANGED <<current, queue, opc, opr, draining>>
  PROVE  LineInv' /\ LineStep
<1> DEFINE p == witem[w]
<1>0. fate \in [Submits -> Fates] /\ wpc \in [Submits -> Places] /\ witem \in [Submits -> Submits \cup {None}]
      /\ queue \in [Recs -> Seq(Submits)]
  BY DEF IInv, TypeInv, RecordTypes, TurnTypes
<1>1. p \in Submits /\ fate[p] \in {"taken", "running", "lost"} BY DEF LineInv, HandInv
<1>2. InHand = {p} /\ \A v \in Submits : Lives(v) => v = w
  <2>1. InHand = {p} /\ Lives(w) BY LineFacts
  <2> QED BY <2>1, WorkerHere
<1>3. /\ \A h \in Submits : h # p => fate'[h] = fate[h]
      /\ \A v \in Submits : wpc'[v] = IF v = w THEN l ELSE wpc[v]
      /\ \A v \in Submits : v # w => witem'[v] = witem[v]
  BY <1>0, <1>1
<1>4. Waiting' = Waiting BY DEF Waiting
<1>5. FreshInv' BY <1>1, <1>3 DEF LineInv, FreshInv, At
<1>6. QueuedInv'
  <2>1. \A r \in Recs : \A i \in DOMAIN queue[r] : queue[r][i] \in Submits /\ queue[r][i] # p
    BY <1>0, <1>1 DEF LineInv, QueuedInv
  <2> QED BY <2>1, <1>3 DEF LineInv, QueuedInv
<1>7. HandInv'
  <2>1. \A v \in Submits : v # w => ~Serving(v)' /\ wpc'[v] # "notice" /\ wpc'[v] # "outbox"
    BY <1>2, <1>3 DEF Lives, Serving
  <2>2. /\ Serving(w)' <=> l \in {"running", "unwind", "notice"}
        /\ wpc'[w] = l
    BY <1>3 DEF Serving
  <2>3. l # "done" => witem'[w] = p OBVIOUS
  <2> QED BY <2>1, <2>2, <2>3, <1>1 DEF HandInv
<1>8. RoomInv' BY DEF LineInv, RoomInv, At
<1>9. CASE l \in {"running", "unwind", "notice"}
  <2>1. \A v \in Submits : Serving(v)' <=> v = w BY <1>2, <1>3, <1>9 DEF Serving, Lives
  <2>2. InHand' = {p} BY <2>1, <1>9 DEF InHand
  <2>3. Settled' = Settled BY <2>2, <1>2, <1>3 DEF Settled
  <2> QED BY <2>2, <2>3, <1>2, <1>4, <1>5, <1>6, <1>7, <1>8 DEF LineInv, LineStep, Line!vars
<1>10. CASE l \in {"outbox", "done"}
  <2>1. \A v \in Submits : ~Serving(v)' BY <1>2, <1>3, <1>10 DEF Serving, Lives
  <2>2. InHand' = {} BY <2>1 DEF InHand
  <2>3. Settled' = Settled \cup {p} BY <2>2, <1>1, <1>2, <1>3, <1>10 DEF Settled
  <2>4. Line!Finish BY <2>2, <2>3, <1>2, <1>4 DEF Line!Finish
  <2> QED BY <2>4, <1>5, <1>6, <1>7, <1>8 DEF LineInv, LineStep, Line!Next
<1>11. l \in {"running", "unwind", "notice", "outbox", "done"} BY DEF Places
<1> QED BY <1>9, <1>10, <1>11

(* A worker.                                                               *)
LEMMA WorkerLine ==
  ASSUME IInv, LineInv, NEW w \in Submits, WorkerNext(w)
  PROVE  LineInv' /\ LineStep
<1> USE DEF recordVars, opVars, workerVars, drainVars, histVars
<1>0. /\ fate \in [Submits -> Fates] /\ wpc \in [Submits -> Places]
      /\ witem \in [Submits -> Submits \cup {None}]
  BY DEF IInv, TypeInv, TurnTypes
<1>1. CASE WorkerStart(w) \/ WorkerLoop(w)
  <2>1. wpc[w] \in {"start", "outbox"} BY <1>1 DEF WorkerStart, WorkerLoop
  <2>2. Lives(w) BY <2>1 DEF Lives
  <2>3. current \in Recs /\ current # 0 /\ (wpc[w] # "start" => wrec[w] = current)
    BY <2>2, WorkerHere, RecsType
  <2>4. /\ TakeNext(w, current) /\ UNCHANGED <<current, opc, opr, draining>>
    BY <2>3, <1>1 DEF WorkerStart, WorkerLoop, RecordHere, MakeRecord
  <2> QED BY <2>1, <2>4, TakeLine
<1>2. CASE WorkerAdmitted(w)
  <2>1. wpc[w] = "prepare" /\ Serving(w) BY <1>2 DEF WorkerAdmitted, Serving
  <2>2. witem[w] \in Submits BY <2>1 DEF LineInv, HandInv
  <2>3. \/ wpc' = [wpc EXCEPT ![w] = "notice"] /\ fate' = [fate EXCEPT ![witem[w]] = "lost"]
        \/ wpc' = [wpc EXCEPT ![w] = "running"] /\ fate' = [fate EXCEPT ![witem[w]] = "running"]
    BY <1>2 DEF WorkerAdmitted
  <2>4. UNCHANGED <<current, queue, opc, opr, draining, witem>> BY <1>2 DEF WorkerAdmitted
  <2>5. fate' = [fate EXCEPT ![witem[w]] = fate'[witem[w]]] BY <2>2, <2>3, <1>0
  <2>6. {"notice", "running"} \subseteq Places \ {"none", "start", "prepare"} BY DEF Places
  <2>7. CASE wpc' = [wpc EXCEPT ![w] = "notice"] /\ fate' = [fate EXCEPT ![witem[w]] = "lost"]
    <3>1. fate'[witem[w]] = "lost" BY <2>2, <2>7, <1>0
    <3> QED BY <2>1, <2>4, <2>5, <2>6, <2>7, <3>1, HandLine
  <2>8. CASE wpc' = [wpc EXCEPT ![w] = "running"] /\ fate' = [fate EXCEPT ![witem[w]] = "running"]
    <3>1. fate'[witem[w]] = "running" BY <2>2, <2>8, <1>0
    <3> QED BY <2>1, <2>4, <2>5, <2>6, <2>8, <3>1, HandLine
  <2> QED BY <2>3, <2>7, <2>8
<1>3. CASE WorkerPersist(w)
  <2>1. UNCHANGED <<queue, wpc, witem, fate, draining, opc, opr, current>> BY <1>3 DEF WorkerPersist
  <2>2. RoomInv' BY <2>1 DEF LineInv, RoomInv, At
  <2>3. \A h \in Submits : ~At(h, "done")' => ~At(h, "done") BY <2>1 DEF At
  <2> QED BY <2>1, <2>2, <2>3, QuietLine
<1>4. CASE WorkerTurnEnds(w)
  <2>1. wpc[w] \in {"running", "notice"} /\ Serving(w) BY <1>4 DEF WorkerTurnEnds, Serving
  <2>2. witem[w] \in Submits /\ (wpc[w] = "notice" => fate[witem[w]] = "lost")
    BY <2>1 DEF LineInv, HandInv
  <2>3. /\ wpc' = [wpc EXCEPT ![w] = "outbox"]
        /\ fate' = [fate EXCEPT ![witem[w]] = IF wpc[w] = "running" THEN "ran" ELSE @]
        /\ UNCHANGED <<current, queue, opc, opr, draining, witem>>
    BY <1>4 DEF WorkerTurnEnds
  <2>4. fate'[witem[w]] \in {"ran", "lost"} BY <2>1, <2>2, <2>3, <1>0
  <2>5. fate' = [fate EXCEPT ![witem[w]] = fate'[witem[w]]] BY <2>2, <2>3, <1>0
  <2>6. "outbox" \in Places \ {"none", "start", "prepare"} BY DEF Places
  <2> QED BY <2>1, <2>3, <2>4, <2>5, <2>6, HandLine
<1>5. CASE WorkerCancelled(w)
  <2>0. UNCHANGED <<current, queue, opc, opr, draining>> BY <1>5 DEF WorkerCancelled
  <2>1. CASE wpc[w] = "running"
    <3>1. wpc' = [wpc EXCEPT ![w] = "unwind"] /\ UNCHANGED <<witem, fate>>
      BY <2>1, <1>5 DEF WorkerCancelled
    <3>2. Serving(w) BY <2>1 DEF Serving
    <3>3. fate'[witem[w]] \in {"taken", "running", "lost"} BY <3>1, <3>2 DEF LineInv, HandInv
    <3>4. fate' = [fate EXCEPT ![witem[w]] = fate'[witem[w]]] BY <3>1, <1>0
    <3>5. "unwind" \in Places \ {"none", "start", "prepare"} BY DEF Places
    <3> QED BY <2>0, <3>1, <3>2, <3>3, <3>4, <3>5, HandLine
  <2>2. CASE Serving(w) /\ wpc[w] # "running"
    <3>1. /\ wpc' = [wpc EXCEPT ![w] = "done"] /\ witem' = [witem EXCEPT ![w] = None]
          /\ fate' = [fate EXCEPT ![witem[w]] = IF @ \in {"taken", "running"} THEN "dropped" ELSE @]
      BY <2>2, <1>5 DEF WorkerCancelled, Serving
    <3>2. witem[w] \in Submits /\ fate[witem[w]] \in {"taken", "running", "lost"}
      BY <2>2 DEF LineInv, HandInv
    <3>3. fate'[witem[w]] \in {"dropped", "lost"} BY <3>1, <3>2, <1>0
    <3>4. fate' = [fate EXCEPT ![witem[w]] = fate'[witem[w]]] BY <3>1, <3>2, <1>0
    <3>5. "done" \in Places \ {"none", "start", "prepare"} BY DEF Places
    <3> QED BY <2>0, <2>2, <3>1, <3>3, <3>4, <3>5, HandLine
  <2>3. CASE ~Serving(w)
    <3>1. /\ wpc[w] \in {"start", "outbox"} /\ wpc' = [wpc EXCEPT ![w] = "done"]
          /\ \A v \in Submits : v # w => witem'[v] = witem[v]
      BY <2>3, <1>0, <1>5 DEF WorkerCancelled, Serving
    <3>2. fate' = fate
      <4>1. CASE wpc[w] = "start" BY <4>1, <1>5 DEF WorkerCancelled
      <4>2. CASE wpc[w] = "outbox"
        <5>1. fate' = [fate EXCEPT ![witem[w]] = IF @ \in {"taken", "running"} THEN "dropped" ELSE @]
          BY <4>2, <1>5 DEF WorkerCancelled
        <5>2. fate[witem[w]] \in {"ran", "lost"} BY <4>2 DEF LineInv, HandInv
        <5> QED BY <5>1, <5>2, <1>0
      <4> QED BY <4>1, <4>2, <3>1
    <3>3. \A v \in Submits : /\ Serving(v)' <=> Serving(v)
                             /\ wpc'[v] # wpc[v] => v = w /\ wpc'[v] = "done"
      BY <2>3, <3>1, <1>0 DEF Serving
    <3>4. InHand' = InHand
      <4>1. \A v \in Submits : Serving(v) => witem'[v] = witem[v] BY <2>3, <3>1
      <4> QED BY <4>1, <3>3 DEF InHand
    <3>5. Waiting' = Waiting /\ Settled' = Settled BY <2>0, <3>2, <3>4 DEF Waiting, Settled
    <3>6. LineStep BY <2>0, <3>4, <3>5 DEF LineStep, Line!vars
    <3>7. FreshInv' /\ QueuedInv' /\ RoomInv'
      BY <2>0, <3>2 DEF LineInv, FreshInv, QueuedInv, RoomInv, At
    <3>8. HandInv'
      <4>1. \A v \in Submits : v # w => wpc'[v] = wpc[v] /\ witem'[v] = witem[v]
        BY <3>1, <3>3, <1>0
      <4>2. wpc'[w] = "done" BY <3>1, <1>0
      <4> QED BY <4>1, <4>2, <3>2 DEF LineInv, HandInv, Serving
    <3> QED BY <3>6, <3>7, <3>8 DEF LineInv
  <2> QED BY <2>1, <2>2, <2>3
<1> QED BY <1>1, <1>2, <1>3, <1>4, <1>5 DEF WorkerNext

(* A stop or a reset drops the line.                                       *)
LEMMA ClearLine ==
  ASSUME IInv, LineInv,
         \/ \E s \in Stops : StopQueue(s)
         \/ \E x \in Resets : ResetCancel(x)
  PROVE  LineInv' /\ LineStep
<1> USE OpsDisjoint DEF recordVars, opVars, workerVars, drainVars, histVars
<1>0. /\ opc \in [Ops -> Labels] /\ opr \in [Ops -> Recs \cup {0}] /\ fate \in [Submits -> Fates]
      /\ queue \in [Recs -> Seq(Submits)]
  BY DEF IInv, TypeInv, RecordTypes, CallTypes, TurnTypes
<1>1. PICK o \in Stops \cup Resets :
        /\ DropQueue(opr[o]) /\ \E l \in Labels : Goto(o, l)
        /\ UNCHANGED <<current, opr, wpc, witem, draining>>
        /\ opr[o] = current /\ current # 0
  <2>1. ASSUME NEW s \in Stops, StopQueue(s)
        PROVE  /\ DropQueue(opr[s]) /\ \E l \in Labels : Goto(s, l)
               /\ UNCHANGED <<current, opr, wpc, witem, draining>>
               /\ opr[s] = current /\ current # 0
    <3>1. Holds(s) /\ (Busy(opr[s]) \/ queue[opr[s]] # <<>>) BY <2>1 DEF StopQueue
    <3>2. opr[s] \in Recs /\ opr[s] # 0 BY <3>1, <1>0 DEF Holds
    <3>3. opr[s] = current BY <3>1, <3>2 DEF IInv, RecordInv, Busy
    <3> QED BY <2>1, <3>2, <3>3 DEF StopQueue, Labels
  <2>2. ASSUME NEW x \in Resets, ResetCancel(x)
        PROVE  /\ DropQueue(opr[x]) /\ \E l \in Labels : Goto(x, l)
               /\ UNCHANGED <<current, opr, wpc, witem, draining>>
               /\ opr[x] = current /\ current # 0
    <3>1. Resetting(x) BY <2>2 DEF ResetCancel, Resetting, At
    <3> QED BY <2>2, <3>1 DEF ResetCancel, Labels, IInv, RecordInv, Here
  <2> QED BY <2>1, <2>2
<1>2. current \in Recs BY <1>1 DEF IInv, TypeInv, RecordTypes
<1>3. /\ \A r \in Recs : queue'[r] = IF r = current THEN <<>> ELSE queue[r]
      /\ \A h \in Submits : fate'[h] = IF h \in QueuedIn(current) THEN "dropped" ELSE fate[h]
      /\ \A h \in Submits : opc'[h] = opc[h]
  BY <1>0, <1>1, <1>2 DEF DropQueue, Goto
<1>4. /\ \A h \in QueuedIn(current) : h \in Submits /\ fate[h] = "queued"
      /\ QueuedIn(current) \cap InHand = {}
  <2>1. \A h \in QueuedIn(current) : h \in Submits /\ fate[h] = "queued"
    BY <1>0, <1>2 DEF QueuedIn, LineInv, QueuedInv
  <2> QED BY <2>1 DEF InHand, LineInv, HandInv
<1>5. InHand' = InHand BY <1>1 DEF InHand, Serving
<1>6. Waiting' = <<>> /\ Line!InLine = QueuedIn(current)
  BY <1>1, <1>2, <1>3 DEF Waiting, Line!InLine, QueuedIn
<1>7. Settled' = Settled \cup QueuedIn(current) BY <1>3, <1>4, <1>5 DEF Settled
<1>8. LineStep
  <2>1. Line!Clear BY <1>1, <1>5, <1>6, <1>7 DEF Line!Clear
  <2> QED BY <2>1 DEF LineStep, Line!Next
<1>9. FreshInv' BY <1>3, <1>4 DEF LineInv, FreshInv, At
<1>10. QueuedInv'
  <2>1. \A r \in Recs : queue'[r] = <<>> BY <1>3 DEF IInv, RecordInv
  <2> QED BY <2>1 DEF QueuedInv
<1>11. HandInv'
  <2>1. \A w \in Submits : Serving(w) \/ wpc[w] = "outbox" =>
          witem[w] \in Submits /\ fate'[witem[w]] = fate[witem[w]]
    BY <1>3, <1>4 DEF LineInv, HandInv
  <2>2. \A w \in Submits : wpc[w] = "notice" => Serving(w) BY DEF Serving
  <2> QED BY <2>1, <2>2, <1>1 DEF LineInv, HandInv, Serving
<1>12. RoomInv'
  <2>1. \A h \in Submits : opc[h] \in {"inject", "build", "close"} => opr[h] = current
    BY DEF IInv, RecordInv, Section, Here
  <2>2. Len(<<>>) < MaxQueued BY MaxQueuedAssumption
  <2> QED BY <2>1, <2>2, <1>1, <1>2, <1>3 DEF RoomInv, At
<1> QED BY <1>8, <1>9, <1>10, <1>11, <1>12 DEF LineInv

(* drain() stops the line.                                                 *)
LEMMA ShutLine ==
  ASSUME IInv, LineInv, DrainStart
  PROVE  LineInv' /\ LineStep
<1> USE DEF recordVars, opVars, workerVars, histVars
<1>1. UNCHANGED <<current, queue, wpc, witem, fate, opc, opr>> /\ draining' = TRUE BY DEF DrainStart
<1>2. Waiting' = Waiting /\ InHand' = InHand BY <1>1 DEF Waiting, InHand, Serving
<1>3. Settled' = Settled BY <1>1, <1>2 DEF Settled
<1>4. Line!Shut BY <1>1, <1>2, <1>3 DEF Line!Shut
<1>5. LineInv' BY <1>1 DEF LineInv, FreshInv, QueuedInv, HandInv, RoomInv, Serving, At
<1> QED BY <1>4, <1>5 DEF LineStep, Line!Next

(* Every step of the thread is a step of the line, or none.                *)
LEMMA NextLine ==
  ASSUME IInv, LineInv, [Next]_vars
  PROVE  LineInv' /\ LineStep
<1>1. ASSUME NEW h \in Submits, SubmitNext(h) PROVE LineInv' /\ LineStep
  BY <1>1, SubmitLine, JoinLine, AcceptLine DEF SubmitNext
<1>2. ASSUME NEW s \in Stops, StopNext(s) PROVE LineInv' /\ LineStep
  BY <1>2, OtherLine, ClearLine DEF StopNext
<1>3. ASSUME NEW x \in Resets, ResetNext(x) PROVE LineInv' /\ LineStep
  BY <1>3, OtherLine, ClearLine DEF ResetNext
<1> QED BY <1>1, <1>2, <1>3, WorkerLine, OtherLine, ShutLine DEF Next

(* Nobody has sent anything.                                               *)
LEMMA InitLine ==
  ASSUME Init
  PROVE  LineInv /\ Line!Init
<1> USE OpsDisjoint
<1>1. /\ \A h \in Submits : opc[h] = "start" /\ fate[h] = "new" /\ wpc[h] = "none"
      /\ \A r \in Recs : queue[r] = <<>>
      /\ current = 0 /\ draining = FALSE
  BY DEF Init
<1>2. Waiting = <<>> /\ InHand = {} BY <1>1 DEF Waiting, InHand, Serving
<1>3. Settled = {} BY <1>1 DEF Settled
<1>4. LineInv BY <1>1 DEF LineInv, FreshInv, QueuedInv, HandInv, RoomInv, Serving, At
<1> QED BY <1>1, <1>2, <1>3, <1>4 DEF Line!Init

(* The record, the lock and the workers of a thread are a line of prompts, *)
(* whatever is rebuilt, stopped, reset, evicted or rotated under them.     *)
THEOREM LineOfPrompts == Spec /\ []ResetsApart => PromptsInOrder
<1>1. IInv /\ LineInv /\ [Next]_vars => LineInv' /\ [Line!Next]_(Line!vars) BY NextLine DEF LineStep
<1>2. Init => LineInv /\ Line!Init BY InitLine
<1> QED BY <1>1, <1>2, Invariant, PTL DEF Spec, PromptsInOrder, Line!Spec

=============================================================================
