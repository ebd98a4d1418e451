-------------------------- MODULE Settings_proofs --------------------------
(***************************************************************************)
(* What MCAccess checks on small instances, proved for any number of       *)
(* messages, taps, changes and faults: what the bot acknowledged is in     *)
(* force, and the turn of an idle session obeys the settings and rights    *)
(* that held while its message was on its way (Settings, Allowlist); a turn*)
(* gets no tool and no note it should not have (Capabilities); the pinned  *)
(* message shows the quota (Usage).                                        *)
(***************************************************************************)
EXTENDS MCAccess, TLAPS, SequenceTheorems

-----------------------------------------------------------------------------
(* Invariants                                                              *)

(* The copy is never stamped later than the file; 0 is no stamp.           *)
AllowInv == AllowTypeOK /\ seen <= stamp /\ stamp # 0 /\ RightsKept

Places == {"off", "gate", "lower", "read", "lock", "inject", "base", "defaults", "compare",
           "close", "end"}
Values == {"std", "max", "below", "low"}
Reads == [pc : Places, mode : {"chat", "code"}, own : {"none", "max", "below"},
          access : Access, val : Values, direct : BOOLEAN]
MsgType == msg \in [Msg -> Reads]

(* What a tap is about to write fits where it writes it.                   *)
TapOK(r) ==
  /\ r.pc = "off" => r = NoTap
  /\ r.pc \in {"check", "write"} => \/ r.scope = "session" /\ r.val \in {"max", "none"}
                                    \/ r.scope = "user" /\ r.val = "low"
                                    \/ r.scope = "mode" /\ r.val \in Levels
Changes == [pc : {"off", "check", "write", "rebuild", "end"}, scope : {"session", "user", "mode"},
            val : {"none", "max", "low", "chat", "code"}, base : Access \ {"unset"}]
TapType == tap \in [Tap -> Changes] /\ \A t \in Tap : TapOK(tap[t])
TypeInv == TypeOK /\ MsgType /\ TapType

(* Where a message has read its mode and its own value, its access, and    *)
(* made up its value, they held since it arrived; a mode that was code     *)
(* passed the gate or a switch to it was under way.                        *)
HasRow == {"lock", "inject", "base", "defaults", "compare", "close"}
HasAccess == {"defaults", "compare", "close"}
HasValue == {"compare", "close"}

CodeSince(s) == "code" \in s.level \/ TRUE \in s.switching
ValueSince(v, s) ==
  \E a \in s.access, o \in s.own, u \in s.user, x \in s.max : v = Effective(a, o, u, x)
ReadOK(r, s, md) ==
  /\ (r.pc \in {"lower", "read"} /\ md = "code") => CodeSince(s)
  /\ r.pc \in HasRow => r.mode \in s.mode /\ r.own \in s.own
  /\ (r.pc \in HasRow /\ r.mode = "code") => CodeSince(s)
  /\ r.pc \in HasAccess => r.access \in s.access
  /\ r.pc \in HasValue => ValueSince(r.val, s)
ReadInv == \A m \in Msg : ReadOK(msg[m], since[m], mode)

(* While a worker lives there is a client, and nobody closes it.           *)
InQueue(m) == \E i \in DOMAIN queue : queue[i] = m
SessionInv ==
  /\ worker # "off" => client # None
  /\ worker # "turn" => cur = None
  /\ worker = "off" => queue = <<>>
  /\ \A m \in Msg : msg[m].pc \in {"inject", "base", "defaults", "compare", "close"} => lock = m
  /\ \A m \in Msg : msg[m].pc = "close" => worker = "off" /\ client = None
  /\ \A m \in Msg : msg[m].direct => msg[m].pc = "end"
  /\ \A m \in Msg : (cur = m \/ InQueue(m)) => msg[m].pc = "end"

(* A message that found the session idle has its client.                   *)
Obeyed(c, s) == c.mode \in s.mode /\ ValueSince(c.val, s) /\ (c.mode = "code" => CodeSince(s))
ObeyInv == \A m \in Msg : (msg[m].direct /\ (cur = m \/ InQueue(m))) => Obeyed(client, since[m])

IInv == TypeInv /\ AllowInv /\ ReadInv /\ SessionInv /\ ObeyInv
-----------------------------------------------------------------------------
(* The allowlist                                                           *)

(* What the bot sees and finds are contents and records.                   *)
LEMMA Views ==
  ASSUME AllowInv
  PROVE  /\ View \in Content /\ OnDisk \in Content
         /\ Found \in Record /\ View.id.access \in Access /\ View.id.max \in BOOLEAN
<1>1. Empty \in Content
  BY DEF Empty, Content, Absent, Record, Access, Levels
<1>2. OnDisk \in Content
  BY <1>1 DEF AllowInv, AllowTypeOK, OnDisk
<1>3. View \in Content
  BY <1>2 DEF AllowInv, AllowTypeOK, View
<1>4. View.id \in Record /\ View.name \in Record
  BY <1>3 DEF Content
<1>5. Found \in Record
  BY <1>4 DEF Found
<1> QED
  BY <1>2, <1>3, <1>4, <1>5 DEF Record

(* A pin makes contents of contents.                                       *)
LEMMA PinType == Pin \in [Content -> Content]
<1> SUFFICES ASSUME NEW c \in Content PROVE Pin[c] \in Content
  BY DEF Pin
<1>1. c.id \in Record /\ c.name \in Record
  BY DEF Content
<1>2. Absent \in Record
  BY DEF Absent, Record, Access, Levels
<1> QED
  BY <1>1, <1>2 DEF Pin, Content

(* A grant makes contents of contents.                                     *)
LEMMA AddType ==
  ASSUME NEW target \in {"id", "name"}, NEW given \in Levels
  PROVE  Add(target, given) \in [Content -> Content]
<1> SUFFICES ASSUME NEW c \in Content PROVE Add(target, given)[c] \in Content
  BY DEF Add
<1>1. [c[target] EXCEPT !.level = given] \in Record
  BY DEF Content, Record
<1>2. CASE target = "id"
  BY <1>1, <1>2 DEF Add, Content
<1>3. CASE target = "name"
  BY <1>1, <1>3 DEF Add, Content
<1> QED
  BY <1>2, <1>3

(* A change sets a field of the record it finds to a value of that field.  *)
LEMMA ChangeType ==
  ASSUME NEW target \in {"id", "name"}, NEW field, NEW value,
         \A r \in Record : [r EXCEPT ![field] = value] \in Record
  PROVE  Change(target, field, value) \in [Content -> Content]
<1> SUFFICES ASSUME NEW c \in Content PROVE Change(target, field, value)[c] \in Content
  BY DEF Change
<1> DEFINE k == Key(c, target)
           n == [c[k] EXCEPT ![field] = value]
<1>1. k \in {"id", "name"}
  BY DEF Key
<1>2. c[k] \in Record
  BY <1>1 DEF Content
<1>3. n \in Record
  BY <1>2
<1>4. Change(target, field, value)[c] = IF c[k] = Absent THEN c ELSE [c EXCEPT ![k] = n]
  BY DEF Change
<1> HIDE DEF k, n
<1>5. CASE k = "id"
  BY <1>3, <1>4, <1>5 DEF Content
<1>6. CASE k = "name"
  BY <1>3, <1>4, <1>6 DEF Content
<1> QED
  BY <1>1, <1>5, <1>6

(* A revocation makes contents of contents.                                *)
LEMMA RemoveType ==
  ASSUME NEW target \in {"id", "name"}
  PROVE  Remove(target) \in [Content -> Content]
<1> SUFFICES ASSUME NEW c \in Content PROVE Remove(target)[c] \in Content
  BY DEF Remove
<1>1. Absent \in Record
  BY DEF Absent, Record, Access, Levels
<1>2. Empty \in Content
  BY <1>1 DEF Empty, Content
<1> QED
  BY <1>1, <1>2 DEF Remove, Content

(* A save, whether it reaches the file or raises, keeps what may be in     *)
(* force: the copy and the file hold contents that may be.                 *)
LEMMA MutateKeeps ==
  ASSUME AllowInv, NEW op \in [Content -> Content], Mutate(op)
  PROVE  AllowInv'
<1>1. CASE op[View] = View
  <2>1. UNCHANGED allowVars
    BY <1>1 DEF Mutate
  <2> QED
    BY <2>1 DEF AllowInv, AllowTypeOK, RightsKept, View, OnDisk, allowVars
<1>2. CASE op[View] # View
  <2> DEFINE new == op[View]
  <2>1. Save(new) /\ may' = {op[c] : c \in may} \cup (IF stamp' = stamp THEN may ELSE {})
    BY <1>2 DEF Mutate
  <2>2. View \in Content /\ new \in Content /\ new \in may'
    BY <2>1, Views DEF AllowInv, RightsKept
  <2>3. may' \subseteq Content
    BY <2>1 DEF AllowInv, AllowTypeOK
  <2> HIDE DEF new
  <2>4. CASE file' = [ok |-> TRUE, data |-> new] /\ stamp' = stamp + 1 /\ seen' = stamp + 1
              /\ UNCHANGED faults
    BY <2>1, <2>2, <2>3, <2>4
    DEF Save, AllowInv, AllowTypeOK, RightsKept, View, OnDisk
  <2>5. CASE Fault /\ seen' = SeenAfterView /\ UNCHANGED <<file, stamp>>
    <3>1. may \subseteq may'
      BY <2>1, <2>5
    <3>2. View' \in {new, OnDisk} /\ OnDisk' = OnDisk
      BY <2>1, <2>5 DEF Save, View, OnDisk
    <3>3. seen' \in Nat /\ seen' <= stamp'
      BY <2>5 DEF SeenAfterView, AllowInv, AllowTypeOK
    <3>4. faults' \in Nat
      BY <2>5 DEF Fault, AllowInv, AllowTypeOK
    <3> QED
      BY <2>1, <2>2, <2>3, <2>5, <3>1, <3>2, <3>3, <3>4
      DEF Save, AllowInv, AllowTypeOK, RightsKept
  <2> QED
    BY <2>1, <2>4, <2>5 DEF Save
<1> QED
  BY <1>1, <1>2

(* Every change of the owner is such a mutation.                           *)
LEMMA OwnerKeeps ==
  ASSUME AllowInv, OwnerEdits
  PROVE  AllowInv'
<1>1. PICK target \in {"id", "name"} :
        \/ \E given \in Levels :
             Mutate(Add(target, given)) \/ Mutate(Change(target, "level", given))
        \/ \E access \in Access : Mutate(Change(target, "access", access))
        \/ \E on \in BOOLEAN : Mutate(Change(target, "max", on))
        \/ Mutate(Remove(target))
  BY DEF OwnerEdits
<1>2. ASSUME NEW given \in Levels, Mutate(Add(target, given)) PROVE AllowInv'
  BY <1>2, AddType, MutateKeeps
<1>3. ASSUME NEW given \in Levels, Mutate(Change(target, "level", given)) PROVE AllowInv'
  <2>1. \A r \in Record : [r EXCEPT !["level"] = given] \in Record
    BY DEF Record
  <2> QED
    BY <1>3, <2>1, ChangeType, MutateKeeps
<1>4. ASSUME NEW access \in Access, Mutate(Change(target, "access", access)) PROVE AllowInv'
  <2>1. \A r \in Record : [r EXCEPT !["access"] = access] \in Record
    BY DEF Record
  <2> QED
    BY <1>4, <2>1, ChangeType, MutateKeeps
<1>5. ASSUME NEW on \in BOOLEAN, Mutate(Change(target, "max", on)) PROVE AllowInv'
  <2>1. \A r \in Record : [r EXCEPT !["max"] = on] \in Record
    BY DEF Record
  <2> QED
    BY <1>5, <2>1, ChangeType, MutateKeeps
<1>6. ASSUME Mutate(Remove(target)) PROVE AllowInv'
  BY <1>6, RemoveType, MutateKeeps
<1> QED
  BY <1>1, <1>2, <1>3, <1>4, <1>5, <1>6

(* A hand edit or a broken file is newer than the copy: it is what counts. *)
LEMMA FileKeeps ==
  ASSUME AllowInv, HandEdit \/ Break \/ Reload
  PROVE  AllowInv'
<1>1. Absent \in Record
  BY DEF Absent, Record, Access, Levels
<1>2. Empty \in Content /\ [Empty EXCEPT !.id = [Absent EXCEPT !.level = "code"]] \in Content
  BY <1>1 DEF Empty, Content, Absent, Record, Access, Levels
<1>3. ASSUME Fault PROVE faults' \in Nat
  BY <1>3 DEF Fault, AllowInv, AllowTypeOK
<1>4. CASE HandEdit
  <2>1. PICK c \in {Empty, [Empty EXCEPT !.id = [Absent EXCEPT !.level = "code"]]} :
          file' = [ok |-> TRUE, data |-> c] /\ may' = {c}
    BY <1>4 DEF HandEdit
  <2>2. c \in Content
    BY <1>2
  <2> QED
    BY <1>3, <1>4, <2>1, <2>2
    DEF HandEdit, AllowInv, AllowTypeOK, RightsKept, View, OnDisk
<1>5. CASE Break
  BY <1>2, <1>3, <1>5 DEF Break, AllowInv, AllowTypeOK, RightsKept, View, OnDisk
<1>6. CASE Reload
  <2>1. OnDisk \in Content /\ OnDisk' = OnDisk /\ View' = OnDisk
    BY <1>6, Views DEF Reload, View, OnDisk
  <2> QED
    BY <1>3, <1>6, <2>1 DEF Reload, AllowInv, AllowTypeOK, RightsKept
<1> QED
  BY <1>4, <1>5, <1>6

(* Every step keeps the allowlist in order.                                *)
LEMMA AllowKept ==
  ASSUME AllowInv, Step
  PROVE  AllowInv'
<1>1. CASE UNCHANGED allowVars
  BY <1>1 DEF AllowInv, AllowTypeOK, RightsKept, View, OnDisk, allowVars
<1>2. ASSUME NEW m \in Msg, Arrive(m) PROVE AllowInv'
  BY <1>1, <1>2, PinType, MutateKeeps DEF Arrive
<1>3. ASSUME OwnerChanges PROVE AllowInv'
  BY <1>1, <1>3, OwnerKeeps DEF OwnerChanges
<1>4. ASSUME FileChanges \/ Restart PROVE AllowInv'
  BY <1>4, FileKeeps DEF FileChanges, Restart
<1> QED
  BY <1>1, <1>2, <1>3, <1>4
  DEF Step, Gate, Lower, Read, Lock, Inject, ReadBase, ReadDefaults, Compare, Rebuild,
      TurnStarts, TurnEnds, WorkerEnds, TapStarts, TapChecks, TapWrites, TapRebuilds
-----------------------------------------------------------------------------
(* The history of a message                                                *)

(* What holds before and after a step is added for a message under way.    *)
LEMMA Grow ==
  ASSUME Noted, NEW m \in Msg, msg'[m].pc \notin {"off", "end"}
  PROVE  /\ since'[m].access = since[m].access \cup {Now.access, Now'.access}
         /\ since'[m].own = since[m].own \cup {Now.own, Now'.own}
         /\ since'[m].user = since[m].user \cup {Now.user, Now'.user}
         /\ since'[m].max = since[m].max \cup {Now.max, Now'.max}
         /\ since'[m].mode = since[m].mode \cup {Now.mode, Now'.mode}
         /\ since'[m].level = since[m].level \cup {Now.level, Now'.level}
         /\ since'[m].switching = since[m].switching \cup {Now.switching, Now'.switching}
<1>1. DOMAIN Now = {"access", "own", "user", "max", "mode", "level", "switching"}
  BY DEF Now
<1>2. since'[m] = [f \in DOMAIN Now |-> since[m][f] \cup {Now[f], Now'[f]}]
  BY DEF Noted
<1> QED
  BY <1>1, <1>2

(* The history of a message stands while it waits for its turn or has it.  *)
LEMMA Stands ==
  ASSUME Noted, NEW m \in Msg, msg'[m].pc = "end", cur' = m \/ InQueue(m)'
  PROVE  since'[m] = since[m]
BY DEF Noted, InQueue

(* What was true of the values since a message came stays true as more are *)
(* added.                                                                  *)
LEMMA Longer ==
  ASSUME NEW r, NEW s, NEW z, NEW md, NEW mz, ReadOK(r, s, md),
         s.access \subseteq z.access, s.own \subseteq z.own, s.user \subseteq z.user,
         s.max \subseteq z.max, s.mode \subseteq z.mode, s.level \subseteq z.level,
         s.switching \subseteq z.switching,
         mz = "code" => md = "code" \/ TRUE \in z.switching
  PROVE  ReadOK(r, z, mz)
<1>1. CodeSince(s) => CodeSince(z)
  BY DEF CodeSince
<1>2. ValueSince(r.val, s) => ValueSince(r.val, z)
  BY DEF ValueSince
<1>3. (r.pc \in {"lower", "read"} /\ mz = "code") => CodeSince(z)
  BY <1>1 DEF ReadOK, CodeSince
<1> QED
  BY <1>1, <1>2, <1>3 DEF ReadOK

(* A step that leaves a message alone keeps what it has read; the mode     *)
(* turns to code only by a switch that was under way.                      *)
LEMMA Others ==
  ASSUME ReadInv, Noted, NEW m \in Msg, msg'[m] = msg[m],
         mode' = "code" => mode = "code" \/ Now.switching
  PROVE  ReadOK(msg'[m], since'[m], mode')
<1>1. ReadOK(msg[m], since[m], mode)
  BY DEF ReadInv
<1>2. CASE msg[m].pc \in {"off", "end"}
  BY <1>2 DEF ReadOK, HasRow, HasAccess, HasValue
<1>3. CASE msg[m].pc \notin {"off", "end"}
  <2>1. Now.switching \in BOOLEAN
    BY DEF Now
  <2> QED
    BY <1>1, <1>3, <2>1, Grow, Longer
<1> QED
  BY <1>2, <1>3

(* The message that moves keeps what it had read, too.                     *)
LEMMA Mover ==
  ASSUME ReadInv, Noted, UNCHANGED mode, NEW m \in Msg, msg'[m].pc \notin {"off", "end"}
  PROVE  \A r : ReadOK(r, since[m], mode) => ReadOK(r, since'[m], mode')
<1> SUFFICES ASSUME NEW r, ReadOK(r, since[m], mode)
             PROVE  ReadOK(r, since'[m], mode')
  OBVIOUS
<1> DEFINE s == since[m]
           z == since'[m]
<1>1. /\ s.access \subseteq z.access /\ s.own \subseteq z.own /\ s.user \subseteq z.user
      /\ s.max \subseteq z.max /\ s.mode \subseteq z.mode /\ s.level \subseteq z.level
      /\ s.switching \subseteq z.switching
  BY Grow
<1>2. ReadOK(r, s, mode) /\ (mode' = "code" => mode = "code" \/ TRUE \in z.switching)
  OBVIOUS
<1> HIDE DEF s, z
<1>3. ReadOK(r, z, mode')
  BY <1>1, <1>2, Longer
<1> QED
  BY <1>3 DEF z

(* What holds now, field by field.                                         *)
LEMMA Nows ==
  /\ Now.access = EffectiveAccess(base, View.id.access)
  /\ Now.own = stored.session /\ Now.user = stored.user /\ Now.max = View.id.max
  /\ Now.mode = mode /\ Now.level = Found.level
  /\ \A t \in Tap : (tap[t].pc = "write" /\ tap[t].val = "code") => Now.switching
BY DEF Now

-----------------------------------------------------------------------------
(* Types                                                                   *)

(* What is resolved from stored values is a value.                         *)
LEMMA EffectiveType ==
  ASSUME NEW access, NEW own \in {"none", "max", "below"}, NEW user \in {"none", "low"}, NEW mayMax
  PROVE  Effective(access, own, user, mayMax) \in Values
BY DEF Effective, Resolve, Values

(* A message goes on, or it ends with nothing read.                        *)
LEMMA GotoType ==
  ASSUME MsgType, NEW m \in Msg, NEW pc \in Places, Goto(m, pc)
  PROVE  /\ MsgType'
         /\ msg'[m].pc = pc
         /\ pc = "end" => ~msg'[m].direct
         /\ pc # "end" => msg'[m] = [msg[m] EXCEPT !.pc = pc]
         /\ \A n \in Msg \ {m} : msg'[n] = msg[n]
<1> DEFINE new == IF pc = "end" THEN [Off EXCEPT !.pc = pc] ELSE [msg[m] EXCEPT !.pc = pc]
<1>1. msg' = [msg EXCEPT ![m] = new]
  BY DEF Goto
<1>2. Off \in Reads
  BY DEF Off, Reads, Places, Values, Access
<1>3. new \in Reads
  BY <1>2 DEF MsgType, Reads
<1>4. new.pc = pc /\ (pc = "end" => ~new.direct) /\ (pc # "end" => new = [msg[m] EXCEPT !.pc = pc])
  BY <1>2 DEF MsgType, Off, Reads
<1> HIDE DEF new
<1> QED
  BY <1>1, <1>3, <1>4 DEF MsgType

(* A message is queued with nothing read, direct if no worker was there.   *)
LEMMA EnqueueType ==
  ASSUME TypeInv, NEW m \in Msg, Enqueue(m)
  PROVE  /\ MsgType' /\ queue' \in Seq(Msg) /\ worker' \in {"idle", "turn"}
         /\ msg'[m].pc = "end" /\ msg'[m].direct = (worker = "off")
         /\ \A n \in Msg \ {m} : msg'[n] = msg[n]
<1> DEFINE new == [Off EXCEPT !.pc = "end", !.direct = worker = "off"]
<1>1. msg' = [msg EXCEPT ![m] = new]
  BY DEF Enqueue
<1>2. new \in Reads /\ new.pc = "end" /\ new.direct = (worker = "off")
  BY DEF Off, Reads, Places, Values, Access
<1> HIDE DEF new
<1>3. MsgType' /\ msg'[m] = new /\ \A n \in Msg \ {m} : msg'[n] = msg[n]
  BY <1>1, <1>2 DEF MsgType, TypeInv
<1>4. queue' \in Seq(Msg) /\ worker' \in {"idle", "turn"}
  BY DEF Enqueue, TypeInv, TypeOK
<1> QED
  BY <1>2, <1>3, <1>4

(* What a message wants is what a client can be built with.                *)
LEMMA WantedType ==
  ASSUME MsgType, NEW m \in Msg
  PROVE  Wanted(m) \in Built
BY DEF Wanted, Built, MsgType, Reads, Values

(* A change moves on, or it has nothing left to write.                     *)
LEMMA ToType ==
  ASSUME TapType, NEW t \in Tap, NEW pc \in {"write", "rebuild", "end"}, To(t, pc),
         pc = "write" => tap[t].pc = "check"
  PROVE  TapType'
<1> DEFINE new == IF pc \in {"rebuild", "end"} THEN [NoTap EXCEPT !.pc = pc]
                  ELSE [tap[t] EXCEPT !.pc = pc]
<1>1. tap' = [tap EXCEPT ![t] = new]
  BY DEF To
<1>2. new \in Changes
  BY DEF NoTap, TapType, Changes, Access
<1>3. TapOK(new)
  BY DEF TapOK, NoTap, TapType, Changes
<1> HIDE DEF new
<1> QED
  BY <1>1, <1>2, <1>3 DEF TapType

(* Every step keeps the types.                                             *)
LEMMA TypeKept ==
  ASSUME TypeInv, AllowInv, AllowInv', SettingsAssumption, Step
  PROVE  TypeInv'
<1> USE DEF TypeInv, TypeOK
<1>0. AllowTypeOK'
  BY DEF AllowInv
<1>1. ASSUME UNCHANGED <<base, mode, tap, edits>>, MsgType',
             stored' \in [session : {"none", "max", "below"}, user : {"none", "low"}],
             lock' \in Msg \cup {None}, cur' \in Msg \cup {None}, queue' \in Seq(Msg),
             client' \in Built \cup {None}, worker' \in {"off", "idle", "turn"}
      PROVE  TypeInv'
  BY <1>0, <1>1 DEF TapType
<1>2. ASSUME UNCHANGED <<session, msg>>, TapType', base' \in Access \ {"unset"},
             mode' \in {"chat", "code"},
             stored' \in [session : {"none", "max", "below"}, user : {"none", "low"}],
             edits' \in Nat
      PROVE  TypeInv'
  BY <1>0, <1>2 DEF MsgType, session
<1>a. ASSUME NEW m \in Msg, Arrive(m) \/ Gate(m) PROVE TypeInv'
  <2>1. MsgType'
    BY <1>a, GotoType DEF Arrive, Gate, Places
  <2> QED
    BY <1>a, <1>1, <2>1 DEF Arrive, Gate, session, choices
<1>b. ASSUME NEW m \in Msg, Lower(m) PROVE TypeInv'
  <2>1. MsgType'
    BY <1>b, GotoType DEF Lower, Places
  <2> QED
    BY <1>b, <1>1, <2>1 DEF Lower, session
<1>c. ASSUME NEW m \in Msg, Read(m) \/ ReadBase(m) \/ ReadDefaults(m) PROVE TypeInv'
  <2>1. CASE Read(m)
    <3> DEFINE new == [msg[m] EXCEPT !.pc = "lock", !.mode = mode, !.own = stored.session]
    <3>0. msg' = [msg EXCEPT ![m] = new] /\ new \in Reads
      BY <2>1 DEF Read, MsgType, Reads, Places
    <3> HIDE DEF new
    <3>1. MsgType'
      BY <3>0 DEF MsgType
    <3> QED
      BY <2>1, <1>1, <3>1 DEF Read, session, choices
  <2>2. CASE ReadBase(m)
    <3>1. EffectiveAccess(base, View.id.access) \in Access
      BY Views DEF EffectiveAccess
    <3> DEFINE a == EffectiveAccess(base, View.id.access)
               new == [msg[m] EXCEPT !.pc = "defaults", !.access = a]
    <3>0. msg' = [msg EXCEPT ![m] = new]
      BY <2>2 DEF ReadBase, MsgType
    <3>4. new \in Reads
      <4>1. a \in Access
        BY <3>1
      <4> HIDE DEF a
      <4> QED
        BY <4>1 DEF MsgType, Reads, Places
    <3> HIDE DEF new
    <3>2. MsgType'
      BY <3>0, <3>4 DEF MsgType
    <3> QED
      BY <2>2, <1>1, <3>2 DEF ReadBase, session, choices
  <2>3. CASE ReadDefaults(m)
    <3> DEFINE v == Effective(msg[m].access, msg[m].own, stored.user, View.id.max)
    <3>1. v \in Values
      BY EffectiveType DEF MsgType, Reads
    <3> DEFINE new == [msg[m] EXCEPT !.pc = "compare", !.val = v]
    <3>2. msg' = [msg EXCEPT ![m] = new]
      BY <2>3 DEF ReadDefaults, MsgType
    <3> HIDE DEF v
    <3>4. new \in Reads
      BY <3>1 DEF MsgType, Reads, Places
    <3> HIDE DEF new
    <3>3. MsgType'
      BY <3>2, <3>4 DEF MsgType
    <3> QED
      BY <2>3, <1>1, <3>3 DEF ReadDefaults, session, choices
  <2> QED
    BY <1>c, <2>1, <2>2, <2>3
<1>d. ASSUME NEW m \in Msg, Lock(m) \/ Inject(m) PROVE TypeInv'
  <2>1. MsgType'
    BY <1>d, GotoType DEF Lock, Inject, Places
  <2> QED
    BY <1>d, <1>1, <2>1 DEF Lock, Inject, choices
<1>e. ASSUME NEW m \in Msg, Compare(m) PROVE TypeInv'
  <2>1. CASE Enqueue(m)
    BY <1>e, <1>1, <2>1, EnqueueType, WantedType DEF Compare, Enqueue, choices
  <2>2. CASE client' = None /\ Goto(m, "close") /\ UNCHANGED <<lock, worker, queue>>
    <3>1. MsgType'
      BY <2>2, GotoType DEF Places
    <3> QED
      BY <1>e, <1>1, <2>2, <3>1 DEF Compare, choices
  <2> QED
    BY <1>e, <2>1, <2>2 DEF Compare
<1>f. ASSUME NEW m \in Msg, Rebuild(m) PROVE TypeInv'
  BY <1>f, <1>1, EnqueueType, WantedType DEF Rebuild, Enqueue, choices
<1>g. ASSUME TurnStarts \/ TurnEnds \/ WorkerEnds PROVE TypeInv'
  <2>1. MsgType'
    BY <1>g DEF TurnStarts, TurnEnds, WorkerEnds, MsgType
  <2>2. queue # <<>> => Head(queue) \in Msg /\ Tail(queue) \in Seq(Msg)
    OBVIOUS
  <2> QED
    BY <1>g, <1>1, <2>1, <2>2 DEF TurnStarts, TurnEnds, WorkerEnds, choices
<1>h. ASSUME NEW t \in Tap, TapStarts(t) PROVE TypeInv'
  <2>1. TapOK(tap[t]) /\ tap[t] = NoTap /\ NoTap \in Changes
    BY <1>h DEF TapStarts, TapType, TapOK, NoTap, Changes, Access
  <2>2. \E new \in Changes : TapOK(new) /\ tap' = [tap EXCEPT ![t] = new]
    <3>1. CASE \E c \in {<<"session", "max">>, <<"user", "low">>} :
                 tap' = [tap EXCEPT ![t] = [pc |-> "check", scope |-> c[1], val |-> c[2],
                                            base |-> base]]
      <4>1. \E c \in {<<"session", "max">>, <<"user", "low">>} :
              /\ tap' = [tap EXCEPT ![t] = [pc |-> "check", scope |-> c[1], val |-> c[2],
                                            base |-> base]]
              /\ [pc |-> "check", scope |-> c[1], val |-> c[2], base |-> base] \in Changes
              /\ TapOK([pc |-> "check", scope |-> c[1], val |-> c[2], base |-> base])
        BY <3>1 DEF Changes, TapOK
      <4> QED
        BY <4>1
    <3>2. CASE \E v \in {"max", "none"} : tap' = [tap EXCEPT ![t].pc = "write", ![t].val = v]
      <4>1. PICK v \in {"max", "none"} : tap' = [tap EXCEPT ![t].pc = "write", ![t].val = v]
        BY <3>2
      <4>2. tap' = [tap EXCEPT ![t] = [NoTap EXCEPT !.pc = "write", !.val = v]]
        BY <2>1, <4>1
      <4>3. [NoTap EXCEPT !.pc = "write", !.val = v] \in Changes
        BY <2>1 DEF Changes
      <4>4. TapOK([NoTap EXCEPT !.pc = "write", !.val = v])
        BY DEF TapOK, NoTap
      <4> QED
        BY <4>2, <4>3, <4>4
    <3>3. CASE \E new \in Levels : tap' = [tap EXCEPT ![t].pc = "write", ![t].scope = "mode",
                                                      ![t].val = new]
      <4>1. PICK v \in Levels :
              tap' = [tap EXCEPT ![t].pc = "write", ![t].scope = "mode", ![t].val = v]
        BY <3>3
      <4>2. tap' = [tap EXCEPT ![t] = [NoTap EXCEPT !.pc = "write", !.scope = "mode", !.val = v]]
        BY <2>1, <4>1
      <4>3. [NoTap EXCEPT !.pc = "write", !.scope = "mode", !.val = v] \in Changes
        BY <2>1 DEF Changes, Levels
      <4>4. TapOK([NoTap EXCEPT !.pc = "write", !.scope = "mode", !.val = v])
        BY DEF TapOK, NoTap
      <4> QED
        BY <4>2, <4>3, <4>4
    <3> QED
      BY <1>h, <3>1, <3>2, <3>3 DEF TapStarts
  <2>3. TapType'
    BY <2>2 DEF TapType
  <2> QED
    BY <1>h, <1>2, <2>3 DEF TapStarts, choices
<1>i. ASSUME NEW t \in Tap, TapChecks(t) PROVE TypeInv'
  <2>1. TapType'
    BY <1>i, ToType DEF TapChecks
  <2> QED
    BY <1>i, <1>2, <2>1 DEF TapChecks, choices
<1>j. ASSUME NEW t \in Tap, TapWrites(t) PROVE TypeInv'
  <2>1. TapType'
    BY <1>j, ToType DEF TapWrites
  <2>2. TapOK(tap[t])
    BY DEF TapType
  <2>3. mode' \in {"chat", "code"}
        /\ stored' \in [session : {"none", "max", "below"}, user : {"none", "low"}]
    BY <1>j, <2>2 DEF TapWrites, TapOK, Levels
  <2> QED
    BY <1>j, <1>2, <2>1, <2>3 DEF TapWrites
<1>k. ASSUME NEW t \in Tap, TapRebuilds(t) PROVE TypeInv'
  <2>1. TapType'
    BY <1>k, ToType DEF TapRebuilds
  <2>2. MsgType'
    BY <1>k DEF TapRebuilds, MsgType
  <2> QED
    BY <1>k, <1>0, <2>1, <2>2 DEF TapRebuilds, choices
<1>l. ASSUME OwnerChanges PROVE TypeInv'
  BY <1>l, <1>2 DEF OwnerChanges, TapType
<1>m. ASSUME FileChanges PROVE TypeInv'
  BY <1>m, <1>2 DEF FileChanges, TapType, choices
<1>n. ASSUME Restart PROVE TypeInv'
  <2>1. MsgType'
    BY <1>n DEF Restart, MsgType, Off, Reads, Places, Values, Access
  <2>2. TapType'
    BY <1>n DEF Restart, TapType, TapOK, NoTap, Changes, Access
  <2> QED
    BY <1>n, <1>0, <2>1, <2>2 DEF Restart, choices
<1> QED
  BY <1>a, <1>b, <1>c, <1>d, <1>e, <1>f, <1>g, <1>h, <1>i, <1>j, <1>k, <1>l, <1>m, <1>n DEF Step

-----------------------------------------------------------------------------
(* What a message has read                                                 *)

(* Every step keeps what a message has read among what held since it came. *)
LEMMA ReadKept ==
  ASSUME TypeInv, TapType', ReadInv, Step, Noted
  PROVE  ReadInv'
<1> DEFINE Good == \A m \in Msg : ReadOK(msg'[m], since'[m], mode')
<1>0. Good => ReadInv'
  BY DEF ReadInv
<1>1. ASSUME msg' = msg, mode' = "code" => mode = "code" \/ Now.switching PROVE Good
  BY <1>1, Others
<1>2. ASSUME NEW m \in Msg, mode' = mode, \A n \in Msg \ {m} : msg'[n] = msg[n],
             ReadOK(msg'[m], since'[m], mode')
      PROVE  Good
  BY <1>2, Others
<1>3. ASSUME NEW m \in Msg, msg'[m].pc \in {"end", "gate"}
      PROVE  ReadOK(msg'[m], since'[m], mode')
  BY <1>3 DEF ReadOK, HasRow, HasAccess, HasValue
<1>4. ASSUME NEW m \in Msg PROVE ReadOK(msg[m], since[m], mode)
  BY DEF ReadInv
<1>a. ASSUME NEW m \in Msg, Arrive(m) PROVE Good
  <2>1. mode' = mode /\ msg'[m].pc \in {"end", "gate"} /\ \A n \in Msg \ {m} : msg'[n] = msg[n]
    BY <1>a, GotoType DEF Arrive, Places, TypeInv, choices
  <2> QED
    BY <2>1, <1>2, <1>3
<1>b. ASSUME NEW m \in Msg, Gate(m) PROVE Good
  <2>1. PICK pc \in {"end", "lower", "read"} :
          /\ Goto(m, pc) /\ (pc # "end" => (mode = "code" => Found.level = "code"))
    BY <1>b DEF Gate
  <2>2. mode' = mode /\ msg'[m].pc = pc /\ \A n \in Msg \ {m} : msg'[n] = msg[n]
    BY <1>b, <2>1, GotoType DEF Gate, Places, TypeInv, choices
  <2>3. ASSUME pc # "end" PROVE ReadOK(msg'[m], since'[m], mode')
    <3>1. Now.level = Found.level /\ Now.level \in since'[m].level
      BY <2>2, <2>3, Nows, Grow
    <3> QED
      BY <2>1, <2>2, <2>3, <3>1 DEF ReadOK, CodeSince, HasRow, HasAccess, HasValue
  <2> QED
    BY <2>2, <2>3, <1>2, <1>3
<1>c. ASSUME NEW m \in Msg, Lower(m) PROVE Good
  <2>1. mode' = mode /\ msg'[m].pc = "read" /\ \A n \in Msg \ {m} : msg'[n] = msg[n]
    BY <1>c, GotoType DEF Lower, Places, TypeInv
  <2>2. ReadOK(msg'[m], since[m], mode)
    BY <1>c, <1>4, <2>1 DEF Lower, ReadOK, HasRow, HasAccess, HasValue
  <2> QED
    BY <2>1, <2>2, <1>2, Mover
<1>d. ASSUME NEW m \in Msg, Read(m) PROVE Good
  <2>1. /\ msg'[m].pc = "lock" /\ msg'[m].mode = mode /\ msg'[m].own = stored.session
        /\ mode' = mode /\ \A n \in Msg \ {m} : msg'[n] = msg[n]
    BY <1>d DEF Read, MsgType, Reads, TypeInv, choices
  <2>2. mode \in since'[m].mode /\ stored.session \in since'[m].own
    BY <2>1, Nows, Grow
  <2>3. mode = "code" => CodeSince(since[m])
    BY <1>d, <1>4 DEF Read, ReadOK
  <2>4. CodeSince(since[m]) => CodeSince(since'[m])
    BY <2>1, Grow DEF CodeSince
  <2>5. ReadOK(msg'[m], since'[m], mode')
    BY <2>1, <2>2, <2>3, <2>4 DEF ReadOK, HasRow, HasAccess, HasValue
  <2> QED
    BY <2>1, <2>5, <1>2
<1>e. ASSUME NEW m \in Msg, Lock(m) PROVE Good
  <2>1. PICK pc \in {"inject", "base"} : Goto(m, pc)
    BY <1>e DEF Lock
  <2>2. mode' = mode /\ msg'[m].pc = pc /\ \A n \in Msg \ {m} : msg'[n] = msg[n]
    BY <1>e, <2>1, GotoType DEF Lock, Places, TypeInv, choices
  <2>3. msg'[m] = [msg[m] EXCEPT !.pc = pc]
    BY <2>1, GotoType DEF Places, TypeInv
  <2>4. ReadOK(msg'[m], since[m], mode)
    BY <1>e, <1>4, <2>2, <2>3
    DEF Lock, ReadOK, HasRow, HasAccess, HasValue, MsgType, TypeInv, Reads
  <2> QED
    BY <2>2, <2>4, <1>2, Mover
<1>f. ASSUME NEW m \in Msg, Inject(m) PROVE Good
  <2>1. PICK pc \in {"end", "base"} : Goto(m, pc)
    BY <1>f DEF Inject
  <2>2. mode' = mode /\ msg'[m].pc = pc /\ \A n \in Msg \ {m} : msg'[n] = msg[n]
    BY <1>f, <2>1, GotoType DEF Inject, Places, TypeInv, choices
  <2>3. ASSUME pc = "base" PROVE ReadOK(msg'[m], since'[m], mode')
    <3>1. msg'[m] = [msg[m] EXCEPT !.pc = pc]
      BY <2>1, <2>3, GotoType DEF Places, TypeInv
    <3>2. ReadOK(msg'[m], since[m], mode)
      BY <1>f, <1>4, <2>2, <2>3, <3>1
      DEF Inject, ReadOK, HasRow, HasAccess, HasValue, MsgType, TypeInv, Reads
    <3> QED
      BY <2>2, <2>3, <3>2, Mover
  <2> QED
    BY <2>2, <2>3, <1>2, <1>3
<1>g. ASSUME NEW m \in Msg, ReadBase(m) PROVE Good
  <2>1. /\ msg'[m] = [msg[m] EXCEPT !.pc = "defaults",
                                    !.access = EffectiveAccess(base, View.id.access)]
        /\ mode' = mode /\ \A n \in Msg \ {m} : msg'[n] = msg[n]
    BY <1>g DEF ReadBase, MsgType, TypeInv, choices
  <2>2. /\ msg'[m].pc = "defaults" /\ msg'[m].mode = msg[m].mode /\ msg'[m].own = msg[m].own
        /\ msg'[m].access = EffectiveAccess(base, View.id.access)
    BY <2>1 DEF MsgType, TypeInv, Reads
  <2>3. msg'[m].access \in since'[m].access
    BY <2>2, Nows, Grow
  <2>4. ReadOK(msg[m], since'[m], mode')
    BY <2>1, <2>2, <1>4, Mover
  <2>5. ReadOK(msg'[m], since'[m], mode')
    BY <1>g, <2>2, <2>3, <2>4 DEF ReadBase, ReadOK, HasRow, HasAccess, HasValue
  <2> QED
    BY <2>1, <2>5, <1>2
<1>h. ASSUME NEW m \in Msg, ReadDefaults(m) PROVE Good
  <2>1. /\ mode' = mode /\ \A n \in Msg \ {m} : msg'[n] = msg[n]
        /\ msg'[m].pc = "compare" /\ msg'[m].mode = msg[m].mode /\ msg'[m].own = msg[m].own
        /\ msg'[m].access = msg[m].access
        /\ msg'[m].val = Effective(msg[m].access, msg[m].own, stored.user, View.id.max)
    BY <1>h DEF ReadDefaults, MsgType, TypeInv, Reads, choices
  <2>2. stored.user \in since'[m].user /\ View.id.max \in since'[m].max
    BY <2>1, Nows, Grow
  <2>3. ReadOK(msg[m], since'[m], mode')
    BY <2>1, <1>4, Mover
  <2>4. msg[m].access \in since'[m].access /\ msg[m].own \in since'[m].own
    BY <1>h, <2>3 DEF ReadDefaults, ReadOK, HasRow, HasAccess
  <2>5. ValueSince(msg'[m].val, since'[m])
    BY <2>1, <2>2, <2>4 DEF ValueSince
  <2>6. ReadOK(msg'[m], since'[m], mode')
    BY <1>h, <2>1, <2>3, <2>5 DEF ReadDefaults, ReadOK, HasRow, HasAccess, HasValue
  <2> QED
    BY <2>1, <2>6, <1>2
<1>i. ASSUME NEW m \in Msg, Compare(m) \/ Rebuild(m) PROVE Good
  <2>1. CASE Enqueue(m)
    <3>1. mode' = mode /\ msg'[m].pc = "end" /\ \A n \in Msg \ {m} : msg'[n] = msg[n]
      BY <1>i, <2>1, EnqueueType DEF Compare, Rebuild, choices
    <3> QED
      BY <3>1, <1>2, <1>3
  <2>2. CASE Compare(m) /\ Goto(m, "close")
    <3>1. /\ mode' = mode /\ msg'[m] = [msg[m] EXCEPT !.pc = "close"]
          /\ \A n \in Msg \ {m} : msg'[n] = msg[n]
      BY <2>2, GotoType DEF Compare, Places, TypeInv, choices
    <3>2. msg'[m].pc = "close"
      BY <3>1 DEF MsgType, TypeInv, Reads
    <3>3. ReadOK(msg'[m], since[m], mode)
      BY <2>2, <1>4, <3>1, <3>2
      DEF Compare, ReadOK, HasRow, HasAccess, HasValue, MsgType, TypeInv, Reads
    <3> QED
      BY <3>1, <3>2, <3>3, <1>2, Mover
  <2> QED
    BY <1>i, <2>1, <2>2 DEF Compare, Rebuild
<1>j. ASSUME TurnStarts \/ TurnEnds \/ WorkerEnds PROVE Good
  BY <1>j, <1>1 DEF TurnStarts, TurnEnds, WorkerEnds, choices
<1>k. ASSUME NEW t \in Tap, TapStarts(t) \/ TapChecks(t) \/ TapRebuilds(t) PROVE Good
  BY <1>k, <1>1 DEF TapStarts, TapChecks, TapRebuilds, choices
<1>l. ASSUME NEW t \in Tap, TapWrites(t) PROVE Good
  <2>1. msg' = msg /\ (mode' = mode \/ mode' = tap[t].val) /\ tap[t].pc = "write"
    BY <1>l DEF TapWrites
  <2> QED
    BY <2>1, <1>1, Nows
<1>m. ASSUME OwnerChanges \/ FileChanges PROVE Good
  BY <1>m, <1>1 DEF OwnerChanges, FileChanges, choices
<1>n. ASSUME Restart PROVE Good
  <2>1. \A m \in Msg : msg'[m].pc \in {"off", "end"}
    BY <1>n DEF Restart, Off
  <2> QED
    BY <2>1 DEF ReadOK, HasRow, HasAccess, HasValue
<1> QED
  BY <1>0, <1>a, <1>b, <1>c, <1>d, <1>e, <1>f, <1>g, <1>h, <1>i, <1>j, <1>k, <1>l, <1>m, <1>n
  DEF Step

-----------------------------------------------------------------------------
(* The session                                                             *)

(* A message put at the end of the queue is the only new one in it.        *)
LEMMA Appended ==
  ASSUME queue \in Seq(Msg), NEW m \in Msg, queue' = Append(queue, m)
  PROVE  InQueue(m)' /\ \A n \in Msg \ {m} : InQueue(n)' => InQueue(n)
<1>1. /\ DOMAIN queue' = 1 .. (Len(queue) + 1) /\ queue'[Len(queue) + 1] = m
      /\ \A i \in DOMAIN queue' : i # Len(queue) + 1 => i \in DOMAIN queue /\ queue'[i] = queue[i]
  OBVIOUS
<1>2. Len(queue) + 1 \in DOMAIN queue'
  BY <1>1
<1> QED
  BY <1>1, <1>2 DEF InQueue

(* Taking the first message brings no other into the queue.                *)
LEMMA Taken ==
  ASSUME queue \in Seq(Msg), queue # <<>>, queue' = Tail(queue)
  PROVE  /\ Head(queue) \in Msg /\ InQueue(Head(queue))
         /\ \A n \in Msg : InQueue(n)' => InQueue(n)
<1>1. Head(queue) \in Msg /\ 1 \in DOMAIN queue /\ Head(queue) = queue[1]
  OBVIOUS
<1>2. \A i \in DOMAIN Tail(queue) : i + 1 \in DOMAIN queue /\ Tail(queue)[i] = queue[i + 1]
  OBVIOUS
<1> QED
  BY <1>1, <1>2 DEF InQueue

Holding == {"inject", "base", "defaults", "compare", "close"}

(* The client lives as long as the worker; only the message that holds the *)
(* lock builds or closes it; a message waits for its turn when it is done. *)
LEMMA SessionKept ==
  ASSUME TypeInv, TypeInv', SettingsAssumption, SessionInv, Step
  PROVE  SessionInv'
<1>0. MsgType /\ queue \in Seq(Msg) /\ lock \in Msg \cup {None} /\ cur \in Msg \cup {None}
      /\ worker \in {"off", "idle", "turn"} /\ None \notin Msg /\ None \notin Built
  BY DEF TypeInv, TypeOK, SettingsAssumption
<1>1. \A m \in Msg : msg[m].pc \in Holding => lock = m
  BY DEF SessionInv, Holding
<1>2. \A m \in Msg : msg[m].direct \in BOOLEAN
  BY <1>0 DEF MsgType, Reads
<1>3. ASSUME NEW m \in Msg, msg[m].pc # "end", \A n \in Msg \ {m} : msg'[n] = msg[n],
             ~msg'[m].direct, msg'[m].pc # "close", msg'[m].pc \in Holding => lock' = m,
             lock' = lock \/ lock = None \/ lock = m,
             UNCHANGED <<client, worker, cur, queue>>
      PROVE  SessionInv'
  <2>1. \A n \in Msg : msg'[n].pc \in Holding => lock' = n
    BY <1>0, <1>1, <1>3
  <2>2. ~(cur = m \/ InQueue(m))
    BY <1>3 DEF SessionInv
  <2> QED
    BY <1>3, <2>1, <2>2 DEF SessionInv, Holding, InQueue
<1>4. ASSUME NEW m \in Msg, msg[m].pc \in Holding, Enqueue(m), UNCHANGED cur, client' # None
      PROVE  SessionInv'
  <2>1. /\ msg'[m].pc = "end" /\ \A n \in Msg \ {m} : msg'[n] = msg[n]
        /\ worker' \in {"idle", "turn"} /\ lock' = None /\ queue' = Append(queue, m)
        /\ worker' # "turn" => worker # "turn"
    BY <1>4, <1>0, EnqueueType DEF Enqueue
  <2>2. \A n \in Msg : msg'[n].pc \notin Holding
    BY <1>0, <1>1, <1>4, <2>1 DEF Holding
  <2>3. \A n \in Msg \ {m} : InQueue(n)' => InQueue(n)
    BY <1>0, <2>1, Appended
  <2> QED
    BY <1>4, <2>1, <2>2, <2>3 DEF SessionInv, Holding
<1>5. ASSUME UNCHANGED <<session, msg>> PROVE SessionInv'
  BY <1>5 DEF SessionInv, InQueue, session
<1>a. ASSUME NEW m \in Msg, NEW pc \in {"end", "gate", "lower", "read"}, Goto(m, pc),
             msg[m].pc # "end", UNCHANGED session
      PROVE  SessionInv'
  <2>1. msg'[m].pc = pc /\ \A n \in Msg \ {m} : msg'[n] = msg[n]
    BY <1>a, <1>0, GotoType DEF Places
  <2>2. ~msg'[m].direct
    <3>1. CASE pc = "end"
      BY <1>a, <1>0, <3>1, GotoType DEF Places
    <3>2. CASE pc # "end"
      <4>1. msg'[m] = [msg[m] EXCEPT !.pc = pc]
        BY <1>a, <1>0, <3>2, GotoType DEF Places
      <4>2. ~msg[m].direct
        BY <1>a DEF SessionInv
      <4> QED
        BY <1>0, <4>1, <4>2 DEF MsgType, Reads
    <3> QED
      BY <3>1, <3>2
  <2> QED
    BY <1>a, <1>3, <2>1, <2>2 DEF Holding, session
<1>b. ASSUME NEW m \in Msg, Arrive(m) \/ Gate(m) \/ Lower(m) PROVE SessionInv'
  BY <1>b, <1>a DEF Arrive, Gate, Lower
<1>c. ASSUME NEW m \in Msg, Read(m) PROVE SessionInv'
  <2>1. msg'[m].pc = "lock" /\ msg'[m].direct = msg[m].direct /\ \A n \in Msg \ {m} : msg'[n] = msg[n]
    BY <1>c, <1>0 DEF Read, MsgType, Reads
  <2>2. ~msg[m].direct
    BY <1>c DEF Read, SessionInv
  <2> QED
    BY <1>c, <1>3, <2>1, <2>2 DEF Read, Holding, session
<1>d. ASSUME NEW m \in Msg, Lock(m) \/ Inject(m) PROVE SessionInv'
  <2>1. PICK pc \in {"inject", "base", "end"} :
          Goto(m, pc) /\ (pc # "end" => lock' = m) /\ (lock = None \/ lock = m)
    BY <1>1, <1>d DEF Lock, Inject, Holding
  <2>2. /\ msg'[m].pc = pc
        /\ pc = "end" => ~msg'[m].direct
        /\ \A n \in Msg \ {m} : msg'[n] = msg[n]
    BY <1>0, <2>1, GotoType DEF Places
  <2>3. ~msg[m].direct
    BY <1>d DEF Lock, Inject, SessionInv
  <2>4. pc # "end" => msg'[m].direct = msg[m].direct
    <3>1. pc # "end" => msg'[m] = [msg[m] EXCEPT !.pc = pc]
      BY <1>0, <2>1, GotoType DEF Places
    <3> QED
      BY <1>0, <3>1 DEF MsgType, Reads
  <2>5. msg[m].pc # "end" /\ UNCHANGED <<client, worker, cur, queue>>
    BY <1>d DEF Lock, Inject
  <2> QED
    BY <1>3, <2>1, <2>2, <2>3, <2>4, <2>5 DEF Holding
<1>e. ASSUME NEW m \in Msg, ReadBase(m) \/ ReadDefaults(m) PROVE SessionInv'
  <2>1. /\ msg'[m].pc \in {"defaults", "compare"} /\ msg'[m].direct = msg[m].direct
        /\ \A n \in Msg \ {m} : msg'[n] = msg[n]
    BY <1>e, <1>0 DEF ReadBase, ReadDefaults, MsgType, Reads
  <2>2. ~msg[m].direct /\ lock = m
    BY <1>e DEF ReadBase, ReadDefaults, SessionInv
  <2> QED
    BY <1>e, <1>3, <2>1, <2>2 DEF ReadBase, ReadDefaults, Holding, session
<1>f. ASSUME NEW m \in Msg, Compare(m) \/ Rebuild(m) PROVE SessionInv'
  <2>1. Wanted(m) # None
    BY <1>0, WantedType
  <2>2. CASE Enqueue(m) /\ client' # None
    BY <1>f, <1>4, <2>1, <2>2 DEF Compare, Rebuild, Holding
  <2>3. CASE /\ Compare(m) /\ worker = "off" /\ client' = None /\ Goto(m, "close")
             /\ UNCHANGED <<lock, worker, queue>>
    <3>1. /\ msg'[m].pc = "close" /\ msg'[m] = [msg[m] EXCEPT !.pc = "close"]
          /\ \A n \in Msg \ {m} : msg'[n] = msg[n]
      BY <1>0, <2>3, GotoType DEF Places
    <3>2. msg'[m].direct = msg[m].direct
      BY <1>0, <3>1 DEF MsgType, Reads
    <3>3. ~msg[m].direct /\ lock = m /\ ~(cur = m \/ InQueue(m))
      BY <2>3 DEF Compare, SessionInv
    <3> QED
      BY <1>0, <2>3, <3>1, <3>2, <3>3 DEF Compare, SessionInv, InQueue
  <2> QED
    BY <1>f, <1>0, <2>1, <2>2, <2>3 DEF Compare, Rebuild
<1>g. ASSUME TurnStarts PROVE SessionInv'
  BY <1>0, <1>g, Taken DEF TurnStarts, SessionInv
<1>h. ASSUME TurnEnds \/ WorkerEnds PROVE SessionInv'
  <2>1. \A m \in Msg : msg[m].pc = "close" => worker = "off" /\ client = None
    BY DEF SessionInv
  <2> QED
    BY <1>0, <1>h, <2>1 DEF TurnEnds, WorkerEnds, SessionInv, InQueue
<1>i. ASSUME NEW t \in Tap, TapStarts(t) \/ TapChecks(t) \/ TapWrites(t) PROVE SessionInv'
  BY <1>i, <1>5 DEF TapStarts, TapChecks, TapWrites
<1>j. ASSUME NEW t \in Tap, TapRebuilds(t) PROVE SessionInv'
  BY <1>0, <1>j DEF TapRebuilds, SessionInv, InQueue
<1>k. ASSUME OwnerChanges \/ FileChanges PROVE SessionInv'
  BY <1>k, <1>5 DEF OwnerChanges, FileChanges
<1>l. ASSUME Restart PROVE SessionInv'
  <2>1. \A m \in Msg : msg'[m].pc \in {"off", "end"} /\ ~msg'[m].direct
    BY <1>l DEF Restart, Off
  <2>2. queue' = <<>> /\ cur' = None /\ worker' = "off"
    BY <1>l DEF Restart
  <2>3. \A m \in Msg : ~InQueue(m)'
    BY <2>2 DEF InQueue
  <2> QED
    BY <1>0, <2>1, <2>2, <2>3 DEF SessionInv
<1> QED
  BY <1>b, <1>c, <1>d, <1>e, <1>f, <1>g, <1>h, <1>i, <1>j, <1>k, <1>l DEF Step

(* A turn that found the session idle keeps the client it got.             *)
LEMMA ObeyKept ==
  ASSUME TypeInv, SettingsAssumption, ReadInv, SessionInv, ObeyInv, Step, Noted
  PROVE  ObeyInv'
<1>0. MsgType /\ queue \in Seq(Msg) /\ cur \in Msg \cup {None} /\ None \notin Msg
      /\ \A m \in Msg : (cur = m \/ InQueue(m)) => msg[m].pc = "end"
  BY DEF TypeInv, TypeOK, SettingsAssumption, SessionInv
<1>1. ASSUME NEW n \in Msg, client' = client, msg'[n] = msg[n], cur' = n \/ InQueue(n)',
             cur = n \/ InQueue(n), msg'[n].direct
      PROVE  Obeyed(client', since'[n])
  <2>1. since'[n] = since[n]
    BY <1>0, <1>1, Stands
  <2>2. Obeyed(client, since[n])
    BY <1>1 DEF ObeyInv
  <2> QED
    BY <1>1, <2>1, <2>2
<1>2. ASSUME NEW m \in Msg, \A n \in Msg \ {m} : msg'[n] = msg[n], msg[m].pc # "end",
             UNCHANGED <<client, cur, queue>>
      PROVE  ObeyInv'
  <2>1. \A n \in Msg : InQueue(n)' <=> InQueue(n)
    BY <1>2 DEF InQueue
  <2>2. ~(cur' = m \/ InQueue(m)')
    BY <1>0, <1>2, <2>1
  <2> QED
    BY <1>1, <1>2, <2>1, <2>2 DEF ObeyInv
<1>3. ASSUME msg' = msg, client' = client,
             \A n \in Msg : cur' = n \/ InQueue(n)' => cur = n \/ InQueue(n)
      PROVE  ObeyInv'
  BY <1>1, <1>3 DEF ObeyInv
<1>4. ASSUME UNCHANGED <<session, msg>> PROVE ObeyInv'
  <2>1. \A n \in Msg : InQueue(n)' <=> InQueue(n)
    BY <1>4 DEF InQueue, session
  <2> QED
    BY <1>3, <1>4, <2>1 DEF session
<1>5. ASSUME NEW m \in Msg, msg[m].pc \in HasValue, Enqueue(m), UNCHANGED cur,
             client' = Wanted(m) \/ (client' = client /\ worker # "off"),
             worker # "off" => client' = client
      PROVE  ObeyInv'
  <2>1. /\ msg'[m].pc = "end" /\ msg'[m].direct = (worker = "off")
        /\ \A n \in Msg \ {m} : msg'[n] = msg[n]
    BY <1>5, EnqueueType
  <2>2. InQueue(m)' /\ \A n \in Msg \ {m} : InQueue(n)' => InQueue(n)
    BY <1>0, <1>5, Appended DEF Enqueue
  <2>3. CASE worker = "off"
    <3>1. queue = <<>> /\ cur = None
      BY <2>3 DEF SessionInv
    <3>2. \A n \in Msg \ {m} : ~(cur' = n \/ InQueue(n)')
      BY <1>0, <1>5, <2>2, <3>1 DEF InQueue
    <3>3. client' = Wanted(m) /\ since'[m] = since[m]
      BY <1>5, <2>1, <2>2, <2>3, Stands
    <3>4. ReadOK(msg[m], since[m], mode)
      BY DEF ReadInv
    <3>5. Wanted(m).val = msg[m].val /\ Wanted(m).mode = msg[m].mode
      BY DEF Wanted
    <3>6. Obeyed(client', since'[m])
      BY <1>5, <3>3, <3>4, <3>5 DEF Obeyed, ReadOK, HasRow, HasValue
    <3> QED
      BY <3>2, <3>6 DEF ObeyInv
  <2>4. CASE worker # "off"
    <3>1. ~msg'[m].direct
      BY <2>1, <2>4
    <3> QED
      BY <1>1, <1>5, <2>1, <2>2, <2>4, <3>1 DEF ObeyInv
  <2> QED
    BY <2>3, <2>4
<1>a. ASSUME NEW m \in Msg, Arrive(m) \/ Gate(m) \/ Lower(m) \/ Lock(m) \/ Inject(m)
      PROVE  ObeyInv'
  <2>1. PICK pc \in Places : Goto(m, pc)
    BY <1>a DEF Arrive, Gate, Lower, Lock, Inject, Places
  <2>2. \A n \in Msg \ {m} : msg'[n] = msg[n]
    BY <1>0, <2>1, GotoType
  <2> QED
    BY <1>a, <1>2, <2>2 DEF Arrive, Gate, Lower, Lock, Inject, session
<1>b. ASSUME NEW m \in Msg, Read(m) \/ ReadBase(m) \/ ReadDefaults(m) PROVE ObeyInv'
  <2>1. \A n \in Msg \ {m} : msg'[n] = msg[n]
    BY <1>0, <1>b DEF Read, ReadBase, ReadDefaults, MsgType
  <2> QED
    BY <1>b, <1>2, <2>1 DEF Read, ReadBase, ReadDefaults, session
<1>c. ASSUME NEW m \in Msg, Compare(m) \/ Rebuild(m) PROVE ObeyInv'
  <2>0. (worker # "off" => client # None) /\ (msg[m].pc = "close" => worker = "off")
    BY DEF SessionInv
  <2>1. CASE Enqueue(m) /\ (client' = Wanted(m) \/ (client' = client /\ worker # "off"))
             /\ (worker # "off" => client' = client)
    BY <1>c, <1>5, <2>1 DEF Compare, Rebuild, HasValue
  <2>2. CASE Compare(m) /\ worker = "off" /\ UNCHANGED queue
    <3>1. queue = <<>> /\ cur = None
      BY <2>2 DEF SessionInv
    <3>2. \A n \in Msg : ~(cur' = n \/ InQueue(n)')
      BY <1>0, <2>2, <3>1 DEF Compare, InQueue
    <3> QED
      BY <3>2 DEF ObeyInv
  <2> QED
    BY <1>c, <2>0, <2>1, <2>2 DEF Compare, Rebuild
<1>d. ASSUME TurnStarts PROVE ObeyInv'
  BY <1>0, <1>3, <1>d, Taken DEF TurnStarts
<1>e. ASSUME TurnEnds \/ WorkerEnds PROVE ObeyInv'
  <2>1. \A n \in Msg : InQueue(n)' <=> InQueue(n)
    BY <1>e DEF TurnEnds, WorkerEnds, InQueue
  <2> QED
    BY <1>0, <1>3, <1>e, <2>1 DEF TurnEnds, WorkerEnds
<1>f. ASSUME NEW t \in Tap, TapStarts(t) \/ TapChecks(t) \/ TapWrites(t) PROVE ObeyInv'
  BY <1>f, <1>4 DEF TapStarts, TapChecks, TapWrites
<1>g. ASSUME NEW t \in Tap, TapRebuilds(t) PROVE ObeyInv'
  <2>1. \A n \in Msg : InQueue(n)' <=> InQueue(n)
    BY <1>g DEF TapRebuilds, InQueue
  <2>2. CASE worker = "off"
    <3>1. queue = <<>> /\ cur = None
      BY <2>2 DEF SessionInv
    <3>2. \A n \in Msg : ~(cur' = n \/ InQueue(n)')
      BY <1>0, <1>g, <3>1 DEF TapRebuilds, InQueue
    <3> QED
      BY <3>2 DEF ObeyInv
  <2>3. CASE worker # "off"
    BY <1>3, <1>g, <2>1, <2>3 DEF TapRebuilds
  <2> QED
    BY <2>2, <2>3
<1>h. ASSUME OwnerChanges \/ FileChanges PROVE ObeyInv'
  BY <1>h, <1>4 DEF OwnerChanges, FileChanges
<1>i. ASSUME Restart PROVE ObeyInv'
  <2>1. \A m \in Msg : ~msg'[m].direct
    BY <1>i DEF Restart, Off
  <2> QED
    BY <2>1 DEF ObeyInv
<1> QED
  BY <1>a, <1>b, <1>c, <1>d, <1>e, <1>f, <1>g, <1>h, <1>i DEF Step

-----------------------------------------------------------------------------
(* Theorems                                                                *)

(* In the initial states nothing is under way.                             *)
LEMMA Initially ==
  ASSUME SettingsAssumption, FaultsAssumption, Init
  PROVE  IInv
<1>1. Absent \in Record
  BY DEF Absent, Record, Access, Levels
<1>2. AllowInv
  <2>1. PICK c \in Content : file = [ok |-> TRUE, data |-> c] /\ mem = c /\ may = {c}
    BY DEF Init, AllowInit
  <2>2. stamp = 1 /\ seen = 1 /\ faults \in Nat
    BY DEF Init, AllowInit, FaultsAssumption
  <2> QED
    BY <2>1, <2>2 DEF AllowInv, AllowTypeOK, RightsKept, View, OnDisk
<1>3. msg = [m \in Msg |-> Off] /\ Off \in Reads /\ Off.pc = "off" /\ ~Off.direct
  BY DEF Init, Off, Reads, Places, Values, Access
<1>4. tap = [t \in Tap |-> NoTap] /\ NoTap \in Changes /\ TapOK(NoTap)
  BY DEF Init, NoTap, Changes, TapOK, Access
<1>5. /\ base \in Access \ {"unset"} /\ mode \in {"chat", "code"}
      /\ stored \in [session : {"none", "max", "below"}, user : {"none", "low"}]
      /\ lock = None /\ cur = None /\ queue = <<>> /\ client = None /\ worker = "off"
      /\ edits \in Nat
  BY DEF Init, Access, SettingsAssumption
<1>6. TypeInv
  BY <1>2, <1>3, <1>4, <1>5 DEF TypeInv, TypeOK, MsgType, TapType, AllowInv
<1>7. ReadInv
  BY <1>3 DEF ReadInv, ReadOK, HasRow, HasAccess, HasValue
<1>8. SessionInv
  BY <1>3, <1>5 DEF SessionInv, InQueue, SettingsAssumption
<1>9. ObeyInv
  BY <1>3 DEF ObeyInv
<1> QED
  BY <1>2, <1>6, <1>7, <1>8, <1>9 DEF IInv

(* A step that changes nothing keeps the invariant.                        *)
LEMMA Stutter ==
  ASSUME IInv, UNCHANGED vars
  PROVE  IInv'
<1> USE DEF vars, session, choices, allowVars
<1>1. AllowInv'
  BY DEF IInv, AllowInv, AllowTypeOK, RightsKept, View, OnDisk
<1>2. TypeInv'
  BY <1>1 DEF IInv, AllowInv, TypeInv, TypeOK, MsgType, TapType
<1>3. ReadInv'
  BY DEF IInv, ReadInv
<1>4. SessionInv' /\ ObeyInv'
  BY DEF IInv, SessionInv, ObeyInv, InQueue
<1> QED
  BY <1>1, <1>2, <1>3, <1>4 DEF IInv

(* The inductive invariant holds.                                          *)
THEOREM Invariant == ASSUME SettingsAssumption, FaultsAssumption PROVE Spec => []IInv
<1>1. Init => IInv
  BY Initially
<1>2. IInv /\ [Next]_vars => IInv'
  <2> SUFFICES ASSUME IInv, [Next]_vars PROVE IInv'
    OBVIOUS
  <2>1. CASE UNCHANGED vars
    BY <2>1, Stutter
  <2>2. CASE Next
    <3>1. Step /\ Noted
      BY <2>2 DEF Next
    <3>2. AllowInv'
      BY <3>1, AllowKept DEF IInv
    <3>3. TypeInv'
      BY <3>1, <3>2, TypeKept DEF IInv
    <3>4. ReadInv'
      BY <3>1, <3>3, ReadKept DEF IInv, TypeInv
    <3>5. SessionInv' /\ ObeyInv'
      BY <3>1, <3>3, SessionKept, ObeyKept DEF IInv
    <3> QED
      BY <3>2, <3>3, <3>4, <3>5 DEF IInv
  <2> QED
    BY <2>1, <2>2
<1> QED
  BY <1>1, <1>2, PTL DEF Spec

(* Every variable has its type.                                            *)
THEOREM TypeCorrect == ASSUME SettingsAssumption, FaultsAssumption PROVE Spec => []TypeOK
<1>1. IInv => TypeOK
  BY DEF IInv, TypeInv
<1> QED
  BY <1>1, Invariant, PTL

(* What the bot acknowledged is in force and on disk, whatever saves fail, *)
(* hands edit the file or restarts happen in between (allowlist.py).       *)
THEOREM RightsStand == ASSUME SettingsAssumption, FaultsAssumption PROVE Spec => []RightsKept
<1>1. IInv => RightsKept
  BY DEF IInv, AllowInv
<1> QED
  BY <1>1, Invariant, PTL

(* The turn of an idle session runs with values and rights that held since *)
(* its message came, and in code only with the level (handle_text).        *)
THEOREM IdleObeys == ASSUME SettingsAssumption, FaultsAssumption PROVE Spec => []IdleTurnObeys
<1>1. IInv => IdleTurnObeys
  <2> SUFFICES ASSUME IInv, cur # None, msg[cur].direct PROVE Fresh(cur) /\ CodeNeedsLevel
    BY DEF IdleTurnObeys, IdleTurnIsFresh, CodeNeedsLevel
  <2>1. cur \in Msg
    BY DEF IInv, TypeInv, TypeOK
  <2>2. Obeyed(client, since[cur])
    BY <2>1 DEF IInv, ObeyInv
  <2> QED
    BY <2>2 DEF Obeyed, ValueSince, CodeSince, Fresh, CodeNeedsLevel
<1> QED
  BY <1>1, Invariant, PTL
-----------------------------------------------------------------------------
(* The tools and the memory of a client                                    *)

(* The tools of a client are those of its mode that its toggles and its    *)
(* cap allow; while a turn runs there is a client, and it may use no more  *)
(* than was granted.  Nobody has a note that was forgotten.                *)
Client == [mode : Levels, perm : {"ask", "acceptEdits", "bypass"},
           toggles : {All} \cup SUBSET Tools, cap : {All} \cup SUBSET Tools,
           level : Levels, tools : SUBSET Tools, notes : Seq(Notes)]
ClientOK(c, past) ==
  /\ c \in Client
  /\ c.tools = Cap!Universe(c.mode) \cap Cap!Within(c.toggles) \cap Cap!Within(c.cap)
  /\ Cap!Range(c.notes) \cap past = {}
StoredType ==
  /\ toolMode \in Levels /\ level \in Levels /\ perm \in {"ask", "acceptEdits", "bypass"}
  /\ toggles \in {All} \cup SUBSET Tools /\ cap \in {All} \cup SUBSET Tools
  /\ notes \in Seq(Notes)
ToolInv ==
  /\ StoredType
  /\ Cap!Range(notes) \cap gone = {}
  /\ built # None => ClientOK(built, gone)
  /\ turn # "idle" => ClientOK(built, gone) /\ built.tools \subseteq granted

(* Where nothing but the turn changes, and it does not begin, the          *)
(* invariant stays.                                                        *)
LEMMA QuietTools ==
  ASSUME ToolInv, StoredType', UNCHANGED <<notes, granted, gone>>,
         built' = built \/ (turn = "idle" /\ built' = None),
         turn' # "idle" => turn # "idle"
  PROVE  ToolInv'
BY DEF ToolInv, ClientOK

(* A flipped list is a list.                                               *)
LEMMA FlipType ==
  ASSUME NEW list \in {All} \cup SUBSET Tools, NEW universe \in SUBSET Tools, NEW tool \in universe
  PROVE  Cap!Flip(list, universe, tool) \in {All} \cup SUBSET Tools
BY DEF Cap!Flip, Cap!Within

(* A client that is built gets what the stored values allow.               *)
LEMMA MessageTools ==
  ASSUME ToolInv, Cap!Message
  PROVE  ToolInv'
<1> DEFINE m == IF level = "chat" THEN "chat" ELSE toolMode
<1>1. /\ turn = "idle" /\ toolMode' = m /\ granted' = Cap!ResolveTools(m)
      /\ built' = IF m # toolMode \/ Cap!Drifted(m) THEN Cap!Build(m) ELSE built
      /\ turn' = "running" /\ UNCHANGED <<toggles, cap, level, perm, notes, gone>>
  BY DEF Cap!Message
<1>2. m \in Levels
  BY DEF ToolInv, StoredType, Levels
<1> HIDE DEF m
<1>3. StoredType'
  BY <1>1, <1>2 DEF ToolInv, StoredType
<1>4. Cap!ResolveTools(m) = Cap!Universe(m) \cap Cap!Within(toggles) \cap Cap!Within(cap)
      /\ Cap!ResolveTools(m) \in SUBSET Tools
  BY DEF Cap!ResolveTools, Cap!Universe
<1>5. ClientOK(Cap!Build(m), gone) /\ Cap!Build(m).tools = Cap!ResolveTools(m)
  BY <1>2, <1>4 DEF Cap!Build, ClientOK, Client, ToolInv, StoredType
<1>6. CASE built' = Cap!Build(m)
  BY <1>1, <1>3, <1>5, <1>6 DEF ToolInv
<1>7. CASE built' = built /\ ~Cap!Drifted(m)
  <2>1. ClientOK(built, gone) /\ built.mode = m /\ built.toggles = toggles /\ built.cap = cap
    BY <1>7 DEF Cap!Drifted, ToolInv
  <2>2. built.tools = Cap!ResolveTools(m)
    BY <1>4, <2>1 DEF ClientOK
  <2> QED
    BY <1>1, <1>3, <1>7, <2>1, <2>2 DEF ToolInv
<1> QED
  BY <1>1, <1>6, <1>7

(* Notes that make room are notes, and no new ones.                        *)
LEMMA NoteApplied ==
  ASSUME NEW prior \in Seq(Notes), NEW note \in Notes, NEW replace \in BOOLEAN,
         NotesCap \in Nat \ {0}
  PROVE  /\ Cap!ApplyNote(prior, note, replace) \in Seq(Notes)
         /\ Cap!Range(Cap!ApplyNote(prior, note, replace)) \subseteq Cap!Range(prior) \cup {note}
<1> DEFINE blob == IF replace THEN <<note>> ELSE Append(prior, note)
           cut == SubSeq(blob, Len(blob) - NotesCap + 1, Len(blob))
<1>1. blob \in Seq(Notes) /\ \A i \in DOMAIN blob : blob[i] \in Cap!Range(prior) \cup {note}
  <2>1. CASE replace
    BY <2>1
  <2>2. CASE ~replace
    <3>1. \A i \in DOMAIN Append(prior, note) :
            (i \in DOMAIN prior /\ Append(prior, note)[i] = prior[i]) \/ Append(prior, note)[i] = note
      OBVIOUS
    <3> QED
      BY <2>2, <3>1 DEF Cap!Range
  <2> QED
    BY <2>1, <2>2
<1>2. Cap!ApplyNote(prior, note, replace) = IF Len(blob) > NotesCap THEN cut ELSE blob
  BY DEF Cap!ApplyNote
<1> HIDE DEF blob
<1>3. ASSUME Len(blob) > NotesCap
      PROVE  cut \in Seq(Notes) /\ \A i \in DOMAIN cut : cut[i] \in Cap!Range(prior) \cup {note}
  <2> DEFINE k == Len(blob) - NotesCap + 1
  <2>1. k \in 1..Len(blob) /\ Len(blob) \in 1..Len(blob) /\ k <= Len(blob)
    BY <1>1, <1>3
  <2> HIDE DEF k
  <2>2. /\ cut \in Seq(Notes) /\ Len(cut) = Len(blob) - k + 1
        /\ \A i \in 1..Len(blob) - k + 1 : cut[i] = blob[k + i - 1]
    BY <1>1, <2>1, SubSeqProperties DEF k
  <2>3. ASSUME NEW i \in DOMAIN cut PROVE cut[i] \in Cap!Range(prior) \cup {note}
    <3>1. i \in 1..Len(blob) - k + 1
      BY <2>2
    <3>2. k + i - 1 \in DOMAIN blob
      BY <1>1, <2>1, <3>1
    <3> QED
      BY <1>1, <2>2, <3>1, <3>2
  <2> QED
    BY <2>2, <2>3
<1> QED
  BY <1>1, <1>2, <1>3 DEF Cap!Range

(* What is remembered was not forgotten.                                   *)
LEMMA RememberTools ==
  ASSUME NotesCap \in Nat \ {0}, ToolInv, NEW note \in Notes, NEW replace \in BOOLEAN,
         Cap!Remember(note, replace)
  PROVE  ToolInv'
<1> DEFINE kept == Cap!ApplyNote(built.notes, note, replace)
<1>1. /\ turn # "idle" /\ note \notin gone
      /\ built' = [built EXCEPT !.notes = kept] /\ notes' = built'.notes
      /\ UNCHANGED <<toolMode, toggles, cap, level, perm, turn, granted, gone>>
  BY DEF Cap!Remember, Cap!stored
<1>2. ClientOK(built, gone) /\ built.tools \subseteq granted /\ built.notes \in Seq(Notes)
  BY <1>1 DEF ToolInv, ClientOK, Client
<1>3. kept \in Seq(Notes) /\ Cap!Range(kept) \cap gone = {}
  BY <1>1, <1>2, NoteApplied DEF ClientOK
<1> HIDE DEF kept
<1>4. /\ built' \in Client /\ built'.notes = kept /\ built'.mode = built.mode
      /\ built'.toggles = built.toggles /\ built'.cap = built.cap /\ built'.tools = built.tools
  BY <1>1, <1>2, <1>3 DEF ClientOK, Client
<1>5. ClientOK(built', gone')
  BY <1>1, <1>2, <1>3, <1>4 DEF ClientOK
<1>6. StoredType'
  BY <1>1, <1>3, <1>4 DEF ToolInv, StoredType
<1> QED
  BY <1>1, <1>2, <1>3, <1>4, <1>5, <1>6 DEF ToolInv

(* What is forgotten is nobody's: the client that had it is closed.        *)
LEMMA ForgetTools ==
  ASSUME ToolInv, Cap!Forget
  PROVE  ToolInv'
<1>1. /\ notes' = <<>> /\ gone' = (IF turn = "idle" THEN gone \cup Cap!Range(notes) ELSE gone)
      /\ built' = (IF turn = "idle" THEN None ELSE built)
      /\ UNCHANGED <<toolMode, toggles, cap, level, perm, turn, granted>>
  BY DEF Cap!Forget, Cap!DropIdle, Cap!stored
<1>2. StoredType' /\ Cap!Range(notes') = {}
  BY <1>1 DEF ToolInv, StoredType, Cap!Range
<1> QED
  BY <1>1, <1>2 DEF ToolInv

(* Every step of Capabilities.                                             *)
LEMMA NextTools ==
  ASSUME NotesCap \in Nat \ {0}, ToolInv, [Cap!Next]_capVars
  PROVE  ToolInv'
<1>1. CASE UNCHANGED capVars
  <2>1. UNCHANGED <<toolMode, toggles, cap, level, perm, notes, built, turn, granted, gone>>
    BY <1>1 DEF capVars
  <2> QED
    BY <2>1, QuietTools DEF ToolInv, StoredType
<1>2. CASE Cap!Message
  BY <1>2, MessageTools
<1>3. CASE Cap!Queue \/ Cap!TurnEnds \/ Cap!Evict
  BY <1>3, QuietTools DEF Cap!Queue, Cap!TurnEnds, Cap!Evict, Cap!stored, ToolInv, StoredType
<1>4. ASSUME NEW tool \in Tools, Cap!ToggleTool(tool) \/ Cap!CapTool(tool) PROVE ToolInv'
  <2>1. CASE Cap!ToggleTool(tool)
    <3>1. toggles' \in {All} \cup SUBSET Tools
      BY <2>1 DEF Cap!ToggleTool, Cap!Flip, Cap!Within, Cap!Universe
    <3> QED
      BY <2>1, <3>1, QuietTools DEF Cap!ToggleTool, Cap!DropIdle, ToolInv, StoredType
  <2>2. CASE Cap!CapTool(tool)
    <3>1. cap' \in {All} \cup SUBSET Tools
      BY <2>2, FlipType DEF Cap!CapTool, ToolInv, StoredType
    <3> QED
      BY <2>2, <3>1, QuietTools DEF Cap!CapTool, ToolInv, StoredType
  <2> QED
    BY <1>4, <2>1, <2>2
<1>5. CASE Cap!SetLevel \/ Cap!SwitchMode \/ Cap!SetPerm
  BY <1>5, QuietTools DEF Cap!SetLevel, Cap!SwitchMode, Cap!SetPerm, Cap!DropIdle, ToolInv, StoredType, Levels
<1>6. CASE Cap!Forget
  BY <1>6, ForgetTools
<1>7. ASSUME NEW note \in Notes, NEW replace \in BOOLEAN, Cap!Remember(note, replace) PROVE ToolInv'
  BY <1>7, RememberTools
<1> QED
  BY <1>1, <1>2, <1>3, <1>4, <1>5, <1>6, <1>7 DEF Cap!Next

(* There is no client, and nothing was forgotten.                          *)
LEMMA InitTools == Cap!Init => ToolInv
BY DEF Cap!Init, ToolInv, StoredType, Levels, Cap!Range

(* The invariant of Capabilities holds, whichever part a behaviour follows.*)
THEOREM ToolsStay == MCSpec => []ToolInv
<1>1. MCInit => ToolInv
  BY InitTools DEF MCInit
<1>2. ToolInv /\ [MCNext]_mcvars => ToolInv'
  <2> SUFFICES ASSUME ToolInv, [MCNext]_mcvars PROVE ToolInv'
    OBVIOUS
  <2>1. [Cap!Next]_capVars
    BY DEF MCNext, mcvars
  <2> QED
    BY <2>1, NextTools, AccessAssumption DEF Cap!CapabilitiesAssumption
<1> QED
  BY <1>1, <1>2, PTL DEF MCSpec

(* A turn uses without a question no tool that was not granted when its    *)
(* worker began, and no risky command without bypass (_build_options).     *)
THEOREM GrantHolds == MCSpec => []ToolsWithinGrant
<1>1. ToolInv => ToolsWithinGrant
  <2> SUFFICES ASSUME ToolInv, NEW tool \in Tools, NEW risky \in BOOLEAN, Cap!Runs(tool, risky)
               PROVE  tool \in granted /\ (risky /\ tool = "Bash" => built.perm = "bypass")
    BY DEF ToolsWithinGrant, Cap!ToolsWithinGrant
  <2>1. turn # "idle" /\ tool \in built.tools /\ Cap!Unasked(tool, risky)
    BY DEF Cap!Runs
  <2>2. built.tools \subseteq granted /\ built.tools \subseteq Cap!Universe(built.mode)
    BY <2>1 DEF ToolInv, ClientOK
  <2>3. ASSUME risky, tool = "Bash" PROVE built.perm = "bypass"
    <3>1. built.mode # "chat"
      BY <2>1, <2>2, <2>3 DEF Cap!Universe, Cap!ChatTools
    <3> QED
      BY <2>1, <2>3, <3>1 DEF Cap!Unasked, Cap!AutoAllowed, Cap!EditTools
  <2> QED
    BY <2>1, <2>2, <2>3
<1> QED
  BY <1>1, ToolsStay, PTL

(* A note that /forget cleared on an idle thread is in no later client and *)
(* never stored again (cmd_forget, _remember_tool).                        *)
THEOREM ForgottenForGood == MCSpec => []ForgottenStays
<1>1. ToolInv => ForgottenStays
  BY DEF ToolInv, ClientOK, ForgottenStays, Cap!ForgottenStays
<1> QED
  BY <1>1, ToolsStay, PTL

-----------------------------------------------------------------------------
(* The subscription's usage                                                *)

(* A write that waits has its writer, and the last one has the snapshot;   *)
(* the signature is of the snapshot.                                       *)
Info == [used : Used \cup {None}, status : {"allowed", "allowed_warning", "rejected"}]
Snaps == [Window -> {None} \cup Info]
Texts == {Use!Pinned_text(s) : s \in Snaps}
Writes == Seq([by : Use!Writer, snap : Snaps])
WriteInv ==
  /\ snap \in Snaps /\ kv.snap \in Snaps /\ writes \in Writes
  /\ sig = None \/ sig = snap
  /\ \A i \in DOMAIN writes : at[writes[i].by] = "store"
  /\ \A i, j \in DOMAIN writes : writes[i].by = writes[j].by => i = j
  /\ writes # <<>> => writes[Len(writes)].snap = snap
  /\ writes = <<>> => unsaved \/ kv.snap = snap

(* What a refresh has in hand is a text, or a message that was sent.       *)
Flying == {"edit", "send", "sent"}
Steps == {"idle", "store", "pin"} \cup Flying
RefreshType ==
  /\ at \in [Use!Writer -> Steps] /\ DOMAIN text = Use!Writer /\ posts \in Seq(Texts)
  /\ DOMAIN kv = {"snap", "mode", "pinned"}
  /\ pinned \in {None} \cup DOMAIN posts /\ kv.pinned \in {None} \cup DOMAIN posts
  /\ \A w \in Use!Writer :
       /\ at[w] = "edit" => pinned # None
       /\ at[w] \in {"edit", "send"} => text[w] \in Texts
       /\ at[w] = "sent" => text[w] \in DOMAIN posts

(* As long as no refresh overlapped or failed, only one is under way, and  *)
(* unless somebody is about to start one it carries the snapshot; when     *)
(* none is, the message shows it.                                          *)
Upcoming == \E w \in Use!Writer : at[w] \in {"store", "pin"}
Alone == \A v, w \in Use!Writer : at[v] \in Flying /\ at[w] \in Flying => v = w
Carried(w) ==
  /\ at[w] \in {"edit", "send"} => text[w] = Use!Pinned_text(snap)
  /\ at[w] = "sent" => posts[text[w]] = Use!Pinned_text(snap)
Current ==
  /\ \A w \in Use!Writer : Carried(w)
  /\ (\A w \in Use!Writer : at[w] \notin Flying) =>
       pinned # None /\ posts[pinned] = Use!Pinned_text(snap)
Settled == pinMode = "pinned" /\ Use!Pinned_text(snap) # Use!Empty /\ ~Upcoming => Current
RefreshInv == RefreshType /\ (~stale => Alone /\ Settled)
UseInv == WriteInv /\ RefreshInv

(* Nothing of the usage changes.                                           *)
LEMMA SameUsage == ASSUME UseInv, UNCHANGED useVars PROVE UseInv'
<1>1. UNCHANGED <<snap, sig, pinMode, pinned, kv, writes, at, text, posts, stale, unsaved>>
  BY DEF useVars
<1>2. WriteInv'
  BY <1>1 DEF UseInv, WriteInv
<1>3. RefreshType'
  BY <1>1 DEF UseInv, RefreshInv, RefreshType
<1>4. ~stale => Alone' /\ Settled'
  BY <1>1 DEF UseInv, RefreshInv, Alone, Settled, Upcoming, Current, Carried
<1> QED
  BY <1>1, <1>2, <1>3, <1>4 DEF UseInv, RefreshInv

(* The snapshot's text is a text.                                          *)
LEMMA SnapshotText == ASSUME WriteInv PROVE Use!Pinned_text(snap) \in Texts
BY DEF WriteInv, Texts

(* Every write has a writer and a snapshot.                                *)
LEMMA WriteType ==
  ASSUME NEW q \in Writes, NEW i \in DOMAIN q
  PROVE  q[i] \in [by : Use!Writer, snap : Snaps] /\ q[i].by \in Use!Writer
<1> DEFINE Entry == [by : Use!Writer, snap : Snaps]
<1>1. q \in Seq(Entry)
  BY DEF Writes
<1>2. q[i] \in Entry
  <2> HIDE DEF Entry
  <2> QED
    BY <1>1
<1> QED
  BY <1>2

(* The writes stay true of a snapshot that stays, when no writer that      *)
(* waits goes on.                                                          *)
LEMMA QuietWrites ==
  ASSUME WriteInv, UNCHANGED <<snap, sig, writes, unsaved>>, kv'.snap = kv.snap,
         \A v \in Use!Writer : at[v] = "store" => at'[v] = "store"
  PROVE  WriteInv'
<1>1. \A i \in DOMAIN writes : writes[i].by \in Use!Writer
  BY WriteType DEF WriteInv
<1> QED
  BY <1>1 DEF WriteInv

(* Whoever changes the snapshot appends it to the writes, with its         *)
(* signature, and is about to refresh the pin.                             *)
LEMMA StoreUsage ==
  ASSUME UseInv, NEW w \in Use!Writer, at[w] = "idle", snap' \in Snaps, Use!Store(w),
         UNCHANGED <<pinMode, pinned, kv, text, posts, stale, unsaved>>
  PROVE  UseInv'
<1> DEFINE e == [by |-> w, snap |-> snap']
<1>1. /\ sig' = snap' /\ writes' = Append(writes, e) /\ at' = [at EXCEPT ![w] = "store"]
  BY DEF Use!Store, Use!Signature, Snaps
<1>2. /\ writes \in Writes /\ e \in [by : Use!Writer, snap : Snaps] /\ e.by = w /\ e.snap = snap'
      /\ at \in [Use!Writer -> Steps]
  BY DEF UseInv, WriteInv, RefreshInv, RefreshType
<1> HIDE DEF e
<1>3. /\ writes' \in Writes /\ Len(writes') = Len(writes) + 1 /\ Len(writes) \in Nat
      /\ writes' # <<>> /\ writes'[Len(writes')] = e
      /\ \A i \in DOMAIN writes' : \/ i \in DOMAIN writes /\ writes'[i] = writes[i]
                                   \/ i = Len(writes) + 1 /\ writes'[i] = e
  BY <1>1, <1>2, AppendProperties DEF Writes
<1>4. at'[w] = "store" /\ \A v \in Use!Writer : v # w => at'[v] = at[v]
  BY <1>1, <1>2
<1>5. \A i \in DOMAIN writes : writes[i].by \in Use!Writer /\ at[writes[i].by] = "store" /\ writes[i].by # w
  BY <1>2, WriteType DEF UseInv, WriteInv
<1>6. \A i \in DOMAIN writes' : at'[writes'[i].by] = "store"
  BY <1>2, <1>3, <1>4, <1>5
<1>7. \A i, j \in DOMAIN writes' : writes'[i].by = writes'[j].by => i = j
  <2> SUFFICES ASSUME NEW i \in DOMAIN writes', NEW j \in DOMAIN writes', writes'[i].by = writes'[j].by
               PROVE  i = j
    OBVIOUS
  <2>1. CASE i \in DOMAIN writes /\ j \in DOMAIN writes /\ writes'[i] = writes[i] /\ writes'[j] = writes[j]
    BY <2>1 DEF UseInv, WriteInv
  <2> QED
    BY <1>2, <1>3, <1>5, <2>1
<1>8. WriteInv'
  BY <1>1, <1>2, <1>3, <1>6, <1>7 DEF UseInv, WriteInv
<1>9. RefreshType'
  BY <1>1, <1>2, <1>4 DEF UseInv, RefreshInv, RefreshType, Steps
<1>10. stale' = stale /\ Upcoming' /\ (Alone => Alone')
  BY <1>4 DEF Upcoming, Alone, Flying
<1> QED
  BY <1>8, <1>9, <1>10 DEF UseInv, RefreshInv, Settled

(* A reading that changes nothing the signature covers changes nothing.    *)
LEMMA StoreIfChangedUsage ==
  ASSUME None \notin Snaps, UseInv, NEW w \in Use!Writer, at[w] = "idle", snap' \in Snaps,
         Use!StoreIfChanged(w), UNCHANGED <<pinMode, pinned, kv, text, posts, stale, unsaved>>
  PROVE  UseInv'
<1>1. CASE Use!Store(w)
  BY <1>1, StoreUsage
<1>2. CASE Use!Signature(snap') = sig /\ UNCHANGED <<sig, writes, at>>
  <2>1. snap' = sig
    BY <1>2 DEF Use!Signature, Snaps
  <2>2. snap' = snap
    BY <2>1 DEF UseInv, WriteInv
  <2>3. WriteInv'
    BY <1>2, <2>2 DEF UseInv, WriteInv
  <2>4. RefreshType'
    BY <1>2, <2>2 DEF UseInv, RefreshInv, RefreshType
  <2>5. Settled => Settled'
    BY <1>2, <2>2 DEF Settled, Upcoming, Current, Carried
  <2>6. Alone => Alone'
    BY <1>2 DEF Alone
  <2> QED
    BY <2>3, <2>4, <2>5, <2>6 DEF UseInv, RefreshInv
<1> QED
  BY <1>1, <1>2 DEF Use!StoreIfChanged

(* What the poller, an event or a failed turn put into the snapshot.       *)
LEMMA ReadingUsage ==
  ASSUME Use!UsageAssumption, None \notin Snaps, UseInv,
         Use!Poll \/ \E t \in Turn : Use!RateLimit(t) \/ Use!LimitHit(t) \/ Use!Result(t)
  PROVE  UseInv'
<1>1. snap \in Snaps /\ Turn \subseteq Use!Writer /\ Use!Poller \in Use!Writer
  BY DEF UseInv, WriteInv, Use!Writer
<1>2. Use!Reading \subseteq Info /\ Use!Event \subseteq Info
  BY DEF Use!Reading, Use!Event, Use!StatusFor, Info
<1>3. CASE Use!Poll
  <2>1. PICK got \in [Window -> Use!Reading \cup {None}] :
          snap' = [w \in Window |-> IF got[w] = None THEN snap[w] ELSE got[w]]
    BY <1>3 DEF Use!Poll
  <2>2. snap' \in Snaps
    BY <1>1, <1>2, <2>1 DEF Snaps
  <2> QED
    BY <1>1, <1>3, <2>2, StoreIfChangedUsage DEF Use!Poll
<1>4. ASSUME NEW t \in Turn, Use!RateLimit(t) PROVE UseInv'
  <2>1. snap' \in Snaps
    BY <1>1, <1>2, <1>4 DEF Use!RateLimit, Snaps
  <2> QED
    BY <1>1, <1>4, <2>1, StoreIfChangedUsage DEF Use!RateLimit
<1>5. ASSUME NEW t \in Turn, Use!LimitHit(t) PROVE UseInv'
  <2> DEFINE guess == [used |-> IF snap[Five] = None THEN None ELSE snap[Five].used, status |-> "rejected"]
  <2>1. snap' = [snap EXCEPT ![Five] = guess]
    BY <1>5 DEF Use!LimitHit
  <2>2. snap[Five] \in {None} \cup Info
    BY <1>1 DEF Snaps, Use!UsageAssumption
  <2>3. guess \in Info
    BY <2>2 DEF Info
  <2> HIDE DEF guess
  <2>4. snap' \in Snaps
    BY <1>1, <2>1, <2>3 DEF Snaps
  <2> QED
    BY <1>1, <1>5, <2>4, StoreUsage DEF Use!LimitHit
<1>6. ASSUME NEW t \in Turn, Use!Result(t) PROVE UseInv'
  <2>1. snap' \in Snaps
    BY <1>1, <1>6 DEF Use!Result, Snaps
  <2> QED
    BY <1>1, <1>6, <2>1, StoreUsage DEF Use!Result
<1> QED
  BY <1>3, <1>4, <1>5, <1>6

(* Who pins is about to refresh; who unpins is promised nothing.           *)
LEMMA SetModeUsage ==
  ASSUME UseInv, NEW m \in {"off", "pinned"}, Use!SetMode(m)
  PROVE  UseInv'
<1>1. /\ at[Use!Owner] = "idle" /\ pinMode' = m /\ kv' = [kv EXCEPT !.mode = m]
      /\ at' = (IF m = "pinned" THEN [at EXCEPT ![Use!Owner] = "pin"] ELSE at)
      /\ UNCHANGED <<snap, sig, pinned, writes, text, posts, stale, unsaved>>
  BY DEF Use!SetMode
<1>2. Use!Owner \in Use!Writer /\ at \in [Use!Writer -> Steps] /\ DOMAIN kv = {"snap", "mode", "pinned"}
  BY DEF UseInv, RefreshInv, RefreshType, Use!Writer
<1>3. kv'.snap = kv.snap /\ kv'.pinned = kv.pinned /\ DOMAIN kv' = {"snap", "mode", "pinned"}
  BY <1>1, <1>2
<1>4. /\ \A v \in Use!Writer : v # Use!Owner => at'[v] = at[v]
      /\ at'[Use!Owner] \in {"idle", "pin"} /\ (m = "pinned" => at'[Use!Owner] = "pin")
      /\ at' \in [Use!Writer -> Steps]
  BY <1>1, <1>2 DEF Steps
<1>5. WriteInv'
  <2>1. \A v \in Use!Writer : at[v] = "store" => at'[v] = "store"
    BY <1>1, <1>4
  <2> QED
    BY <1>1, <1>3, <2>1, QuietWrites DEF UseInv
<1>6. RefreshType'
  BY <1>1, <1>2, <1>3, <1>4 DEF UseInv, RefreshInv, RefreshType
<1>7. Alone => Alone'
  BY <1>4 DEF Alone, Flying
<1>8. Settled'
  BY <1>1, <1>2, <1>4 DEF Settled, Upcoming
<1> QED
  BY <1>1, <1>5, <1>6, <1>7, <1>8 DEF UseInv, RefreshInv

(* The last write brings the database the snapshot.                        *)
LEMMA StoredUsage ==
  ASSUME UseInv, Use!Stored
  PROVE  UseInv'
<1> DEFINE e == Head(writes)
<1>1. /\ writes # <<>> /\ writes' = Tail(writes) /\ at' = [at EXCEPT ![e.by] = "pin"]
      /\ \/ kv' = [kv EXCEPT !.snap = e.snap] /\ unsaved' = FALSE
         \/ unsaved' = TRUE /\ kv' = kv
      /\ UNCHANGED <<snap, sig, pinMode, pinned, text, posts, stale>>
  BY DEF Use!Stored, Use!mem
<1>2. /\ writes \in Writes /\ at \in [Use!Writer -> Steps] /\ kv.snap \in Snaps
      /\ DOMAIN kv = {"snap", "mode", "pinned"} /\ e = writes[1] /\ 1 \in DOMAIN writes
      /\ e \in [by : Use!Writer, snap : Snaps] /\ e.by \in Use!Writer /\ at[e.by] = "store"
  <2>1. /\ writes \in Writes /\ at \in [Use!Writer -> Steps] /\ kv.snap \in Snaps
        /\ DOMAIN kv = {"snap", "mode", "pinned"}
    BY DEF UseInv, WriteInv, RefreshInv, RefreshType
  <2>2. e = writes[1] /\ 1 \in DOMAIN writes
    BY <1>1, <2>1 DEF Writes
  <2> QED
    BY <2>1, <2>2, WriteType DEF UseInv, WriteInv
<1>3. /\ writes' \in Writes /\ Len(writes') = Len(writes) - 1 /\ Len(writes) \in Nat
      /\ DOMAIN writes' = 1..Len(writes')
      /\ \A i \in DOMAIN writes' : i + 1 \in DOMAIN writes /\ i + 1 # 1 /\ i \in Nat
                                   /\ writes'[i] = writes[i + 1]
  BY <1>1, <1>2, HeadTailProperties DEF Writes
<1> HIDE DEF e
<1>4. at'[e.by] = "pin" /\ (\A v \in Use!Writer : v # e.by => at'[v] = at[v])
      /\ at' \in [Use!Writer -> Steps]
  BY <1>1, <1>2 DEF Steps
<1>5. \A i \in DOMAIN writes' : at'[writes'[i].by] = "store"
  <2> SUFFICES ASSUME NEW i \in DOMAIN writes' PROVE at'[writes'[i].by] = "store"
    OBVIOUS
  <2>1. writes[i + 1].by \in Use!Writer /\ writes[i + 1].by # writes[1].by /\ at[writes[i + 1].by] = "store"
    <3>1. i + 1 \in DOMAIN writes /\ 1 \in DOMAIN writes /\ i + 1 # 1
      BY <1>2, <1>3
    <3> QED
      BY <1>2, <3>1, WriteType DEF UseInv, WriteInv
  <2> QED
    BY <1>2, <1>3, <1>4, <2>1
<1>6. \A i, j \in DOMAIN writes' : writes'[i].by = writes'[j].by => i = j
  <2> SUFFICES ASSUME NEW i \in DOMAIN writes', NEW j \in DOMAIN writes', writes'[i].by = writes'[j].by
               PROVE  i = j
    OBVIOUS
  <2>1. i + 1 = j + 1
    BY <1>3 DEF UseInv, WriteInv
  <2> QED
    BY <1>3, <2>1
<1>7. writes' # <<>> => writes'[Len(writes')].snap = snap'
  <2> SUFFICES ASSUME writes' # <<>> PROVE writes'[Len(writes')].snap = snap'
    OBVIOUS
  <2>1. Len(writes') \in DOMAIN writes' /\ Len(writes') + 1 = Len(writes)
    BY <1>3 DEF Writes
  <2> QED
    BY <1>1, <1>3, <2>1 DEF UseInv, WriteInv
<1>8. writes' = <<>> => unsaved' \/ kv'.snap = snap'
  <2> SUFFICES ASSUME writes' = <<>>, ~unsaved' PROVE kv'.snap = snap'
    OBVIOUS
  <2>1. Len(writes) = 1
    BY <1>3
  <2>2. e.snap = snap
    BY <1>1, <1>2, <2>1 DEF UseInv, WriteInv
  <2> QED
    BY <1>1, <1>2, <2>2
<1>9. /\ kv'.snap \in Snaps /\ kv'.pinned = kv.pinned /\ DOMAIN kv' = {"snap", "mode", "pinned"}
  BY <1>1, <1>2
<1>10. WriteInv'
  BY <1>1, <1>3, <1>5, <1>6, <1>7, <1>8, <1>9 DEF UseInv, WriteInv
<1>11. RefreshType'
  BY <1>1, <1>2, <1>4, <1>9 DEF UseInv, RefreshInv, RefreshType
<1>12. Upcoming' /\ (Alone => Alone')
  <2>1. e.by \in Use!Writer
    BY <1>2
  <2> QED
    BY <1>2, <1>4, <2>1 DEF Upcoming, Alone, Flying
<1> QED
  BY <1>1, <1>10, <1>11, <1>12 DEF UseInv, RefreshInv, Settled

(* A refresh begins: it has the snapshot's text, unless another is under   *)
(* way.                                                                    *)
LEMMA PinUsage ==
  ASSUME UseInv, NEW w \in Use!Writer, Use!Pin(w)
  PROVE  UseInv'
<1>1. at[w] = "pin" /\ UNCHANGED <<snap, sig, pinMode, pinned, kv, writes, posts, unsaved>>
  BY DEF Use!Pin, Use!mem
<1>2. at \in [Use!Writer -> Steps] /\ DOMAIN text = Use!Writer
  BY DEF UseInv, RefreshInv, RefreshType
<1>3. CASE (pinMode # "pinned" \/ Use!Pinned_text(snap) = Use!Empty) /\ at' = [at EXCEPT ![w] = "idle"]
           /\ UNCHANGED <<text, stale>>
  <2>1. at'[w] = "idle" /\ at' \in [Use!Writer -> Steps] /\ \A v \in Use!Writer : v # w => at'[v] = at[v]
    BY <1>2, <1>3 DEF Steps
  <2>2. WriteInv'
    BY <1>1, <2>1, QuietWrites DEF UseInv
  <2>3. RefreshType'
    BY <1>1, <1>3, <2>1 DEF UseInv, RefreshInv, RefreshType
  <2>4. Settled' /\ (Alone => Alone')
    BY <1>1, <1>3, <2>1 DEF Settled, Alone, Flying
  <2> QED
    BY <1>3, <2>2, <2>3, <2>4 DEF UseInv, RefreshInv
<1>4. CASE /\ pinMode = "pinned" /\ Use!Pinned_text(snap) # Use!Empty
           /\ at' = [at EXCEPT ![w] = IF pinned = None THEN "send" ELSE "edit"]
           /\ text' = [text EXCEPT ![w] = Use!Pinned_text(snap)] /\ stale' = (stale \/ Use!InFlight(w))
  <2>1. /\ at'[w] \in {"send", "edit"} /\ (at'[w] = "edit" => pinned # None)
        /\ at' \in [Use!Writer -> Steps] /\ \A v \in Use!Writer : v # w => at'[v] = at[v]
    BY <1>2, <1>4 DEF Steps, Flying
  <2>2. /\ text'[w] = Use!Pinned_text(snap) /\ DOMAIN text' = Use!Writer
        /\ \A v \in Use!Writer : v # w => text'[v] = text[v]
    BY <1>2, <1>4
  <2>3. WriteInv'
    BY <1>1, <2>1, QuietWrites DEF UseInv
  <2>4. RefreshType'
    BY <1>1, <2>1, <2>2, SnapshotText DEF UseInv, RefreshInv, RefreshType
  <2>5. ASSUME ~stale' PROVE Alone' /\ Settled'
    <3>1. \A v \in Use!Writer : v # w => at'[v] \notin Flying
      BY <1>4, <2>1, <2>5 DEF Use!InFlight, Flying
    <3>2. \A v \in Use!Writer : Carried(v)'
      BY <1>1, <2>1, <2>2, <3>1 DEF Carried, Flying
    <3> QED
      BY <2>1, <3>1, <3>2 DEF Alone, Settled, Current, Flying
  <2> QED
    BY <2>3, <2>4, <2>5 DEF UseInv, RefreshInv
<1> QED
  BY <1>3, <1>4 DEF Use!Pin

(* An edit is refused: the text goes into a new message.                   *)
LEMMA EditRefusedUsage ==
  ASSUME UseInv, NEW w \in Use!Writer, Use!EditRefused(w)
  PROVE  UseInv'
<1>1. /\ at[w] = "edit" /\ at' = [at EXCEPT ![w] = "send"]
      /\ UNCHANGED <<snap, sig, pinMode, pinned, kv, writes, text, posts, stale, unsaved>>
  BY DEF Use!EditRefused, Use!mem
<1>2. at'[w] = "send" /\ at' \in [Use!Writer -> Steps] /\ \A v \in Use!Writer : v # w => at'[v] = at[v]
  BY <1>1 DEF UseInv, RefreshInv, RefreshType, Steps, Flying
<1>3. WriteInv'
  BY <1>1, <1>2, QuietWrites DEF UseInv
<1>4. RefreshType'
  BY <1>1, <1>2 DEF UseInv, RefreshInv, RefreshType
<1>5. \A v \in Use!Writer : (at'[v] \in Flying) = (at[v] \in Flying)
                            /\ (at'[v] \in {"store", "pin"}) = (at[v] \in {"store", "pin"})
  BY <1>1, <1>2 DEF Flying
<1>6. Alone => Alone'
  BY <1>5 DEF Alone
<1>7. \A v \in Use!Writer : Carried(v) => Carried(v)'
  BY <1>1, <1>2 DEF Carried
<1>8. Settled => Settled'
  BY <1>1, <1>5, <1>7 DEF Settled, Upcoming, Current
<1> QED
  BY <1>1, <1>3, <1>4, <1>6, <1>8 DEF UseInv, RefreshInv

(* A message is sent and waits to be pinned.                               *)
LEMMA SentUsage ==
  ASSUME UseInv, NEW w \in Use!Writer, Use!Sent(w)
  PROVE  UseInv'
<1>1. /\ at[w] = "send" /\ posts' = Append(posts, text[w]) /\ at' = [at EXCEPT ![w] = "sent"]
      /\ text' = [text EXCEPT ![w] = Len(posts')]
      /\ UNCHANGED <<snap, sig, pinMode, pinned, kv, writes, stale, unsaved>>
  BY DEF Use!Sent, Use!mem
<1>2. at'[w] = "sent" /\ at' \in [Use!Writer -> Steps] /\ \A v \in Use!Writer : v # w => at'[v] = at[v]
  BY <1>1 DEF UseInv, RefreshInv, RefreshType, Steps, Flying
<1>3. /\ posts \in Seq(Texts) /\ text[w] \in Texts /\ DOMAIN text = Use!Writer
  BY <1>1 DEF UseInv, RefreshInv, RefreshType
<1>4. /\ posts' \in Seq(Texts) /\ Len(posts') \in DOMAIN posts' /\ posts'[Len(posts')] = text[w]
      /\ \A i \in DOMAIN posts : i \in DOMAIN posts' /\ posts'[i] = posts[i]
  BY <1>1, <1>3, AppendProperties
<1>5. /\ text'[w] = Len(posts') /\ DOMAIN text' = Use!Writer
      /\ \A v \in Use!Writer : v # w => text'[v] = text[v]
  BY <1>1, <1>3
<1>6. WriteInv'
  BY <1>1, <1>2, QuietWrites DEF UseInv
<1>7. RefreshType'
  BY <1>1, <1>2, <1>4, <1>5 DEF UseInv, RefreshInv, RefreshType
<1>8. \A v \in Use!Writer : (at'[v] \in Flying) = (at[v] \in Flying)
                            /\ (at'[v] \in {"store", "pin"}) = (at[v] \in {"store", "pin"})
  BY <1>1, <1>2 DEF Flying
<1>9. Alone => Alone'
  BY <1>8 DEF Alone
<1>10. \A v \in Use!Writer : Carried(v) => Carried(v)'
  <2> SUFFICES ASSUME NEW v \in Use!Writer, Carried(v) PROVE Carried(v)'
    OBVIOUS
  <2>1. CASE v = w
    BY <1>1, <1>2, <1>4, <1>5, <2>1 DEF Carried
  <2>2. CASE v # w
    <3>1. at[v] = "sent" => text[v] \in DOMAIN posts
      BY DEF UseInv, RefreshInv, RefreshType
    <3> QED
      BY <1>1, <1>2, <1>4, <1>5, <2>2, <3>1 DEF Carried
  <2> QED
    BY <2>1, <2>2
<1>11. Settled => Settled'
  <2>1. at'[w] \in Flying
    BY <1>2 DEF Flying
  <2> QED
    BY <1>1, <1>8, <1>10, <2>1 DEF Settled, Upcoming, Current
<1> QED
  BY <1>1, <1>6, <1>7, <1>9, <1>11 DEF UseInv, RefreshInv

(* A refresh ends: it made the pinned message show a text.                 *)
LEMMA EndsUsage ==
  ASSUME UseInv, NEW w \in Use!Writer, at[w] \in Flying, NEW shows, Use!Ends(w, shows),
         UNCHANGED <<snap, sig, pinMode, writes, unsaved>>, kv'.snap = kv.snap,
         DOMAIN kv' = {"snap", "mode", "pinned"}, kv'.pinned \in {None} \cup DOMAIN posts',
         posts' \in Seq(Texts), DOMAIN posts' = DOMAIN posts,
         pinned' \in DOMAIN posts', pinned' # None, posts'[pinned'] = shows,
         Carried(w) => shows = Use!Pinned_text(snap)
  PROVE  UseInv'
<1>1. /\ at' = [at EXCEPT ![w] = "idle"] /\ text' = [text EXCEPT ![w] = None]
      /\ stale' = (stale /\ (Use!InFlight(w) \/ shows # Use!Pinned_text(snap)))
  BY DEF Use!Ends
<1>2. at'[w] = "idle" /\ at' \in [Use!Writer -> Steps] /\ \A v \in Use!Writer : v # w => at'[v] = at[v]
  BY <1>1 DEF UseInv, RefreshInv, RefreshType, Steps
<1>3. DOMAIN text' = Use!Writer /\ \A v \in Use!Writer : v # w => text'[v] = text[v]
  BY <1>1 DEF UseInv, RefreshInv, RefreshType
<1>4. WriteInv'
  <2>1. \A v \in Use!Writer : at[v] = "store" => at'[v] = "store"
    BY <1>2 DEF Flying
  <2> QED
    BY <2>1, QuietWrites DEF UseInv
<1>5. RefreshType'
  BY <1>2, <1>3 DEF UseInv, RefreshInv, RefreshType
<1>6. ASSUME ~stale' PROVE Alone' /\ Settled'
  <2>1. \A v \in Use!Writer : at'[v] \notin Flying
    <3>1. CASE ~stale
      BY <1>2, <3>1 DEF UseInv, RefreshInv, Alone, Flying
    <3>2. CASE ~Use!InFlight(w)
      BY <1>2, <3>2 DEF Use!InFlight, Flying
    <3> QED
      BY <1>1, <1>6, <3>1, <3>2
  <2>2. ASSUME pinMode = "pinned", Use!Pinned_text(snap) # Use!Empty, ~Upcoming'
        PROVE  shows = Use!Pinned_text(snap)
    <3>1. CASE ~stale
      <4>1. ~Upcoming
        BY <1>2, <2>2 DEF Upcoming, Flying
      <4> QED
        BY <2>2, <3>1, <4>1 DEF UseInv, RefreshInv, Settled, Current
    <3> QED
      BY <1>1, <1>6, <3>1
  <2>3. \A v \in Use!Writer : Carried(v)'
    BY <2>1 DEF Carried, Flying
  <2> QED
    BY <2>1, <2>2, <2>3 DEF Alone, Settled, Current
<1> QED
  BY <1>4, <1>5, <1>6 DEF UseInv, RefreshInv

(* The pinned message is edited.                                           *)
LEMMA EditedUsage ==
  ASSUME UseInv, NEW w \in Use!Writer, Use!Edited(w)
  PROVE  UseInv'
<1>1. /\ at[w] = "edit" /\ posts' = [posts EXCEPT ![pinned] = text[w]] /\ Use!Ends(w, text[w])
      /\ UNCHANGED <<snap, sig, pinMode, pinned, kv, writes, unsaved>>
  BY DEF Use!Edited, Use!mem
<1>2. /\ posts \in Seq(Texts) /\ text[w] \in Texts /\ pinned \in DOMAIN posts /\ pinned # None
      /\ kv.pinned \in {None} \cup DOMAIN posts /\ DOMAIN kv = {"snap", "mode", "pinned"}
  BY <1>1 DEF UseInv, RefreshInv, RefreshType
<1>3. posts' \in Seq(Texts) /\ DOMAIN posts' = DOMAIN posts /\ posts'[pinned] = text[w]
  BY <1>1, <1>2
<1>4. Carried(w) => text[w] = Use!Pinned_text(snap)
  BY <1>1 DEF Carried
<1>5. at[w] \in Flying
  BY <1>1 DEF Flying
<1> QED
  BY <1>1, <1>2, <1>3, <1>4, <1>5, EndsUsage

(* The new message is pinned.                                              *)
LEMMA AdoptUsage ==
  ASSUME None \notin Nat, UseInv, NEW w \in Use!Writer, Use!Adopt(w)
  PROVE  UseInv'
<1>1. /\ at[w] = "sent" /\ pinned' = text[w] /\ kv' = [kv EXCEPT !.pinned = text[w]]
      /\ Use!Ends(w, posts[text[w]]) /\ UNCHANGED <<snap, sig, pinMode, writes, posts, unsaved>>
  BY DEF Use!Adopt
<1>2. /\ posts \in Seq(Texts) /\ text[w] \in DOMAIN posts /\ DOMAIN kv = {"snap", "mode", "pinned"}
  BY <1>1 DEF UseInv, RefreshInv, RefreshType
<1>3. text[w] # None
  BY <1>2
<1>4. kv'.snap = kv.snap /\ kv'.pinned = text[w] /\ DOMAIN kv' = {"snap", "mode", "pinned"}
  BY <1>1, <1>2
<1>5. Carried(w) => posts[text[w]] = Use!Pinned_text(snap)
  BY <1>1 DEF Carried
<1>6. at[w] \in Flying
  BY <1>1 DEF Flying
<1> QED
  BY <1>1, <1>2, <1>3, <1>4, <1>5, <1>6, EndsUsage

(* A failed send and a restart promise nothing until the next refresh.     *)
LEMMA LossUsage ==
  ASSUME UseInv, Use!Restart \/ \E w \in Use!Writer : Use!SendFails(w)
  PROVE  UseInv'
<1>1. CASE Use!Restart
  <2>1. /\ snap' = kv.snap /\ pinned' = kv.pinned /\ sig' = None /\ writes' = <<>> /\ stale' = TRUE
        /\ at' = [v \in Use!Writer |-> "idle"] /\ text' = [v \in Use!Writer |-> None]
        /\ UNCHANGED <<kv, posts>>
    BY <1>1 DEF Use!Restart
  <2>2. WriteInv'
    BY <2>1 DEF UseInv, WriteInv, Writes
  <2>3. RefreshType'
    BY <2>1 DEF UseInv, RefreshInv, RefreshType, Steps
  <2> QED
    BY <2>1, <2>2, <2>3 DEF UseInv, RefreshInv
<1>2. ASSUME NEW w \in Use!Writer, Use!SendFails(w) PROVE UseInv'
  <2>1. /\ at[w] = "send" /\ stale' = TRUE /\ at' = [at EXCEPT ![w] = "idle"]
        /\ text' = [text EXCEPT ![w] = None]
        /\ UNCHANGED <<snap, sig, pinMode, pinned, kv, writes, posts, unsaved>>
    BY <1>2 DEF Use!SendFails, Use!mem
  <2>2. at'[w] = "idle" /\ at' \in [Use!Writer -> Steps] /\ \A v \in Use!Writer : v # w => at'[v] = at[v]
    BY <2>1 DEF UseInv, RefreshInv, RefreshType, Steps
  <2>3. WriteInv'
    BY <2>1, <2>2, QuietWrites DEF UseInv
  <2>4. RefreshType'
    BY <2>1, <2>2 DEF UseInv, RefreshInv, RefreshType
  <2> QED
    BY <2>1, <2>3, <2>4 DEF UseInv, RefreshInv
<1> QED
  BY <1>1, <1>2

(* Every step of Usage.                                                    *)
LEMMA NextUsage ==
  ASSUME Use!UsageAssumption, UseInv, [Use!Next]_useVars
  PROVE  UseInv'
<1>1. None \notin Nat /\ None \notin Snaps
  BY DEF Use!UsageAssumption, Snaps, Info
<1>2. CASE UNCHANGED useVars
  BY <1>2, SameUsage
<1>3. CASE Use!Poll \/ \E t \in Turn : Use!RateLimit(t) \/ Use!LimitHit(t) \/ Use!Result(t)
  BY <1>1, <1>3, ReadingUsage
<1>4. CASE Use!Stored
  BY <1>4, StoredUsage
<1>5. ASSUME NEW m \in {"off", "pinned"}, Use!SetMode(m) PROVE UseInv'
  BY <1>5, SetModeUsage
<1>6. CASE Use!Restart \/ \E w \in Use!Writer : Use!SendFails(w)
  BY <1>6, LossUsage
<1>7. ASSUME NEW w \in Use!Writer,
             Use!Pin(w) \/ Use!Edited(w) \/ Use!EditRefused(w) \/ Use!Sent(w) \/ Use!Adopt(w)
      PROVE  UseInv'
  BY <1>1, <1>7, PinUsage, EditedUsage, EditRefusedUsage, SentUsage, AdoptUsage
<1> QED
  BY <1>2, <1>3, <1>4, <1>5, <1>6, <1>7 DEF Use!Next

(* The snapshot is empty and nothing is pinned.                            *)
LEMMA InitUsage == Use!Init => UseInv
<1> SUFFICES ASSUME Use!Init PROVE UseInv
  OBVIOUS
<1>1. /\ snap = Use!Empty /\ sig = None /\ pinMode = "off" /\ pinned = None
      /\ kv = [snap |-> Use!Empty, mode |-> "off", pinned |-> None] /\ writes = <<>>
      /\ at = [w \in Use!Writer |-> "idle"] /\ text = [w \in Use!Writer |-> None] /\ posts = <<>>
  BY DEF Use!Init
<1>2. Use!Empty \in Snaps
  BY DEF Use!Empty, Snaps
<1>3. WriteInv
  BY <1>1, <1>2 DEF WriteInv, Writes
<1>4. RefreshType
  BY <1>1 DEF RefreshType, Steps
<1>5. Alone /\ Settled
  BY <1>1 DEF Alone, Settled, Flying
<1> QED
  BY <1>3, <1>4, <1>5 DEF UseInv, RefreshInv

(* When nobody is at work the database has the snapshot, unless its last   *)
(* write failed, and the pinned message shows it, unless a refresh failed  *)
(* or overlapped (update_pinned, _persist_rate), for any number of turns.  *)
THEOREM QuotaShown == MCSpec => []SnapshotShown
<1>1. MCInit => UseInv
  BY InitUsage DEF MCInit
<1>2. UseInv /\ [MCNext]_mcvars => UseInv'
  <2> SUFFICES ASSUME UseInv, [MCNext]_mcvars PROVE UseInv'
    OBVIOUS
  <2>1. [Use!Next]_useVars
    BY DEF MCNext, mcvars
  <2> QED
    BY <2>1, NextUsage, AccessAssumption
<1>3. UseInv => SnapshotShown
  <2> SUFFICES ASSUME UseInv, \A w \in Use!Writer : at[w] = "idle"
               PROVE  /\ unsaved \/ kv.snap = snap
                      /\ pinMode = "pinned" /\ Use!Pinned_text(snap) # Use!Empty /\ ~stale =>
                           pinned # None /\ posts[pinned] = Use!Pinned_text(snap)
    BY DEF SnapshotShown, Use!SnapshotShown
  <2>1. writes = <<>>
    <3> SUFFICES ASSUME writes # <<>> PROVE FALSE
      OBVIOUS
    <3>1. 1 \in DOMAIN writes /\ writes \in Writes
      BY DEF UseInv, WriteInv, Writes
    <3>2. at[writes[1].by] = "store" /\ writes[1].by \in Use!Writer
      BY <3>1, WriteType DEF UseInv, WriteInv
    <3> QED
      BY <3>2
  <2>2. ~Upcoming /\ \A w \in Use!Writer : at[w] \notin Flying
    BY DEF Upcoming, Flying
  <2> QED
    BY <2>1, <2>2 DEF UseInv, WriteInv, RefreshInv, Settled, Current
<1> QED
  BY <1>1, <1>2, <1>3, PTL DEF MCSpec
=============================================================================
