-------------------------- MODULE Services_proofs --------------------------
(***************************************************************************)
(* What MCServices checks of the bridge to MAX (Bridge), of the sessions'  *)
(* directories (Dirs), of the calendar (Cal) and of the markup on small    *)
(* bounds, proved for any number of updates and replies, of sessions, uids *)
(* and restarts, for days, weeks and changes of the clock of any length,   *)
(* and for replies of any length.                                          *)
(***************************************************************************)
EXTENDS MCServices, FiniteSetTheorems, SequenceTheorems, WellFoundedInduction, TLAPS

-----------------------------------------------------------------------------
(* MaxBridge                                                               *)

(* Updates up to the marker, or the end of the batch in hand, were handed  *)
(* out once each, the others not yet; what a restart brings back excepted. *)
Cursor == IF batch = 0 THEN marker ELSE batch
PollInv ==
  /\ marker \in 0..MaxUpdates /\ saved \in 0..marker
  /\ batch \in {0} \cup (marker + 1..MaxUpdates)
  /\ handled \in [Bridge!Update -> Nat]
  /\ \A u \in Bridge!Update \ replayed : handled[u] = IF u <= Cursor THEN 1 ELSE 0

Holding == {"set", "clear", "drop", "edit"}
Replies == [pc : Holding \cup {"off", "run", "post", "part", "done"}, part : Nat \ {0},
            drafts : Nat, media : BOOLEAN, mid : Nat]

(* Whoever holds the mid of an indicator, a reply, the registry or a       *)
(* deletion, is the only one, and it is an indicator still.                *)
Shows == {i \in DOMAIN chat : chat[i] = Bridge!Indicator}
Chat == \E n \in Nat : chat = [i \in 1..n |-> chat[i]]
Holds(u, i) == reply[u].pc \in Holding /\ reply[u].mid = i
HoldInv ==
  /\ ph \in [mid : Nat, old : BOOLEAN] /\ (ph.mid = 0 => ph = Bridge!NoPh)
  /\ ph # Bridge!NoPh => ph.mid \in Shows /\ ph.mid \notin quiet
  /\ \A i \in quiet : i \in Shows
  /\ \A u \in Bridge!Update : reply[u].pc \in Holding =>
       /\ reply[u].mid \in Shows /\ reply[u].mid \notin quiet /\ reply[u].mid # ph.mid
       /\ \A v \in Bridge!Update : Holds(v, reply[u].mid) => v = u

MaxInv == PollInv /\ Chat /\ reply \in [Bridge!Update -> Replies] /\ HoldInv /\ Bridge!PartsKept

Kept(v, k) == [of |-> v, part |-> k] \in delivered \cup {chat[i] : i \in DOMAIN chat}

LEMMA MaxStarts ==
  ASSUME Bridge!MaxAssumption, Bridge!Init
  PROVE  MaxInv
<1>1. PollInv
  BY DEF Bridge!Init, PollInv, Cursor, Bridge!MaxAssumption, Bridge!Update
<1>2. Chat
  <2>1. chat = [i \in 1..0 |-> chat[i]]
    BY DEF Bridge!Init
  <2> QED
    BY <2>1 DEF Chat
<1>3. reply \in [Bridge!Update -> Replies] /\ \A u \in Bridge!Update : reply[u] = Bridge!Off
  BY DEF Bridge!Init, Bridge!Off, Replies
<1>4. HoldInv
  BY <1>3 DEF Bridge!Init, HoldInv, Bridge!NoPh, Bridge!Off, Holding
<1>5. Bridge!PartsKept
  BY <1>3 DEF Bridge!PartsKept, Bridge!Off
<1> QED
  BY <1>1, <1>2, <1>3, <1>4, <1>5 DEF MaxInv

(* What the chat keeps: parts stay when only indicators change.            *)
LEMMA PartsStay ==
  ASSUME Bridge!PartsKept, delivered \subseteq delivered',
         \A i \in DOMAIN chat : i \in DOMAIN chat' /\ (chat'[i] = chat[i] \/ chat[i] = Bridge!Indicator),
         NEW v \in Bridge!Update, NEW k \in 1..reply[v].part - 1
  PROVE  Kept(v, k)'
<1>1. [of |-> v, part |-> k] \in delivered \cup {chat[i] : i \in DOMAIN chat}
  BY DEF Bridge!PartsKept, Bridge!Mids
<1>2. [of |-> v, part |-> k] # Bridge!Indicator
  BY DEF Bridge!Indicator, Bridge!Update
<1> QED
  BY <1>1, <1>2 DEF Kept

(* One reply goes on: its new parts are in the chat, and a mid it holds is *)
(* an indicator nobody else holds.                                         *)
LEMMA ReplyMoves ==
  ASSUME MaxInv, NEW u \in Bridge!Update, NEW r \in Replies, reply' = [reply EXCEPT ![u] = r],
         NEW p \in Nat, p = reply[u].part, UNCHANGED Bridge!poll, delivered \subseteq delivered', Chat',
         \A i \in DOMAIN chat : i \in DOMAIN chat' /\ (chat'[i] = chat[i] \/ chat[i] = Bridge!Indicator),
         r.part \in {1, p} \/ (r.part = p + 1 /\ Kept(u, p)'),
         HoldInv'
  PROVE  MaxInv'
<1>1. PollInv'
  BY DEF MaxInv, PollInv, Cursor, Bridge!poll
<1>2. /\ reply' \in [Bridge!Update -> Replies] /\ reply'[u] = r
      /\ \A v \in Bridge!Update : v # u => reply'[v] = reply[v]
  BY DEF MaxInv
<1>3. Bridge!PartsKept'
  <2> SUFFICES ASSUME NEW v \in Bridge!Update, NEW k \in 1..reply'[v].part - 1
               PROVE  Kept(v, k)'
    BY DEF Bridge!PartsKept, Kept, Bridge!Mids
  <2>1. reply[u].part \in Nat /\ r.part \in Nat
    BY DEF MaxInv, Replies
  <2>2. CASE k \in 1..reply[v].part - 1
    BY <2>2, PartsStay DEF MaxInv
  <2>3. CASE k \notin 1..reply[v].part - 1
    <3>1. v = u
      BY <1>2, <2>3
    <3>2. r.part = reply[u].part + 1 /\ k = reply[u].part
      BY <1>2, <2>1, <2>3, <3>1
    <3> QED
      BY <2>1, <3>1, <3>2
  <2> QED
    BY <2>2, <2>3
<1> QED
  BY <1>1, <1>2, <1>3 DEF MaxInv

(* One indicator is turned into something else.                            *)
LEMMA TurnsOne ==
  ASSUME Chat, NEW mid, mid \in Shows, NEW m, Bridge!Turns(mid, m)
  PROVE  /\ Chat' /\ DOMAIN chat' = DOMAIN chat /\ chat'[mid] = m
         /\ \A i \in DOMAIN chat : i # mid => chat'[i] = chat[i]
         /\ \A i \in DOMAIN chat : chat'[i] = chat[i] \/ chat[i] = Bridge!Indicator
<1>1. PICK n \in Nat : chat = [i \in 1..n |-> chat[i]]
  BY DEF Chat
<1>2. mid \in 1..n /\ chat[mid] = Bridge!Indicator /\ chat' = [chat EXCEPT ![mid] = m]
  BY <1>1 DEF Shows, Bridge!Turns
<1>3. chat' = [i \in 1..n |-> chat'[i]]
  BY <1>1, <1>2
<1> QED
  BY <1>1, <1>2, <1>3 DEF Chat

(* One message is added at the end.                                        *)
LEMMA AddsOne ==
  ASSUME Chat, NEW m, Bridge!Add(m)
  PROVE  /\ Chat' /\ Bridge!Last \in Nat /\ Bridge!Last + 1 \notin DOMAIN chat
         /\ DOMAIN chat' = DOMAIN chat \cup {Bridge!Last + 1} /\ chat'[Bridge!Last + 1] = m
         /\ \A i \in DOMAIN chat : chat'[i] = chat[i]
<1>1. PICK n \in Nat : chat = [i \in 1..n |-> chat[i]]
  BY DEF Chat
<1>2. Bridge!Mids = 1..n
  BY <1>1 DEF Bridge!Mids
<1>3. Cardinality(1..n) = n
  BY FS_Interval
<1>4. Bridge!Last = n
  BY <1>2, <1>3 DEF Bridge!Last, Bridge!Cardinality, Cardinality
<1>5. chat' = [i \in 1..n + 1 |-> IF i \in Bridge!Mids THEN chat[i] ELSE m]
  BY <1>4 DEF Bridge!Add
<1>6. DOMAIN chat' = 1..n + 1 /\ n + 1 \in Nat /\ chat' = [i \in 1..n + 1 |-> chat'[i]]
  BY <1>5
<1> QED
  BY <1>1, <1>2, <1>4, <1>5, <1>6 DEF Chat

(* The indicator a reply or the registry holds goes to another holder or   *)
(* to none.                                                                *)
LEMMA Takes ==
  ASSUME MaxInv, NEW u \in Bridge!Update, NEW r \in Replies, reply' = [reply EXCEPT ![u] = r],
         UNCHANGED <<chat, quiet>>, ph' \in {ph, Bridge!NoPh},
         r.pc \in Holding => \/ reply[u].pc \in Holding /\ r.mid = reply[u].mid
                             \/ ph # Bridge!NoPh /\ r.mid = ph.mid /\ ph' = Bridge!NoPh
  PROVE  HoldInv'
<1>1. /\ reply' \in [Bridge!Update -> Replies] /\ reply'[u] = r
      /\ \A v \in Bridge!Update : v # u => reply'[v] = reply[v]
  BY DEF MaxInv
<1>2. \A i : i \in Shows' <=> i \in Shows
  BY DEF Shows
<1>3. \A i : i \in Shows => i # 0
  BY DEF MaxInv, Chat, Shows
<1>4. ph \in [mid : Nat, old : BOOLEAN] /\ (ph.mid = 0 => ph = Bridge!NoPh)
  BY DEF MaxInv, HoldInv
<1>10. /\ ph' \in [mid : Nat, old : BOOLEAN] /\ (ph'.mid = 0 => ph' = Bridge!NoPh)
       /\ ph' # Bridge!NoPh => ph' = ph
       /\ ph'.mid \in {0, ph.mid}
  <2>1. Bridge!NoPh \in [mid : Nat, old : BOOLEAN] /\ Bridge!NoPh.mid = 0
    BY DEF Bridge!NoPh
  <2> QED
    BY <1>4, <2>1, Zenon
<1>5. /\ ph' # Bridge!NoPh => ph'.mid \in Shows' /\ ph'.mid \notin quiet'
      /\ \A i \in quiet' : i \in Shows'
  <2>1. quiet' = quiet /\ \A i \in quiet : i \in Shows
    BY DEF MaxInv, HoldInv
  <2>2. ph # Bridge!NoPh => ph.mid \in Shows /\ ph.mid \notin quiet
    BY DEF MaxInv, HoldInv
  <2> QED
    BY <1>2, <1>10, <2>1, <2>2
<1>6. \A v \in Bridge!Update : v # u /\ reply'[v].pc \in Holding =>
        /\ reply'[v].mid \in Shows' /\ reply'[v].mid \notin quiet' /\ reply'[v].mid # ph'.mid
        /\ \A w \in Bridge!Update : w # u /\ Holds(w, reply[v].mid) => w = v
  <2> SUFFICES ASSUME NEW v \in Bridge!Update, v # u, reply'[v].pc \in Holding
               PROVE  /\ reply'[v].mid \in Shows' /\ reply'[v].mid \notin quiet'
                      /\ reply'[v].mid # ph'.mid
                      /\ \A w \in Bridge!Update : w # u /\ Holds(w, reply[v].mid) => w = v
    OBVIOUS
  <2>1. /\ reply[v].mid \in Shows /\ reply[v].mid \notin quiet /\ reply[v].mid # ph.mid
        /\ \A w \in Bridge!Update : Holds(w, reply[v].mid) => w = v
    BY <1>1 DEF MaxInv, HoldInv
  <2> QED
    BY <1>1, <1>2, <1>3, <1>10, <2>1
<1>7. r.pc \in Holding =>
        /\ r.mid \in Shows' /\ r.mid \notin quiet' /\ r.mid # ph'.mid
        /\ \A v \in Bridge!Update : v # u => ~Holds(v, r.mid)
  <2>1. CASE reply[u].pc \in Holding /\ r.mid = reply[u].mid
    BY <1>2, <1>3, <1>10, <2>1 DEF MaxInv, HoldInv
  <2>2. CASE ph # Bridge!NoPh /\ r.mid = ph.mid /\ ph' = Bridge!NoPh
    BY <1>2, <1>3, <2>2 DEF MaxInv, HoldInv, Holds, Bridge!NoPh
  <2> QED
    BY <2>1, <2>2
<1>8. \A v, w \in Bridge!Update :
        reply'[v].pc \in Holding /\ reply'[w].pc \in Holding /\ reply'[w].mid = reply'[v].mid => w = v
  BY <1>1, <1>6, <1>7 DEF Holds
<1>9. \A v \in Bridge!Update : reply'[v].pc \in Holding =>
        reply'[v].mid \in Shows' /\ reply'[v].mid \notin quiet' /\ reply'[v].mid # ph'.mid
  <2> SUFFICES ASSUME NEW v \in Bridge!Update, reply'[v].pc \in Holding
               PROVE  reply'[v].mid \in Shows' /\ reply'[v].mid \notin quiet' /\ reply'[v].mid # ph'.mid
    OBVIOUS
  <2>1. CASE v = u
    BY <1>1, <1>7, <2>1
  <2>2. CASE v # u
    BY <1>6, <2>2
  <2> QED
    BY <2>1, <2>2
<1>11. \A v \in Bridge!Update : reply'[v].pc \in Holding =>
         \A w \in Bridge!Update : Holds(w, reply[v].mid)' => w = v
  BY <1>8 DEF Holds
<1> QED
  BY <1>5, <1>9, <1>10, <1>11 DEF HoldInv

(* A reply with some fields replaced.                                      *)
LEMMA ReplyAt ==
  ASSUME NEW q \in Replies, NEW where \in Holding \cup {"off", "run", "post", "part", "done"}, NEW d \in Nat
  PROVE  [q EXCEPT !.pc = where] \in Replies /\ [q EXCEPT !.drafts = d, !.pc = where] \in Replies
BY DEF Replies

LEMMA ReplyWith ==
  ASSUME NEW q \in Replies, NEW where \in Holding \cup {"off", "run", "post", "part", "done"}, NEW i \in Nat
  PROVE  /\ [q EXCEPT !.pc = where, !.mid = i] \in Replies
         /\ \A d \in Nat : [q EXCEPT !.drafts = d, !.mid = i, !.pc = where] \in Replies
BY DEF Replies

LEMMA ReplyOf ==
  ASSUME NEW q \in Replies, NEW where \in Holding \cup {"off", "run", "post", "part", "done"},
         NEW k \in Nat \ {0}, NEW i \in Nat
  PROVE  /\ [q EXCEPT !.mid = i, !.part = k, !.pc = where] \in Replies
         /\ \A d \in Nat : [q EXCEPT !.pc = where, !.mid = i, !.part = k, !.drafts = d] \in Replies
BY DEF Replies

LEMMA DraftStep ==
  ASSUME MaxInv, NEW u \in Bridge!Update, Bridge!Draft(u)
  PROVE  MaxInv'
<1> DEFINE r == [reply[u] EXCEPT !.drafts = @ - 1, !.pc = IF ph = Bridge!NoPh THEN "post" ELSE "run"]
<1>1. reply[u] \in Replies /\ reply[u].drafts > 0
  BY DEF MaxInv, Bridge!Draft
<1>2. r \in Replies /\ r.pc \notin Holding /\ r.part = reply[u].part
  <2>1. reply[u].drafts - 1 \in Nat
    BY <1>1 DEF Replies
  <2>2. \A where \in {"post", "run"} : [reply[u] EXCEPT !.drafts = @ - 1, !.pc = where] \in Replies
    BY <1>1, <2>1, ReplyAt
  <2>3. r \in Replies
    BY <2>2
  <2> QED
    BY <1>1, <2>3 DEF Replies, Holding
<1>3. /\ reply' = [reply EXCEPT ![u] = r] /\ UNCHANGED <<Bridge!poll, ph, chat, delivered, quiet>>
      /\ ph' = ph
  BY DEF Bridge!Draft, Bridge!Goto
<1> HIDE DEF r
<1>4. HoldInv'
  BY <1>2, <1>3, Takes
<1>5. Chat' /\ reply[u].part \in Nat
  BY <1>1, <1>3 DEF MaxInv, Chat, Replies
<1> QED
  BY <1>2, <1>3, <1>4, <1>5, ReplyMoves DEF Bridge!poll

LEMMA EmptyDraftStep ==
  ASSUME MaxInv, NEW u \in Bridge!Update, Bridge!EmptyDraft(u)
  PROVE  MaxInv'
<1> DEFINE r == [reply[u] EXCEPT !.drafts = @ - 1, !.mid = ph.mid,
                                 !.pc = IF ph = Bridge!NoPh THEN "run" ELSE "clear"]
<1>1. reply[u] \in Replies /\ reply[u].drafts > 0 /\ ph.mid \in Nat
  BY DEF MaxInv, Bridge!EmptyDraft, HoldInv
<1>2. /\ r \in Replies /\ r.part = reply[u].part /\ r.mid = ph.mid
      /\ r.pc \in Holding => ph # Bridge!NoPh
  <2>1. reply[u].drafts - 1 \in Nat
    BY <1>1 DEF Replies
  <2>2. \A where \in {"clear", "run"} :
          [reply[u] EXCEPT !.drafts = @ - 1, !.mid = ph.mid, !.pc = where] \in Replies
    BY <1>1, <2>1, ReplyWith DEF Holding
  <2>3. r \in Replies
    BY <2>2
  <2> QED
    BY <1>1, <2>3 DEF Replies, Holding
<1>3. /\ reply' = [reply EXCEPT ![u] = r] /\ UNCHANGED <<Bridge!poll, chat, delivered, quiet>>
      /\ ph' = Bridge!NoPh
  BY DEF Bridge!EmptyDraft, Bridge!Goto
<1> HIDE DEF r
<1>4. HoldInv'
  BY <1>2, <1>3, Takes
<1>5. Chat' /\ reply[u].part \in Nat
  BY <1>1, <1>3 DEF MaxInv, Chat, Replies
<1> QED
  BY <1>2, <1>3, <1>4, <1>5, ReplyMoves DEF Bridge!poll

LEMMA DeliverStep ==
  ASSUME MaxInv, NEW u \in Bridge!Update, Bridge!Deliver(u)
  PROVE  MaxInv'
<1> DEFINE usable == ph # Bridge!NoPh /\ ~ph.old
           r == [reply[u] EXCEPT !.mid = IF usable THEN ph.mid ELSE 0,
                                 !.pc = IF ~usable THEN "part"
                                        ELSE IF reply[u].media THEN "drop" ELSE "edit"]
<1>1. reply[u] \in Replies /\ ph.mid \in Nat /\ reply[u].pc = "run"
  BY DEF MaxInv, Bridge!Deliver, HoldInv
<1>2. /\ r \in Replies /\ r.part = reply[u].part
      /\ r.pc \in Holding => usable /\ r.mid = ph.mid
  BY <1>1 DEF Replies, Holding
<1>3. /\ reply' = [reply EXCEPT ![u] = r] /\ UNCHANGED <<Bridge!poll, chat, delivered>>
      /\ ph' = Bridge!NoPh /\ quiet' = IF ph.old THEN quiet \cup {ph.mid} ELSE quiet
  BY DEF Bridge!Deliver, Bridge!Goto
<1>4. usable => ph # Bridge!NoPh /\ ~ph.old
  OBVIOUS
<1> HIDE DEF r, usable
<1>5. HoldInv'
  <2>1. CASE ~ph.old
    BY <1>2, <1>3, <1>4, <2>1, Takes
  <2>2. CASE ph.old
    <3>1. /\ reply'[u] = r /\ r.pc \notin Holding
          /\ \A v \in Bridge!Update : v # u => reply'[v] = reply[v]
      BY <1>2, <1>3, <1>4, <2>2 DEF MaxInv
    <3>2. ph # Bridge!NoPh /\ ph.mid \in Shows /\ quiet' = quiet \cup {ph.mid}
      BY <1>3, <2>2 DEF MaxInv, HoldInv, Bridge!NoPh
    <3>3. \A i : i \in Shows' <=> i \in Shows
      BY <1>3 DEF Shows
    <3>4. \A i : i \in Shows => i # 0
      BY DEF MaxInv, Chat, Shows
    <3>5. ph'.mid = 0 /\ ph' = Bridge!NoPh /\ ph' \in [mid : Nat, old : BOOLEAN]
      BY <1>3 DEF Bridge!NoPh
    <3> QED
      BY <3>1, <3>2, <3>3, <3>4, <3>5 DEF MaxInv, HoldInv, Holds
  <2> QED
    BY <1>1, <2>1, <2>2
<1>6. Chat' /\ reply[u].part \in Nat
  BY <1>1, <1>3 DEF MaxInv, Chat, Replies
<1> QED
  BY <1>2, <1>3, <1>5, <1>6, ReplyMoves DEF Bridge!poll

(* An indicator that its holder turned into something else.                *)
LEMMA Releases ==
  ASSUME MaxInv, NEW u \in Bridge!Update, NEW r \in Replies, reply' = [reply EXCEPT ![u] = r],
         r.pc \notin Holding, reply[u].pc \in Holding, NEW m, Bridge!Turns(reply[u].mid, m),
         UNCHANGED <<ph, quiet>>
  PROVE  HoldInv'
<1>1. /\ reply' \in [Bridge!Update -> Replies] /\ reply'[u] = r
      /\ \A v \in Bridge!Update : v # u => reply'[v] = reply[v]
  BY DEF MaxInv
<1>2. reply[u].mid \in Shows /\ Chat
  BY DEF MaxInv, HoldInv
<1>3. /\ DOMAIN chat' = DOMAIN chat
      /\ \A i \in DOMAIN chat : i # reply[u].mid => chat'[i] = chat[i]
  BY <1>2, TurnsOne
<1>4. \A i : i \in Shows /\ i # reply[u].mid => i \in Shows'
  BY <1>3 DEF Shows
<1>5. /\ ph # Bridge!NoPh => ph.mid # reply[u].mid
      /\ reply[u].mid \notin quiet
      /\ \A v \in Bridge!Update : v # u /\ reply[v].pc \in Holding => reply[v].mid # reply[u].mid
  BY DEF MaxInv, HoldInv, Holds
<1> QED
  BY <1>1, <1>4, <1>5 DEF MaxInv, HoldInv, Holds

LEMMA ClearsStep ==
  ASSUME MaxInv, NEW u \in Bridge!Update, Bridge!Clears(u)
  PROVE  MaxInv'
<1> DEFINE r == [reply[u] EXCEPT !.mid = 0, !.pc = IF reply[u].pc = "clear" THEN "run" ELSE "part"]
<1>1. reply[u] \in Replies /\ reply[u].pc \in Holding
  BY DEF MaxInv, Bridge!Clears, Holding
<1>2. r \in Replies /\ r.part = reply[u].part /\ r.pc \notin Holding
  BY <1>1 DEF Replies, Holding
<1>3. PICK m : Bridge!Turns(reply[u].mid, m)
  BY DEF Bridge!Clears, Bridge!Deletes
<1>4. /\ reply' = [reply EXCEPT ![u] = r] /\ UNCHANGED <<Bridge!poll, ph, delivered, quiet>>
  BY DEF Bridge!Clears, Bridge!Goto
<1> HIDE DEF r
<1>5. HoldInv'
  BY <1>1, <1>2, <1>3, <1>4, Releases
<1>6. reply[u].mid \in Shows /\ Chat
  BY <1>1 DEF MaxInv, HoldInv
<1>7. /\ Chat' /\ DOMAIN chat' = DOMAIN chat
      /\ \A i \in DOMAIN chat : chat'[i] = chat[i] \/ chat[i] = Bridge!Indicator
  BY <1>3, <1>6, TurnsOne
<1>8. reply[u].part \in Nat
  BY <1>1 DEF Replies
<1> QED
  BY <1>2, <1>4, <1>5, <1>7, <1>8, ReplyMoves DEF Bridge!poll

LEMMA AfterPartOf ==
  ASSUME NEW u \in Bridge!Update, reply[u] \in Replies
  PROVE  /\ Bridge!AfterPart(u) \in Replies /\ Bridge!AfterPart(u).pc \notin Holding
         /\ Bridge!AfterPart(u).part = reply[u].part + 1
         /\ Bridge!Again(u) \in Replies /\ Bridge!Again(u).pc \notin Holding /\ Bridge!Again(u).part = 1
<1>1. reply[u].part + 1 \in Nat \ {0} /\ 1 \in Nat \ {0}
  BY DEF Replies
<1>2. Bridge!AfterPart(u) \in Replies /\ Bridge!Again(u) \in Replies
  BY <1>1, ReplyOf DEF Bridge!AfterPart, Bridge!Again
<1>3. Bridge!AfterPart(u).pc \notin Holding /\ Bridge!AfterPart(u).part = reply[u].part + 1
  BY DEF Replies, Holding, Bridge!AfterPart
<1>4. Bridge!Again(u).pc \notin Holding /\ Bridge!Again(u).part = 1
  BY DEF Replies, Holding, Bridge!Again
<1> QED
  BY <1>2, <1>3, <1>4

LEMMA EditsStep ==
  ASSUME Bridge!MaxAssumption, MaxInv, NEW u \in Bridge!Update, Bridge!Edits(u)
  PROVE  MaxInv'
<1>1. reply[u] \in Replies /\ reply[u].pc = "edit" /\ reply[u].part \in Nat
  BY DEF MaxInv, Bridge!Edits, Replies
<1>2. /\ Bridge!AfterPart(u) \in Replies /\ Bridge!AfterPart(u).pc \notin Holding
      /\ Bridge!AfterPart(u).part = reply[u].part + 1
  BY <1>1, AfterPartOf
<1>3. /\ Bridge!Again(u) \in Replies /\ Bridge!Again(u).pc \notin Holding /\ Bridge!Again(u).part = 1
  BY <1>1, AfterPartOf
<1>4. UNCHANGED <<Bridge!poll, ph, delivered, quiet>>
  BY DEF Bridge!Edits
<1>5. reply[u].mid \in Shows /\ Chat /\ reply[u].part >= 1
  BY <1>1 DEF MaxInv, HoldInv, Holding, Replies
<1>6. CASE Bridge!Turns(reply[u].mid, Bridge!Part(u)) /\ Bridge!Goto(u, Bridge!AfterPart(u))
  <2>1. reply' = [reply EXCEPT ![u] = Bridge!AfterPart(u)]
    BY <1>6 DEF Bridge!Goto
  <2>2. HoldInv'
    BY <1>1, <1>2, <1>4, <1>6, <2>1, Releases DEF Holding
  <2>3. /\ Chat' /\ DOMAIN chat' = DOMAIN chat /\ chat'[reply[u].mid] = Bridge!Part(u)
        /\ \A i \in DOMAIN chat : chat'[i] = chat[i] \/ chat[i] = Bridge!Indicator
    BY <1>5, <1>6, TurnsOne
  <2>4. PICK p \in Nat : p = reply[u].part
    BY <1>1
  <2>5. Kept(u, p)'
    BY <1>5, <2>3, <2>4 DEF Kept, Bridge!Part, Shows
  <2> QED
    BY <1>2, <1>4, <2>1, <2>2, <2>3, <2>4, <2>5, ReplyMoves DEF Bridge!poll
<1>7. CASE Bridge!Turns(reply[u].mid, Bridge!Lost) /\ Bridge!Goto(u, Bridge!Again(u))
  <2>1. reply' = [reply EXCEPT ![u] = Bridge!Again(u)]
    BY <1>7 DEF Bridge!Goto
  <2>2. HoldInv'
    BY <1>1, <1>3, <1>4, <1>7, <2>1, Releases DEF Holding
  <2>3. /\ Chat' /\ DOMAIN chat' = DOMAIN chat
        /\ \A i \in DOMAIN chat : chat'[i] = chat[i] \/ chat[i] = Bridge!Indicator
    BY <1>5, <1>7, TurnsOne
  <2> QED
    BY <1>1, <1>3, <1>4, <1>5, <2>1, <2>2, <2>3, ReplyMoves DEF Bridge!poll
<1> QED
  BY <1>6, <1>7 DEF Bridge!Edits

LEMMA PostsStep ==
  ASSUME Bridge!MaxAssumption, MaxInv, NEW u \in Bridge!Update, Bridge!Posts(u)
  PROVE  MaxInv'
<1>1. reply[u] \in Replies /\ reply[u].pc = "part" /\ reply[u].part \in Nat /\ reply[u].part >= 1
  BY DEF MaxInv, Bridge!Posts, Replies
<1>2. /\ Bridge!AfterPart(u) \in Replies /\ Bridge!AfterPart(u).pc \notin Holding
      /\ Bridge!AfterPart(u).part = reply[u].part + 1
  BY <1>1, AfterPartOf
<1>3. /\ Bridge!Again(u) \in Replies /\ Bridge!Again(u).pc \notin Holding /\ Bridge!Again(u).part = 1
  BY <1>1, AfterPartOf
<1>4. UNCHANGED <<Bridge!poll, ph, chat, quiet>> /\ delivered \subseteq delivered' /\ Chat'
  BY DEF Bridge!Posts, MaxInv, Chat
<1>5. CASE delivered' = delivered \cup {Bridge!Part(u)} /\ Bridge!Goto(u, Bridge!AfterPart(u))
  <2>1. reply' = [reply EXCEPT ![u] = Bridge!AfterPart(u)]
    BY <1>5 DEF Bridge!Goto
  <2>2. HoldInv'
    BY <1>2, <1>4, <2>1, Takes
  <2>3. PICK p \in Nat : p = reply[u].part
    BY <1>1
  <2>4. Kept(u, p)'
    BY <1>5, <2>3 DEF Kept, Bridge!Part
  <2> QED
    BY <1>2, <1>4, <2>1, <2>2, <2>3, <2>4, ReplyMoves DEF Bridge!poll
<1>6. CASE Bridge!Goto(u, Bridge!Again(u))
  <2>1. reply' = [reply EXCEPT ![u] = Bridge!Again(u)]
    BY <1>6 DEF Bridge!Goto
  <2>2. HoldInv'
    BY <1>3, <1>4, <2>1, Takes
  <2> QED
    BY <1>1, <1>3, <1>4, <2>1, <2>2, ReplyMoves DEF Bridge!poll
<1> QED
  BY <1>5, <1>6 DEF Bridge!Posts

LEMMA DraftPostsStep ==
  ASSUME MaxInv, NEW u \in Bridge!Update, Bridge!DraftPosts(u)
  PROVE  MaxInv'
<1>1. reply[u] \in Replies /\ reply[u].pc = "post" /\ reply[u].part \in Nat /\ Chat
  BY DEF MaxInv, Bridge!DraftPosts, Replies
<1>2. UNCHANGED <<Bridge!poll, ph, delivered, quiet>>
  BY DEF Bridge!DraftPosts
<1>3. CASE /\ Bridge!Add(Bridge!Indicator)
           /\ Bridge!Goto(u, [reply[u] EXCEPT !.pc = "set", !.mid = Bridge!Last + 1])
  <2> DEFINE r == [reply[u] EXCEPT !.pc = "set", !.mid = Bridge!Last + 1]
  <2>1. /\ Chat' /\ Bridge!Last \in Nat /\ Bridge!Last + 1 \notin DOMAIN chat
        /\ DOMAIN chat' = DOMAIN chat \cup {Bridge!Last + 1}
        /\ chat'[Bridge!Last + 1] = Bridge!Indicator
        /\ \A i \in DOMAIN chat : chat'[i] = chat[i]
    BY <1>1, <1>3, AddsOne
  <2>2. r \in Replies /\ r.part = reply[u].part /\ r.mid = Bridge!Last + 1 /\ r.mid # 0
    <3>1. Bridge!Last + 1 \in Nat /\ Bridge!Last + 1 # 0
      BY <2>1
    <3> QED
      BY <1>1, <3>1, ReplyWith DEF Replies, Holding
  <2>3. reply' = [reply EXCEPT ![u] = r]
    BY <1>3 DEF Bridge!Goto
  <2> HIDE DEF r
  <2>4. /\ reply'[u] = r
        /\ \A v \in Bridge!Update : v # u => reply'[v] = reply[v]
    BY <2>3 DEF MaxInv
  <2>5. (\A i : i \in Shows => i \in Shows' /\ i # r.mid) /\ r.mid \in Shows'
    <3>1. r.mid \in Shows'
      BY <2>1, <2>2 DEF Shows
    <3> QED
      BY <2>1, <2>2, <3>1 DEF Shows
  <2>6. HoldInv'
    <3>1. /\ ph # Bridge!NoPh => ph.mid \in Shows' /\ ph.mid # r.mid
          /\ \A i \in quiet : i \in Shows' /\ i # r.mid
      BY <2>5 DEF MaxInv, HoldInv
    <3>2. ph.mid # r.mid
      BY <2>2, <3>1 DEF Bridge!NoPh
    <3>3. \A v \in Bridge!Update : v # u /\ reply[v].pc \in Holding =>
            /\ reply[v].mid \in Shows' /\ reply[v].mid # r.mid /\ reply[v].mid # ph.mid
            /\ reply[v].mid \notin quiet
            /\ \A w \in Bridge!Update : Holds(w, reply[v].mid) => w = v
      BY <2>5 DEF MaxInv, HoldInv
    <3>4. \A v \in Bridge!Update : reply'[v].pc \in Holding =>
            /\ reply'[v].mid \in Shows' /\ reply'[v].mid \notin quiet /\ reply'[v].mid # ph.mid
      BY <2>4, <2>5, <3>1, <3>2, <3>3
    <3>5. \A v, w \in Bridge!Update :
            reply'[v].pc \in Holding /\ reply'[w].pc \in Holding /\ reply'[w].mid = reply'[v].mid
              => w = v
      BY <2>4, <3>3 DEF Holds
    <3> QED
      BY <1>2, <3>1, <3>4, <3>5 DEF MaxInv, HoldInv, Holds
  <2> QED
    BY <1>1, <1>2, <2>1, <2>2, <2>3, <2>6, ReplyMoves DEF Bridge!poll
<1>4. CASE /\ Bridge!Goto(u, [reply[u] EXCEPT !.pc = "run"])
           /\ Bridge!Add(Bridge!Lost) \/ UNCHANGED chat
  <2> DEFINE r == [reply[u] EXCEPT !.pc = "run"]
  <2>1. /\ Chat' /\ DOMAIN chat \subseteq DOMAIN chat'
        /\ \A i \in DOMAIN chat : chat'[i] = chat[i]
    BY <1>1, <1>4, AddsOne DEF Chat
  <2>2. r \in Replies /\ r.part = reply[u].part /\ r.pc \notin Holding
    BY <1>1 DEF Replies, Holding
  <2>3. reply' = [reply EXCEPT ![u] = r]
    BY <1>4 DEF Bridge!Goto
  <2> HIDE DEF r
  <2>4. /\ reply'[u] = r
        /\ \A v \in Bridge!Update : v # u => reply'[v] = reply[v]
    BY <2>3 DEF MaxInv
  <2>5. \A i : i \in Shows => i \in Shows'
    BY <2>1 DEF Shows
  <2>6. HoldInv'
    BY <1>2, <2>2, <2>4, <2>5 DEF MaxInv, HoldInv, Holds, Bridge!NoPh
  <2> QED
    BY <1>1, <1>2, <2>1, <2>2, <2>3, <2>6, ReplyMoves DEF Bridge!poll
<1> QED
  BY <1>3, <1>4 DEF Bridge!DraftPosts

LEMMA DraftSetsStep ==
  ASSUME MaxInv, NEW u \in Bridge!Update, Bridge!DraftSets(u)
  PROVE  MaxInv'
<1> DEFINE r == [reply[u] EXCEPT !.pc = "run", !.mid = 0]
           mid == reply[u].mid
<1>1. /\ reply[u] \in Replies /\ reply[u].pc \in Holding /\ reply[u].part \in Nat /\ Chat
      /\ mid \in Shows /\ mid # ph.mid /\ mid \notin quiet /\ mid \in Nat
      /\ \A v \in Bridge!Update : v # u => ~Holds(v, mid)
  BY DEF MaxInv, HoldInv, Bridge!DraftSets, Replies, Holding
<1>2. r \in Replies /\ r.part = reply[u].part /\ r.pc \notin Holding
  BY <1>1 DEF Replies, Holding
<1>3. /\ reply' = [reply EXCEPT ![u] = r] /\ ph' = [mid |-> mid, old |-> FALSE]
      /\ UNCHANGED <<Bridge!poll, delivered, quiet>>
      /\ IF ph = Bridge!NoPh THEN UNCHANGED chat ELSE Bridge!Turns(ph.mid, Bridge!Lost)
  BY DEF Bridge!DraftSets, Bridge!Goto
<1> HIDE DEF r, mid
<1>4. /\ reply'[u] = r
      /\ \A v \in Bridge!Update : v # u => reply'[v] = reply[v]
  BY <1>3 DEF MaxInv
<1>5. /\ Chat' /\ DOMAIN chat' = DOMAIN chat
      /\ \A i \in DOMAIN chat : chat'[i] = chat[i] \/ (i = ph.mid /\ chat[i] = Bridge!Indicator)
  <2>1. CASE ph = Bridge!NoPh
    BY <1>1, <1>3, <2>1 DEF Chat
  <2>2. CASE ph # Bridge!NoPh
    <3>1. ph.mid \in Shows
      BY <2>2 DEF MaxInv, HoldInv
    <3> QED
      BY <1>1, <1>3, <2>2, <3>1, TurnsOne
  <2> QED
    BY <2>1, <2>2
<1>6. \A i : i \in Shows /\ i # ph.mid => i \in Shows'
  BY <1>5 DEF Shows
<1>7. \A i : i \in Shows => i # 0
  BY DEF MaxInv, Chat, Shows
<1>8. \A i \in quiet : i \in Shows' /\ i # mid
  <2>1. \A i \in quiet : i # ph.mid
    BY <1>7 DEF MaxInv, HoldInv, Bridge!NoPh
  <2> QED
    BY <1>1, <1>6, <2>1 DEF MaxInv, HoldInv
<1>9. /\ ph' \in [mid : Nat, old : BOOLEAN] /\ ph'.mid = mid /\ mid # 0 /\ mid \in Shows'
  <2>1. mid \in Shows' /\ mid # 0
    BY <1>1, <1>6, <1>7
  <2> QED
    BY <1>1, <1>3, <2>1
<1>10. HoldInv'
  BY <1>1, <1>2, <1>3, <1>4, <1>6, <1>8, <1>9 DEF MaxInv, HoldInv, Holds
<1> QED
  BY <1>1, <1>2, <1>3, <1>4, <1>5, <1>10, ReplyMoves DEF Bridge!poll

(* Replies that start, or end with the process, hold nothing and have sent *)
(* nothing yet.                                                            *)
LEMMA RepliesBegin ==
  ASSUME MaxInv, reply' \in [Bridge!Update -> Replies], UNCHANGED delivered, Chat',
         \A v \in Bridge!Update : reply'[v] = reply[v] \/ (reply'[v].part = 1 /\ reply'[v].pc \notin Holding),
         \A i \in DOMAIN chat : i \in DOMAIN chat' /\ (chat'[i] = chat[i] \/ chat[i] = Bridge!Indicator)
  PROVE  Bridge!PartsKept'
<1> SUFFICES ASSUME NEW v \in Bridge!Update, NEW k \in 1..reply'[v].part - 1
             PROVE  Kept(v, k)'
  BY DEF Bridge!PartsKept, Kept, Bridge!Mids
<1>1. reply'[v] = reply[v]
  OBVIOUS
<1> QED
  BY <1>1, PartsStay DEF MaxInv

(* Nothing of a reply or of the chat changes.                              *)
LEMMA ChatRests ==
  ASSUME MaxInv, UNCHANGED <<reply, ph, chat, delivered, quiet>>
  PROVE  Chat' /\ HoldInv' /\ Bridge!PartsKept'
<1>1. Chat' /\ Shows' = Shows
  BY DEF MaxInv, Chat, Shows
<1>2. HoldInv'
  BY <1>1 DEF MaxInv, HoldInv, Holds
<1>3. Bridge!PartsKept'
  BY <1>1, RepliesBegin DEF MaxInv
<1> QED
  BY <1>1, <1>2, <1>3

(* Steps of the poller: no reply goes on, the chat stays.                  *)
LEMMA SaveMarkerStep ==
  ASSUME Bridge!MaxAssumption, MaxInv, Bridge!SaveMarker
  PROVE  MaxInv'
<1>1. UNCHANGED <<handled, replayed, reply, ph, chat, delivered, quiet>>
  BY DEF Bridge!SaveMarker
<1>2. batch \in marker + 1..MaxUpdates /\ batch' = 0 /\ marker' = batch /\ saved' \in {batch, saved}
  BY DEF MaxInv, PollInv, Bridge!SaveMarker
<1>3. PollInv'
  BY <1>1, <1>2 DEF MaxInv, PollInv, Cursor, Bridge!MaxAssumption
<1>4. Chat' /\ HoldInv' /\ Bridge!PartsKept'
  BY <1>1, ChatRests
<1> QED
  BY <1>1, <1>3, <1>4 DEF MaxInv

LEMMA PollStep ==
  ASSUME Bridge!MaxAssumption, MaxInv, Bridge!Poll
  PROVE  MaxInv'
<1>1. /\ batch = 0 /\ UNCHANGED <<marker, saved, replayed, ph, chat, delivered, quiet>>
  BY DEF Bridge!Poll
<1>2. PICK upTo \in marker + 1..MaxUpdates :
        /\ batch' = upTo
        /\ handled' = [u \in Bridge!Update |-> IF u \in marker + 1..upTo THEN handled[u] + 1 ELSE handled[u]]
        /\ \E m \in [marker + 1..upTo -> BOOLEAN] :
             reply' = [u \in Bridge!Update |->
                         IF u \in marker + 1..upTo
                         THEN [Bridge!Off EXCEPT !.pc = "run", !.drafts = MaxDrafts, !.media = m[u]]
                         ELSE reply[u]]
  BY DEF Bridge!Poll
<1>3. PollInv'
  <2>0. marker \in Nat /\ MaxUpdates \in Nat
    BY DEF MaxInv, PollInv, Bridge!MaxAssumption
  <2>1. upTo \in Nat /\ upTo > marker /\ marker \in Nat /\ batch' # 0
    <3>1. upTo \in marker + 1..MaxUpdates /\ batch' = upTo
      BY <1>2
    <3> QED
      BY <2>0, <3>1
  <2>2. handled' \in [Bridge!Update -> Nat]
    <3>1. \A u \in Bridge!Update : handled[u] \in Nat /\ handled[u] + 1 \in Nat
      BY DEF MaxInv, PollInv
    <3> QED
      BY <1>2, <3>1
  <2>3. ASSUME NEW u \in Bridge!Update \ replayed
        PROVE  handled'[u] = IF u <= upTo THEN 1 ELSE 0
    <3>1. handled[u] = IF u <= marker THEN 1 ELSE 0
      BY <1>1 DEF MaxInv, PollInv, Cursor
    <3>2. handled'[u] = IF u \in marker + 1..upTo THEN handled[u] + 1 ELSE handled[u]
      BY <1>2
    <3> QED
      BY <2>1, <3>1, <3>2 DEF Bridge!Update
  <2> QED
    BY <1>1, <1>2, <2>1, <2>2, <2>3 DEF MaxInv, PollInv, Cursor
<1>4. PICK m \in [marker + 1..upTo -> BOOLEAN] :
        reply' = [u \in Bridge!Update |->
                    IF u \in marker + 1..upTo
                    THEN [Bridge!Off EXCEPT !.pc = "run", !.drafts = MaxDrafts, !.media = m[u]]
                    ELSE reply[u]]
  BY <1>2
<1>5. ASSUME NEW u \in Bridge!Update
      PROVE  /\ reply'[u] \in Replies
             /\ reply'[u] = reply[u] \/ (reply'[u].part = 1 /\ reply'[u].pc \notin Holding)
  <2>1. CASE u \notin marker + 1..upTo
    BY <1>4, <2>1 DEF MaxInv
  <2>2. CASE u \in marker + 1..upTo
    <3>1. reply'[u] = [pc |-> "run", part |-> 1, drafts |-> MaxDrafts, media |-> m[u], mid |-> 0]
      BY <1>4, <2>2 DEF Bridge!Off
    <3>2. MaxDrafts \in Nat /\ m[u] \in BOOLEAN
      BY <1>4, <2>2 DEF Bridge!MaxAssumption
    <3>3. reply'[u] \in Replies
      BY <3>1, <3>2 DEF Replies
    <3> QED
      BY <3>1, <3>3 DEF Holding
  <2> QED
    BY <2>1, <2>2
<1>6. reply' \in [Bridge!Update -> Replies]
  BY <1>4, <1>5
<1>7. Chat' /\ Shows' = Shows
  BY <1>1 DEF MaxInv, Chat, Shows
<1>8. HoldInv'
  BY <1>1, <1>5, <1>7 DEF MaxInv, HoldInv, Holds
<1>9. Bridge!PartsKept'
  BY <1>1, <1>5, <1>6, <1>7, RepliesBegin
<1> QED
  BY <1>3, <1>6, <1>7, <1>8, <1>9 DEF MaxInv

LEMMA QuietDeleteStep ==
  ASSUME MaxInv, Bridge!QuietDelete
  PROVE  MaxInv'
<1>1. PICK mid \in quiet : /\ Bridge!Deletes(mid) /\ quiet' = quiet \ {mid}
                           /\ UNCHANGED <<Bridge!poll, reply, ph, delivered>>
  BY DEF Bridge!QuietDelete
<1>2. PICK m : Bridge!Turns(mid, m)
  BY <1>1 DEF Bridge!Deletes
<1>3. mid \in Shows /\ Chat
  BY <1>1 DEF MaxInv, HoldInv
<1>4. /\ Chat' /\ DOMAIN chat' = DOMAIN chat
      /\ \A i \in DOMAIN chat : i # mid => chat'[i] = chat[i]
      /\ \A i \in DOMAIN chat : chat'[i] = chat[i] \/ chat[i] = Bridge!Indicator
  BY <1>2, <1>3, TurnsOne
<1>5. \A i \in Shows : i # mid => i \in Shows'
  BY <1>4 DEF Shows
<1>6. /\ ph # Bridge!NoPh => ph.mid # mid
      /\ \A v \in Bridge!Update : reply[v].pc \in Holding => reply[v].mid # mid
  BY <1>1 DEF MaxInv, HoldInv
<1>7. HoldInv'
  BY <1>1, <1>5, <1>6 DEF MaxInv, HoldInv, Holds
<1>8. Bridge!PartsKept'
  BY <1>1, <1>4, RepliesBegin DEF MaxInv
<1>9. PollInv'
  BY <1>1 DEF MaxInv, PollInv, Cursor, Bridge!poll
<1> QED
  BY <1>1, <1>4, <1>7, <1>8, <1>9 DEF MaxInv

LEMMA AgesStep ==
  ASSUME MaxInv, Bridge!PlaceholderAges
  PROVE  MaxInv'
<1>1. /\ ph # Bridge!NoPh /\ ph' = [ph EXCEPT !.old = TRUE]
      /\ UNCHANGED <<Bridge!poll, reply, chat, delivered, quiet>>
  BY DEF Bridge!PlaceholderAges
<1>2. ph \in [mid : Nat, old : BOOLEAN] /\ ph.mid # 0
  BY <1>1 DEF MaxInv, HoldInv
<1>3. ph' \in [mid : Nat, old : BOOLEAN] /\ ph'.mid = ph.mid
  BY <1>1, <1>2
<1>4. Chat' /\ Shows' = Shows /\ Bridge!PartsKept'
  BY <1>1 DEF MaxInv, Chat, Shows, Bridge!PartsKept, Bridge!Mids
<1>5. HoldInv'
  BY <1>1, <1>2, <1>3, <1>4 DEF MaxInv, HoldInv, Holds
<1>6. PollInv'
  BY <1>1 DEF MaxInv, PollInv, Cursor, Bridge!poll
<1> QED
  BY <1>1, <1>4, <1>5, <1>6 DEF MaxInv

LEMMA CrashStep ==
  ASSUME Bridge!MaxAssumption, MaxInv, Bridge!Crash
  PROVE  MaxInv'
<1>1. /\ marker' = saved /\ batch' = 0 /\ replayed' = replayed \cup (saved + 1..MaxUpdates)
      /\ ph' = Bridge!NoPh /\ quiet' = {} /\ UNCHANGED <<saved, handled, delivered>>
      /\ reply' = [u \in Bridge!Update |-> IF reply[u] = Bridge!Off THEN Bridge!Off
                                        ELSE [Bridge!Off EXCEPT !.pc = "done"]]
      /\ chat' = [i \in DOMAIN chat |-> IF chat[i] = Bridge!Indicator THEN Bridge!Lost ELSE chat[i]]
  BY DEF Bridge!Crash, Bridge!Mids
<1>2. PollInv'
  <2>1. /\ marker \in 0..MaxUpdates /\ saved \in 0..marker /\ MaxUpdates \in Nat
        /\ saved <= Cursor /\ Cursor \in Nat
    BY DEF MaxInv, PollInv, Cursor, Bridge!MaxAssumption
  <2>2. ASSUME NEW u \in Bridge!Update \ replayed'
        PROVE  handled[u] = 1 /\ u <= saved
    BY <1>1, <2>1 DEF MaxInv, PollInv, Bridge!Update
  <2>3. \A u \in Bridge!Update \ replayed' : handled'[u] = IF u <= Cursor' THEN 1 ELSE 0
    BY <1>1, <2>2 DEF Cursor
  <2> QED
    BY <1>1, <2>1, <2>3 DEF MaxInv, PollInv
<1>3. ASSUME NEW u \in Bridge!Update
      PROVE  reply'[u] \in Replies /\ reply'[u].part = 1 /\ reply'[u].pc \notin Holding
  <2>1. reply'[u] \in {[pc |-> s, part |-> 1, drafts |-> 0, media |-> FALSE, mid |-> 0] :
                         s \in {"off", "done"}}
    BY <1>1 DEF Bridge!Off
  <2>2. PICK s \in {"off", "done"} :
          reply'[u] = [pc |-> s, part |-> 1, drafts |-> 0, media |-> FALSE, mid |-> 0]
    BY <2>1
  <2> QED
    BY <2>2 DEF Replies, Holding
<1>4. reply' \in [Bridge!Update -> Replies]
  BY <1>1, <1>3
<1>5. Chat'
  <2>1. PICK n \in Nat : chat = [i \in 1..n |-> chat[i]]
    BY DEF MaxInv, Chat
  <2>2. chat' = [i \in 1..n |-> chat'[i]]
    BY <1>1, <2>1
  <2> QED
    BY <2>2 DEF Chat
<1>6. HoldInv'
  BY <1>1, <1>3 DEF HoldInv, Bridge!NoPh
<1>7. Bridge!PartsKept'
  BY <1>1, <1>3, <1>4, <1>5, RepliesBegin
<1> QED
  BY <1>2, <1>4, <1>5, <1>6, <1>7 DEF MaxInv

LEMMA MaxStep ==
  ASSUME Bridge!MaxAssumption, MaxInv, [Bridge!Next]_(Bridge!vars)
  PROVE  MaxInv'
<1>1. CASE UNCHANGED Bridge!vars
  <2>1. UNCHANGED <<marker, saved, batch, handled, replayed, reply, ph, chat, delivered, quiet>>
    BY <1>1 DEF Bridge!vars, Bridge!poll
  <2> QED
    BY <2>1, ChatRests DEF MaxInv, PollInv, Cursor
<1>2. CASE Bridge!Next
  BY <1>2, PollStep, SaveMarkerStep, QuietDeleteStep, AgesStep, CrashStep, DraftStep, DraftPostsStep,
     DraftSetsStep, EmptyDraftStep, ClearsStep, DeliverStep, EditsStep, PostsStep DEF Bridge!Next
<1> QED
  BY <1>1, <1>2

(* The updates of MAX are handled once and the parts of an answer stay in  *)
(* the chat, however many replies race for the indicator and wherever the  *)
(* process is restarted (MaxPoller.run, _take_placeholder).                *)
THEOREM MaxStays == MCSpec => []MaxInv
<1>1. MCInit => MaxInv
  BY MaxStarts, ServicesAssumption DEF MCInit
<1>2. MaxInv /\ [MCNext]_mcvars => MaxInv'
  <2> SUFFICES ASSUME MaxInv, [MCNext]_mcvars PROVE MaxInv'
    OBVIOUS
  <2>1. [Bridge!Next]_(Bridge!vars)
    BY DEF MCNext, mcvars, maxVars, Bridge!vars, Bridge!poll
  <2> QED
    BY <2>1, MaxStep, ServicesAssumption
<1> QED
  BY <1>1, <1>2, PTL DEF MCSpec

(* No update of MAX is lost or handled twice outside a crash, and no part  *)
(* of an answer is overwritten by another reply (app/max/bridge.py).       *)
THEOREM UpdatesNeverLost == MCSpec => []UpdatesKept
<1>1. MaxInv => UpdatesKept
  <2> SUFFICES ASSUME MaxInv PROVE Bridge!HandledOnce
    BY DEF MaxInv, UpdatesKept, Bridge!UpdatesKept
  <2>1. ASSUME NEW u \in Bridge!Update
        PROVE  /\ handled[u] > 1 => u \in replayed
               /\ u <= marker /\ u \notin replayed => handled[u] = 1
    BY DEF MaxInv, PollInv, Cursor, Bridge!MaxAssumption, Bridge!Update
  <2> QED
    BY <2>1 DEF Bridge!HandledOnce
<1> QED
  BY <1>1, MaxStays, PTL

-----------------------------------------------------------------------------
(* Workdirs                                                                *)

Row == [sid : Nat, cwd : Nat, conv : Nat]
Rows == {None} \cup Row
Owner == [key : Key, name : Nat, uid : Uid]
Files == [dir : Nat, enc : Nat, conv : Nat]
Jail == [name : Nat, uid : Uid, sure : BOOLEAN]
DirType ==
  /\ row \in [Key -> Rows] /\ dbSaved.row \in [Key -> Rows]
  /\ uids \subseteq Owner /\ dbSaved.uids \subseteq Owner
  /\ cache \in [Key -> Nat] /\ given \in [Key -> Nat]
  /\ dirs \in [Key -> SUBSET Nat] /\ files \in [Key -> SUBSET Files]
  /\ bundles \in [Key -> SUBSET Nat] /\ purged \in [Key -> SUBSET Nat] /\ last \in [Key -> Nat]
  /\ live \in [Key -> {None} \cup Jail] /\ phase \in {"backfill", "migrate", "up"}

(* No uid has two owners, in the database as in its last commit, and a     *)
(* client that is sure of its uid owns it.                                 *)
Apart(s) == \A v, w \in s : v.uid = w.uid => v = w
Sure(k) == live[k] # None /\ live[k].sure
UidInv ==
  /\ Apart(uids) /\ Apart(dbSaved.uids)
  /\ \A k \in Key : Sure(k) =>
       phase = "up" /\ [key |-> k, name |-> live[k].name, uid |-> live[k].uid] \in uids

(* A transcript is in a directory of its session, and in the old one under *)
(* the old name.                                                           *)
Filed(k) == \A f \in files[k] : f.dir \in dirs[k] /\ (f.dir = 0 => f.enc = 0)

(* The conversation of a row is where its cwd says, or where its ULID says *)
(* once that has its directory and the cwd has none: the next start goes   *)
(* there.                                                                  *)
Place(name, conv) == [dir |-> name, enc |-> name, conv |-> conv]
In(k, name, conv) == Place(name, conv) \in files[k]
Reach(k, r) ==
  r # None /\ r.conv # 0 => \/ In(k, r.cwd, r.conv)
                            \/ r.sid # 0 /\ r.cwd \notin dirs[k] /\ In(k, r.sid, r.conv)
Reached(k) ==
  k \notin cut /\ k # at =>
    /\ Reach(k, row[k]) /\ Reach(k, dbSaved.row[k])
    /\ phase # "backfill" /\ k \notin todo /\ row[k] # None /\ row[k].conv # 0
         => In(k, row[k].cwd, row[k].conv)

(* Between the two renames the transcript has the old name still.          *)
Between(k) ==
  k = at => /\ 0 \notin dirs[k] /\ row[k].cwd # row[k].sid
            /\ \A f \in files[k] : f.dir = row[k].sid => f.enc = 0
            /\ k \notin cut /\ row[k].conv # 0 =>
                 row[k].cwd = 0 /\ [dir |-> row[k].sid, enc |-> 0, conv |-> row[k].conv] \in files[k]

(* Only the migration is ahead of the last commit, and not for the rows it *)
(* has not come to.                                                        *)
Committed(k) ==
  /\ phase # "migrate" => dbSaved.row[k] = row[k]
  /\ phase = "migrate" /\ row[k] # None => row[k].sid # 0
  /\ k \in todo => dbSaved.row[k] = row[k] /\ row[k] # None
Migration ==
  /\ at \in {None} \cup Key /\ (at # None => at \in todo)
  /\ todo \subseteq Key /\ (phase # "migrate" => todo = {})

Homely(k) == Filed(k) /\ Reached(k) /\ Between(k) /\ Committed(k)
Saved(k) ==
  \A c \in 1..last[k] : c \in purged[k] \cup bundles[k] \/ \E f \in files[k] : f.conv = c
DirInv == DirType /\ UidInv /\ Migration /\ \A k \in Key : Homely(k) /\ Saved(k)

LEMMA DirsStart ==
  ASSUME Dirs!WorkdirsAssumption, Dirs!Init
  PROVE  DirInv
<1>1. row \in [Key -> {None} \cup [sid : {0}, cwd : {0}, conv : {0, 1}]]
  BY DEF Dirs!Init, Dirs!Legacy
<1>2. /\ last = [k \in Key |-> IF row[k] = None THEN 0 ELSE row[k].conv]
      /\ dirs = [k \in Key |-> IF last[k] = 1 THEN {0} ELSE {}]
      /\ files = [k \in Key |-> IF last[k] = 1 THEN {[dir |-> 0, enc |-> 0, conv |-> 1]} ELSE {}]
      /\ uids = {} /\ dbSaved = [row |-> row, uids |-> uids]
      /\ cache = [k \in Key |-> 0] /\ given = [k \in Key |-> 0]
      /\ bundles = [k \in Key |-> {}] /\ purged = bundles /\ live = [k \in Key |-> None]
      /\ phase = "backfill" /\ todo = {} /\ at = None
  BY DEF Dirs!Init, Dirs!Legacy
<1>3. ASSUME NEW k \in Key
      PROVE  /\ row[k] \in Rows /\ last[k] \in {0, 1} /\ files[k] \subseteq Files
             /\ dirs[k] \subseteq Nat /\ k # at
             /\ row[k] # None => row[k].cwd = 0 /\ row[k].sid = 0 /\ row[k].conv = last[k]
             /\ last[k] = 1 => files[k] = {[dir |-> 0, enc |-> 0, conv |-> 1]} /\ dirs[k] = {0}
             /\ last[k] = 0 => files[k] = {} /\ dirs[k] = {}
  <2>1. CASE row[k] = None
    BY <1>2, <2>1 DEF Rows, Dirs!WorkdirsAssumption
  <2>2. CASE row[k] # None
    <3>1. row[k] \in [sid : {0}, cwd : {0}, conv : {0, 1}]
      BY <1>1, <2>2
    <3>2. row[k] \in Row /\ last[k] = row[k].conv
      BY <1>2, <2>2, <3>1 DEF Row
    <3> QED
      BY <1>2, <3>1, <3>2 DEF Rows, Files, Dirs!WorkdirsAssumption
  <2> QED
    BY <2>1, <2>2
<1>4. DirType
  <2>1. row \in [Key -> Rows] /\ dirs \in [Key -> SUBSET Nat] /\ files \in [Key -> SUBSET Files]
        /\ last \in [Key -> Nat]
    BY <1>1, <1>2, <1>3
  <2> QED
    BY <1>2, <2>1 DEF DirType
<1>5. UidInv /\ Migration
  BY <1>2 DEF UidInv, Apart, Sure, Migration
<1>6. ASSUME NEW k \in Key
      PROVE  Homely(k) /\ Saved(k)
  <2>1. Filed(k)
    BY <1>3 DEF Filed
  <2>2. row[k] # None /\ row[k].conv # 0 => In(k, row[k].cwd, row[k].conv)
    BY <1>3 DEF In, Place
  <2>3. Reached(k) /\ Between(k) /\ Committed(k)
    BY <1>2, <1>3, <2>2 DEF Reached, Reach, Between, Committed
  <2>4. Saved(k)
    <3>1. CASE last[k] = 0
      BY <3>1 DEF Saved
    <3>2. CASE last[k] = 1
      <4>1. [dir |-> 0, enc |-> 0, conv |-> 1] \in files[k]
        BY <1>3, <3>2
      <4>2. \E f \in files[k] : f.conv = 1
        BY <4>1
      <4> QED
        BY <3>2, <4>2 DEF Saved
    <3> QED
      BY <1>3, <3>1, <3>2
  <2> QED
    BY <2>1, <2>3, <2>4 DEF Homely
<1> QED
  BY <1>4, <1>5, <1>6 DEF DirInv

-----------------------------------------------------------------------------

(* What a step does not touch stays.                                       *)
LEMMA Untouched ==
  ASSUME NEW j \in Key, Homely(j), row'[j] = row[j], dbSaved'.row[j] = dbSaved.row[j],
         files'[j] = files[j], dirs'[j] = dirs[j], j \in todo' <=> j \in todo,
         phase' = phase, j = at' <=> j = at, j \in cut => j \in cut'
  PROVE  Homely(j)'
<1>1. Filed(j)' /\ Committed(j)'
  BY DEF Homely, Filed, Committed
<1>2. Between(j)'
  BY DEF Homely, Between
<1>3. Reached(j)'
  BY DEF Homely, Reached, Reach, In
<1> QED
  BY <1>1, <1>2, <1>3 DEF Homely

LEMMA OthersStay ==
  ASSUME DirInv, NEW k \in Key,
         \A j \in Key : j # k =>
           /\ row'[j] = row[j] /\ dbSaved'.row[j] = dbSaved.row[j]
           /\ files'[j] = files[j] /\ dirs'[j] = dirs[j] /\ (j \in todo' <=> j \in todo)
           /\ (j = at' <=> j = at) /\ (j \in cut => j \in cut'),
         phase' = phase, Homely(k)'
  PROVE  \A j \in Key : Homely(j)'
<1> SUFFICES ASSUME NEW j \in Key, j # k PROVE Homely(j)'
  OBVIOUS
<1> QED
  BY Untouched DEF DirInv

LEMMA SavedStays ==
  ASSUME NEW j \in Key, Saved(j), last'[j] = last[j],
         purged[j] \cup bundles[j] \subseteq purged'[j] \cup bundles'[j],
         \A f \in files[j] : \/ f.conv \in bundles'[j]
                             \/ \E g \in files'[j] : g.conv = f.conv
  PROVE  Saved(j)'
BY DEF Saved

(* The owners of uids while no client is started.                          *)
LEMMA OwnersKept ==
  ASSUME UidInv, UNCHANGED <<uids, phase>>, dbSaved'.uids \in {dbSaved.uids, uids},
         \A k \in Key : Sure(k)' => live'[k] = live[k]
  PROVE  UidInv'
BY DEF UidInv, Sure, Apart

LEMMA NobodyRuns ==
  ASSUME UidInv, phase # "up" \/ (\A k \in Key : ~Sure(k)'),
         UNCHANGED live \/ (\A k \in Key : ~Sure(k)'),
         Apart(uids'), Apart(dbSaved'.uids)
  PROVE  UidInv'
BY DEF UidInv, Sure, Apart

-----------------------------------------------------------------------------
(* The start                                                               *)

LEMMA BackfillStep ==
  ASSUME Dirs!WorkdirsAssumption, DirInv, Dirs!Backfill
  PROVE  DirInv'
<1> DEFINE bare == {k \in Key : row[k] # None /\ row[k].sid = 0}
<1>1. /\ phase = "backfill" /\ phase' = "migrate" /\ todo' = {k \in Key : row[k] # None}
      /\ given' = [k \in Key |-> IF k \in bare THEN given[k] + 1 ELSE given[k]]
      /\ row' = [k \in Key |-> IF k \in bare THEN [row[k] EXCEPT !.sid = given'[k]] ELSE row[k]]
      /\ cache' = [k \in Key |-> IF row[k] = None THEN 0 ELSE row'[k].sid]
      /\ uids' = uids /\ dbSaved' = [row |-> row', uids |-> uids']
      /\ UNCHANGED <<dirs, files, bundles, live, at, doing, last, purged, cut>>
  BY DEF Dirs!Backfill, Dirs!Commit, Dirs!disk, Dirs!past, Dirs!Legacy
<1>2. ASSUME NEW k \in Key
      PROVE  /\ row'[k] \in Rows /\ given'[k] \in Nat /\ dbSaved'.row[k] = row'[k]
             /\ row'[k] = None <=> row[k] = None
             /\ row[k] # None => /\ row'[k].cwd = row[k].cwd /\ row'[k].conv = row[k].conv
                                 /\ row'[k].sid # 0 /\ row'[k].sid \in Nat
                                 /\ row[k].sid # 0 => row'[k] = row[k]
  <2>1. row[k] \in Rows /\ given[k] \in Nat /\ given[k] + 1 \in Nat /\ given[k] + 1 # 0
    BY DEF DirInv, DirType
  <2>2. CASE k \in bare
    <3>1. row[k] \in Row /\ row[k] # None
      BY <2>1, <2>2 DEF Rows
    <3>2. given'[k] = given[k] + 1 /\ row'[k] = [row[k] EXCEPT !.sid = given[k] + 1]
      BY <1>1, <2>2
    <3>3. row'[k] \in Row
      BY <2>1, <3>1, <3>2 DEF Row
    <3>4. row'[k].sid = given[k] + 1 /\ row'[k].cwd = row[k].cwd /\ row'[k].conv = row[k].conv
      BY <3>1, <3>2 DEF Row
    <3>5. row[k].sid = 0 /\ None \notin Row
      BY <2>2 DEF Dirs!WorkdirsAssumption, Row
    <3> QED
      BY <1>1, <2>1, <3>1, <3>2, <3>3, <3>4, <3>5 DEF Rows
  <2>3. CASE k \notin bare
    BY <1>1, <2>1, <2>3 DEF Rows, Row
  <2> QED
    BY <2>2, <2>3
<1>3. DirType'
  <2>1. row' \in [Key -> Rows] /\ given' \in [Key -> Nat] /\ dbSaved'.row = row'
        /\ dbSaved'.uids = uids
    BY <1>1, <1>2
  <2>2. cache' \in [Key -> Nat]
    BY <1>1, <1>2
  <2> QED
    BY <1>1, <2>1, <2>2 DEF DirInv, DirType
<1>4. UidInv'
  <2>1. Apart(uids') /\ Apart(dbSaved'.uids)
    BY <1>1 DEF DirInv, UidInv, Apart
  <2> QED
    BY <1>1, <2>1, NobodyRuns DEF DirInv
<1>5. at = None /\ todo = {} /\ Migration'
  BY <1>1 DEF DirInv, Migration
<1>6. ASSUME NEW k \in Key
      PROVE  Homely(k)' /\ Saved(k)'
  <2>1. Homely(k) /\ Saved(k)
    BY DEF DirInv
  <2>2. Filed(k)' /\ Saved(k)'
    BY <1>1, <2>1 DEF Homely, Filed, Saved
  <2>3. Between(k)'
    BY <1>1, <1>5 DEF Between, Dirs!WorkdirsAssumption
  <2>4. Committed(k)'
    BY <1>1, <1>2 DEF Committed
  <2>5. dbSaved.row[k] = row[k]
    BY <1>1, <2>1 DEF Homely, Committed
  <2>6. k \notin cut => Reach(k, row[k])
    BY <1>5, <2>1 DEF Homely, Reached, Dirs!WorkdirsAssumption
  <2>7. k \notin cut' /\ row'[k] # None /\ row'[k].conv # 0
          => \/ Place(row'[k].cwd, row'[k].conv) \in files'[k]
             \/ /\ row'[k].sid # 0 /\ row'[k].cwd \notin dirs'[k]
                /\ Place(row'[k].sid, row'[k].conv) \in files'[k]
    <3> SUFFICES ASSUME k \notin cut, row[k] # None, row[k].conv # 0
                 PROVE  \/ Place(row[k].cwd, row[k].conv) \in files[k]
                        \/ /\ row'[k].sid # 0 /\ row[k].cwd \notin dirs[k]
                           /\ Place(row'[k].sid, row[k].conv) \in files[k]
      BY <1>1, <1>2
    <3>1. \/ Place(row[k].cwd, row[k].conv) \in files[k]
          \/ /\ row[k].sid # 0 /\ row[k].cwd \notin dirs[k]
             /\ Place(row[k].sid, row[k].conv) \in files[k]
      BY <2>6 DEF Reach, In
    <3> QED
      BY <1>2, <3>1
  <2>8. k \in todo' <=> row'[k] # None
    BY <1>1, <1>2
  <2>9. Reached(k)'
    BY <1>1, <1>2, <2>7, <2>8 DEF Reached, Reach, In
  <2> QED
    BY <2>2, <2>3, <2>4, <2>9 DEF Homely
<1> QED
  BY <1>3, <1>4, <1>5, <1>6 DEF DirInv

(* The transaction is open, and only the row that a step is about changes. *)
LEMMA SkipStep ==
  ASSUME Dirs!WorkdirsAssumption, DirInv, NEW k \in Key, Dirs!Skip(k)
  PROVE  DirInv'
<1>1. /\ phase = "migrate" /\ at = None /\ k \in todo /\ row[k].cwd = row[k].sid
      /\ todo' = todo \ {k}
      /\ UNCHANGED <<row, uids, dbSaved, dirs, files, bundles, cache, given, live, phase, at, last,
                     purged, cut>>
  BY DEF Dirs!Skip, Dirs!Turn, Dirs!Stray, Dirs!db, Dirs!disk, Dirs!past
<1>2. DirType' /\ Migration'
  BY <1>1 DEF DirInv, DirType, Migration
<1>3. UidInv'
  BY <1>1, OwnersKept DEF DirInv, Sure
<1>4. Homely(k)'
  <2>1. Homely(k)
    BY DEF DirInv
  <2>2. Filed(k)' /\ Committed(k)' /\ Between(k)'
    BY <1>1, <2>1 DEF Homely, Filed, Committed, Between
  <2>3. Reached(k)'
    BY <1>1, <2>1 DEF Homely, Reached, Reach, In
  <2> QED
    BY <2>2, <2>3 DEF Homely
<1>5. \A j \in Key : Homely(j)'
  BY <1>1, <1>4, OthersStay
<1>6. \A j \in Key : Saved(j)'
  BY <1>1 DEF DirInv, Saved
<1> QED
  BY <1>2, <1>3, <1>5, <1>6 DEF DirInv

LEMMA MoveStep ==
  ASSUME Dirs!WorkdirsAssumption, DirInv, NEW k \in Key, Dirs!Move(k)
  PROVE  DirInv'
<1> DEFINE sid == row[k].sid
           moved(f) == IF f.dir = 0 THEN [f EXCEPT !.dir = sid] ELSE f
<1>1. /\ phase = "migrate" /\ at = None /\ k \in todo /\ row[k].cwd # sid
      /\ 0 \in dirs[k] /\ sid \notin dirs[k] /\ at' = k
      /\ dirs' = [dirs EXCEPT ![k] = (dirs[k] \ {0}) \cup {sid}]
      /\ files' = [files EXCEPT ![k] = {moved(f) : f \in files[k]}]
      /\ cut' = (IF row[k].cwd \in dirs[k] \ {0} THEN cut \cup {k} ELSE cut)
      /\ UNCHANGED <<row, uids, dbSaved, bundles, cache, given, live, phase, todo, last, purged>>
  BY DEF Dirs!Move, Dirs!Turn, Dirs!Stray, Dirs!Renames, Dirs!Separated, Dirs!Legacy, Dirs!db
<1>2. Homely(k) /\ row[k] \in Rows /\ row[k] # None /\ dirs[k] \subseteq Nat /\ files[k] \subseteq Files
  BY <1>1 DEF DirInv, DirType, Homely, Committed
<1>3. row[k] \in Row /\ sid \in Nat /\ sid # 0 /\ dbSaved.row[k] = row[k]
  BY <1>1, <1>2 DEF Rows, Row, Homely, Committed
<1> HIDE DEF sid
<1>4. ASSUME NEW f \in files[k]
      PROVE  /\ moved(f) \in Files /\ moved(f).conv = f.conv /\ moved(f).enc = f.enc
             /\ f.dir = 0 => moved(f).dir = sid /\ f.enc = 0
             /\ f.dir # 0 => moved(f) = f /\ f.dir # sid /\ f.dir \in dirs[k]
  <2>1. f \in Files /\ f.dir \in dirs[k] /\ (f.dir = 0 => f.enc = 0)
    BY <1>2 DEF Homely, Filed
  <2>2. CASE f.dir = 0
    BY <1>3, <2>1, <2>2 DEF Files
  <2>3. CASE f.dir # 0
    BY <1>1, <2>1, <2>3
  <2> QED
    BY <2>2, <2>3
<1> HIDE DEF moved
<1>5. /\ files'[k] = {moved(f) : f \in files[k]} /\ dirs'[k] = (dirs[k] \ {0}) \cup {sid}
      /\ \A j \in Key : j # k => files'[j] = files[j] /\ dirs'[j] = dirs[j]
  BY <1>1 DEF DirInv, DirType
<1>6. DirType'
  <2>1. files'[k] \subseteq Files /\ dirs'[k] \subseteq Nat
    BY <1>2, <1>3, <1>4, <1>5
  <2>2. files' \in [Key -> SUBSET Files] /\ dirs' \in [Key -> SUBSET Nat]
    BY <1>1, <2>1 DEF DirInv, DirType
  <2> QED
    BY <1>1, <2>2 DEF DirInv, DirType
<1>7. Migration' /\ UidInv'
  <2>1. UidInv'
    BY <1>1, OwnersKept DEF DirInv, Sure
  <2> QED
    BY <1>1, <2>1 DEF DirInv, Migration
<1>8. Homely(k)'
  <2>1. Filed(k)'
    BY <1>3, <1>4, <1>5 DEF Filed
  <2>2. Committed(k)'
    BY <1>1, <1>2 DEF Homely, Committed
  <2>3. Reached(k)'
    BY <1>1 DEF Reached
  <2>4. k \notin cut' /\ row[k].conv # 0 =>
          row[k].cwd = 0 /\ [dir |-> sid, enc |-> 0, conv |-> row[k].conv] \in files'[k]
    <3> SUFFICES ASSUME k \notin cut', row[k].conv # 0
                 PROVE  row[k].cwd = 0 /\ [dir |-> sid, enc |-> 0, conv |-> row[k].conv] \in files'[k]
      OBVIOUS
    <3>1. row[k].cwd \notin dirs[k] \ {0} /\ k \notin cut /\ k # at
      BY <1>1 DEF Dirs!WorkdirsAssumption
    <3>2. In(k, row[k].cwd, row[k].conv) \/ In(k, sid, row[k].conv)
      BY <1>2, <3>1 DEF Homely, Reached, Reach, sid
    <3>3. \A n : In(k, n, row[k].conv) => n \in dirs[k]
      BY <1>2 DEF Homely, Filed, In, Place
    <3>4. row[k].cwd = 0 /\ In(k, 0, row[k].conv)
      BY <1>1, <3>1, <3>2, <3>3
    <3> DEFINE f == [dir |-> 0, enc |-> 0, conv |-> row[k].conv]
    <3>5. f \in files[k] /\ f.dir = 0
      BY <3>4 DEF In, Place
    <3>6. moved(f) = [dir |-> sid, enc |-> 0, conv |-> row[k].conv]
      BY DEF moved
    <3> QED
      BY <1>5, <3>4, <3>5, <3>6
  <2>5. \A f \in files'[k] : f.dir = sid => f.enc = 0
    BY <1>4, <1>5
  <2>6. Between(k)'
    BY <1>1, <1>3, <1>5, <2>4, <2>5 DEF Between, sid
  <2> QED
    BY <2>1, <2>2, <2>3, <2>6 DEF Homely
<1>9. \A j \in Key : Homely(j)'
  BY <1>1, <1>5, <1>8, OthersStay DEF Dirs!WorkdirsAssumption
<1>10. ASSUME NEW j \in Key PROVE Saved(j)'
  <2>1. Saved(j)
    BY DEF DirInv
  <2>2. CASE j # k
    BY <1>1, <1>5, <2>1, <2>2 DEF Saved
  <2>3. CASE j = k
    BY <1>1, <1>4, <1>5, <2>1, <2>3, SavedStays
  <2> QED
    BY <2>2, <2>3
<1> QED
  BY <1>6, <1>7, <1>9, <1>10 DEF DirInv

(* The uid and the cwd of a row take its new name.                         *)
LEMMA RekeyEffect ==
  ASSUME DirInv, NEW k \in Key, phase = "migrate", k \in todo, Dirs!Rekey(k)
  PROVE  /\ row[k] \in Row /\ row'[k] \in Row /\ row' \in [Key -> Rows]
         /\ row'[k].cwd = row[k].sid /\ row'[k].sid = row[k].sid /\ row'[k].conv = row[k].conv
         /\ row[k].sid # 0 /\ dbSaved.row[k] = row[k]
         /\ \A j \in Key : j # k => row'[j] = row[j]
         /\ uids' \subseteq Owner /\ Apart(uids') /\ UNCHANGED dbSaved
         /\ todo' = todo \ {k} /\ at' = None
<1>1. /\ uids' = {IF u.key = k /\ u.name = 0 THEN [u EXCEPT !.name = row[k].sid] ELSE u : u \in uids}
      /\ row' = [row EXCEPT ![k] = [row[k] EXCEPT !.cwd = row[k].sid]] /\ UNCHANGED dbSaved
      /\ todo' = todo \ {k} /\ at' = None
  BY DEF Dirs!Rekey, Dirs!Legacy
<1>2. row[k] \in Rows /\ row[k] # None /\ dbSaved.row[k] = row[k] /\ row[k].sid # 0
  BY DEF DirInv, DirType, Homely, Committed
<1>3. row[k] \in Row /\ row[k].sid \in Nat
  BY <1>2 DEF Rows, Row
<1>4. /\ row'[k] = [row[k] EXCEPT !.cwd = row[k].sid]
      /\ \A j \in Key : j # k => row'[j] = row[j]
  BY <1>1 DEF DirInv, DirType
<1>5. /\ row'[k] \in Row /\ row'[k].cwd = row[k].sid /\ row'[k].sid = row[k].sid
      /\ row'[k].conv = row[k].conv
  BY <1>3, <1>4 DEF Row
<1>6. row' \in [Key -> Rows]
  BY <1>1, <1>4, <1>5 DEF DirInv, DirType, Rows
<1> DEFINE new(u) == IF u.key = k /\ u.name = 0 THEN [u EXCEPT !.name = row[k].sid] ELSE u
<1>7. \A u \in Owner : new(u) \in Owner /\ new(u).uid = u.uid
  BY <1>3 DEF Owner
<1>8. uids' = {new(u) : u \in uids} /\ uids \subseteq Owner /\ Apart(uids)
  BY <1>1 DEF DirInv, DirType, UidInv
<1> HIDE DEF new
<1>9. uids' \subseteq Owner /\ Apart(uids')
  BY <1>7, <1>8 DEF Apart
<1> QED
  BY <1>1, <1>2, <1>3, <1>4, <1>5, <1>6, <1>9

LEMMA EncodeStep ==
  ASSUME Dirs!WorkdirsAssumption, DirInv, NEW k \in Key, Dirs!Encode(k)
  PROVE  DirInv'
<1> DEFINE sid == row[k].sid
           put(f) == IF f.dir = sid /\ f.enc = 0 /\ ~\E g \in files[k] : g.dir = sid /\ g.enc = sid
                     THEN [f EXCEPT !.enc = sid] ELSE f
<1>1. /\ phase = "migrate" /\ at = k /\ Dirs!Rekey(k)
      /\ files' = [files EXCEPT ![k] = {put(f) : f \in files[k]}]
      /\ UNCHANGED <<dirs, bundles, cache, given, live, phase, last, purged, cut>>
  BY DEF Dirs!Encode, Dirs!Legacy, Dirs!past
<1>2. k \in todo /\ Homely(k) /\ files[k] \subseteq Files /\ Apart(dbSaved.uids)
  BY <1>1 DEF DirInv, DirType, Migration, UidInv, Dirs!WorkdirsAssumption
<1>3. /\ row[k] \in Row /\ row'[k] \in Row /\ row' \in [Key -> Rows]
      /\ row'[k].cwd = sid /\ row'[k].sid = sid /\ row'[k].conv = row[k].conv
      /\ sid # 0 /\ dbSaved.row[k] = row[k]
      /\ \A j \in Key : j # k => row'[j] = row[j]
      /\ uids' \subseteq Owner /\ Apart(uids') /\ UNCHANGED dbSaved
      /\ todo' = todo \ {k} /\ at' = None
  BY <1>1, <1>2, RekeyEffect
<1>4. sid \in Nat /\ row[k] # None
  BY <1>3 DEF Row, Dirs!WorkdirsAssumption
<1>5. 0 \notin dirs[k] /\ row[k].cwd # sid /\ \A f \in files[k] : f.dir = sid => f.enc = 0
  BY <1>1, <1>2 DEF Homely, Between
<1>6. k \notin cut /\ row[k].conv # 0 =>
        row[k].cwd = 0 /\ [dir |-> sid, enc |-> 0, conv |-> row[k].conv] \in files[k]
  BY <1>1, <1>2 DEF Homely, Between
<1> HIDE DEF sid
<1>7. ASSUME NEW f \in files[k]
      PROVE  /\ put(f) \in Files /\ put(f).conv = f.conv /\ put(f).dir = f.dir
             /\ f.dir # 0 /\ f.dir \in dirs[k]
             /\ f.dir = sid => put(f) = [f EXCEPT !.enc = sid]
  <2>1. f \in Files /\ f.dir \in dirs[k]
    BY <1>2 DEF Homely, Filed
  <2>2. ~\E g \in files[k] : g.dir = sid /\ g.enc = sid
    BY <1>3, <1>5
  <2> QED
    BY <1>4, <1>5, <2>1, <2>2 DEF Files
<1> HIDE DEF put
<1>8. files'[k] = {put(f) : f \in files[k]} /\ \A j \in Key : j # k => files'[j] = files[j]
  BY <1>1 DEF DirInv, DirType
<1>9. DirType'
  <2>1. files'[k] \subseteq Files
    BY <1>7, <1>8
  <2>2. files' \in [Key -> SUBSET Files]
    BY <1>1, <2>1 DEF DirInv, DirType
  <2> QED
    BY <1>1, <1>3, <2>2 DEF DirInv, DirType
<1>10. UidInv'
  BY <1>1, <1>2, <1>3, NobodyRuns DEF DirInv
<1>11. Migration'
  BY <1>1, <1>3 DEF DirInv, Migration
<1>12. k \notin cut /\ row[k].conv # 0 => Place(sid, row[k].conv) \in files'[k]
  <2> SUFFICES ASSUME k \notin cut, row[k].conv # 0 PROVE Place(sid, row[k].conv) \in files'[k]
    OBVIOUS
  <2> DEFINE f == [dir |-> sid, enc |-> 0, conv |-> row[k].conv]
  <2>1. f \in files[k] /\ f.dir = sid
    BY <1>6
  <2>2. put(f) = [f EXCEPT !.enc = sid]
    BY <1>7, <2>1
  <2>3. put(f) = Place(sid, row[k].conv)
    BY <2>2 DEF Place
  <2> QED
    BY <1>8, <2>1, <2>3
<1>13. Homely(k)'
  <2>1. Filed(k)'
    BY <1>1, <1>7, <1>8 DEF Filed
  <2>2. Committed(k)'
    BY <1>1, <1>3 DEF Committed
  <2>3. Between(k)'
    BY <1>3 DEF Between, Dirs!WorkdirsAssumption
  <2>4. k \notin cut /\ row[k].conv # 0 => row[k].cwd \notin dirs'[k] /\ row[k].sid # 0
    BY <1>1, <1>3, <1>5, <1>6 DEF sid
  <2>6. k \notin cut' => Reach(k, row[k])' /\ Reach(k, dbSaved.row[k])'
    BY <1>1, <1>3, <1>12, <2>4 DEF Reach, In, sid
  <2>7. Reached(k)'
    BY <1>1, <1>3, <1>12, <2>6 DEF Reached, In
  <2> QED
    BY <2>1, <2>2, <2>3, <2>7 DEF Homely
<1>14. \A j \in Key : Homely(j)'
  BY <1>1, <1>3, <1>8, <1>13, OthersStay DEF Dirs!WorkdirsAssumption
<1>15. ASSUME NEW j \in Key PROVE Saved(j)'
  <2>1. Saved(j)
    BY DEF DirInv
  <2>2. CASE j # k
    BY <1>1, <1>8, <2>1, <2>2 DEF Saved
  <2>3. CASE j = k
    BY <1>1, <1>7, <1>8, <2>1, <2>3, SavedStays
  <2> QED
    BY <2>2, <2>3
<1> QED
  BY <1>9, <1>10, <1>11, <1>14, <1>15 DEF DirInv

LEMMA RealignStep ==
  ASSUME Dirs!WorkdirsAssumption, DirInv, NEW k \in Key, Dirs!Realign(k)
  PROVE  DirInv'
<1> DEFINE sid == row[k].sid
<1>1. /\ phase = "migrate" /\ at = None /\ k \in todo /\ row[k].cwd # sid
      /\ ~(0 \in dirs[k] /\ sid \notin dirs[k]) /\ Dirs!Rekey(k)
      /\ cut' = (IF row[k].cwd \in dirs[k] THEN cut \cup {k} ELSE cut)
      /\ UNCHANGED <<dirs, files, bundles, cache, given, live, phase, last, purged>>
  BY DEF Dirs!Realign, Dirs!Turn, Dirs!Stray, Dirs!Renames, Dirs!Separated, Dirs!Legacy, Dirs!disk
<1>2. Homely(k) /\ Apart(dbSaved.uids) /\ k # at
  BY <1>1 DEF DirInv, UidInv, Dirs!WorkdirsAssumption
<1>3. /\ row[k] \in Row /\ row'[k] \in Row /\ row' \in [Key -> Rows]
      /\ row'[k].cwd = sid /\ row'[k].sid = sid /\ row'[k].conv = row[k].conv
      /\ sid # 0 /\ dbSaved.row[k] = row[k]
      /\ \A j \in Key : j # k => row'[j] = row[j]
      /\ uids' \subseteq Owner /\ Apart(uids') /\ UNCHANGED dbSaved
      /\ todo' = todo \ {k} /\ at' = None
  BY <1>1, RekeyEffect
<1>4. DirType' /\ Migration'
  BY <1>1, <1>3 DEF DirInv, DirType, Migration
<1>5. UidInv'
  BY <1>1, <1>2, <1>3, NobodyRuns DEF DirInv
<1>6. row[k] # None
  BY <1>3 DEF Row, Dirs!WorkdirsAssumption
<1>7. k \notin cut' /\ row[k].conv # 0 => /\ Place(sid, row[k].conv) \in files[k]
                                          /\ row[k].cwd \notin dirs[k]
  <2> SUFFICES ASSUME k \notin cut', row[k].conv # 0
               PROVE  /\ Place(sid, row[k].conv) \in files[k] /\ row[k].cwd \notin dirs[k]
    OBVIOUS
  <2>1. row[k].cwd \notin dirs[k] /\ k \notin cut
    BY <1>1
  <2>2. Reach(k, row[k])
    BY <1>2, <2>1 DEF Homely, Reached
  <2>3. \A n : Place(n, row[k].conv) \in files[k] => n \in dirs[k]
    BY <1>2 DEF Homely, Filed, Place
  <2> QED
    BY <1>6, <2>1, <2>2, <2>3 DEF Reach, In
<1>8. Homely(k)'
  <2>1. Filed(k)'
    BY <1>1, <1>2 DEF Homely, Filed
  <2>2. Committed(k)'
    BY <1>1, <1>3 DEF Committed
  <2>3. Between(k)'
    BY <1>3 DEF Between, Dirs!WorkdirsAssumption
  <2>4. k \notin cut' => Reach(k, row[k])' /\ Reach(k, dbSaved.row[k])'
    BY <1>1, <1>3, <1>7 DEF Reach, In
  <2>5. Reached(k)'
    BY <1>1, <1>3, <1>7, <2>4 DEF Reached, In
  <2> QED
    BY <2>1, <2>2, <2>3, <2>5 DEF Homely
<1>9. \A j \in Key : Homely(j)'
  BY <1>1, <1>2, <1>3, <1>8, OthersStay DEF Dirs!WorkdirsAssumption
<1>10. \A j \in Key : Saved(j)'
  BY <1>1 DEF DirInv, Saved
<1> QED
  BY <1>4, <1>5, <1>9, <1>10 DEF DirInv

LEMMA RenameFailsStep ==
  ASSUME Dirs!WorkdirsAssumption, DirInv, NEW k \in Key, Dirs!RenameFails(k)
  PROVE  DirInv'
<1>1. /\ phase = "migrate" /\ todo' = todo \ {k} /\ at' = None
      /\ UNCHANGED <<row, uids, dbSaved, dirs, files, bundles, cache, given, live, phase, last, purged>>
  BY DEF Dirs!RenameFails, Dirs!db, Dirs!disk
<1>2. \/ at = k /\ cut' = cut \cup {k}
      \/ /\ at = None /\ row[k].cwd # row[k].sid /\ row[k].sid \notin dirs[k] /\ cut' = cut
  BY DEF Dirs!RenameFails, Dirs!Turn, Dirs!Stray, Dirs!Renames
<1>3. DirType' /\ Migration'
  BY <1>1, <1>2 DEF DirInv, DirType, Migration
<1>4. UidInv'
  BY <1>1, OwnersKept DEF DirInv, Sure
<1>5. Homely(k)'
  <2>1. Homely(k)
    BY DEF DirInv
  <2>2. Filed(k)' /\ Committed(k)' /\ Between(k)'
    BY <1>1, <2>1 DEF Homely, Filed, Committed, Between, Dirs!WorkdirsAssumption
  <2>3. CASE at = k /\ cut' = cut \cup {k}
    BY <2>2, <2>3 DEF Homely, Reached
  <2>4. CASE at = None /\ row[k].sid \notin dirs[k] /\ cut' = cut
    <3>1. k # at
      BY <2>4 DEF Dirs!WorkdirsAssumption
    <3>2. \A n : Place(n, row[k].conv) \in files[k] => n \in dirs[k]
      BY <2>1 DEF Homely, Filed, Place
    <3>3. k \notin cut => /\ Reach(k, row[k]) /\ Reach(k, dbSaved.row[k])
                          /\ row[k] # None /\ row[k].conv # 0 => In(k, row[k].cwd, row[k].conv)
      BY <2>1, <2>4, <3>1, <3>2 DEF Homely, Reached, Reach, In
    <3>4. Reached(k)'
      BY <1>1, <2>4, <3>3 DEF Reached, Reach, In
    <3> QED
      BY <2>2, <3>4 DEF Homely
  <2> QED
    BY <1>2, <2>3, <2>4
<1>6. \A j \in Key : Homely(j)'
  BY <1>1, <1>2, <1>5, OthersStay DEF Dirs!WorkdirsAssumption
<1>7. \A j \in Key : Saved(j)'
  BY <1>1 DEF DirInv, Saved
<1> QED
  BY <1>3, <1>4, <1>6, <1>7 DEF DirInv

LEMMA StartedStep ==
  ASSUME Dirs!WorkdirsAssumption, DirInv, Dirs!Started
  PROVE  DirInv'
<1>1. /\ phase = "migrate" /\ todo = {} /\ phase' = "up"
      /\ dbSaved' = [row |-> row', uids |-> uids']
      /\ UNCHANGED <<row, uids, dirs, files, bundles, cache, given, live, todo, at, last, purged, cut>>
  BY DEF Dirs!Started, Dirs!Commit, Dirs!disk, Dirs!past
<1>2. at = None
  BY <1>1 DEF DirInv, Migration
<1>3. DirType' /\ Migration'
  BY <1>1, <1>2 DEF DirInv, DirType, Migration
<1>4. UidInv'
  BY <1>1, NobodyRuns DEF DirInv, UidInv, Apart
<1>5. ASSUME NEW k \in Key
      PROVE  Homely(k)' /\ Saved(k)'
  <2>1. Homely(k) /\ Saved(k) /\ k # at /\ dbSaved'.row[k] = row[k]
    BY <1>1, <1>2 DEF DirInv, Dirs!WorkdirsAssumption
  <2>2. Filed(k)' /\ Committed(k)' /\ Between(k)' /\ Saved(k)'
    BY <1>1, <2>1 DEF Homely, Filed, Committed, Between, Saved
  <2>3. Reached(k)'
    BY <1>1, <2>1 DEF Homely, Reached, Reach, In
  <2> QED
    BY <2>2, <2>3 DEF Homely
<1> QED
  BY <1>3, <1>4, <1>5 DEF DirInv

LEMMA DirsCrash ==
  ASSUME Dirs!WorkdirsAssumption, DirInv, Dirs!Crash
  PROVE  DirInv'
<1>1. /\ row' = dbSaved.row /\ uids' = dbSaved.uids /\ UNCHANGED dbSaved
      /\ live' = [k \in Key |-> None] /\ cache' = [k \in Key |-> 0]
      /\ phase' = "backfill" /\ todo' = {} /\ at' = None /\ cut' = cut \cup ({at} \cap Key)
      /\ UNCHANGED <<dirs, files, bundles, given, last, purged>>
  BY DEF Dirs!Crash, Dirs!disk, Dirs!Legacy
<1>2. DirType' /\ Migration'
  BY <1>1 DEF DirInv, DirType, Migration
<1>3. UidInv'
  <2>1. \A k \in Key : ~Sure(k)'
    BY <1>1 DEF Sure
  <2> QED
    BY <1>1, <2>1 DEF DirInv, UidInv
<1>4. ASSUME NEW k \in Key
      PROVE  Homely(k)' /\ Saved(k)'
  <2>1. Homely(k) /\ Saved(k) /\ k # at' /\ row'[k] = dbSaved.row[k]
    BY <1>1 DEF DirInv, Dirs!WorkdirsAssumption
  <2>2. Filed(k)' /\ Committed(k)' /\ Between(k)' /\ Saved(k)'
    BY <1>1, <2>1 DEF Homely, Filed, Committed, Between, Saved
  <2>3. k \notin cut' => Reach(k, dbSaved.row[k])
    BY <1>1, <2>1 DEF Homely, Reached
  <2>4. Reached(k)'
    BY <1>1, <2>3 DEF Reached, Reach, In
  <2> QED
    BY <2>2, <2>4 DEF Homely
<1> QED
  BY <1>2, <1>3, <1>4 DEF DirInv

-----------------------------------------------------------------------------
(* The running bot: every change of a row is committed at once             *)

(* Rows, transcripts and directories stay.                                 *)
LEMMA HomesStay ==
  ASSUME DirInv, UNCHANGED <<row, dbSaved, files, dirs, todo, phase, at, cut>>
  PROVE  \A j \in Key : Homely(j)'
BY Untouched DEF DirInv

LEMMA UpRests ==
  ASSUME DirInv, phase = "up", UNCHANGED <<phase, todo, at>>
  PROVE  /\ todo = {} /\ at = None /\ Migration' /\ \A k \in Key : dbSaved.row[k] = row[k]
BY DEF DirInv, Migration, Homely, Committed

LEMMA UpHomely ==
  ASSUME Dirs!WorkdirsAssumption, NEW k \in Key, phase' = "up", at' = None, todo' = {},
         dbSaved'.row[k] = row'[k], Filed(k)',
         k \notin cut' /\ row'[k] # None /\ row'[k].conv # 0
           => Place(row'[k].cwd, row'[k].conv) \in files'[k]
  PROVE  Homely(k)'
<1>1. Committed(k)' /\ Between(k)'
  BY DEF Committed, Between, Dirs!WorkdirsAssumption
<1>2. Reached(k)'
  BY DEF Reached, Reach, In
<1> QED
  BY <1>1, <1>2 DEF Homely

LEMMA CreateStep ==
  ASSUME Dirs!WorkdirsAssumption, DirInv, NEW k \in Key, Dirs!Create(k)
  PROVE  DirInv'
<1>1. /\ phase = "up" /\ UNCHANGED <<phase, todo, at>>
      /\ given' = [given EXCEPT ![k] = 1] /\ cache' = [cache EXCEPT ![k] = 1]
      /\ row' = [row EXCEPT ![k] = [sid |-> 1, cwd |-> 1, conv |-> 0]]
      /\ uids' = uids /\ dbSaved' = [row |-> row', uids |-> uids']
      /\ UNCHANGED <<dirs, files, bundles, live, last, purged, cut>>
  BY DEF Dirs!Create, Dirs!Up, Dirs!Commit, Dirs!disk, Dirs!past
<1>2. todo = {} /\ at = None /\ Migration' /\ \A j \in Key : dbSaved.row[j] = row[j]
  BY <1>1, UpRests
<1>3. [sid |-> 1, cwd |-> 1, conv |-> 0] \in Rows
  BY DEF Rows, Row
<1>4. DirType'
  <2>1. row' \in [Key -> Rows] /\ given' \in [Key -> Nat] /\ cache' \in [Key -> Nat]
    BY <1>1, <1>3 DEF DirInv, DirType
  <2> QED
    BY <1>1, <2>1 DEF DirInv, DirType
<1>5. UidInv'
  BY <1>1, OwnersKept DEF DirInv, Sure
<1>6. row'[k].conv = 0 /\ \A j \in Key : j # k => row'[j] = row[j]
  BY <1>1 DEF DirInv, DirType
<1>7. Filed(k)'
  BY <1>1 DEF DirInv, Homely, Filed
<1>8. Homely(k)'
  BY <1>1, <1>2, <1>6, <1>7, UpHomely
<1>9. \A j \in Key : Homely(j)'
  BY <1>1, <1>2, <1>6, <1>8, OthersStay
<1>10. \A j \in Key : Saved(j)'
  BY <1>1 DEF DirInv, Saved
<1> QED
  BY <1>2, <1>4, <1>5, <1>9, <1>10 DEF DirInv

(* The uid of a jail: its own entry, or one that nobody has.               *)
LEMMA ClaimEffect ==
  ASSUME Dirs!WorkdirsAssumption, DirInv, NEW k \in Key, NEW u \in Uid, phase = "up", phase' = "up",
         row[k] \in Row, Dirs!Claim(k, u), dbSaved'.uids = uids'
  PROVE  /\ live' \in [Key -> {None} \cup Jail] /\ uids' \subseteq Owner
         /\ UidInv'
<1> DEFINE name == row[k].cwd
           mine == {v \in uids : v.key = k /\ v.name = name}
           free == Uid \ {v.uid : v \in uids}
           new == [key |-> k, name |-> name, uid |-> u]
           jail(sure) == [name |-> name, uid |-> u, sure |-> sure]
<1>1. \/ /\ \E v \in mine : u = v.uid
         /\ live' = [live EXCEPT ![k] = jail(TRUE)] /\ uids' = uids
      \/ /\ u \in free
         /\ live' = [live EXCEPT ![k] = jail(TRUE)] /\ uids' = uids \cup {new}
      \/ live' = [live EXCEPT ![k] = jail(FALSE)] /\ uids' = uids
  BY DEF Dirs!Claim
<1>2. /\ name \in Nat /\ new \in Owner /\ uids \subseteq Owner
      /\ live \in [Key -> {None} \cup Jail] /\ Apart(uids)
  BY DEF Row, Owner, DirInv, DirType, UidInv
<1>3. \A s \in BOOLEAN : jail(s) \in Jail /\ jail(s).sure = s /\ jail(s).name = name /\ jail(s).uid = u
  BY <1>2 DEF Jail
<1>4. new.key = k /\ new.name = name /\ new.uid = u
  OBVIOUS
<1>5. \A v \in uids : v \in Owner => v = [key |-> v.key, name |-> v.name, uid |-> v.uid]
  BY DEF Owner
<1>6. \A v \in mine : v.uid = u => v = new
  BY <1>2, <1>5
<1>7. u \in free => \A v \in uids : v.uid # u
  OBVIOUS
<1>8. \A v \in mine : v \in uids
  OBVIOUS
<1>9. \A j \in Key : Sure(j) => [key |-> j, name |-> live[j].name, uid |-> live[j].uid] \in uids
  BY DEF DirInv, UidInv
<1>10. new = [key |-> k, name |-> name, uid |-> u]
  OBVIOUS
<1> HIDE DEF name, mine, free, new, jail
<1>11. CASE live' = [live EXCEPT ![k] = jail(FALSE)] /\ uids' = uids
  <2>1. live'[k] = jail(FALSE) /\ \A j \in Key : j # k => live'[j] = live[j]
    BY <1>2, <1>11
  <2>2. \A j \in Key : Sure(j)' => Sure(j) /\ live'[j] = live[j]
    BY <1>3, <2>1 DEF Sure
  <2>3. UidInv'
    BY <1>2, <1>9, <1>11, <2>2 DEF UidInv, Apart
  <2>4. live' \in [Key -> {None} \cup Jail]
    BY <1>2, <1>3, <1>11
  <2> QED
    BY <1>2, <1>11, <2>3, <2>4
<1>12. CASE /\ live' = [live EXCEPT ![k] = jail(TRUE)]
            /\ \/ (\E v \in mine : u = v.uid) /\ uids' = uids
               \/ u \in free /\ uids' = uids \cup {new}
  <2>1. live'[k] = jail(TRUE) /\ \A j \in Key : j # k => live'[j] = live[j]
    BY <1>2, <1>12
  <2>2. new \in uids' /\ uids \subseteq uids' /\ uids' \subseteq Owner
    BY <1>2, <1>6, <1>8, <1>12
  <2>3. Apart(uids')
    BY <1>2, <1>4, <1>7, <1>12 DEF Apart
  <2>4. \A j \in Key : Sure(j)' => [key |-> j, name |-> live'[j].name, uid |-> live'[j].uid] \in uids'
    <3> SUFFICES ASSUME NEW j \in Key, Sure(j)'
                 PROVE  [key |-> j, name |-> live'[j].name, uid |-> live'[j].uid] \in uids'
      OBVIOUS
    <3>1. CASE j = k
      BY <1>3, <1>10, <2>1, <2>2, <3>1
    <3>2. CASE j # k
      BY <1>9, <2>1, <2>2, <3>2 DEF Sure
    <3> QED
      BY <3>1, <3>2
  <2>5. live' \in [Key -> {None} \cup Jail]
    BY <1>2, <1>3, <1>12
  <2> QED
    BY <2>2, <2>3, <2>4, <2>5 DEF UidInv, Apart
<1> QED
  BY <1>1, <1>11, <1>12

LEMMA LaunchStep ==
  ASSUME Dirs!WorkdirsAssumption, DirInv, NEW k \in Key, NEW u \in Uid, Dirs!Launch(k, u)
  PROVE  DirInv'
<1> DEFINE name == row[k].cwd
           found == Place(name, row[k].conv) \in files[k]
           conv == IF found THEN row[k].conv ELSE last[k] + 1
<1>1. /\ phase = "up" /\ UNCHANGED <<phase, todo, at>> /\ row[k] # None /\ Dirs!Claim(k, u)
      /\ last' = [last EXCEPT ![k] = IF found THEN last[k] ELSE conv]
      /\ row' = [row EXCEPT ![k] = [row[k] EXCEPT !.conv = conv]]
      /\ dbSaved' = [row |-> row', uids |-> uids']
      /\ dirs' = [dirs EXCEPT ![k] = dirs[k] \cup {name}]
      /\ files' = [files EXCEPT ![k] = files[k] \cup {Place(name, conv)}]
      /\ UNCHANGED <<bundles, cache, given, purged, cut>>
  BY DEF Dirs!Launch, Dirs!Up, Dirs!Commit, Place
<1>2. todo = {} /\ at = None /\ Migration' /\ \A j \in Key : dbSaved.row[j] = row[j]
  BY <1>1, UpRests
<1>3. row[k] \in Row /\ last[k] \in Nat /\ files[k] \subseteq Files /\ dirs[k] \subseteq Nat
  BY <1>1 DEF DirInv, DirType, Rows
<1>4. name \in Nat /\ conv \in Nat /\ row[k].conv \in Nat
  BY <1>3 DEF Row
<1>5. /\ found => conv = row[k].conv /\ last'[k] = last[k]
      /\ ~found => conv = last[k] + 1 /\ last'[k] = last[k] + 1
  BY <1>1, <1>3 DEF DirInv, DirType
<1> HIDE DEF conv, found, name
<1>6. /\ row'[k] = [row[k] EXCEPT !.conv = conv] /\ dirs'[k] = dirs[k] \cup {name}
      /\ files'[k] = files[k] \cup {Place(name, conv)}
      /\ \A j \in Key : j # k => /\ row'[j] = row[j] /\ dirs'[j] = dirs[j] /\ files'[j] = files[j]
                                 /\ last'[j] = last[j]
  BY <1>1 DEF DirInv, DirType
<1>7. row'[k] \in Row /\ row'[k].cwd = name /\ row'[k].conv = conv
  BY <1>3, <1>4, <1>6 DEF Row, name
<1>8. Place(name, conv) \in Files /\ Place(name, conv).dir = name /\ Place(name, conv).enc = name
      /\ Place(name, conv).conv = conv
  BY <1>4 DEF Place, Files
<1>9. /\ live' \in [Key -> {None} \cup Jail] /\ uids' \subseteq Owner /\ UidInv'
  BY <1>1, <1>3, ClaimEffect
<1>10. DirType'
  <2>1. row' \in [Key -> Rows]
    BY <1>1, <1>7 DEF DirInv, DirType, Rows
  <2>2. dirs' \in [Key -> SUBSET Nat] /\ files' \in [Key -> SUBSET Files]
    <3>1. dirs'[k] \subseteq Nat /\ files'[k] \subseteq Files
      BY <1>3, <1>4, <1>6, <1>8
    <3> QED
      BY <1>1, <3>1 DEF DirInv, DirType
  <2>3. last' \in [Key -> Nat]
    <3>1. last'[k] \in Nat
      BY <1>3, <1>5
    <3> QED
      BY <1>1, <3>1 DEF DirInv, DirType
  <2> QED
    BY <1>1, <1>9, <2>1, <2>2, <2>3 DEF DirInv, DirType
<1>11. Filed(k)'
  <2>1. Filed(k)
    BY DEF DirInv, Homely
  <2> QED
    BY <1>6, <1>8, <2>1 DEF Filed
<1>12. Homely(k)'
  BY <1>1, <1>2, <1>6, <1>7, <1>11, UpHomely
<1>13. \A j \in Key : Homely(j)'
  BY <1>1, <1>2, <1>6, <1>12, OthersStay
<1>14. ASSUME NEW j \in Key PROVE Saved(j)'
  <2>1. Saved(j)
    BY DEF DirInv
  <2>2. CASE j # k
    BY <1>1, <1>6, <2>1, <2>2 DEF Saved
  <2>3. CASE j = k /\ found
    BY <1>1, <1>5, <1>6, <2>1, <2>3 DEF Saved
  <2>4. CASE j = k /\ ~found
    <3> SUFFICES ASSUME NEW c \in 1..last'[k]
                 PROVE  c \in purged[k] \cup bundles[k] \/ \E f \in files'[k] : f.conv = c
      BY <1>1, <2>4 DEF Saved
    <3>1. CASE c = conv
      BY <1>6, <1>8, <3>1
    <3>2. CASE c # conv
      <4>1. c \in 1..last[k]
        BY <1>3, <1>5, <2>4, <3>2
      <4> QED
        BY <1>6, <2>1, <2>4, <4>1 DEF Saved
    <3> QED
      BY <3>1, <3>2
  <2> QED
    BY <2>2, <2>3, <2>4
<1> QED
  BY <1>2, <1>9, <1>10, <1>13, <1>14 DEF DirInv

LEMMA CloseStep ==
  ASSUME Dirs!WorkdirsAssumption, DirInv, NEW k \in Key, Dirs!Close(k) \/ Dirs!Reset(k)
  PROVE  DirInv'
<1>1. /\ phase = "up" /\ UNCHANGED <<phase, todo, at>> /\ live' = [live EXCEPT ![k] = None]
      /\ UNCHANGED <<row, uids, dbSaved, dirs, files, bundles, cache, given, last, purged, cut>>
  BY DEF Dirs!Close, Dirs!Reset, Dirs!Up, Dirs!db, Dirs!disk, Dirs!past
<1>2. DirType' /\ Migration'
  BY <1>1 DEF DirInv, DirType, Migration
<1>3. \A j \in Key : Sure(j)' => live'[j] = live[j]
  BY <1>1 DEF DirInv, DirType, Sure
<1>4. UidInv'
  BY <1>1, <1>3, OwnersKept DEF DirInv
<1>5. \A j \in Key : Homely(j)' /\ Saved(j)'
  BY <1>1, HomesStay DEF DirInv, Saved
<1> QED
  BY <1>2, <1>4, <1>5 DEF DirInv

LEMMA WriteSecretsStep ==
  ASSUME Dirs!WorkdirsAssumption, DirInv, NEW k \in Key, Dirs!WriteSecrets(k)
  PROVE  DirInv'
<1>1. /\ phase = "up" /\ UNCHANGED <<phase, todo, at>> /\ row[k] # None
      /\ dirs' = [dirs EXCEPT ![k] = dirs[k] \cup {cache[k]}]
      /\ UNCHANGED <<row, uids, dbSaved, files, bundles, cache, given, live, last, purged, cut>>
  BY DEF Dirs!WriteSecrets, Dirs!Up, Dirs!db, Dirs!past
<1>2. todo = {} /\ at = None /\ Migration' /\ \A j \in Key : dbSaved.row[j] = row[j]
  BY <1>1, UpRests
<1>3. dirs'[k] = dirs[k] \cup {cache[k]} /\ \A j \in Key : j # k => dirs'[j] = dirs[j]
  BY <1>1 DEF DirInv, DirType
<1>4. DirType'
  <2>1. dirs' \in [Key -> SUBSET Nat]
    BY <1>1 DEF DirInv, DirType
  <2> QED
    BY <1>1, <2>1 DEF DirInv, DirType
<1>5. UidInv'
  BY <1>1, OwnersKept DEF DirInv, Sure
<1>6. Homely(k)
  BY DEF DirInv
<1>7. Filed(k)'
  BY <1>1, <1>3, <1>6 DEF Homely, Filed
<1>8. k \notin cut /\ row[k] # None /\ row[k].conv # 0 => Place(row[k].cwd, row[k].conv) \in files[k]
  BY <1>1, <1>2, <1>6 DEF Homely, Reached, In, Dirs!WorkdirsAssumption
<1>9. Homely(k)'
  BY <1>1, <1>2, <1>7, <1>8, UpHomely
<1>10. \A j \in Key : Homely(j)'
  BY <1>1, <1>2, <1>3, <1>9, OthersStay
<1>11. \A j \in Key : Saved(j)'
  BY <1>1 DEF DirInv, Saved
<1> QED
  BY <1>2, <1>4, <1>5, <1>10, <1>11 DEF DirInv

LEMMA DirsDeleteRow ==
  ASSUME Dirs!WorkdirsAssumption, DirInv, NEW k \in Key, Dirs!DeleteRow(k)
  PROVE  DirInv'
<1>1. /\ phase = "up" /\ UNCHANGED <<phase, todo, at>>
      /\ row' = [row EXCEPT ![k] = None]
      /\ uids' = {v \in uids : v.key # k \/ v.name # cache[k]}
      /\ dbSaved' = [row |-> row', uids |-> uids']
      /\ live' = IF live[k] = None THEN live ELSE [live EXCEPT ![k] = [live[k] EXCEPT !.sure = FALSE]]
      /\ UNCHANGED <<dirs, files, bundles, cache, given, last, purged, cut>>
  BY DEF Dirs!DeleteRow, Dirs!Up, Dirs!Commit, Dirs!disk, Dirs!past
<1>2. todo = {} /\ at = None /\ Migration' /\ \A j \in Key : dbSaved.row[j] = row[j]
  BY <1>1, UpRests
<1>3. row'[k] = None /\ row' \in [Key -> Rows] /\ \A j \in Key : j # k => row'[j] = row[j]
  BY <1>1 DEF DirInv, DirType, Rows
<1>4. /\ live' \in [Key -> {None} \cup Jail] /\ ~Sure(k)'
      /\ \A j \in Key : j # k => live'[j] = live[j]
  <2>1. CASE live[k] = None
    BY <1>1, <2>1 DEF DirInv, DirType, Sure
  <2>2. CASE live[k] # None
    <3>1. live[k] \in Jail /\ live' = [live EXCEPT ![k] = [live[k] EXCEPT !.sure = FALSE]]
      BY <1>1, <2>2 DEF DirInv, DirType
    <3>2. [live[k] EXCEPT !.sure = FALSE] \in Jail /\ [live[k] EXCEPT !.sure = FALSE].sure = FALSE
      BY <3>1 DEF Jail
    <3>3. live'[k] = [live[k] EXCEPT !.sure = FALSE] /\ \A j \in Key : j # k => live'[j] = live[j]
      BY <3>1 DEF DirInv, DirType
    <3> QED
      BY <3>1, <3>2, <3>3 DEF DirInv, DirType, Sure
  <2> QED
    BY <2>1, <2>2
<1>5. DirType'
  <2>1. uids' \subseteq Owner
    BY <1>1 DEF DirInv, DirType
  <2> QED
    BY <1>1, <1>3, <1>4, <2>1 DEF DirInv, DirType
<1>6. UidInv'
  <2>1. Apart(uids') /\ Apart(dbSaved'.uids)
    BY <1>1 DEF DirInv, UidInv, Apart
  <2>2. ASSUME NEW j \in Key, Sure(j)'
        PROVE  phase' = "up" /\ [key |-> j, name |-> live'[j].name, uid |-> live'[j].uid] \in uids'
    <3>1. j # k /\ live'[j] = live[j]
      BY <1>4, <2>2
    <3>2. [key |-> j, name |-> live[j].name, uid |-> live[j].uid] \in uids
      BY <2>2, <3>1 DEF DirInv, UidInv, Sure
    <3> QED
      BY <1>1, <3>1, <3>2
  <2> QED
    BY <2>1, <2>2 DEF UidInv
<1>7. Filed(k)'
  BY <1>1 DEF DirInv, Homely, Filed
<1>8. Homely(k)'
  BY <1>1, <1>2, <1>3, <1>7, UpHomely
<1>9. \A j \in Key : Homely(j)'
  BY <1>1, <1>2, <1>3, <1>8, OthersStay
<1>10. \A j \in Key : Saved(j)'
  BY <1>1 DEF DirInv, Saved
<1> QED
  BY <1>2, <1>5, <1>6, <1>9, <1>10 DEF DirInv

LEMMA ResurrectStep ==
  ASSUME Dirs!WorkdirsAssumption, DirInv, NEW k \in Key, Dirs!Resurrect(k)
  PROVE  DirInv'
<1>1. /\ phase = "up" /\ UNCHANGED <<phase, todo, at>>
      /\ row' = [row EXCEPT ![k] = [sid |-> 0, cwd |-> cache[k], conv |-> 0]]
      /\ uids' = uids /\ dbSaved' = [row |-> row', uids |-> uids']
      /\ UNCHANGED <<dirs, files, bundles, cache, given, live, last, purged, cut>>
  BY DEF Dirs!Resurrect, Dirs!Up, Dirs!Commit, Dirs!disk, Dirs!past
<1>2. todo = {} /\ at = None /\ Migration' /\ \A j \in Key : dbSaved.row[j] = row[j]
  BY <1>1, UpRests
<1>3. [sid |-> 0, cwd |-> cache[k], conv |-> 0] \in Rows
  BY DEF Rows, Row, DirInv, DirType
<1>4. DirType'
  <2>1. row' \in [Key -> Rows]
    BY <1>1, <1>3 DEF DirInv, DirType
  <2> QED
    BY <1>1, <2>1 DEF DirInv, DirType
<1>5. UidInv'
  BY <1>1, OwnersKept DEF DirInv, Sure
<1>6. row'[k].conv = 0 /\ \A j \in Key : j # k => row'[j] = row[j]
  BY <1>1 DEF DirInv, DirType
<1>7. Filed(k)'
  BY <1>1 DEF DirInv, Homely, Filed
<1>8. Homely(k)'
  BY <1>1, <1>2, <1>6, <1>7, UpHomely
<1>9. \A j \in Key : Homely(j)'
  BY <1>1, <1>2, <1>6, <1>8, OthersStay
<1>10. \A j \in Key : Saved(j)'
  BY <1>1 DEF DirInv, Saved
<1> QED
  BY <1>2, <1>4, <1>5, <1>9, <1>10 DEF DirInv

LEMMA ArchiveStep ==
  ASSUME Dirs!WorkdirsAssumption, DirInv, NEW k \in Key, Dirs!Archive(k)
  PROVE  DirInv'
<1>1. /\ phase = "up" /\ UNCHANGED <<phase, todo, at>>
      /\ UNCHANGED <<row, uids, dbSaved, cache, given, live, last, purged>>
  BY DEF Dirs!Archive, Dirs!Up, Dirs!db
<1>2. DirType /\ todo = {} /\ at = None /\ Migration' /\ \A j \in Key : dbSaved.row[j] = row[j]
  BY <1>1, UpRests DEF DirInv
<1>3. UidInv'
  BY <1>1, OwnersKept DEF DirInv, Sure
<1>4. CASE UNCHANGED <<dirs, files, bundles, cut>>
  <2>1. DirType'
    BY <1>1, <1>4 DEF DirInv, DirType
  <2>2. \A j \in Key : Homely(j)' /\ Saved(j)'
    BY <1>1, <1>4, HomesStay DEF DirInv, Saved
  <2> QED
    BY <1>2, <1>3, <2>1, <2>2 DEF DirInv
<1>5. CASE /\ bundles' = [bundles EXCEPT ![k] = bundles[k] \cup Dirs!Bundled(k)]
           /\ dirs' = [dirs EXCEPT ![k] = dirs[k] \ {cache[k]}]
           /\ files' = [files EXCEPT ![k] = {f \in files[k] : f.dir # cache[k]}]
           /\ cut' = IF row[k] # None THEN cut \cup {k} ELSE cut
  <2>1. /\ bundles'[k] = bundles[k] \cup Dirs!Bundled(k) /\ dirs'[k] = dirs[k] \ {cache[k]}
        /\ files'[k] = {f \in files[k] : f.dir # cache[k]}
        /\ \A j \in Key : j # k =>
             bundles'[j] = bundles[j] /\ dirs'[j] = dirs[j] /\ files'[j] = files[j]
    BY <1>2, <1>5 DEF DirType
  <2>2. Dirs!Bundled(k) = {f.conv : f \in {g \in files[k] : g.dir = cache[k]}}
    BY DEF Dirs!Bundled
  <2>3. \A f \in files[k] : f.conv \in Nat
    BY <1>2 DEF DirType, Files
  <2>4. DirType'
    <3>1. bundles'[k] \subseteq Nat /\ dirs'[k] \subseteq Nat /\ files'[k] \subseteq Files
      BY <1>2, <2>1, <2>2, <2>3 DEF DirType
    <3>2. /\ bundles' \in [Key -> SUBSET Nat] /\ dirs' \in [Key -> SUBSET Nat]
          /\ files' \in [Key -> SUBSET Files]
      BY <1>2, <1>5, <3>1 DEF DirType
    <3> QED
      BY <1>1, <1>2, <3>2 DEF DirType
  <2>5. Filed(k)'
    BY <2>1 DEF DirInv, Homely, Filed
  <2>6. Homely(k)'
    BY <1>1, <1>2, <1>5, <2>5, UpHomely
  <2>7. \A j \in Key : Homely(j)'
    BY <1>1, <1>2, <1>5, <2>1, <2>6, OthersStay
  <2>8. ASSUME NEW j \in Key PROVE Saved(j)'
    <3>1. Saved(j)
      BY DEF DirInv
    <3>2. CASE j # k
      BY <1>1, <2>1, <3>1, <3>2 DEF Saved
    <3>3. CASE j = k
      <4>1. ASSUME NEW f \in files[k]
            PROVE  f.conv \in bundles'[k] \/ \E g \in files'[k] : g.conv = f.conv
        BY <2>1, <2>2
      <4> QED
        BY <1>1, <2>1, <3>1, <3>3, <4>1, SavedStays
    <3> QED
      BY <3>2, <3>3
  <2> QED
    BY <1>2, <1>3, <2>4, <2>7, <2>8 DEF DirInv
<1> QED
  BY <1>4, <1>5 DEF Dirs!Archive, Dirs!disk

LEMMA ExpireStep ==
  ASSUME Dirs!WorkdirsAssumption, DirInv, NEW k \in Key, Dirs!Expire(k)
  PROVE  DirInv'
<1>1. /\ phase = "up" /\ UNCHANGED <<phase, todo, at>>
      /\ UNCHANGED <<row, uids, dbSaved, dirs, files, cache, given, live, last, cut>>
  BY DEF Dirs!Expire, Dirs!Up, Dirs!db
<1>2. PICK c \in bundles[k] : /\ bundles' = [bundles EXCEPT ![k] = bundles[k] \ {c}]
                              /\ purged' = [purged EXCEPT ![k] = purged[k] \cup {c}]
  BY DEF Dirs!Expire
<1>3. /\ bundles'[k] = bundles[k] \ {c} /\ purged'[k] = purged[k] \cup {c} /\ c \in Nat
      /\ \A j \in Key : j # k => bundles'[j] = bundles[j] /\ purged'[j] = purged[j]
  BY <1>2 DEF DirInv, DirType
<1>4. DirType' /\ Migration'
  <2>1. bundles'[k] \subseteq Nat /\ purged'[k] \subseteq Nat
    BY <1>3 DEF DirInv, DirType
  <2>2. bundles' \in [Key -> SUBSET Nat] /\ purged' \in [Key -> SUBSET Nat]
    BY <1>2, <2>1 DEF DirInv, DirType
  <2> QED
    BY <1>1, <2>2 DEF DirInv, DirType, Migration
<1>5. UidInv'
  BY <1>1, OwnersKept DEF DirInv, Sure
<1>6. ASSUME NEW j \in Key PROVE Saved(j)'
  BY <1>1, <1>3 DEF DirInv, Saved
<1> QED
  BY <1>1, <1>4, <1>5, <1>6, HomesStay DEF DirInv

-----------------------------------------------------------------------------

LEMMA DirsStep ==
  ASSUME Dirs!WorkdirsAssumption, DirInv, [Dirs!Next]_(Dirs!vars)
  PROVE  DirInv'
<1>1. CASE UNCHANGED Dirs!vars
  <2>1. UNCHANGED <<row, uids, dbSaved, dirs, files, bundles, cache, given, live, phase, todo, at,
                    last, purged, cut>>
    BY <1>1 DEF Dirs!vars, Dirs!db, Dirs!disk, Dirs!past
  <2>2. DirType' /\ Migration'
    BY <2>1 DEF DirInv, DirType, Migration
  <2>3. UidInv'
    BY <2>1, OwnersKept DEF DirInv, Sure
  <2>4. \A j \in Key : Homely(j)' /\ Saved(j)'
    BY <2>1, HomesStay DEF DirInv, Saved
  <2> QED
    BY <2>2, <2>3, <2>4 DEF DirInv
<1>2. CASE Dirs!Next
  BY <1>2, BackfillStep, StartedStep, DirsCrash, SkipStep, MoveStep, EncodeStep, RealignStep,
     RenameFailsStep, CreateStep, CloseStep, WriteSecretsStep, DirsDeleteRow, ResurrectStep,
     ArchiveStep, ExpireStep, LaunchStep DEF Dirs!Next
<1> QED
  BY <1>1, <1>2

(* What the database and the disk keep of a session agrees through         *)
(* migrations, restarts, deletions and failing calls (storage/db.py).      *)
THEOREM DirsStay == MCSpec => []DirInv
<1>1. MCInit => DirInv
  BY DirsStart, ServicesAssumption DEF MCInit
<1>2. DirInv /\ [MCNext]_mcvars => DirInv'
  <2> SUFFICES ASSUME DirInv, [MCNext]_mcvars PROVE DirInv'
    OBVIOUS
  <2>1. [Dirs!Next]_(Dirs!vars)
    BY DEF MCNext, mcvars, dirsVars, Dirs!vars, Dirs!db, Dirs!disk, Dirs!past
  <2> QED
    BY <2>1, DirsStep, ServicesAssumption
<1> QED
  BY <1>1, <1>2, PTL DEF MCSpec

(* Two jails never run as one host user, but for the named exceptions      *)
(* (claim_session_uid, _uid_collisions in storage/db.py).                  *)
THEOREM NoSharedUid == MCSpec => []UidsDistinct
<1>1. DirInv => UidsDistinct
  <2> SUFFICES ASSUME DirInv, NEW j \in Key, NEW k \in Key, j # k, Sure(j), Sure(k),
                      live[j].uid = live[k].uid
               PROVE  FALSE
    BY DEF UidsDistinct, Dirs!UidsDistinct, Sure
  <2> DEFINE own(i) == [key |-> i, name |-> live[i].name, uid |-> live[i].uid]
  <2>1. own(j) \in uids /\ own(k) \in uids /\ Apart(uids)
    BY DEF DirInv, UidInv
  <2>2. own(j).key = j /\ own(k).key = k /\ own(j).uid = own(k).uid
    OBVIOUS
  <2> HIDE DEF own
  <2> QED
    BY <2>1, <2>2 DEF Apart
<1> QED
  BY <1>1, DirsStay, PTL

(* No conversation is lost, and the next turn looks for it where it is, in *)
(* any number of restarts of the migration (migrate_workdirs_to_ulid) and  *)
(* deletions (archive_session).                                            *)
THEOREM ConversationsFound == MCSpec => []ConversationsKept
<1>1. DirInv => Dirs!NothingLost
  BY DEF DirInv, Saved, Dirs!NothingLost
<1>2. DirInv => Dirs!ConversationFound
  <2> SUFFICES ASSUME DirInv, phase = "up", NEW k \in Key \ cut, row[k] # None, row[k].conv # 0
               PROVE  Place(row[k].cwd, row[k].conv) \in files[k]
    BY DEF Dirs!ConversationFound, Place
  <2>1. k \notin todo /\ k # at
    BY ServicesAssumption DEF DirInv, Migration, Dirs!WorkdirsAssumption
  <2> QED
    BY <2>1 DEF DirInv, Homely, Reached, In
<1> QED
  BY <1>1, <1>2, DirsStay, PTL DEF ConversationsKept, Dirs!ConversationsKept

-----------------------------------------------------------------------------
(* Calendar                                                                *)

(* What the arithmetic of days needs of \div and %.                        *)
LEMMA Quotient ==
  ASSUME NEW l \in Int, NEW n \in Nat \ {0}
  PROVE  l \div n \in Int /\ n * (l \div n) \in Int /\ l % n \in 0..n - 1 /\ l = n * (l \div n) + (l % n)
  OBVIOUS

LEMMA QuotientUnique ==
  ASSUME NEW d \in Int, NEW r \in Int, NEW n \in Nat \ {0}, 0 <= r, r < n
  PROVE  (n * d + r) \div n = d /\ (n * d + r) % n = r
<1> DEFINE l == n * d + r
<1>1. l \in Int /\ l \div n \in Int /\ l % n \in 0..n - 1 /\ l = n * (l \div n) + (l % n)
  BY Quotient
<1> DEFINE q == l \div n
<1>2. q \in Int /\ l % n \in Int /\ 0 <= l % n /\ l % n < n /\ n * d + r = n * q + (l % n)
  BY <1>1
<1>3. ~(q < d)
  <2> SUFFICES ASSUME q < d PROVE FALSE
    OBVIOUS
  <2>1. n * (d - q) >= n * 1
    BY <1>2
  <2>2. n * (d - q) = n * d - n * q
    BY <1>2
  <2> QED
    BY <1>2, <2>1, <2>2
<1>4. ~(d < q)
  <2> SUFFICES ASSUME d < q PROVE FALSE
    OBVIOUS
  <2>1. n * (q - d) >= n * 1
    BY <1>2
  <2>2. n * (q - d) = n * q - n * d
    BY <1>2
  <2> QED
    BY <1>2, <2>1, <2>2
<1>5. q = d
  BY <1>2, <1>3, <1>4
<1> QED
  BY <1>2, <1>5

LEMMA Steps ==
  ASSUME NEW d \in Int, NEW e \in Int, NEW n \in Nat, d < e
  PROVE  n * d + n <= n * e
<1>1. n * (e - d) >= n * 1
  OBVIOUS
<1>2. n * (e - d) = n * e - n * d
  OBVIOUS
<1> QED
  BY <1>1, <1>2

D == Cal!DayLength
LEMMA DayLengthIs == D \in Nat \ {0} /\ D = 2 * Half /\ Week \in Nat \ {0} /\ Hour \in Nat \ {0}
                     /\ Half \in Nat \ {0}
  BY ServicesAssumption DEF Cal!CalendarAssumption, D, Cal!DayLength

(* A time of day d, and the day of a time.                                 *)
LEMMA DayOfTime ==
  ASSUME NEW l \in Int
  PROVE  /\ Cal!Day(l) \in Int /\ D * Cal!Day(l) \in Int /\ l % D \in 0..D - 1
         /\ l = D * Cal!Day(l) + (l % D)
  BY Quotient, DayLengthIs DEF Cal!Day, D

LEMMA TimeOfDay ==
  ASSUME NEW d \in Int, NEW r \in 0..D - 1
  PROVE  Cal!Day(D * d + r) = d /\ (D * d + r) % D = r /\ D * d \in Int /\ D * d + r \in Int
<1>1. D \in Nat \ {0} /\ r \in Int /\ 0 <= r /\ r < D
  BY DayLengthIs
<1>2. (D * d + r) \div D = d /\ (D * d + r) % D = r
  BY <1>1, QuotientUnique
<1> QED
  BY <1>1, <1>2 DEF Cal!Day, D

(* The date does not change while a moment stands for two times, nor       *)
(* between times that are repeated.                                        *)
Midnights(c, p, q) ==
  /\ D * p + Hour <= c /\ c <= D * p + D
  /\ D * q <= c /\ c + 2 * Hour <= D * q + D
LEMMA ChangeInOneDay ==
  ASSUME NEW c \in Changes
  PROVE  /\ c \in Nat
         /\ \E p, q \in Int : Midnights(c, p, q) /\ p = Cal!Day(c - 1) /\ q = Cal!Day(c)
<1>1. c \in Nat /\ Cal!Day(c - Hour) = Cal!Day(c - 1) /\ Cal!Day(c) = Cal!Day(c + 2 * Hour - 1)
  BY ServicesAssumption DEF Cal!CalendarAssumption
<1> DEFINE p == Cal!Day(c - 1)
           q == Cal!Day(c)
           b == c - Hour
           f == c + 2 * Hour - 1
<1>2. b \in Int /\ f \in Int /\ c - 1 \in Int /\ c \in Int
  BY <1>1, DayLengthIs
<1>3. /\ p \in Int /\ q \in Int
      /\ b = D * p + (b % D) /\ b % D \in 0..D - 1
      /\ f = D * q + (f % D) /\ f % D \in 0..D - 1
      /\ c - 1 = D * p + ((c - 1) % D) /\ (c - 1) % D \in 0..D - 1
      /\ c = D * q + (c % D) /\ c % D \in 0..D - 1
  BY <1>1, <1>2, DayOfTime
<1>4. D \in Nat /\ D * p \in Int /\ D * q \in Int /\ Hour \in Nat
  BY <1>2, DayOfTime, DayLengthIs
<1>5. Midnights(c, p, q)
  <2> HIDE DEF p, q
  <2> QED
    BY <1>1, <1>3, <1>4 DEF Midnights
<1> QED
  BY <1>1, <1>3, <1>5

(* The clock is changed at one of the moments it may be.                   *)
Clock == shift \in [at : Changes, by : {-Hour, 0, Hour}]
First(l) == Cal!Moment(l, FALSE)

LEMMA ClockType ==
  ASSUME Clock
  PROVE  /\ shift.at \in Changes /\ shift.at \in Nat /\ shift.by \in {-Hour, 0, Hour} /\ shift.by \in Int
         /\ Hour \in Nat \ {0}
  BY ChangeInOneDay, DayLengthIs DEF Clock

(* First passes, later clocks and earlier clocks.                          *)
LEMMA FirstIs ==
  ASSUME Clock, NEW l \in Int
  PROVE  /\ First(l) \in Int
         /\ shift.by <= 0 => First(l) = IF l < shift.at THEN l ELSE l - shift.by
         /\ shift.by > 0 => First(l) = IF l < shift.at + shift.by THEN l ELSE l - shift.by
<1>1. shift.at \in Int /\ shift.by \in Int
  BY ClockType
<1> QED
  BY <1>1 DEF First, Cal!Moment

LEMMA LocalIs ==
  ASSUME Clock, NEW e \in Int
  PROVE  /\ Cal!Local(e) = (IF e >= shift.at THEN e + shift.by ELSE e) /\ Cal!Local(e) \in Int
         /\ Cal!Fold(e) <=> shift.by < 0 /\ shift.at <= e /\ e < shift.at - shift.by
  BY ClockType DEF Cal!Local, Cal!Fold

(* A moment that is no second pass stands for the times it is read for.    *)
LEMMA StandsForFirst ==
  ASSUME Clock, NEW e \in Int
  PROVE  /\ Cal!StandsFor(e) \subseteq Int
         /\ \A l \in Int : First(l) = e <=> ~Cal!Fold(e) /\ l \in Cal!StandsFor(e)
<1>1. shift.at \in Int /\ shift.by \in Int /\ Cal!Local(e) \in Int
  BY ClockType, LocalIs
<1>2. \A l : l \in Cal!StandsFor(e) <=>
               \/ l = Cal!Local(e)
               \/ shift.at <= e /\ e <= shift.at + shift.by - 1 /\ l = Cal!Local(e) - shift.by
  BY <1>1 DEF Cal!StandsFor
<1>3. ASSUME NEW l \in Int
      PROVE  First(l) = e <=> ~Cal!Fold(e) /\ l \in Cal!StandsFor(e)
  <2>1. CASE shift.by <= 0
    BY <1>1, <1>2, <2>1, FirstIs, LocalIs
  <2>2. CASE shift.by > 0
    <3>1. First(l) = (IF l < shift.at + shift.by THEN l ELSE l - shift.by)
          /\ Cal!Local(e) = (IF e >= shift.at THEN e + shift.by ELSE e) /\ ~Cal!Fold(e)
      BY <1>1, <2>2, FirstIs, LocalIs
    <3>2. First(l) = e <=> \/ l = Cal!Local(e)
                           \/ shift.at <= e /\ e <= shift.at + shift.by - 1 /\ l = Cal!Local(e) - shift.by
      BY <1>1, <2>2, <3>1
    <3> QED
      BY <1>2, <3>1, <3>2
  <2> QED
    BY <1>1, <2>1, <2>2
<1> QED
  BY <1>1, <1>2, <1>3

(* The moment of a schedule's time on a day, and the days it runs on.      *)
On(s, d) == First(D * d + s.time)
Planned(s, d) == s.kind = "weekly" => d % Week = s.weekday
Timed(s) == s.time \in 0..D - 1 /\ s.weekday \in 0..Week - 1

LEMMA OnIs ==
  ASSUME Clock, NEW s, Timed(s), NEW d \in Int
  PROVE  /\ D * d + s.time \in Int /\ D * d \in Int /\ s.time \in Int /\ 0 <= s.time /\ s.time < D
         /\ Cal!Day(D * d + s.time) = d /\ On(s, d) \in Int
<1>1. D * d + s.time \in Int /\ D * d \in Int /\ Cal!Day(D * d + s.time) = d
  BY TimeOfDay DEF Timed
<1> QED
  BY <1>1, FirstIs, DayLengthIs DEF Timed, On

LEMMA OnGrows ==
  ASSUME Clock, NEW s, Timed(s), NEW d \in Int, NEW e \in Int, d < e
  PROVE  On(s, d) < On(s, e)
<1> DEFINE l == D * d + s.time
           m == D * e + s.time
<1>1. l \in Int /\ m \in Int
  BY OnIs
<1>2. l + D <= m
  <2>1. D * d + D <= D * e
    BY Steps, DayLengthIs
  <2>2. D * d \in Int /\ D * e \in Int /\ s.time \in Int /\ D \in Nat
    BY OnIs, DayLengthIs
  <2> QED
    BY <2>1, <2>2
<1>3. D \in Nat /\ 2 * Hour <= D /\ Hour \in Nat \ {0}
  <2>1. PICK q \in Int : D * q <= shift.at /\ shift.at + 2 * Hour <= D * q + D
    BY ChangeInOneDay, ClockType DEF Midnights
  <2>2. D \in Nat /\ D * q \in Int /\ shift.at \in Int /\ Hour \in Nat \ {0}
    BY ClockType, DayLengthIs
  <2> QED
    BY <2>1, <2>2
<1>4. First(l) < First(m)
  <2> HIDE DEF l, m
  <2>1. shift.at \in Int /\ shift.by \in {-Hour, 0, Hour} /\ shift.by \in Int
    BY ClockType
  <2>2. CASE shift.by <= 0
    BY <1>1, <1>2, <1>3, <2>1, <2>2, FirstIs
  <2>3. CASE shift.by > 0
    BY <1>1, <1>2, <1>3, <2>1, <2>3, FirstIs
  <2> QED
    BY <2>1, <2>2, <2>3
<1> QED
  BY <1>4 DEF On

(* The days after the one a moment falls on come after it.                 *)
LEMMA Tomorrow ==
  ASSUME Clock, NEW s, Timed(s), NEW a \in Int, NEW d \in Int, Cal!Day(Cal!Local(a)) < d
  PROVE  On(s, d) > a /\ (Cal!Fold(a) => On(s, d) >= shift.at - shift.by)
<1> DEFINE l == D * d + s.time
           t == Cal!Day(Cal!Local(a))
           r == Cal!Local(a) % D
<1>1. shift.at \in Int /\ shift.by \in {-Hour, 0, Hour} /\ shift.by \in Int /\ l \in Int
      /\ Cal!Local(a) \in Int /\ Hour \in Nat \ {0} /\ shift.at \in Changes
  BY ClockType, LocalIs, OnIs
<1>2. t \in Int /\ Cal!Local(a) = D * t + r /\ r \in 0..D - 1 /\ D \in Nat /\ D * t \in Int
  BY <1>1, DayOfTime, DayLengthIs
<1>3. D * t + D <= l
  <2>1. D * t + D <= D * d
    BY <1>2, Steps
  <2> QED
    BY <1>2, <2>1, OnIs
<1>4. Cal!Local(a) < l
  <2> HIDE DEF l, t, r
  <2> QED
    BY <1>1, <1>2, <1>3
<1>5. ASSUME Cal!Fold(a) PROVE l >= shift.at
  <2>1. PICK p, q \in Int : Midnights(shift.at, p, q) /\ p = Cal!Day(shift.at - 1)
    BY <1>1, ChangeInOneDay
  <2>2. D * p \in Int /\ D * p + Hour <= shift.at /\ shift.at <= D * p + D
    BY <1>2, <2>1 DEF Midnights
  <2>3. shift.by < 0 /\ shift.at <= a /\ a < shift.at - shift.by /\ Cal!Local(a) = a + shift.by
    BY <1>5, LocalIs
  <2>4. ~(t < p)
    <3> SUFFICES ASSUME t < p PROVE FALSE
      OBVIOUS
    <3>1. D * t + D <= D * p
      BY <1>2, <2>1, Steps
    <3> HIDE DEF t, r
    <3> QED
      BY <1>1, <1>2, <2>2, <2>3, <3>1
  <2>5. D * p + D <= l
    <3>1. D * p + D <= D * d
      BY <1>2, <2>1, <2>4, Steps
    <3>2. D * d \in Int /\ s.time \in Int /\ 0 <= s.time
      BY OnIs
    <3>3. D * d <= l
      BY <3>2
    <3> HIDE DEF l
    <3> QED
      BY <1>1, <1>2, <2>2, <3>1, <3>2, <3>3
  <2> HIDE DEF l
  <2> QED
    BY <1>1, <1>2, <2>2, <2>5
<1>6. First(l) > a /\ (Cal!Fold(a) => First(l) = l - shift.by)
  <2> HIDE DEF l, t
  <2>1. CASE shift.by <= 0
    <3>1. First(l) = (IF l < shift.at THEN l ELSE l - shift.by)
          /\ Cal!Local(a) = (IF a >= shift.at THEN a + shift.by ELSE a)
          /\ (Cal!Fold(a) <=> shift.by < 0 /\ shift.at <= a /\ a < shift.at - shift.by)
      BY <1>1, <2>1, FirstIs, LocalIs
    <3> QED
      BY <1>1, <1>4, <1>5, <2>1, <3>1
  <2>2. CASE shift.by > 0
    BY <1>1, <1>4, <2>2, FirstIs, LocalIs
  <2> QED
    BY <1>1, <2>1, <2>2
<1>7. First(l) > a /\ (Cal!Fold(a) => First(l) >= shift.at - shift.by)
  <2> HIDE DEF l
  <2> QED
    BY <1>1, <1>5, <1>6
<1> QED
  BY <1>7 DEF On

(* Those before it do not.                                                 *)
LEMMA Yesterday ==
  ASSUME Clock, NEW s, Timed(s), NEW a \in Int, NEW d \in Int, d < Cal!Day(Cal!Local(a))
  PROVE  On(s, d) <= a
<1> DEFINE l == D * d + s.time
           t == Cal!Day(Cal!Local(a))
           r == Cal!Local(a) % D
<1> HIDE DEF l, t, r
<1>0. Cal!Local(a) = (IF a >= shift.at THEN a + shift.by ELSE a)
  BY LocalIs
<1> USE DEF l, t, r
<1>1. shift.at \in Int /\ shift.by \in {-Hour, 0, Hour} /\ shift.by \in Int /\ l \in Int
      /\ Cal!Local(a) \in Int /\ Hour \in Nat \ {0} /\ shift.at \in Changes
  BY ClockType, LocalIs, OnIs
<1>2. t \in Int /\ Cal!Local(a) = D * t + r /\ r \in 0..D - 1 /\ D \in Nat /\ D * t \in Int
  BY <1>1, DayOfTime, DayLengthIs
<1>3. l < Cal!Local(a) /\ l < D * t
  <2>1. D * d + D <= D * t
    BY <1>2, Steps
  <2>2. D * d \in Int /\ s.time \in Int /\ s.time < D
    BY OnIs
  <2> HIDE DEF t, r
  <2> QED
    BY <1>1, <1>2, <2>1, <2>2
<1>4. ASSUME shift.by > 0, shift.at <= l, l < shift.at + shift.by PROVE l <= a
  <2>1. PICK p, q \in Int : Midnights(shift.at, p, q) /\ q = Cal!Day(shift.at)
    BY <1>1, ChangeInOneDay
  <2>2. D * q \in Int /\ D * q <= shift.at /\ shift.at + 2 * Hour <= D * q + D
    BY <1>1, <2>1, DayOfTime DEF Midnights
  <2>3. q < t
    <3> SUFFICES ASSUME t <= q PROVE FALSE
      BY <1>2, <2>1
    <3>1. D * t <= D * q
      BY <1>2, <2>1
    <3> HIDE DEF l, t, r
    <3> QED
      BY <1>1, <1>2, <1>3, <1>4, <2>2, <3>1
  <2>4. D * q + D <= D * t
    BY <1>2, <2>1, <2>3, Steps
  <2> HIDE DEF l, t, r
  <2>5. Cal!Local(a) = (IF a >= shift.at THEN a + shift.by ELSE a)
    BY <1>0
  <2>6. Cal!Local(a) >= D * q + D
    BY <1>1, <1>2, <2>2, <2>4
  <2>7. l < D * q + D
    BY <1>4, <1>1, <1>2, <2>1, <2>2
  <2> QED
    BY <1>1, <1>2, <1>4, <2>2, <2>5, <2>6, <2>7
<1>5. First(l) <= a
  <2> HIDE DEF l, t
  <2>1. CASE shift.by <= 0
    BY <1>1, <1>3, <2>1, FirstIs, LocalIs
  <2>2. CASE shift.by > 0
    <3>1. First(l) = (IF l < shift.at + shift.by THEN l ELSE l - shift.by)
          /\ Cal!Local(a) = (IF a >= shift.at THEN a + shift.by ELSE a)
      BY <1>1, <2>2, FirstIs, LocalIs
    <3>2. CASE shift.at <= l /\ l < shift.at + shift.by
      BY <1>1, <1>4, <2>2, <3>1, <3>2
    <3>3. CASE l < shift.at \/ l >= shift.at + shift.by
      BY <1>1, <1>3, <2>2, <3>1, <3>3
    <3> QED
      BY <1>1, <3>2, <3>3
  <2> QED
    BY <1>1, <2>1, <2>2
<1> QED
  BY <1>5 DEF On

(* The moments a schedule names are its times on its days.                 *)
LEMMA NamedIs ==
  ASSUME Clock, NEW s, Timed(s), NEW e \in Int
  PROVE  /\ Cal!Named(s, e) <=> \E d \in Int : Planned(s, d) /\ e = On(s, d)
         /\ \A d \in Int : Planned(s, d) /\ e = On(s, d) => d \in Cal!Days(s, e)
<1>1. Cal!StandsFor(e) \subseteq Int
      /\ \A l \in Int : First(l) = e <=> ~Cal!Fold(e) /\ l \in Cal!StandsFor(e)
  BY StandsForFirst
<1>2. \A x : x \in Cal!Days(s, e) <=>
               \E l \in Cal!StandsFor(e) : /\ x = Cal!Day(l) /\ l % D = s.time
                                           /\ s.kind = "weekly" => Cal!Day(l) % Week = s.weekday
  BY DEF Cal!Days, D
<1>3. ASSUME NEW d \in Int, Planned(s, d), e = On(s, d)
      PROVE  ~Cal!Fold(e) /\ d \in Cal!Days(s, e)
  <2> DEFINE l == D * d + s.time
  <2>1. l \in Int /\ Cal!Day(l) = d /\ First(l) = e /\ l % D = s.time
    BY <1>3, OnIs, TimeOfDay DEF On, Timed
  <2>2. ~Cal!Fold(e) /\ l \in Cal!StandsFor(e)
    BY <1>1, <2>1
  <2> HIDE DEF l
  <2> QED
    BY <1>2, <1>3, <2>1, <2>2 DEF Planned
<1>4. ASSUME Cal!Named(s, e)
      PROVE  \E d \in Int : Planned(s, d) /\ e = On(s, d)
  <2>1. ~Cal!Fold(e) /\ \E x : x \in Cal!Days(s, e)
    BY <1>4 DEF Cal!Named
  <2>2. PICK l \in Cal!StandsFor(e) :
               l % D = s.time /\ (s.kind = "weekly" => Cal!Day(l) % Week = s.weekday)
    BY <1>2, <2>1
  <2>3. l \in Int /\ First(l) = e /\ Cal!Day(l) \in Int /\ l = D * Cal!Day(l) + s.time
    BY <1>1, <2>1, <2>2, DayOfTime
  <2> QED
    BY <2>2, <2>3 DEF On, Planned
<1> QED
  BY <1>3, <1>4 DEF Cal!Named

(* Of today's candidate: read as a first pass it is today's run; a daily   *)
(* schedule polled in the repeated hour takes its second pass instead.     *)
LEMMA TodayRead ==
  ASSUME Clock, NEW s, Timed(s), NEW a \in Int
  PROVE  LET t == Cal!Day(Cal!Local(a))
             c == Cal!Moment(D * t + s.time, Cal!Fold(a))
         IN  /\ c \in Int
             /\ \/ c = On(s, t)
                \/ /\ Cal!Fold(a) /\ Cal!Fold(c) /\ On(s, t) <= a /\ Cal!Local(c) = D * t + s.time
                   /\ \A d \in Int : t < d => c < On(s, d)
<1> DEFINE t == Cal!Day(Cal!Local(a))
           l == D * t + s.time
           c == Cal!Moment(l, Cal!Fold(a))
<1>1. shift.at \in Int /\ shift.by \in {-Hour, 0, Hour} /\ shift.by \in Int /\ l \in Int
      /\ t \in Int /\ Hour \in Nat \ {0}
  <2>1. t \in Int
    BY LocalIs, DayOfTime
  <2>2. l \in Int
    BY <2>1, OnIs
  <2> QED
    BY <2>1, <2>2, ClockType
<1>2. CASE ~Cal!Fold(a)
  <2>1. Cal!Fold(a) = FALSE
    BY <1>2 DEF Cal!Fold
  <2>2. c = First(l)
    BY <2>1 DEF First
  <2> QED
    BY <1>1, <2>2, FirstIs DEF On
<1>3. CASE Cal!Fold(a)
  <2>1. shift.by < 0 /\ shift.at <= a /\ a < shift.at - shift.by
    BY <1>3, LocalIs
  <2>2. /\ c = IF l < shift.at /\ l - shift.by < shift.at THEN l ELSE l - shift.by
        /\ First(l) = IF l < shift.at THEN l ELSE l - shift.by
    <3> HIDE DEF l
    <3> QED
      BY <1>1, <1>3, <2>1, FirstIs DEF Cal!Moment
  <2>3. CASE l >= shift.at \/ l - shift.by < shift.at
    <3>1. c = First(l)
      <4> HIDE DEF l, c
      <4> QED
        BY <1>1, <2>1, <2>2, <2>3
    <3> QED
      BY <1>1, <3>1, FirstIs DEF On
  <2>4. CASE l < shift.at /\ l - shift.by >= shift.at
    <3>1. c = l - shift.by /\ First(l) <= a /\ c \in Int
      <4> HIDE DEF l, c
      <4> QED
        BY <1>1, <2>1, <2>2, <2>4
    <3>2. Cal!Fold(c) /\ Cal!Local(c) = l
      <4> HIDE DEF l, c
      <4> QED
        BY <1>1, <2>1, <2>4, <3>1, LocalIs
    <3>3. ASSUME NEW d \in Int, t < d PROVE c < On(s, d)
      <4>1. On(s, d) >= shift.at - shift.by /\ On(s, d) \in Int
        BY <1>3, <3>3, Tomorrow, OnIs
      <4> HIDE DEF l, c
      <4> QED
        BY <1>1, <2>1, <2>4, <3>1, <4>1
    <3> QED
      BY <1>3, <3>1, <3>2, <3>3 DEF On
  <2> QED
    BY <1>1, <2>3, <2>4
<1> QED
  BY <1>2, <1>3

LEMMA PhraseIs ==
  ASSUME NEW s \in Cal!Phrases
  PROVE  /\ Timed(s) /\ s.kind \in {"interval", "daily", "weekly"}
         /\ s.kind = "interval" => s.seconds \in 1..D
<1> DEFINE times == {Cal!ParseTime(hour, pm) : hour \in 1..Half, pm \in BOOLEAN}
<1>1. Half \in Nat \ {0} /\ D = 2 * Half /\ Week \in Nat \ {0}
  BY DayLengthIs
<1>2. ASSUME NEW hour \in 1..Half, NEW pm \in BOOLEAN
      PROVE  Cal!ParseTime(hour, pm) \in 0..D - 1
  BY <1>1 DEF Cal!ParseTime
<1>3. \A x \in times : x \in 0..D - 1
  BY <1>2
<1>4. /\ s.kind \in {"interval", "daily", "weekly"}
      /\ s.kind = "interval" => s.seconds \in 1..D /\ s.time = 0 /\ s.weekday = 0
      /\ s.kind = "daily" => s.time \in times /\ s.weekday = 0
      /\ s.kind = "weekly" => s.time \in times /\ s.weekday \in 0..Week - 1
  BY DEF Cal!Phrases, D
<1> HIDE DEF times
<1>5. 0 \in 0..D - 1 /\ 0 \in 0..Week - 1
  BY <1>1
<1> QED
  BY <1>3, <1>4, <1>5 DEF Timed

(* Days of one weekday are weeks apart, and the next one is found.         *)
LEMMA WeeksApart ==
  ASSUME NEW d \in Int, NEW e \in Int, d % Week = e % Week, d < e
  PROVE  d + Week <= e
<1> DEFINE i == d \div Week
           j == e \div Week
           r == d % Week
<1>1. Week \in Nat \ {0} /\ i \in Int /\ j \in Int /\ r \in Int
      /\ d = Week * i + r /\ e = Week * j + r /\ Week * i \in Int /\ Week * j \in Int
  BY DayLengthIs, Quotient
<1>2. i < j
  <2> SUFFICES ASSUME j <= i PROVE FALSE
    BY <1>1
  <2>1. Week * j <= Week * i
    BY <1>1
  <2> HIDE DEF i, j, r
  <2> QED
    BY <1>1, <2>1
<1>3. Week * i + Week <= Week * j
  BY <1>1, <1>2, Steps
<1> HIDE DEF i, j, r
<1> QED
  BY <1>1, <1>3

LEMMA WeekdayFound ==
  ASSUME NEW t \in Int, NEW w \in 0..Week - 1
  PROVE  LET ahead == (w - (t % Week)) % Week
         IN  ahead \in 0..Week - 1 /\ (t + ahead) % Week = w /\ (t + ahead + Week) % Week = w
<1> DEFINE x == w - (t % Week)
           ahead == x % Week
           i == t \div Week
           k == x \div Week
           r == t % Week
<1>1. Week \in Nat \ {0} /\ w \in Int /\ 0 <= w /\ w < Week
  BY DayLengthIs
<1>2. i \in Int /\ r \in 0..Week - 1 /\ t = Week * i + r /\ Week * i \in Int
  BY <1>1, Quotient
<1>3. x \in Int
  BY <1>1, <1>2
<1>4. k \in Int /\ ahead \in 0..Week - 1 /\ x = Week * k + ahead /\ Week * k \in Int
  <2> HIDE DEF x
  <2> QED
    BY <1>1, <1>3, Quotient
<1>5. Week * (i - k) = Week * i - Week * k /\ i - k \in Int
  BY <1>1, <1>2, <1>4
<1>6. Week * (i - k + 1) = Week * i - Week * k + Week /\ i - k + 1 \in Int
  BY <1>1, <1>2, <1>4
<1>7. x = w - r
  OBVIOUS
<1>8. t + ahead = Week * (i - k) + w /\ t + ahead + Week = Week * (i - k + 1) + w
  <2> HIDE DEF i, k, r, x, ahead
  <2> QED
    BY <1>1, <1>2, <1>3, <1>4, <1>5, <1>6, <1>7
<1>9. (Week * (i - k) + w) % Week = w /\ (Week * (i - k + 1) + w) % Week = w
  BY <1>1, <1>5, <1>6, QuotientUnique
<1> QED
  BY <1>4, <1>8, <1>9

(* The next run: a later one of the schedule's times, none of which is     *)
(* passed over; a daily schedule polled in the repeated hour may take the  *)
(* second pass of its time.                                                *)
Second(s, a, n) == s.kind = "daily" /\ Cal!Fold(a) /\ Cal!Fold(n)
                   /\ \E d \in Int : Cal!Local(n) = D * d + s.time
Right(s, a, n) ==
  /\ n \in Int /\ a < n
  /\ s.kind # "interval" =>
       /\ (\E d \in Int : Planned(s, d) /\ n = On(s, d)) \/ Second(s, a, n)
       /\ \A d \in Int : Planned(s, d) => On(s, d) <= a \/ n <= On(s, d)

LEMMA DailyRight ==
  ASSUME Clock, NEW s \in Cal!Phrases, s.kind = "daily", NEW a \in Int
  PROVE  Right(s, a, Cal!NextRunAfter(s, a))
<1> DEFINE t == Cal!Day(Cal!Local(a))
           c == Cal!Moment(D * t + s.time, Cal!Fold(a))
           n == Cal!NextRunAfter(s, a)
<1>1. Timed(s) /\ t \in Int /\ D \in Int /\ s.time \in Int
  <2>1. Timed(s) /\ Cal!Local(a) \in Int
    BY PhraseIs, LocalIs
  <2>2. t \in Int
    BY <2>1, DayOfTime
  <2>3. D \in Int /\ s.time \in Int
    BY <2>1, DayLengthIs DEF Timed
  <2> QED
    BY <2>1, <2>2, <2>3, DayLengthIs
<1>2. t * D + s.time = D * t + s.time /\ t * D + s.time + D = D * (t + 1) + s.time /\ t + 1 \in Int
  <2> HIDE DEF t
  <2> QED
    BY <1>1
<1>3. n = IF c <= a THEN On(s, t + 1) ELSE c
  <2>1. n = IF Cal!Moment(t * D + s.time, Cal!Fold(a)) <= a
            THEN Cal!Moment(t * D + s.time + D, FALSE)
            ELSE Cal!Moment(t * D + s.time, Cal!Fold(a))
    BY DEF Cal!NextRunAfter, D
  <2> QED
    BY <1>2, <2>1 DEF On, First
<1>4. /\ \A d \in Int : Planned(s, d) /\ On(s, d) \in Int
      /\ \A d \in Int : t < d => On(s, d) > a
      /\ \A d \in Int : d < t => On(s, d) <= a
      /\ \A d, e \in Int : d < e => On(s, d) < On(s, e)
  BY <1>1, OnIs, Tomorrow, Yesterday, OnGrows DEF Planned
<1>5. /\ c \in Int
      /\ \/ c = On(s, t)
         \/ /\ Cal!Fold(a) /\ Cal!Fold(c) /\ On(s, t) <= a /\ Cal!Local(c) = D * t + s.time
            /\ \A d \in Int : t < d => c < On(s, d)
  BY <1>1, TodayRead
<1> HIDE DEF t, c, n
<1>6. ASSUME c <= a PROVE Right(s, a, n)
  <2>1. n = On(s, t + 1) /\ On(s, t) <= a
    BY <1>3, <1>5, <1>6
  <2>2. \A d \in Int : On(s, d) <= a \/ n <= On(s, d)
    <3> SUFFICES ASSUME NEW d \in Int PROVE On(s, d) <= a \/ n <= On(s, d)
      OBVIOUS
    <3>1. d < t \/ d = t \/ d = t + 1 \/ t + 1 < d
      BY <1>1
    <3> QED
      BY <1>2, <1>4, <2>1, <3>1
  <2>3. n \in Int /\ a < n
    BY <1>1, <1>2, <1>4, <2>1
  <2>4. \E d \in Int : Planned(s, d) /\ n = On(s, d)
    BY <1>2, <1>4, <2>1
  <2> QED
    BY <2>2, <2>3, <2>4 DEF Right
<1>7. ASSUME ~(c <= a) PROVE Right(s, a, n)
  <2>1. n = c /\ n \in Int /\ a < n
    BY <1>3, <1>5, <1>7
  <2>2. (\E d \in Int : Planned(s, d) /\ n = On(s, d)) \/ Second(s, a, n)
    BY <1>1, <1>4, <1>5, <2>1 DEF Second
  <2>3. \A d \in Int : On(s, d) <= a \/ n <= On(s, d)
    <3> SUFFICES ASSUME NEW d \in Int PROVE On(s, d) <= a \/ n <= On(s, d)
      OBVIOUS
    <3>1. d < t \/ d = t \/ t < d
      BY <1>1
    <3>2. On(s, d) \in Int /\ On(s, t) \in Int
      BY <1>1, <1>4
    <3> QED
      BY <1>1, <1>4, <1>5, <2>1, <3>1, <3>2
  <2> QED
    BY <2>1, <2>2, <2>3 DEF Right
<1> QED
  BY <1>6, <1>7 DEF n

LEMMA WeeklyRight ==
  ASSUME Clock, NEW s \in Cal!Phrases, s.kind = "weekly", NEW a \in Int
  PROVE  Right(s, a, Cal!NextRunAfter(s, a))
<1> DEFINE t == Cal!Day(Cal!Local(a))
           ahead == (s.weekday - (t % Week)) % Week
           m == t + ahead
           n == Cal!NextRunAfter(s, a)
<1>1. Timed(s) /\ t \in Int /\ D \in Int /\ s.time \in Int /\ Week \in Nat \ {0}
  <2>1. Timed(s) /\ Cal!Local(a) \in Int
    BY PhraseIs, LocalIs
  <2>2. t \in Int
    BY <2>1, DayOfTime
  <2>3. D \in Int /\ s.time \in Int
    BY <2>1, DayLengthIs DEF Timed
  <2> QED
    BY <2>1, <2>2, <2>3, DayLengthIs
<1>2. ahead \in 0..Week - 1 /\ m % Week = s.weekday /\ (m + Week) % Week = s.weekday
  BY <1>1, WeekdayFound DEF Timed
<1>3. m \in Int /\ m + Week \in Int /\ t <= m /\ m < t + Week
  <2> HIDE DEF t, ahead
  <2> QED
    BY <1>1, <1>2
<1>4. t * D + s.time + ahead * D = D * m + s.time
      /\ t * D + s.time + ahead * D + Week * D = D * (m + Week) + s.time
  <2>1. ahead \in Int
    BY <1>1, <1>2
  <2> HIDE DEF t, ahead
  <2> QED
    BY <1>1, <2>1
<1>5. n = IF On(s, m) <= a THEN On(s, m + Week) ELSE On(s, m)
  <2>1. n = IF Cal!Moment(t * D + s.time + ahead * D, FALSE) <= a
            THEN Cal!Moment(t * D + s.time + ahead * D + Week * D, FALSE)
            ELSE Cal!Moment(t * D + s.time + ahead * D, FALSE)
    BY DEF Cal!NextRunAfter, D
  <2> QED
    BY <1>4, <2>1 DEF On, First
<1>6. /\ \A d \in Int : On(s, d) \in Int
      /\ \A d \in Int : t < d => On(s, d) > a
      /\ \A d \in Int : d < t => On(s, d) <= a
      /\ \A d, e \in Int : d < e => On(s, d) < On(s, e)
  BY <1>1, OnIs, Tomorrow, Yesterday, OnGrows
<1>7. \A d \in Int : Planned(s, d) =>
        (d < m => d < t) /\ (m < d => d = m + Week \/ m + Week < d)
  <2> SUFFICES ASSUME NEW d \in Int, d % Week = m % Week
               PROVE  (d < m => d < t) /\ (m < d => d = m + Week \/ m + Week < d)
    BY <1>2 DEF Planned
  <2>1. (d < m => d + Week <= m) /\ (m < d => m + Week <= d)
    BY <1>3, WeeksApart
  <2> HIDE DEF t, m
  <2> QED
    BY <1>1, <1>3, <2>1
<1>8. Planned(s, m) /\ Planned(s, m + Week)
  BY <1>2 DEF Planned
<1> HIDE DEF t, ahead, m, n
<1>9. ASSUME On(s, m) <= a PROVE Right(s, a, n)
  <2>1. n = On(s, m + Week) /\ t < m + Week
    BY <1>1, <1>3, <1>5, <1>9
  <2>2. \A d \in Int : Planned(s, d) => On(s, d) <= a \/ n <= On(s, d)
    <3> SUFFICES ASSUME NEW d \in Int, Planned(s, d) PROVE On(s, d) <= a \/ n <= On(s, d)
      OBVIOUS
    <3>1. d < t \/ d = m \/ d = m + Week \/ m + Week < d
      BY <1>3, <1>7
    <3> QED
      BY <1>3, <1>6, <1>9, <2>1, <3>1
  <2>3. n \in Int /\ a < n
    BY <1>3, <1>6, <2>1
  <2>4. \E d \in Int : Planned(s, d) /\ n = On(s, d)
    BY <1>3, <1>8, <2>1
  <2> QED
    BY <2>2, <2>3, <2>4 DEF Right
<1>10. ASSUME ~(On(s, m) <= a) PROVE Right(s, a, n)
  <2>1. n = On(s, m) /\ n \in Int /\ a < n
    BY <1>3, <1>5, <1>6, <1>10
  <2>2. \A d \in Int : Planned(s, d) => On(s, d) <= a \/ n <= On(s, d)
    <3> SUFFICES ASSUME NEW d \in Int, Planned(s, d) PROVE On(s, d) <= a \/ n <= On(s, d)
      OBVIOUS
    <3>1. d < t \/ d = m \/ m < d
      BY <1>3, <1>7
    <3> QED
      BY <1>3, <1>6, <2>1, <3>1
  <2>3. \E d \in Int : Planned(s, d) /\ n = On(s, d)
    BY <1>3, <1>8, <2>1
  <2> QED
    BY <2>1, <2>2, <2>3 DEF Right
<1> QED
  BY <1>9, <1>10 DEF n

LEMMA NextRunRight ==
  ASSUME Clock, NEW s \in Cal!Phrases, NEW a \in Int
  PROVE  Right(s, a, Cal!NextRunAfter(s, a))
<1>1. CASE s.kind = "interval"
  <2>1. s.seconds \in 1..D /\ D \in Nat
    BY <1>1, PhraseIs, DayLengthIs
  <2>2. Cal!NextRunAfter(s, a) = a + s.seconds
    BY <1>1 DEF Cal!NextRunAfter
  <2> QED
    BY <1>1, <2>1, <2>2 DEF Right
<1> QED
  BY <1>1, DailyRight, WeeklyRight, PhraseIs

(* Such a run is exact in the words of the calendar.                       *)
Exact(s, a, n) ==
  /\ n > a
  /\ s.kind # "interval" =>
       /\ Cal!Named(s, n) \/ (s.kind = "daily" /\ Cal!Fold(a) /\ Cal!Fold(n))
       /\ \A e \in a + 1..n - 1 : ~Cal!Named(s, e)

LEMMA RightExact ==
  ASSUME Clock, NEW s \in Cal!Phrases, NEW a \in Int, NEW n, Right(s, a, n)
  PROVE  Exact(s, a, n)
<1>1. Timed(s) /\ n \in Int /\ a < n
  BY PhraseIs DEF Right
<1>2. ASSUME s.kind # "interval"
      PROVE  Cal!Named(s, n) \/ (s.kind = "daily" /\ Cal!Fold(a) /\ Cal!Fold(n))
  BY <1>1, <1>2, NamedIs DEF Right, Second
<1>3. ASSUME s.kind # "interval", NEW e \in a + 1..n - 1, Cal!Named(s, e)
      PROVE  FALSE
  <2>1. e \in Int /\ a < e /\ e < n
    BY <1>1
  <2>2. PICK d \in Int : Planned(s, d) /\ e = On(s, d)
    BY <1>1, <1>3, <2>1, NamedIs
  <2>3. On(s, d) <= a \/ n <= On(s, d)
    BY <1>3, <2>2 DEF Right
  <2> QED
    BY <1>1, <2>1, <2>2, <2>3
<1>4. n > a
  BY <1>1
<1> QED
  BY <1>2, <1>3, <1>4 DEF Exact

(* A poll outside the repeated hour moves on to a later day.               *)
LEMMA LaterDay ==
  ASSUME Clock, NEW s \in Cal!Phrases, s.kind # "interval",
         NEW a \in Int, NEW n, Right(s, a, n), NEW b \in Int, n <= b, ~Cal!Fold(b),
         NEW m, Right(s, b, m)
  PROVE  \E d \in Cal!Days(s, n), e \in Cal!Days(s, m) : d < e
<1>1. Timed(s) /\ n \in Int /\ m \in Int /\ b < m
  BY PhraseIs DEF Right
<1>2. PICK e \in Int : Planned(s, e) /\ m = On(s, e)
  BY DEF Right, Second
<1>3. e \in Cal!Days(s, m)
  BY <1>1, <1>2, NamedIs
<1>4. \E d \in Int : d \in Cal!Days(s, n) /\ On(s, d) < m
  <2>1. CASE \E d \in Int : Planned(s, d) /\ n = On(s, d)
    <3>1. PICK d \in Int : Planned(s, d) /\ n = On(s, d)
      BY <2>1
    <3>2. d \in Cal!Days(s, n)
      BY <1>1, <3>1, NamedIs
    <3> QED
      BY <1>1, <3>1, <3>2
  <2>2. CASE Second(s, a, n)
    <3>1. PICK d \in Int : Cal!Local(n) = D * d + s.time
      BY <2>2 DEF Second
    <3> DEFINE l == D * d + s.time
    <3>2. l \in Int /\ Cal!Day(l) = d /\ l % D = s.time
      BY <1>1, OnIs, TimeOfDay DEF Timed
    <3>3. d \in Cal!Days(s, n)
      <4>1. l \in Cal!StandsFor(n) /\ s.kind # "weekly"
        BY <2>2, <3>1 DEF Cal!StandsFor, Second
      <4> HIDE DEF l
      <4> QED
        BY <3>2, <4>1 DEF Cal!Days, D
    <3>4. On(s, d) = First(l) /\ Cal!Local(n) = l /\ Cal!Fold(n)
      BY <2>2, <3>1 DEF On, Second
    <3>5. First(l) < m
      <4>1. shift.at \in Int /\ shift.by \in Int
        BY ClockType
      <4> HIDE DEF l
      <4>2. /\ shift.by < 0 /\ shift.at <= n /\ n < shift.at - shift.by
            /\ l = (IF n >= shift.at THEN n + shift.by ELSE n)
        BY <1>1, <3>4, LocalIs
      <4>3. First(l) = IF l < shift.at THEN l ELSE l - shift.by
        BY <3>2, <4>1, <4>2, FirstIs
      <4> QED
        BY <1>1, <3>2, <4>1, <4>2, <4>3
    <3> QED
      BY <3>3, <3>4, <3>5
  <2> QED
    BY <2>1, <2>2 DEF Right
<1>5. PICK d \in Int : d \in Cal!Days(s, n) /\ On(s, d) < m
  BY <1>4
<1>6. d < e
  <2> SUFFICES ASSUME e <= d PROVE FALSE
    BY <1>2, <1>5
  <2>1. On(s, e) <= On(s, d)
    <3>1. e = d \/ e < d
      BY <1>2, <1>5
    <3>2. On(s, e) \in Int /\ On(s, d) \in Int
      BY <1>1, OnIs
    <3> QED
      BY <1>1, <3>1, <3>2, OnGrows
  <2> QED
    BY <1>1, <1>2, <1>5, <2>1, OnIs
<1> QED
  BY <1>3, <1>5, <1>6

(* The latest daily time that is not after a moment grows with it.         *)
LEMMA SlotIs ==
  ASSUME NEW time \in Int, NEW e \in Int, NEW k \in Int, k = e \div D
  PROVE  Cal!LastUpdateSlot(e, time) = IF k * D + time > e THEN k * D + time - D ELSE k * D + time
<1>1. D \in Nat \ {0}
  BY DayLengthIs
<1> QED
  BY <1>1 DEF Cal!LastUpdateSlot, D

LEMMA SlotGrows ==
  ASSUME NEW time \in 0..D - 1, NEW e \in Int, NEW f \in Int, e <= f
  PROVE  /\ Cal!LastUpdateSlot(e, time) \in Int /\ Cal!LastUpdateSlot(f, time) \in Int
         /\ Cal!LastUpdateSlot(e, time) <= e
         /\ Cal!LastUpdateSlot(e, time) <= Cal!LastUpdateSlot(f, time)
<1> DEFINE i == e \div D
           j == f \div D
           p == D * i
           q == D * j
<1>1. D \in Nat \ {0} /\ time \in Int /\ 0 <= time /\ time < D
  BY DayLengthIs
<1>2. /\ i \in Int /\ j \in Int /\ p \in Int /\ q \in Int
      /\ p <= e /\ e < p + D /\ q <= f /\ f < q + D
  <2>1. /\ i \in Int /\ p \in Int /\ e % D \in 0..D - 1 /\ e = p + (e % D)
        /\ j \in Int /\ q \in Int /\ f % D \in 0..D - 1 /\ f = q + (f % D)
    BY <1>1, Quotient
  <2> HIDE DEF i, j, p, q
  <2> QED
    BY <1>1, <2>1
<1>3. p = q \/ p + D <= q
  <2>1. i < j => p + D <= q
    BY <1>1, <1>2, Steps
  <2>2. j < i => q + D <= p
    BY <1>1, <1>2, Steps
  <2>3. i = j => p = q
    OBVIOUS
  <2> HIDE DEF i, j, p, q
  <2> QED
    BY <1>1, <1>2, <2>1, <2>2, <2>3
<1>4. /\ Cal!LastUpdateSlot(e, time) = IF p + time > e THEN p + time - D ELSE p + time
      /\ Cal!LastUpdateSlot(f, time) = IF q + time > f THEN q + time - D ELSE q + time
  <2>1. i * D = p /\ j * D = q
    <3>1. i \in Int /\ j \in Int /\ D \in Int
      BY <1>1, <1>2
    <3> HIDE DEF i, j
    <3> QED
      BY <3>1
  <2>2. /\ Cal!LastUpdateSlot(e, time) = IF i * D + time > e THEN i * D + time - D ELSE i * D + time
        /\ Cal!LastUpdateSlot(f, time) = IF j * D + time > f THEN j * D + time - D ELSE j * D + time
    BY <1>1, <1>2, SlotIs
  <2> HIDE DEF i, j, p, q
  <2> QED
    BY <2>1, <2>2
<1> HIDE DEF i, j, p, q
<1> QED
  BY <1>1, <1>2, <1>3, <1>4

(* A round that is under way was due, and is due until it ends.            *)
CalInv ==
  /\ Clock /\ spec \in Cal!Phrases /\ now \in Int /\ asked \in Int
  /\ Right(spec, asked, next)
  /\ update \in 0..D - 1 /\ check \in Int
  /\ updating => check < Cal!LastUpdateSlot(now, update)

LEMMA CalStarts == Cal!Init => CalInv
<1> SUFFICES ASSUME Cal!Init PROVE CalInv
  OBVIOUS
<1>1. Clock /\ spec \in Cal!Phrases /\ asked = now /\ next = Cal!NextRunAfter(spec, now)
      /\ update \in 0..D - 1 /\ check = now /\ updating = FALSE
  BY DEF Cal!Init, Clock, D
<1>2. now \in Int
  <2>1. now \in 0..Week * D /\ Week * D \in Int
    BY DayLengthIs DEF Cal!Init, D
  <2> QED
    BY <2>1
<1> QED
  BY <1>1, <1>2, NextRunRight DEF CalInv

Moved == /\ next' # next /\ spec.kind # "interval" /\ ~Cal!Fold(asked')
            => \E d \in Cal!Days(spec, next), e \in Cal!Days(spec, next') : d < e
         /\ check' # check
            => Cal!LastUpdateSlot(check, update) < Cal!LastUpdateSlot(check', update)

LEMMA CalStep ==
  ASSUME CalInv, [Cal!Next]_(Cal!vars)
  PROVE  CalInv' /\ [Moved]_(Cal!vars)
<1>1. Clock /\ update \in 0..D - 1 /\ now \in Int /\ check \in Int
  BY DEF CalInv
<1>2. ASSUME shift' = shift, spec' = spec, update' = update, now' \in Int, asked' \in Int,
             check' \in Int, Right(spec, asked', next'),
             updating' => check' < Cal!LastUpdateSlot(now', update)
      PROVE  CalInv'
  <2>1. Clock'
    BY <1>1, <1>2 DEF Clock
  <2>2. Right(spec, asked', next') = Right(spec, asked, next)'
    BY <1>2 DEF Right, Second, Planned, On, First, Cal!Moment, Cal!Fold, Cal!Local
  <2>3. (updating => check < Cal!LastUpdateSlot(now, update))'
    BY <1>2
  <2> QED
    BY <1>2, <2>1, <2>2, <2>3 DEF CalInv
<1>3. CASE Cal!Pass
  <2>1. /\ now' = now + 1 /\ UNCHANGED <<shift, spec, asked, next, update, check, updating>>
    BY <1>3 DEF Cal!Pass
  <2>2. Cal!LastUpdateSlot(now, update) \in Int /\ Cal!LastUpdateSlot(now + 1, update) \in Int
        /\ Cal!LastUpdateSlot(now, update) <= Cal!LastUpdateSlot(now + 1, update)
    <3>1. now + 1 \in Int /\ now <= now + 1
      BY <1>1
    <3> QED
      BY <1>1, <3>1, SlotGrows
  <2>3. updating' => check' < Cal!LastUpdateSlot(now', update)
    BY <2>1, <2>2 DEF CalInv
  <2>4. CalInv'
    BY <1>1, <1>2, <2>1, <2>3 DEF CalInv
  <2>5. Moved
    BY <2>1 DEF Moved
  <2> QED
    BY <2>4, <2>5
<1>4. CASE Cal!Fire
  <2>1. /\ next <= now /\ asked' = now /\ next' = Cal!NextRunAfter(spec, now)
        /\ UNCHANGED <<shift, now, spec, update, check, updating>>
    BY <1>4 DEF Cal!Fire, Right, CalInv
  <2>2. Right(spec, asked', next')
    BY <2>1, NextRunRight DEF CalInv
  <2>3. CalInv'
    BY <1>1, <1>2, <2>1, <2>2 DEF CalInv
  <2>4. Moved
    BY <2>1, <2>2, LaterDay DEF Moved, CalInv
  <2> QED
    BY <2>3, <2>4
<1>5. CASE Cal!UpdateStarts
  <2>1. /\ check < Cal!LastUpdateSlot(now, update)
        /\ UNCHANGED <<shift, now, spec, asked, next, update, check>>
    BY <1>5 DEF Cal!UpdateStarts, Cal!UpdateDue
  <2>2. CalInv'
    BY <1>1, <1>2, <2>1 DEF CalInv
  <2>3. Moved
    BY <2>1 DEF Moved
  <2> QED
    BY <2>2, <2>3
<1>6. CASE Cal!UpdateEnds
  <2>1. /\ updating /\ updating' = FALSE /\ check' = now
        /\ UNCHANGED <<shift, now, spec, asked, next, update>>
    BY <1>6 DEF Cal!UpdateEnds
  <2>2. CalInv'
    BY <1>1, <1>2, <2>1 DEF CalInv
  <2>3. Cal!LastUpdateSlot(check, update) < Cal!LastUpdateSlot(now, update)
    <3>1. check < Cal!LastUpdateSlot(now, update)
      BY <2>1 DEF CalInv
    <3>2. Cal!LastUpdateSlot(now, update) \in Int /\ Cal!LastUpdateSlot(check, update) \in Int
          /\ Cal!LastUpdateSlot(check, update) <= check
      BY <1>1, SlotGrows
    <3> QED
      BY <1>1, <3>1, <3>2
  <2>4. Moved
    BY <2>1, <2>3 DEF Moved
  <2> QED
    BY <2>2, <2>4
<1>7. CASE UNCHANGED Cal!vars
  BY <1>2, <1>7 DEF Cal!vars, CalInv
<1> QED
  BY <1>3, <1>4, <1>5, <1>6, <1>7 DEF Cal!Next

(* A schedule's next run is one of its own and the first that is left, on  *)
(* the days the clock changes too, and schedules and updates run once      *)
(* however late they are polled (next_run_after, _fire_schedule,           *)
(* cli_update_due), for every length of day and week.                      *)
THEOREM DueOnce == MCSpec => RunsWhenDue
<1>1. MCInit => CalInv
  BY CalStarts DEF MCInit
<1>2. CalInv /\ [MCNext]_mcvars => CalInv' /\ [Moved]_(Cal!vars)
  <2> SUFFICES ASSUME CalInv, [MCNext]_mcvars PROVE CalInv' /\ [Moved]_(Cal!vars)
    OBVIOUS
  <2>1. [Cal!Next]_(Cal!vars)
    BY DEF MCNext, mcvars, calVars, Cal!vars
  <2> QED
    BY <2>1, CalStep
<1>3. CalInv => Cal!NextRunExact
  BY RightExact DEF CalInv, Exact, Cal!NextRunExact
<1>4. [Moved]_(Cal!vars) =>
        [/\ next' # next /\ spec.kind # "interval" /\ ~Cal!Fold(asked')
            => \E d \in Cal!Days(spec, next), e \in Cal!Days(spec, next') : d < e
         /\ check' # check
            => Cal!LastUpdateSlot(check, update) < Cal!LastUpdateSlot(check', update)]_(Cal!vars)
  BY DEF Moved
<1> QED
  BY <1>1, <1>2, <1>3, <1>4, PTL DEF MCSpec, RunsWhenDue, Cal!RunsWhenDue, Cal!OncePerDay

-----------------------------------------------------------------------------
(* Markup: induction over the lines of a text                              *)

LEMMA LeastNat ==
  ASSUME NEW T, T \subseteq Nat, T # {}
  PROVE  \E x \in T : \A y \in T : x <= y
<1> DEFINE R == OpToRel(<, Nat)
<1>1. IsWellFoundedOn(R, Nat)
  BY NatLessThanWellFounded, Zenon
<1>2. R = {ss \in Nat \X Nat : ss[1] < ss[2]}
  BY DEF OpToRel
<1> HIDE DEF R
<1>3. PICK x \in T : \A y \in T : ~ (<<y, x>> \in R)
  BY <1>1, WFMin
<1>4. \A y \in T : <<y, x>> \in Nat \X Nat /\ <<y, x>>[1] = y /\ <<y, x>>[2] = x
  OBVIOUS
<1>5. \A y \in T : ~(y < x)
  BY <1>2, <1>3, <1>4
<1> QED
  BY <1>5

(* Induction, for a set of numbers.                                        *)
LEMMA Induction ==
  ASSUME NEW P, P \subseteq Nat, 0 \in P, \A n \in P : n + 1 \in P
  PROVE  P = Nat
<1> SUFFICES ASSUME Nat \ P # {} PROVE FALSE
  OBVIOUS
<1>1. PICK x \in Nat \ P : \A y \in Nat \ P : x <= y
  BY LeastNat
<1>2. x # 0 /\ x - 1 \in Nat
  BY <1>1
<1>3. x - 1 \in P
  BY <1>1, <1>2
<1> QED
  BY <1>1, <1>3

(* A recursion over the lines after the first `c` of `n` has a solution.   *)
Solves(f, n, c, b, g) == \A i \in 0..n : f[i] = IF i <= c THEN b ELSE g[<<f[i - 1], i>>]

LEMMA Recursion ==
  ASSUME NEW n \in Nat, NEW c \in Nat, NEW S, NEW b \in S, NEW g \in [S \X (1..n) -> S]
  PROVE  \E f \in [0..n -> S] : Solves(f, n, c, b, g)
<1> DEFINE P == {m \in Nat : m <= n => \E f \in [0..m -> S] : Solves(f, m, c, b, g)}
<1>1. 0 \in P
  <2> DEFINE f == [i \in 0..0 |-> b]
  <2>1. f \in [0..0 -> S]
    OBVIOUS
  <2>2. Solves(f, 0, c, b, g)
    BY DEF Solves
  <2> QED
    BY <2>1, <2>2
<1>2. ASSUME NEW m \in P PROVE m + 1 \in P
  <2> SUFFICES ASSUME m + 1 <= n PROVE \E f \in [0..m + 1 -> S] : Solves(f, m + 1, c, b, g)
    BY <1>2
  <2>1. PICK f \in [0..m -> S] : Solves(f, m, c, b, g)
    BY <1>2
  <2> DEFINE v == IF m + 1 <= c THEN b ELSE g[<<f[m], m + 1>>]
             h == [i \in 0..m + 1 |-> IF i = m + 1 THEN v ELSE f[i]]
  <2>2. m \in Nat /\ m + 1 \in 1..n /\ f[m] \in S
    BY <1>2
  <2>3. v \in S
    BY <2>2
  <2> HIDE DEF v
  <2>4. h \in [0..m + 1 -> S] /\ h[m] = f[m] /\ \A i \in 0..m : h[i] = f[i]
    BY <2>2, <2>3
  <2>5. \A i \in 0..m + 1 : h[i] = IF i <= c THEN b ELSE g[<<h[i - 1], i>>]
    <3> SUFFICES ASSUME NEW i \in 0..m + 1
                 PROVE  h[i] = IF i <= c THEN b ELSE g[<<h[i - 1], i>>]
      OBVIOUS
    <3>1. CASE i = m + 1
      <4>1. h[i] = v /\ i - 1 = m
        BY <3>1, <2>2
      <4> QED
        BY <3>1, <4>1, <2>4, <2>2 DEF v
    <3>2. CASE i # m + 1
      <4>1. i \in 0..m /\ (i - 1 \in 0..m \/ i = 0)
        BY <3>2, <2>2
      <4>2. f[i] = IF i <= c THEN b ELSE g[<<f[i - 1], i>>]
        BY <4>1, <2>1 DEF Solves
      <4> HIDE DEF h
      <4>3. i # 0 => h[i - 1] = f[i - 1]
        BY <4>1, <2>4
      <4>4. h[i] = f[i] /\ (i = 0 => i <= c)
        BY <4>1, <2>4
      <4>5. CASE i <= c
        BY <4>2, <4>4, <4>5
      <4>6. CASE ~(i <= c)
        BY <4>2, <4>3, <4>4, <4>6
      <4> QED
        BY <4>5, <4>6
    <3> QED
      BY <3>1, <3>2
  <2>6. Solves(h, m + 1, c, b, g)
    BY <2>5 DEF Solves
  <2> HIDE DEF h
  <2> QED
    BY <2>4, <2>6
<1> HIDE DEF P
<1>3. P = Nat
  <2>1. P \subseteq Nat
    BY DEF P
  <2> QED
    BY <1>1, <1>2, <2>1, Induction
<1> QED
  BY <1>3 DEF P

(* How many of the first k are in T: one more than of the first k - 1, or  *)
(* as many.                                                                *)
Tally(T, k) == Cardinality({j \in 1..k : j \in T})

LEMMA TallySteps ==
  ASSUME NEW T, NEW k \in Nat
  PROVE  /\ Tally(T, 0) = 0 /\ Tally(T, k) \in Nat
         /\ Tally(T, k + 1) = Tally(T, k) + (IF k + 1 \in T THEN 1 ELSE 0)
<1> DEFINE A == {j \in 1..k : j \in T}
<1>1. {j \in 1..0 : j \in T} = {} /\ Cardinality({}) = 0
  BY FS_EmptySet
<1>2. IsFiniteSet(A)
  <2>1. IsFiniteSet(1..k) /\ A \in SUBSET (1..k)
    BY FS_Interval
  <2> QED
    BY <2>1, FS_Subset
<1>3. {j \in 1..k + 1 : j \in T} = IF k + 1 \in T THEN A \cup {k + 1} ELSE A
  OBVIOUS
<1>4. k + 1 \notin A
  OBVIOUS
<1> HIDE DEF A
<1>5. Cardinality(A) \in Nat /\ Cardinality(A \cup {k + 1}) = Cardinality(A) + 1
  BY <1>2, <1>4, FS_CardinalityType, FS_AddElement
<1>6. Tally(T, k) = Cardinality(A)
  BY DEF A, Tally
<1> QED
  BY <1>1, <1>3, <1>5, <1>6 DEF Tally

LEMMA Odd ==
  ASSUME NEW m \in Nat, NEW n \in Nat
  PROVE  /\ n % 2 \in {0, 1} /\ 0 % 2 = 0 /\ 1 % 2 = 1
         /\ (m + n) % 2 = 1 <=> ~(m % 2 = 1 <=> n % 2 = 1)
OBVIOUS

-----------------------------------------------------------------------------
(* Markup: cutting to size                                                 *)

Written == text \in Seq(AllKinds)
Fence == {j \in DOMAIN text : FenceLine(j)}
Fences(i) == Tally(Fence, i)

(* Whether a line is in a code block is the parity of the fences above it. *)
LEMMA InCodeIs ==
  ASSUME Written, NEW i \in DOMAIN text
  PROVE  InCode(i) <=> Fences(i - 1) % 2 = 1
<1>1. i - 1 \in Nat /\ \A j \in 1..i - 1 : j \in DOMAIN text
  BY DEF Written
<1>2. {j \in 1..i - 1 : FenceLine(j)} = {j \in 1..i - 1 : j \in Fence}
  BY <1>1 DEF Fence
<1> QED
  BY <1>2 DEF InCode, Fences, Tally

LEMMA FenceSteps ==
  ASSUME Written, NEW i \in DOMAIN text
  PROVE  /\ Fences(i - 1) \in Nat /\ Fences(i) \in Nat /\ Fences(0) = 0
         /\ Fences(i) = Fences(i - 1) + (IF FenceLine(i) THEN 1 ELSE 0)
<1>1. i - 1 \in Nat /\ (i - 1) + 1 = i /\ (i \in Fence <=> FenceLine(i))
  BY DEF Written, Fence
<1>2. Tally(Fence, i) = Tally(Fence, i - 1) + (IF i \in Fence THEN 1 ELSE 0)
  BY <1>1, TallySteps
<1> QED
  BY <1>1, <1>2, TallySteps DEF Fences

(* The fences among the first k lines of a piece.                          *)
FenceIn(c) == {j \in DOMAIN c : FenceLine(c[j])}
Within(c, k) == Tally(FenceIn(c), k)

(* A piece of consecutive lines, those after `a` up to `z`.                *)
Run(c, a, z) ==
  /\ c \in Seq(Nat) /\ a \in Nat /\ z \in Nat /\ a + Len(c) = z
  /\ \A k \in 1..Len(c) : c[k] = a + k

LEMMA RunCounts ==
  ASSUME Written, NEW c, NEW a, NEW z, Run(c, a, z), z <= Len(text), NEW k \in 0..Len(c)
  PROVE  Within(c, k) \in Nat /\ Fences(a + k) = Fences(a) + Within(c, k)
<1> DEFINE P == {m \in Nat : m <= Len(c) => Fences(a + m) = Fences(a) + Within(c, m)}
<1>1. 0 \in P
  <2>1. Within(c, 0) = 0 /\ Fences(a) \in Nat /\ a + 0 = a
    BY TallySteps DEF Within, Fences, Run
  <2> QED
    BY <2>1
<1>2. ASSUME NEW m \in P PROVE m + 1 \in P
  <2> SUFFICES ASSUME m + 1 <= Len(c) PROVE Fences(a + (m + 1)) = Fences(a) + Within(c, m + 1)
    BY <1>2
  <2>1. m \in Nat /\ Fences(a + m) = Fences(a) + Within(c, m) /\ Len(c) \in Nat
    BY <1>2 DEF Run
  <2>2. /\ a + (m + 1) \in DOMAIN text /\ a + (m + 1) = (a + m) + 1 /\ a + m \in Nat
        /\ m + 1 \in DOMAIN c /\ c[m + 1] = a + (m + 1)
    BY <2>1 DEF Run, Written
  <2>3. (m + 1 \in FenceIn(c)) <=> (a + (m + 1) \in Fence)
    BY <2>2 DEF FenceIn, Fence
  <2>4. Within(c, m + 1) = Within(c, m) + (IF m + 1 \in FenceIn(c) THEN 1 ELSE 0)
        /\ Within(c, m) \in Nat
    BY <2>1, TallySteps DEF Within
  <2>5. Fences((a + m) + 1) = Fences(a + m) + (IF (a + m) + 1 \in Fence THEN 1 ELSE 0)
        /\ Fences(a + m) \in Nat /\ Fences(a) \in Nat
    <3> DEFINE b == a + m
    <3>1. b \in Nat /\ a \in Nat
      BY <2>2 DEF Run
    <3> HIDE DEF b
    <3>2. Tally(Fence, b + 1) = Tally(Fence, b) + (IF b + 1 \in Fence THEN 1 ELSE 0)
          /\ Tally(Fence, b) \in Nat /\ Tally(Fence, a) \in Nat
      BY <3>1, TallySteps
    <3> QED
      BY <3>2 DEF Fences, b
  <2> QED
    BY <2>1, <2>2, <2>3, <2>4, <2>5
<1> HIDE DEF P
<1>3. P = Nat
  <2>1. P \subseteq Nat
    BY DEF P
  <2> QED
    BY <1>1, <1>2, <2>1, Induction
<1>4. k \in Nat /\ Within(c, k) \in Nat
  BY TallySteps DEF Within, Run
<1> QED
  BY <1>3, <1>4 DEF P

(* A part reads like the reply when the fences of the part above a line    *)
(* and those of the reply agree, and it is closed when it is open.         *)
Parts == [reopened : BOOLEAN, lines : Seq(Nat), closed : BOOLEAN]
One(flag) == IF flag THEN 1 ELSE 0
Fits(carried, c) ==
  \A k \in DOMAIN c : /\ c[k] \in DOMAIN text
                      /\ text[c[k]] # "blank" =>
                           ((One(carried) + Within(c, k - 1)) % 2 = 1 <=> Fences(c[k] - 1) % 2 = 1)

LEMMA RepairReads ==
  ASSUME Written, NEW st, st.parts \in Seq(Parts), st.carried \in BOOLEAN,
         NEW c \in Seq(Nat), Fits(st.carried, c)
  PROVE  \E p \in Parts :
           /\ Repair(st, c).parts = Append(st.parts, p) /\ p.lines = c /\ ReadsAlike(p)
           /\ Repair(st, c).carried \in BOOLEAN
           /\ Repair(st, c).carried <=> (One(st.carried) + Within(c, Len(c))) % 2 = 1
<1> DEFINE fences == Cardinality({k \in DOMAIN c : FenceLine(c[k])})
           inside == (st.carried # (fences % 2 = 1))
           p == [reopened |-> st.carried, lines |-> c, closed |-> inside]
<1>1. fences = Within(c, Len(c))
  <2>1. {k \in DOMAIN c : FenceLine(c[k])} = {j \in 1..Len(c) : j \in FenceIn(c)}
    BY DEF FenceIn
  <2> QED
    BY <2>1 DEF Within, Tally
<1>2. Repair(st, c) = [parts |-> Append(st.parts, p), carried |-> inside]
  BY DEF Repair
<1>3. p \in Parts /\ inside \in BOOLEAN
  BY DEF Parts
<1>4. \A k \in 1..Len(c) + 1 : Cardinality({j \in 1..k - 1 : FenceLine(c[j])}) = Within(c, k - 1)
  <2> SUFFICES ASSUME NEW k \in 1..Len(c) + 1
               PROVE  {j \in 1..k - 1 : FenceLine(c[j])} = {j \in 1..k - 1 : j \in FenceIn(c)}
    BY DEF Within, Tally
  <2> QED
    BY DEF FenceIn
<1>5. \A k \in 0..Len(c) : Within(c, k) \in Nat
  BY TallySteps DEF Within
<1>6. One(st.carried) \in Nat /\ (One(st.carried) % 2 = 1 <=> st.carried)
  BY DEF One
<1>7. inside <=> (One(st.carried) + Within(c, Len(c))) % 2 = 1
  <2>1. Within(c, Len(c)) \in Nat
    BY <1>5
  <2> QED
    BY <1>1, <1>6, <2>1, Odd
<1> HIDE DEF fences, inside
<1>8. ReadsAlike(p)
  <2> DEFINE before(k) == Cardinality({j \in 1..k - 1 : FenceLine(p.lines[j])})
                            + (IF p.reopened THEN 1 ELSE 0)
  <2>1. \A k \in 1..Len(c) + 1 : before(k) = One(st.carried) + Within(c, k - 1)
    <3> SUFFICES ASSUME NEW k \in 1..Len(c) + 1 PROVE before(k) = One(st.carried) + Within(c, k - 1)
      OBVIOUS
    <3>1. Within(c, k - 1) \in Nat /\ Cardinality({j \in 1..k - 1 : FenceLine(c[j])}) = Within(c, k - 1)
      BY <1>4, <1>5
    <3> QED
      BY <3>1 DEF One
  <2>2. ASSUME NEW k \in DOMAIN p.lines, text[p.lines[k]] # "blank"
        PROVE  (before(k) % 2 = 1) = InCode(p.lines[k])
    <3>1. k \in DOMAIN c /\ k \in 1..Len(c) + 1 /\ text[c[k]] # "blank"
      BY <2>2
    <3>2. before(k) % 2 = 1 <=> Fences(c[k] - 1) % 2 = 1
      BY <2>1, <3>1 DEF Fits
    <3>3. InCode(c[k]) <=> Fences(c[k] - 1) % 2 = 1
      BY <3>1, InCodeIs DEF Fits
    <3>4. InCode(c[k]) \in BOOLEAN
      BY DEF InCode
    <3> HIDE DEF before
    <3> QED
      BY <3>2, <3>3, <3>4
  <2>3. (before(Len(p.lines) + 1) + (IF p.closed THEN 1 ELSE 0)) % 2 = 0
    <3>1. before(Len(c) + 1) = One(st.carried) + Within(c, Len(c)) /\ before(Len(c) + 1) \in Nat
      <4>1. Len(c) + 1 \in 1..Len(c) + 1 /\ (Len(c) + 1) - 1 = Len(c) /\ Len(c) \in 0..Len(c)
        OBVIOUS
      <4>2. before(Len(c) + 1) = One(st.carried) + Within(c, Len(c))
        BY <2>1, <4>1
      <4> HIDE DEF before
      <4> QED
        BY <4>1, <4>2, <1>5, <1>6
    <3> HIDE DEF before
    <3>2. (before(Len(c) + 1) % 2 = 1) <=> inside
      BY <3>1, <1>7
    <3>3. (before(Len(c) + 1) + (IF inside THEN 1 ELSE 0)) % 2 = 0
      <4>1. CASE inside
        BY <3>1, <3>2, <4>1
      <4>2. CASE ~inside
        BY <3>1, <3>2, <4>2
      <4> QED
        BY <4>1, <4>2
    <3> QED
      BY <3>3
  <2> QED
    BY <2>2, <2>3 DEF ReadsAlike
<1> HIDE DEF p
<1>9. p.lines = c
  BY DEF p
<1> QED
  BY <1>2, <1>3, <1>7, <1>8, <1>9

(* Chunks that follow each other up to line `z`.  A line that is cut is a  *)
(* chunk several times, and no fence.                                      *)
End(chunks, m) == IF m = 0 THEN 0 ELSE chunks[m][Len(chunks[m])]
Follows(c, a) == Run(c, a, c[Len(c)]) \/ (c = <<a>> /\ a \in DOMAIN text /\ ~FenceLine(a))
Chain(chunks, z) ==
  /\ chunks \in Seq(Seq(Nat)) /\ z \in 0..Len(text)
  /\ \A m \in 1..Len(chunks) :
       /\ chunks[m] # <<>> /\ Follows(chunks[m], End(chunks, m - 1))
       /\ chunks[m][Len(chunks[m])] \in 1..z
  /\ End(chunks, Len(chunks)) = z
  /\ \A l \in 1..z : \E m \in DOMAIN chunks : \E k \in DOMAIN chunks[m] : chunks[m][k] = l

LEMMA ChainGrows ==
  ASSUME Written, NEW chunks, NEW y, Chain(chunks, y), NEW c \in Seq(Nat), c # <<>>,
         NEW z \in y..Len(text), c[Len(c)] = z, z # 0,
         Run(c, y, z) \/ (c = <<y>> /\ y \in DOMAIN text /\ ~FenceLine(y))
  PROVE  Chain(Append(chunks, c), z)
<1> DEFINE more == Append(chunks, c)
           n == Len(chunks)
<1>1. /\ more \in Seq(Seq(Nat)) /\ Len(more) = n + 1 /\ n \in Nat /\ more[n + 1] = c
      /\ \A m \in 1..n : more[m] = chunks[m] /\ m \in 1..n + 1
      /\ y \in 0..Len(text) /\ z \in 0..Len(text) /\ Len(text) \in Nat
  BY DEF Chain, Written
<1>2. \A m \in 0..n : End(more, m) = End(chunks, m)
  BY <1>1 DEF End
<1>3. End(more, n) = y /\ End(more, n + 1) = z
  BY <1>1, <1>2 DEF Chain, End
<1> HIDE DEF more
<1>4. ASSUME NEW m \in 1..n + 1
      PROVE  /\ more[m] # <<>> /\ Follows(more[m], End(more, m - 1))
             /\ more[m][Len(more[m])] \in 1..z
  <2>1. CASE m = n + 1
    <3>1. End(more, m - 1) = y /\ more[m] = c
      BY <1>1, <1>3, <2>1
    <3> QED
      BY <3>1, <1>1 DEF Follows
  <2>2. CASE m # n + 1
    <3>1. m \in 1..n /\ m - 1 \in 0..n
      BY <1>1, <2>2
    <3>2. /\ chunks[m] # <<>> /\ Follows(chunks[m], End(chunks, m - 1))
          /\ chunks[m][Len(chunks[m])] \in 1..y
      BY <3>1 DEF Chain
    <3>3. more[m] = chunks[m] /\ End(more, m - 1) = End(chunks, m - 1)
      BY <3>1, <1>1, <1>2
    <3>4. \A v \in 1..y : v \in 1..z
      BY <1>1
    <3> QED
      BY <3>2, <3>3, <3>4
  <2> QED
    BY <2>1, <2>2
<1>5. ASSUME NEW l \in 1..z
      PROVE  \E m \in 1..n + 1 : \E k \in DOMAIN more[m] : more[m][k] = l
  <2>1. CASE l \in 1..y
    <3>0. DOMAIN chunks = 1..n
      BY <1>1 DEF Chain
    <3>1. PICK m \in 1..n : \E k \in DOMAIN chunks[m] : chunks[m][k] = l
      BY <2>1, <3>0 DEF Chain
    <3> QED
      BY <3>1, <1>1
  <2>2. CASE l \notin 1..y
    <3>1. y < l /\ y # z
      BY <2>2, <1>1
    <3>2. Run(c, y, z)
      <4> SUFFICES ASSUME c = <<y>> PROVE FALSE
        OBVIOUS
      <4> QED
        BY <3>1
    <3>3. l - y \in 1..Len(c) /\ y + (l - y) = l /\ DOMAIN c = 1..Len(c)
      BY <3>1, <3>2, <1>1 DEF Run
    <3>4. c[l - y] = l /\ l - y \in DOMAIN c /\ n + 1 \in 1..n + 1
      BY <3>2, <3>3, <1>1 DEF Run
    <3> QED
      BY <3>4, <1>1
  <2> QED
    BY <2>1, <2>2
<1>6. DOMAIN more = 1..n + 1
  BY <1>1
<1> HIDE DEF n
<1>7. Chain(more, z)
  BY <1>1, <1>3, <1>4, <1>5, <1>6 DEF Chain
<1> QED
  BY <1>7 DEF more

(* A line that is cut adds itself to the chain.                            *)
LEMMA ChainCut ==
  ASSUME Written, NEW i \in DOMAIN text, NEW chunks, Chain(chunks, i - 1), ~FenceLine(i),
         NEW cuts \in Nat \ {0}
  PROVE  Chain(chunks \o [k \in 1..cuts |-> <<i>>], i)
<1> DEFINE more(m) == chunks \o [k \in 1..m |-> <<i>>]
           P == {m \in Nat : Chain(more(m + 1), i)}
<1>1. chunks \in Seq(Seq(Nat)) /\ <<i>> \in Seq(Nat) /\ i \in Nat /\ i \in 1..Len(text)
      /\ <<i>> # <<>> /\ <<i>>[Len(<<i>>)] = i
  BY DEF Chain, Written
<1>2. \A m \in Nat : more(m + 1) = Append(more(m), <<i>>) /\ more(0) = chunks
  <2> SUFFICES ASSUME NEW m \in Nat PROVE more(m + 1) = Append(more(m), <<i>>) /\ more(0) = chunks
    OBVIOUS
  <2> QED
    BY <1>1
<1> HIDE DEF more
<1>3. 0 \in P
  <2>1. more(0 + 1) = Append(chunks, <<i>>)
    BY <1>2
  <2>2. Run(<<i>>, i - 1, i) /\ i \in (i - 1)..Len(text) /\ i # 0
    BY <1>1 DEF Run
  <2>3. Chain(Append(chunks, <<i>>), i)
    BY <1>1, <2>2, ChainGrows
  <2> QED
    BY <2>1, <2>3
<1>4. ASSUME NEW m \in P PROVE m + 1 \in P
  <2>0. m + 1 \in Nat /\ Chain(more(m + 1), i)
    BY <1>4
  <2>1. more((m + 1) + 1) = Append(more(m + 1), <<i>>)
    BY <1>2, <2>0
  <2>2. i \in i..Len(text) /\ i # 0
    BY <1>1
  <2>3. Chain(Append(more(m + 1), <<i>>), i)
    BY <1>1, <2>0, <2>2, ChainGrows
  <2> QED
    BY <2>0, <2>1, <2>3
<1> HIDE DEF P
<1>5. P = Nat
  <2>1. P \subseteq Nat
    BY DEF P
  <2> QED
    BY <1>3, <1>4, <2>1, Induction
<1>6. cuts - 1 \in P /\ (cuts - 1) + 1 = cuts
  BY <1>5
<1> QED
  BY <1>6 DEF P, more

-----------------------------------------------------------------------------
(* What split_message has after line i.                                    *)
Splits == [chunks : Seq(Seq(Nat)), current : Seq(Nat), size : Nat]
Cuts(st, i) ==
  /\ st \in Splits
  /\ \E y \in 0..i : Chain(st.chunks, y) /\ Run(st.current, y, i)

LEMMA PieceType ==
  ASSUME Written, NEW i \in DOMAIN text
  PROVE  PieceWidth(i) \in Nat /\ (PieceWidth(i) > Limit => ~FenceLine(i))
<1>1. text[i] \in AllKinds /\ Limit \in Nat /\ Limit >= 4
  BY LimitAssumption DEF Written
<1>2. Width(text[i]) \in Nat /\ (FenceLine(i) => Width(text[i]) = 3)
  BY <1>1 DEF Width, Marker, FenceLine, AllKinds
<1> QED
  BY <1>1, <1>2 DEF PieceWidth

LEMMA CutsStep ==
  ASSUME Written, NEW i \in DOMAIN text, NEW st, Cuts(st, i - 1)
  PROVE  Cuts(AddPiece(st, i), i)
<1> DEFINE flushed == IF st.current = <<>> THEN st.chunks ELSE Append(st.chunks, st.current)
           cuts == (PieceWidth(i) + Limit - 1) \div Limit
<1>1. /\ st \in Splits /\ i \in Nat /\ i \in 1..Len(text) /\ i - 1 \in 0..Len(text) /\ Len(text) \in Nat
      /\ Limit \in Nat /\ Limit >= 4 /\ PieceWidth(i) \in Nat
  BY LimitAssumption, PieceType DEF Written, Cuts
<1>2. PICK y \in 0..i - 1 : Chain(st.chunks, y) /\ Run(st.current, y, i - 1)
  BY DEF Cuts
<1>3. Chain(flushed, i - 1)
  <2>1. CASE st.current = <<>>
    BY <1>1, <1>2, <2>1 DEF Run, Splits
  <2>2. CASE st.current # <<>>
    <3>1. /\ st.current \in Seq(Nat) /\ Len(st.current) \in 1..Len(st.current)
          /\ st.current[Len(st.current)] = i - 1 /\ i - 1 # 0 /\ i - 1 \in y..Len(text)
      BY <1>1, <1>2, <2>2 DEF Run, Splits
    <3> QED
      BY <1>2, <2>2, <3>1, ChainGrows
  <2> QED
    BY <2>1, <2>2
<1>4. flushed \in Seq(Seq(Nat)) /\ <<i>> \in Seq(Nat)
  BY <1>1, <1>3 DEF Chain
<1> HIDE DEF flushed
<1>5. CASE PieceWidth(i) > Limit
  <2>1. cuts \in Nat \ {0}
    <3>1. PieceWidth(i) + Limit - 1 >= Limit /\ PieceWidth(i) + Limit - 1 \in Nat
      BY <1>1, <1>5
    <3> QED
      BY <1>1, <3>1
  <2> DEFINE grown == [chunks |-> flushed \o [k \in 1..cuts |-> <<i>>], current |-> <<>>, size |-> 0]
  <2>2. AddPiece(st, i) = grown
    BY <1>5 DEF AddPiece, flushed
  <2> HIDE DEF cuts
  <2>3. Chain(grown.chunks, i)
    BY <1>3, <1>5, <2>1, ChainCut, PieceType
  <2>4. grown \in Splits
    BY <1>1, <2>1, <2>3 DEF Splits, Chain
  <2>5. Run(grown.current, i, i) /\ i \in 0..i
    BY <1>1 DEF Run
  <2> HIDE DEF grown
  <2> QED
    BY <2>2, <2>3, <2>4, <2>5 DEF Cuts
<1>6. CASE ~(PieceWidth(i) > Limit) /\ st.size + PieceWidth(i) <= Limit
  <2> DEFINE grown == [st EXCEPT !.current = Append(@, i), !.size = @ + PieceWidth(i)]
  <2>1. AddPiece(st, i) = grown
    BY <1>6 DEF AddPiece
  <2>2. grown \in Splits /\ grown.chunks = st.chunks /\ grown.current = Append(st.current, i)
    <3>1. st.current \in Seq(Nat) /\ st.size \in Nat
      BY <1>1 DEF Splits
    <3>2. Append(st.current, i) \in Seq(Nat) /\ st.size + PieceWidth(i) \in Nat
      BY <1>1, <3>1
    <3> QED
      BY <1>1, <3>2 DEF Splits
  <2>3. Run(Append(st.current, i), y, i)
    <3> DEFINE c == st.current
               d == Append(c, i)
    <3>1. c \in Seq(Nat) /\ y \in Nat /\ y + Len(c) = i - 1 /\ Len(c) \in Nat
          /\ \A k \in 1..Len(c) : c[k] = y + k
      BY <1>2 DEF Run
    <3> HIDE DEF c
    <3>2. d \in Seq(Nat) /\ Len(d) = Len(c) + 1 /\ d[Len(c) + 1] = i /\ \A k \in 1..Len(c) : d[k] = c[k]
      BY <3>1, <1>1
    <3> HIDE DEF d
    <3>3. ASSUME NEW k \in 1..Len(d) PROVE d[k] = y + k
      <4>1. i \in Nat /\ Len(c) \in Nat /\ y \in Nat /\ y + Len(c) = i - 1 /\ Len(d) = Len(c) + 1
        BY <1>1, <3>1, <3>2
      <4>2. CASE k = Len(c) + 1
        <5>1. y + k = i
          BY <4>1, <4>2
        <5> QED
          BY <3>2, <4>2, <5>1
      <4>3. CASE k # Len(c) + 1
        <5>1. k \in 1..Len(c)
          BY <4>1, <4>3
        <5> QED
          BY <3>1, <3>2, <5>1
      <4> QED
        BY <4>2, <4>3
    <3>4. Run(d, y, i)
      BY <3>1, <3>2, <3>3, <1>1 DEF Run
    <3> QED
      BY <3>4 DEF d, c
  <2> HIDE DEF grown
  <2> QED
    BY <1>1, <1>2, <2>1, <2>2, <2>3 DEF Cuts
<1>7. CASE ~(PieceWidth(i) > Limit) /\ ~(st.size + PieceWidth(i) <= Limit)
  <2> DEFINE grown == [chunks |-> flushed, current |-> <<i>>, size |-> PieceWidth(i)]
  <2>1. AddPiece(st, i) = grown
    BY <1>7 DEF AddPiece, flushed
  <2>2. grown \in Splits /\ grown.chunks = flushed /\ grown.current = <<i>>
    BY <1>1, <1>4 DEF Splits
  <2>3. Run(<<i>>, i - 1, i) /\ i - 1 \in 0..i
    BY <1>1 DEF Run
  <2> HIDE DEF grown
  <2> QED
    BY <1>3, <2>1, <2>2, <2>3 DEF Cuts
<1> QED
  BY <1>5, <1>6, <1>7

LEMMA QuotientNat ==
  ASSUME NEW a \in Nat, NEW b \in Nat \ {0}
  PROVE  a \div b \in Nat
OBVIOUS

LEMMA SplitIs ==
  ASSUME Written
  PROVE  \A i \in 0..Len(text) : Split[i] =
           IF i = 0 THEN [chunks |-> <<>>, current |-> <<>>, size |-> 0] ELSE AddPiece(Split[i - 1], i)
<1> DEFINE n == Len(text)
           b == [chunks |-> <<>>, current |-> <<>>, size |-> 0]
           S == Splits
           g == [x \in S \X (1..n) |-> IF AddPiece(x[1], x[2]) \in S THEN AddPiece(x[1], x[2]) ELSE b]
           o == 0
<1>1. n \in Nat /\ b \in S /\ o \in Nat
  BY DEF Written, Splits
<1>2. g \in [S \X (1..n) -> S]
  BY <1>1
<1>3. \A st \in S, i \in 1..n : g[<<st, i>>] = AddPiece(st, i)
  <2> SUFFICES ASSUME NEW st \in S, NEW i \in 1..n PROVE AddPiece(st, i) \in S
    OBVIOUS
  <2> DEFINE flushed == IF st.current = <<>> THEN st.chunks ELSE Append(st.chunks, st.current)
             a == PieceWidth(i) + Limit - 1
             cuts == a \div Limit
  <2>1. /\ st.chunks \in Seq(Seq(Nat)) /\ st.current \in Seq(Nat) /\ st.size \in Nat /\ i \in Nat
        /\ PieceWidth(i) \in Nat /\ Limit \in Nat \ {0} /\ Limit >= 4
    BY PieceType, LimitAssumption DEF Splits, Written
  <2>2. flushed \in Seq(Seq(Nat)) /\ <<i>> \in Seq(Nat)
    BY <2>1
  <2>3. cuts \in Nat
    <3>1. a \in Nat
      BY <2>1
    <3> HIDE DEF a
    <3> QED
      BY <2>1, <3>1, QuotientNat
  <2>6. st = [chunks |-> st.chunks, current |-> st.current, size |-> st.size]
    BY DEF Splits
  <2>7. CASE PieceWidth(i) > Limit
    <3>1. AddPiece(st, i) = [chunks |-> flushed \o [k \in 1..cuts |-> <<i>>], current |-> <<>>, size |-> 0]
      BY <2>7 DEF AddPiece, flushed, cuts
    <3> HIDE DEF flushed, cuts
    <3> DEFINE w == flushed \o [k \in 1..cuts |-> <<i>>]
    <3>2. w \in Seq(Seq(Nat))
      BY <2>2, <2>3
    <3> HIDE DEF w
    <3>3. [chunks |-> w, current |-> <<>>, size |-> 0] \in Splits
      BY <3>2 DEF Splits
    <3> QED
      BY <3>1, <3>3 DEF w
  <2>8. CASE ~(PieceWidth(i) > Limit) /\ st.size + PieceWidth(i) <= Limit
    <3>1. AddPiece(st, i) = [chunks |-> st.chunks, current |-> Append(st.current, i),
                             size |-> st.size + PieceWidth(i)]
      BY <2>8, <2>6 DEF AddPiece
    <3>2. Append(st.current, i) \in Seq(Nat) /\ st.size + PieceWidth(i) \in Nat
      BY <2>1
    <3> QED
      BY <2>1, <3>1, <3>2 DEF Splits
  <2>9. CASE ~(PieceWidth(i) > Limit) /\ ~(st.size + PieceWidth(i) <= Limit)
    <3>1. AddPiece(st, i) = [chunks |-> flushed, current |-> <<i>>, size |-> PieceWidth(i)]
      BY <2>9 DEF AddPiece, flushed
    <3> HIDE DEF flushed
    <3> QED
      BY <2>1, <2>2, <3>1 DEF Splits
  <2> QED
    BY <2>7, <2>8, <2>9
<1> HIDE DEF g, b, S, n, o
<1>4. \E f \in [0..n -> S] : Solves(f, n, o, b, g)
  BY <1>1, <1>2, Recursion
<1>5. PICK f \in [0..n -> S] : \A i \in 0..n : f[i] = IF i <= 0 THEN b ELSE g[<<f[i - 1], i>>]
  BY <1>4 DEF o, Solves
<1>6. \A i \in 0..n : (IF i <= 0 THEN b ELSE g[<<f[i - 1], i>>]) = IF i = 0 THEN b ELSE AddPiece(f[i - 1], i)
  <2> SUFFICES ASSUME NEW i \in 0..n, i # 0 PROVE g[<<f[i - 1], i>>] = AddPiece(f[i - 1], i)
    OBVIOUS
  <2>1. i \in 1..n /\ f[i - 1] \in S
    BY <1>1
  <2> QED
    BY <1>3, <2>1
<1>7. f = [i \in 0..n |-> IF i = 0 THEN b ELSE AddPiece(f[i - 1], i)]
  BY <1>5, <1>6
<1>8. Split = [i \in 0..n |-> IF i = 0 THEN b ELSE AddPiece(Split[i - 1], i)]
  BY <1>7 DEF Split, b, n
<1> QED
  BY <1>8 DEF b, n

(* The chunks of split_message are the lines of the text in their order.   *)
LEMMA SplitChain ==
  ASSUME Written
  PROVE  Chain(SplitMessage, Len(text))
<1> DEFINE P == {i \in Nat : i <= Len(text) => Cuts(Split[i], i)}
<1>0. Len(text) \in Nat
  BY DEF Written
<1>1. 0 \in P
  <2> DEFINE b == [chunks |-> <<>>, current |-> <<>>, size |-> 0]
  <2>1. Split[0] = b
    BY <1>0, SplitIs
  <2>2. b \in Splits /\ b.chunks = <<>> /\ b.current = <<>>
    BY DEF Splits
  <2> HIDE DEF b
  <2>3. Chain(<<>>, 0)
    BY <1>0 DEF Chain, End
  <2>4. Run(<<>>, 0, 0)
    BY DEF Run
  <2>5. Cuts(b, 0)
    BY <2>2, <2>3, <2>4 DEF Cuts
  <2> QED
    BY <2>1, <2>5
<1>2. ASSUME NEW m \in P PROVE m + 1 \in P
  <2> SUFFICES ASSUME m + 1 <= Len(text) PROVE Cuts(Split[m + 1], m + 1)
    BY <1>2
  <2> DEFINE i == m + 1
  <2>1. i \in DOMAIN text /\ i \in 0..Len(text) /\ i # 0 /\ i - 1 = m /\ Cuts(Split[m], m)
    BY <1>0, <1>2 DEF Written
  <2> HIDE DEF i
  <2>2. Split[i] = AddPiece(Split[i - 1], i)
    BY <2>1, SplitIs
  <2>3. Cuts(AddPiece(Split[i - 1], i), i)
    BY <2>1, CutsStep
  <2>4. Cuts(Split[i], i)
    BY <2>2, <2>3
  <2> QED
    BY <2>4 DEF i
<1> HIDE DEF P
<1>3. P = Nat
  <2>1. P \subseteq Nat
    BY DEF P
  <2> QED
    BY <1>1, <1>2, <2>1, Induction
<1> DEFINE end == Split[Len(text)]
<1>4. Cuts(end, Len(text))
  BY <1>0, <1>3 DEF P
<1>5. SplitMessage = IF end.current = <<>> THEN end.chunks ELSE Append(end.chunks, end.current)
  BY DEF SplitMessage
<1> HIDE DEF end
<1>6. PICK y \in 0..Len(text) : Chain(end.chunks, y) /\ Run(end.current, y, Len(text))
  BY <1>4 DEF Cuts
<1>7. CASE end.current = <<>>
  BY <1>0, <1>5, <1>6, <1>7 DEF Run
<1>8. CASE end.current # <<>>
  <2> DEFINE c == end.current
             z == Len(text)
  <2>1. c \in Seq(Nat) /\ Run(c, y, z) /\ c # <<>>
    BY <1>6, <1>8 DEF Run
  <2> HIDE DEF c
  <2>2. c[Len(c)] = z /\ z # 0 /\ z \in y..Len(text)
    BY <1>0, <2>1 DEF Run
  <2> HIDE DEF z
  <2>3. Chain(Append(end.chunks, c), z)
    BY <1>6, <2>1, <2>2, ChainGrows
  <2> QED
    BY <1>5, <1>8, <2>3 DEF c, z
<1> QED
  BY <1>7, <1>8

-----------------------------------------------------------------------------
(* A piece that begins where the fences above were counted fits.           *)
LEMMA RunFits ==
  ASSUME Written, NEW c, NEW a, NEW z, Run(c, a, z), z <= Len(text),
         NEW carried \in BOOLEAN, carried <=> Fences(a) % 2 = 1
  PROVE  /\ Fits(carried, c)
         /\ (One(carried) + Within(c, Len(c))) % 2 = 1 <=> Fences(z) % 2 = 1
<1>1. /\ c \in Seq(Nat) /\ a \in Nat /\ Len(c) \in Nat /\ a + Len(c) = z
      /\ Fences(a) \in Nat /\ Len(text) \in Nat /\ DOMAIN text = 1..Len(text)
      /\ \A k \in 1..Len(c) : c[k] = a + k
  <2>1. /\ c \in Seq(Nat) /\ a \in Nat /\ a + Len(c) = z
        /\ \A k \in 1..Len(c) : c[k] = a + k
    BY DEF Run
  <2>2. Fences(a) \in Nat
    BY <2>1, TallySteps DEF Fences
  <2> QED
    BY <2>1, <2>2 DEF Written
<1>2. ASSUME NEW k \in 0..Len(c)
      PROVE  (One(carried) + Within(c, k)) % 2 = 1 <=> Fences(a + k) % 2 = 1
  <2>1. Within(c, k) \in Nat /\ Fences(a + k) = Fences(a) + Within(c, k)
    BY RunCounts
  <2>2. One(carried) \in Nat /\ (One(carried) % 2 = 1 <=> carried)
    BY DEF One
  <2>3. (One(carried) + Within(c, k)) % 2 = 1 <=> ~(One(carried) % 2 = 1 <=> Within(c, k) % 2 = 1)
    BY <2>1, <2>2, Odd
  <2>4. (Fences(a) + Within(c, k)) % 2 = 1 <=> ~(Fences(a) % 2 = 1 <=> Within(c, k) % 2 = 1)
    BY <1>1, <2>1, Odd
  <2> QED
    BY <2>1, <2>2, <2>3, <2>4
<1>3. ASSUME NEW k \in DOMAIN c
      PROVE  /\ c[k] \in DOMAIN text
             /\ (One(carried) + Within(c, k - 1)) % 2 = 1 <=> Fences(c[k] - 1) % 2 = 1
  <2>0. k \in 1..Len(c)
    BY <1>1
  <2>1. k - 1 \in 0..Len(c) /\ c[k] = a + k
    BY <1>1, <2>0
  <2>2. c[k] \in 1..Len(text) /\ a + (k - 1) = c[k] - 1
    <3>1. a + k \in 1..Len(text) /\ a + (k - 1) = (a + k) - 1
      BY <1>1, <2>0
    <3> QED
      BY <2>1, <3>1
  <2>3. (One(carried) + Within(c, k - 1)) % 2 = 1 <=> Fences(a + (k - 1)) % 2 = 1
    BY <1>2, <2>1
  <2> QED
    BY <1>1, <2>2, <2>3
<1>4. Len(c) \in 0..Len(c)
  BY <1>1
<1> QED
  BY <1>1, <1>2, <1>3, <1>4 DEF Fits

LEMMA CutFits ==
  ASSUME Written, NEW a \in DOMAIN text, ~FenceLine(a),
         NEW carried \in BOOLEAN, carried <=> Fences(a) % 2 = 1
  PROVE  /\ Fits(carried, <<a>>)
         /\ (One(carried) + Within(<<a>>, 1)) % 2 = 1 <=> Fences(a) % 2 = 1
<1>1. Fences(a - 1) \in Nat /\ Fences(a) = Fences(a - 1)
  BY FenceSteps
<1>2. FenceIn(<<a>>) = {}
  BY DEF FenceIn
<1>3. Within(<<a>>, 0) = 0 /\ Within(<<a>>, 1) = 0
  <2>1. \A k \in Nat : {j \in 1..k : j \in {}} = {}
    OBVIOUS
  <2> QED
    BY <1>2, <2>1, FS_EmptySet DEF Within, Tally
<1>4. (One(carried) + 0) % 2 = 1 <=> carried
  BY DEF One
<1>5. DOMAIN <<a>> = {1} /\ <<a>>[1] = a
  OBVIOUS
<1> QED
  BY <1>1, <1>3, <1>4, <1>5 DEF Fits

(* The first m chunks are repaired.                                        *)
Mended(st, chunks, m) ==
  /\ st.parts \in Seq(Parts) /\ Len(st.parts) = m
  /\ \A q \in 1..m : st.parts[q].lines = chunks[q] /\ ReadsAlike(st.parts[q])
  /\ st.carried \in BOOLEAN /\ (st.carried <=> Fences(End(chunks, m)) % 2 = 1)

LEMMA MendedStep ==
  ASSUME Written, NEW chunks, Chain(chunks, Len(text)), NEW m \in 1..Len(chunks), NEW st,
         Mended(st, chunks, m - 1)
  PROVE  Mended(Repair(st, chunks[m]), chunks, m)
<1> DEFINE c == chunks[m]
           z == c[Len(c)]
           a == End(chunks, m - 1)
           grown == Repair(st, c)
<1>1. /\ c \in Seq(Nat) /\ c # <<>> /\ Follows(c, a) /\ z \in 1..Len(text) /\ m \in Nat /\ m - 1 \in Nat
      /\ End(chunks, m) = z
  <2>1. chunks \in Seq(Seq(Nat)) /\ m # 0
    BY DEF Chain
  <2>2. c \in Seq(Nat) /\ m \in Nat /\ m - 1 \in Nat
    BY <2>1
  <2>3. c # <<>> /\ Follows(c, a) /\ z \in 1..Len(text)
    BY DEF Chain
  <2> QED
    BY <2>1, <2>2, <2>3 DEF End
<1>2. /\ st.parts \in Seq(Parts) /\ Len(st.parts) = m - 1 /\ st.carried \in BOOLEAN
      /\ \A q \in 1..m - 1 : st.parts[q].lines = chunks[q] /\ ReadsAlike(st.parts[q])
      /\ st.carried <=> Fences(a) % 2 = 1
  BY DEF Mended
<1> HIDE DEF c, a
<1>3. /\ Fits(st.carried, c)
      /\ (One(st.carried) + Within(c, Len(c))) % 2 = 1 <=> Fences(z) % 2 = 1
  <2>1. CASE Run(c, a, z)
    <3> HIDE DEF z
    <3>1. z <= Len(text)
      BY <1>1 DEF Written
    <3> QED
      BY <1>2, <2>1, <3>1, RunFits
  <2>2. CASE c = <<a>> /\ a \in DOMAIN text /\ ~FenceLine(a)
    <3>1. Len(c) = 1 /\ z = a
      BY <2>2
    <3> QED
      BY <1>2, <2>2, <3>1, CutFits
  <2> QED
    BY <1>1, <2>1, <2>2 DEF Follows
<1> HIDE DEF z
<1>4. PICK p \in Parts :
           /\ grown.parts = Append(st.parts, p) /\ p.lines = c /\ ReadsAlike(p)
           /\ grown.carried \in BOOLEAN
           /\ grown.carried <=> (One(st.carried) + Within(c, Len(c))) % 2 = 1
  BY <1>1, <1>2, <1>3, RepairReads
<1> HIDE DEF grown
<1>5. /\ grown.parts \in Seq(Parts) /\ Len(grown.parts) = m /\ grown.parts[m] = p
      /\ \A q \in 1..m - 1 : grown.parts[q] = st.parts[q]
  BY <1>1, <1>2, <1>4
<1>6. \A q \in 1..m : q = m \/ q \in 1..m - 1
  BY <1>1
<1>7. \A q \in 1..m : grown.parts[q].lines = chunks[q] /\ ReadsAlike(grown.parts[q])
  BY <1>2, <1>4, <1>5, <1>6 DEF c
<1>8. Mended(grown, chunks, m)
  BY <1>1, <1>3, <1>4, <1>5, <1>7 DEF Mended
<1> QED
  BY <1>8 DEF grown, c

(* Repair and RepairRun keep their type.                                   *)
Mends == [parts : Seq(Parts), carried : BOOLEAN]

LEMMA RepairType ==
  ASSUME NEW st \in Mends, NEW c \in Seq(Nat)
  PROVE  Repair(st, c) \in Mends
<1> DEFINE fences == Cardinality({k \in DOMAIN c : FenceLine(c[k])})
           inside == (st.carried # (fences % 2 = 1))
           p == [reopened |-> st.carried, lines |-> c, closed |-> inside]
<1>1. st.parts \in Seq(Parts) /\ st.carried \in BOOLEAN /\ inside \in BOOLEAN
  BY DEF Mends
<1>2. Repair(st, c) = [parts |-> Append(st.parts, p), carried |-> inside]
  BY DEF Repair
<1> HIDE DEF inside
<1>3. p \in Parts
  BY <1>1 DEF Parts
<1> HIDE DEF p
<1>4. Append(st.parts, p) \in Seq(Parts)
  BY <1>1, <1>3
<1> QED
  BY <1>1, <1>2, <1>4 DEF Mends

LEMMA MarkdownIs ==
  ASSUME NEW chunks \in Seq(Seq(Nat))
  PROVE  LET repaired[m \in 0..Len(chunks)] ==
               IF m = 0 THEN Unrepaired ELSE Repair(repaired[m - 1], chunks[m])
         IN \A m \in 0..Len(chunks) : repaired[m] =
               IF m = 0 THEN Unrepaired ELSE Repair(repaired[m - 1], chunks[m])
<1> DEFINE n == Len(chunks)
           b == Unrepaired
           S == Mends
           g == [x \in S \X (1..n) |-> Repair(x[1], chunks[x[2]])]
           o == 0
           repaired[m \in 0..Len(chunks)] ==
               IF m = 0 THEN Unrepaired ELSE Repair(repaired[m - 1], chunks[m])
<1>1. n \in Nat /\ b \in S /\ o \in Nat
  BY DEF Unrepaired, Mends
<1>2. \A x \in S \X (1..n) : x[1] \in S /\ chunks[x[2]] \in Seq(Nat)
  OBVIOUS
<1>3. g \in [S \X (1..n) -> S]
  BY <1>2, RepairType
<1>4. \A st \in S, m \in 1..n : g[<<st, m>>] = Repair(st, chunks[m])
  OBVIOUS
<1> HIDE DEF g, b, S, n, o
<1>5. \E f \in [0..n -> S] : Solves(f, n, o, b, g)
  BY <1>1, <1>3, Recursion
<1>6. PICK f \in [0..n -> S] : \A i \in 0..n : f[i] = IF i <= 0 THEN b ELSE g[<<f[i - 1], i>>]
  BY <1>5 DEF o, Solves
<1>7. \A i \in 0..n : (IF i <= 0 THEN b ELSE g[<<f[i - 1], i>>]) =
                      IF i = 0 THEN b ELSE Repair(f[i - 1], chunks[i])
  <2> SUFFICES ASSUME NEW i \in 0..n, i # 0 PROVE g[<<f[i - 1], i>>] = Repair(f[i - 1], chunks[i])
    OBVIOUS
  <2>1. i \in 1..n /\ f[i - 1] \in S
    BY <1>1
  <2> QED
    BY <1>4, <2>1
<1>8. f = [i \in 0..n |-> IF i = 0 THEN b ELSE Repair(f[i - 1], chunks[i])]
  BY <1>6, <1>7
<1>9. repaired = [m \in 0..Len(chunks) |->
                    IF m = 0 THEN Unrepaired ELSE Repair(repaired[m - 1], chunks[m])]
  BY <1>8 DEF n, b
<1> QED
  BY <1>9

(* Cut to the size of a message, code stays code and no line is lost.      *)
LEMMA MarkdownReads ==
  ASSUME Written
  PROVE  /\ \A p \in Range(SplitMarkdown) : ReadsAlike(p)
         /\ UNION {Range(p.lines) : p \in Range(SplitMarkdown)} = DOMAIN text
<1> DEFINE whole == [reopened |-> FALSE, lines |-> [i \in DOMAIN text |-> i], closed |-> FALSE]
           chunks == SplitMessage
           n == Len(chunks)
           repaired[m \in 0..Len(chunks)] ==
               IF m = 0 THEN Unrepaired ELSE Repair(repaired[m - 1], chunks[m])
<1>1. Chain(chunks, Len(text)) /\ DOMAIN text = 1..Len(text) /\ Len(text) \in Nat
  BY SplitChain DEF Written
<1> HIDE DEF chunks
<1>2. chunks \in Seq(Seq(Nat)) /\ n \in Nat
  BY <1>1 DEF Chain
<1>3. SplitMarkdown = IF n <= 1 THEN <<whole>> ELSE repaired[n].parts
  BY DEF SplitMarkdown, chunks
<1>4. \A m \in 0..n : repaired[m] = IF m = 0 THEN Unrepaired ELSE Repair(repaired[m - 1], chunks[m])
  BY <1>2, MarkdownIs
<1> HIDE DEF repaired
<1>5. CASE n <= 1
  <2>1. SplitMarkdown = <<whole>> /\ Range(<<whole>>) = {whole}
    <3> HIDE DEF whole
    <3>1. DOMAIN <<whole>> = {1} /\ <<whole>>[1] = whole
      OBVIOUS
    <3> QED
      BY <1>3, <1>5, <3>1 DEF Range
  <2>2. Range(whole.lines) = DOMAIN text
    BY DEF Range
  <2>3. ReadsAlike(whole)
    <3>1. \A k \in DOMAIN text : whole.lines[k] = k
      OBVIOUS
    <3>2. Len(whole.lines) = Len(text) /\ DOMAIN whole.lines = DOMAIN text
      BY <1>1
    <3>3. ASSUME NEW k \in DOMAIN text
          PROVE  /\ Cardinality({j \in 1..k - 1 : FenceLine(whole.lines[j])}) =
                      Cardinality({j \in 1..k - 1 : FenceLine(j)})
                 /\ Cardinality({j \in 1..k - 1 : FenceLine(j)}) \in Nat
      <4>1. \A j \in 1..k - 1 : j \in DOMAIN text
        BY <1>1
      <4>2. {j \in 1..k - 1 : FenceLine(whole.lines[j])} = {j \in 1..k - 1 : FenceLine(j)}
        BY <3>1, <4>1
      <4>3. IsFiniteSet(1..k - 1) /\ {j \in 1..k - 1 : FenceLine(j)} \in SUBSET (1..k - 1)
        <5>1. k - 1 \in Int /\ 1 \in Int
          BY <1>1
        <5>2. IsFiniteSet(1..k - 1)
          BY <5>1, FS_Interval
        <5> QED
          BY <5>2
      <4> QED
        BY <4>2, <4>3, FS_Subset, FS_CardinalityType
    <3>4. whole.reopened = FALSE /\ whole.closed = FALSE
      OBVIOUS
    <3> HIDE DEF whole
    <3> QED
      BY <3>1, <3>2, <3>3, <3>4 DEF ReadsAlike, InCode
  <2> HIDE DEF whole
  <2> QED
    BY <2>1, <2>2, <2>3
<1>6. CASE ~(n <= 1)
  <2> DEFINE P == {m \in Nat : m <= n => Mended(repaired[m], chunks, m)}
  <2>1. 0 \in P
    <3>1. Unrepaired.parts = <<>> /\ Unrepaired.carried = FALSE /\ <<>> \in Seq(Parts)
      BY DEF Unrepaired
    <3>2. Fences(0) = 0 /\ 0 % 2 = 0 /\ End(chunks, 0) = 0
      BY TallySteps DEF Fences, End
    <3>3. Len(<<>>) = 0 /\ 1..0 = {} /\ ~(0 % 2 = 1)
      BY <3>2
    <3>4. Mended(Unrepaired, chunks, 0)
      BY <3>1, <3>2, <3>3, Zenon DEF Mended
    <3> QED
      BY <1>2, <1>4, <3>4
  <2>2. ASSUME NEW m \in P PROVE m + 1 \in P
    <3> SUFFICES ASSUME m + 1 <= n PROVE Mended(repaired[m + 1], chunks, m + 1)
      BY <2>2
    <3> DEFINE i == m + 1
    <3>1. i \in 1..n /\ i \in 0..n /\ i # 0 /\ i - 1 = m /\ Mended(repaired[m], chunks, m)
      BY <1>2, <2>2
    <3> HIDE DEF i
    <3>2. repaired[i] = Repair(repaired[i - 1], chunks[i])
      BY <1>4, <3>1
    <3>3. Mended(Repair(repaired[i - 1], chunks[i]), chunks, i)
      BY <1>1, <3>1, MendedStep
    <3>4. Mended(repaired[i], chunks, i)
      BY <3>2, <3>3
    <3> QED
      BY <3>4 DEF i
  <2> HIDE DEF P
  <2>3. P = Nat
    <3>1. P \subseteq Nat
      BY DEF P
    <3> QED
      BY <2>1, <2>2, <3>1, Induction
  <2>4. Mended(repaired[n], chunks, n)
    BY <1>2, <2>3 DEF P
  <2> DEFINE parts == SplitMarkdown
  <2>5. /\ parts \in Seq(Parts) /\ Len(parts) = n
        /\ \A q \in 1..n : parts[q].lines = chunks[q] /\ ReadsAlike(parts[q])
    BY <1>3, <1>6, <2>4 DEF Mended
  <2> HIDE DEF parts
  <2>6. DOMAIN parts = 1..n /\ Range(parts) = {parts[q] : q \in 1..n}
    BY <2>5 DEF Range
  <2>7. ASSUME NEW q \in 1..n, NEW k \in DOMAIN chunks[q] PROVE chunks[q][k] \in DOMAIN text
    <3> DEFINE c == chunks[q]
               z == c[Len(c)]
               a == End(chunks, q - 1)
    <3>1. /\ c \in Seq(Nat) /\ Follows(c, a) /\ z \in 1..Len(text)
      BY <1>1, <1>2 DEF Chain
    <3> HIDE DEF c, a
    <3>2. CASE Run(c, a, z)
      <4>1. k \in 1..Len(c) /\ c[k] = a + k /\ a \in Nat /\ a + Len(c) = z
        BY <3>1, <3>2 DEF Run, c
      <4> HIDE DEF z
      <4>2. Len(c) \in Nat
        BY <3>1
      <4>3. a + k \in 1..Len(text)
        BY <1>1, <3>1, <4>1, <4>2
      <4> QED
        BY <1>1, <4>1, <4>3 DEF c
    <3>3. CASE c = <<a>> /\ a \in DOMAIN text
      BY <3>3 DEF c
    <3> QED
      BY <3>1, <3>2, <3>3 DEF Follows
  <2>8. \A i \in DOMAIN text : \E q \in 1..n : \E k \in DOMAIN chunks[q] : chunks[q][k] = i
    <3>1. DOMAIN chunks = 1..n
      BY <1>2
    <3> QED
      BY <1>1, <3>1 DEF Chain
  <2>9. \A q \in 1..n : Range(parts[q].lines) = {chunks[q][k] : k \in DOMAIN chunks[q]}
    BY <2>5 DEF Range
  <2>10. \A p \in Range(parts) : ReadsAlike(p)
    BY <2>5, <2>6
  <2>11. UNION {Range(p.lines) : p \in Range(parts)} = DOMAIN text
    <3>1. ASSUME NEW i \in UNION {Range(p.lines) : p \in Range(parts)} PROVE i \in DOMAIN text
      <4>1. PICK p \in Range(parts) : i \in Range(p.lines)
        BY <3>1
      <4>2. PICK q \in 1..n : p = parts[q]
        BY <2>6, <4>1
      <4>3. i \in {chunks[q][k] : k \in DOMAIN chunks[q]}
        BY <2>9, <4>1, <4>2
      <4>4. PICK k \in DOMAIN chunks[q] : i = chunks[q][k]
        BY <4>3
      <4> QED
        BY <2>7, <4>4
    <3>2. ASSUME NEW i \in DOMAIN text PROVE i \in UNION {Range(p.lines) : p \in Range(parts)}
      <4>1. PICK q \in 1..n : i \in Range(parts[q].lines)
        BY <2>8, <2>9
      <4>2. parts[q] \in Range(parts)
        BY <2>6
      <4> QED
        BY <4>1, <4>2
    <3> QED
      BY <3>1, <3>2
  <2> QED
    BY <2>10, <2>11 DEF parts
<1> QED
  BY <1>5, <1>6

-----------------------------------------------------------------------------
(* Markup: cutting at the attachments                                      *)

(* The runs of the first i lines: run q begins after line from[q], which   *)
(* is a token unless it is the beginning.                                  *)
Spread(runs, i, from) ==
  /\ runs \in Seq(Seq(Nat)) /\ Len(runs) \in Nat \ {0} /\ from \in [1..Len(runs) -> Nat]
  /\ from[1] = 0 /\ from[Len(runs)] + Len(runs[Len(runs)]) = i
  /\ \A q \in 1..Len(runs) : Run(runs[q], from[q], from[q] + Len(runs[q])) /\ from[q] + Len(runs[q]) <= i
  /\ \A q \in 2..Len(runs) : /\ from[q] = from[q - 1] + Len(runs[q - 1]) + 1
                             /\ from[q] \in DOMAIN text /\ text[from[q]] = "token"
  /\ \A l \in 1..i : text[l] = "token" \/ \E q \in 1..Len(runs) : \E k \in 1..Len(runs[q]) : runs[q][k] = l
AddRun(runs, i) == IF text[i] = "token" THEN Append(runs, <<>>)
                   ELSE Append(Front(runs), Append(Last(runs), i))

LEMMA FrontIs ==
  ASSUME NEW S, NEW s \in Seq(S), Len(s) # 0
  PROVE  /\ Front(s) \in Seq(S) /\ Len(Front(s)) = Len(s) - 1
         /\ \A q \in 1..Len(s) - 1 : Front(s)[q] = s[q]
<1> DEFINE n == Len(s) - 1
<1>1. n \in Nat /\ n \in Int /\ 1 \in Int /\ \A i \in 1..n : s[i] \in S
  OBVIOUS
<1> HIDE DEF n
<1>2. /\ SubSeq(s, 1, n) \in Seq(S) /\ Len(SubSeq(s, 1, n)) = IF 1 <= n THEN n - 1 + 1 ELSE 0
      /\ \A i \in 1..n - 1 + 1 : SubSeq(s, 1, n)[i] = s[1 + i - 1]
  BY <1>1, SubSeqProperties
<1>3. Front(s) = SubSeq(s, 1, n)
  BY DEF Front, n
<1>4. n - 1 + 1 = n /\ \A i \in 1..n : 1 + i - 1 = i
  BY <1>1
<1>5. Len(Front(s)) = n /\ \A i \in 1..n : Front(s)[i] = s[i]
  BY <1>1, <1>2, <1>3, <1>4
<1> QED
  BY <1>2, <1>3, <1>5 DEF n

LEMMA RemoveAtIs ==
  ASSUME NEW S, NEW s \in Seq(S), NEW f \in 1..Len(s)
  PROVE  /\ RemoveAt(s, f) \in Seq(S) /\ Len(RemoveAt(s, f)) = Len(s) - 1
         /\ \A q \in 1..f - 1 : RemoveAt(s, f)[q] = s[q]
         /\ \A q \in f..Len(s) - 1 : RemoveAt(s, f)[q] = s[q + 1]
<1> DEFINE n == Len(s)
           a == f - 1
           b == f + 1
           u == SubSeq(s, 1, a)
           v == SubSeq(s, b, n)
<1>1. /\ n \in Nat /\ a \in Int /\ b \in Int /\ 1 \in Int /\ n \in Int /\ a \in Nat /\ f \in Nat
      /\ a + 1 = f /\ b = f + 1 /\ f <= n /\ 1 <= f
      /\ \A i \in 1..a : s[i] \in S
      /\ \A i \in b..n : s[i] \in S
  OBVIOUS
<1>2. RemoveAt(s, f) = u \o v
  BY DEF RemoveAt
<1> HIDE DEF a, b, n
<1>3. /\ u \in Seq(S) /\ Len(u) = IF 1 <= a THEN a - 1 + 1 ELSE 0
      /\ \A i \in 1..a - 1 + 1 : u[i] = s[1 + i - 1]
  BY <1>1, SubSeqProperties
<1>4. /\ v \in Seq(S) /\ Len(v) = IF b <= n THEN n - b + 1 ELSE 0
      /\ \A i \in 1..n - b + 1 : v[i] = s[b + i - 1]
  BY <1>1, SubSeqProperties
<1>5. Len(u) = a /\ \A i \in 1..a : u[i] = s[i]
  <2>1. a - 1 + 1 = a /\ \A i \in 1..a : 1 + i - 1 = i
    BY <1>1
  <2> QED
    BY <1>1, <1>3, <2>1
<1>6. Len(v) = n - f /\ \A i \in 1..n - f : v[i] = s[f + i]
  <2>1. n - b + 1 = n - f /\ \A i \in 1..n - f : b + i - 1 = f + i
    BY <1>1
  <2>2. Len(v) = n - f
    BY <1>1, <1>4, <2>1
  <2> QED
    BY <1>4, <2>1, <2>2
<1> HIDE DEF u, v
<1>7. /\ u \o v \in Seq(S) /\ Len(u \o v) = Len(u) + Len(v)
      /\ \A i \in 1..Len(u) : (u \o v)[i] = u[i]
      /\ \A i \in Len(u) + 1..Len(u) + Len(v) : (u \o v)[i] = v[i - Len(u)]
  <2>1. u \in Seq(S) /\ v \in Seq(S) /\ Len(u) \in Nat /\ Len(v) \in Nat
    BY <1>3, <1>4
  <2>2. /\ u \o v \in Seq(S) /\ Len(u \o v) = Len(u) + Len(v)
        /\ \A i \in 1..Len(u) + Len(v) : (u \o v)[i] = IF i <= Len(u) THEN u[i] ELSE v[i - Len(u)]
    BY <2>1, ConcatProperties
  <2>3. /\ \A i \in 1..Len(u) : i \in 1..Len(u) + Len(v) /\ i <= Len(u)
        /\ \A i \in Len(u) + 1..Len(u) + Len(v) : i \in 1..Len(u) + Len(v) /\ ~(i <= Len(u))
    BY <2>1
  <2> QED
    BY <2>2, <2>3
<1>8. ASSUME NEW q \in f..n - 1 PROVE (u \o v)[q] = s[q + 1]
  <2>1. q \in Len(u) + 1..Len(u) + Len(v) /\ q - Len(u) \in 1..n - f /\ f + (q - Len(u)) = q + 1
    BY <1>1, <1>5, <1>6
  <2> QED
    BY <1>6, <1>7, <2>1
<1>9. Len(u \o v) = n - 1 /\ \A q \in 1..f - 1 : (u \o v)[q] = s[q]
  <2>1. f - 1 = a /\ a + (n - f) = n - 1
    BY <1>1
  <2> QED
    BY <1>5, <1>6, <1>7, <2>1
<1> QED
  BY <1>2, <1>7, <1>8, <1>9 DEF n

LEMMA SpreadStep ==
  ASSUME Written, NEW i \in DOMAIN text, NEW runs, NEW from, Spread(runs, i - 1, from)
  PROVE  \E later : Spread(AddRun(runs, i), i, later)
<1> DEFINE n == Len(runs)
           lastRun == runs[n]
           more == AddRun(runs, i)
<1>1. /\ runs \in Seq(Seq(Nat)) /\ n \in Nat \ {0} /\ from \in [1..n -> Nat] /\ from[1] = 0
      /\ from[n] + Len(lastRun) = i - 1 /\ lastRun \in Seq(Nat) /\ Len(lastRun) \in Nat
      /\ i \in Nat \ {0} /\ n \in 1..n
  BY DEF Spread, Written
<1>2. \A q \in 1..n : Run(runs[q], from[q], from[q] + Len(runs[q])) /\ from[q] + Len(runs[q]) <= i - 1
  BY DEF Spread
<1>3. \A q \in 2..n : /\ from[q] = from[q - 1] + Len(runs[q - 1]) + 1
                      /\ from[q] \in DOMAIN text /\ text[from[q]] = "token"
  BY DEF Spread
<1>4. \A l \in 1..i - 1 : text[l] = "token" \/ \E q \in 1..n : \E k \in 1..Len(runs[q]) : runs[q][k] = l
  BY DEF Spread
<1>5. \A q \in 1..n : Len(runs[q]) \in Nat
  BY <1>1
<1>6. CASE text[i] = "token"
  <2> DEFINE later == [q \in 1..n + 1 |-> IF q = n + 1 THEN i ELSE from[q]]
  <2>1. /\ more \in Seq(Seq(Nat)) /\ Len(more) = n + 1 /\ more[n + 1] = <<>>
        /\ \A q \in 1..n : more[q] = runs[q]
    BY <1>1, <1>6 DEF AddRun
  <2>2. later \in [1..n + 1 -> Nat] /\ later[n + 1] = i /\ \A q \in 1..n : later[q] = from[q]
    BY <1>1
  <2> HIDE DEF more, later, n, lastRun
  <2>3. n + 1 \in Nat \ {0} /\ 1 \in 1..n /\ n + 1 \in 1..n + 1 /\ Len(<<>>) = 0
    BY <1>1
  <2>4. \A q \in 1..n + 1 : q = n + 1 \/ q \in 1..n
    BY <1>1
  <2>5. \A q \in 1..n + 1 : Run(more[q], later[q], later[q] + Len(more[q])) /\ later[q] + Len(more[q]) <= i
    <3>1. ASSUME NEW q \in 1..n
          PROVE  Run(more[q], later[q], later[q] + Len(more[q])) /\ later[q] + Len(more[q]) <= i
      <4>1. from[q] + Len(runs[q]) <= i - 1 /\ from[q] \in Nat /\ Len(runs[q]) \in Nat
        BY <1>1, <1>2, <1>5
      <4>2. from[q] + Len(runs[q]) <= i
        BY <1>1, <4>1
      <4> QED
        BY <1>2, <2>1, <2>2, <4>2
    <3>2. Run(<<>>, i, i) /\ i + 0 = i
      BY <1>1 DEF Run
    <3>3. Run(more[n + 1], later[n + 1], later[n + 1] + Len(more[n + 1])) /\ later[n + 1] + Len(more[n + 1]) <= i
      BY <1>1, <2>1, <2>2, <2>3, <3>2
    <3> QED
      BY <2>4, <3>1, <3>3
  <2>6. \A q \in 2..n + 1 : /\ later[q] = later[q - 1] + Len(more[q - 1]) + 1
                            /\ later[q] \in DOMAIN text /\ text[later[q]] = "token"
    <3>1. ASSUME NEW q \in 2..n
          PROVE  /\ later[q] = later[q - 1] + Len(more[q - 1]) + 1
                 /\ later[q] \in DOMAIN text /\ text[later[q]] = "token"
      <4>1. q \in 1..n /\ q - 1 \in 1..n
        BY <1>1
      <4> QED
        BY <1>3, <2>1, <2>2, <4>1
    <3>2. /\ later[n + 1] = later[(n + 1) - 1] + Len(more[(n + 1) - 1]) + 1
          /\ later[n + 1] \in DOMAIN text /\ text[later[n + 1]] = "token"
      <4>0. /\ n \in Nat \ {0} /\ from[n] + Len(runs[n]) = i - 1 /\ i \in Nat
            /\ from[n] \in Nat /\ Len(runs[n]) \in Nat
        BY <1>1 DEF lastRun
      <4>1. (n + 1) - 1 = n /\ n \in 1..n /\ from[n] + Len(runs[n]) + 1 = i
        BY <4>0
      <4> QED
        BY <1>6, <2>1, <2>2, <4>1
    <3>3. \A q \in 2..n + 1 : q = n + 1 \/ q \in 2..n
      BY <1>1
    <3> QED
      BY <3>1, <3>2, <3>3
  <2>7. \A l \in 1..i : text[l] = "token" \/ \E q \in 1..n + 1 : \E k \in 1..Len(more[q]) : more[q][k] = l
    <3> SUFFICES ASSUME NEW l \in 1..i, text[l] # "token"
                 PROVE  \E q \in 1..n + 1 : \E k \in 1..Len(more[q]) : more[q][k] = l
      OBVIOUS
    <3>1. l \in 1..i - 1
      BY <1>1, <1>6
    <3>2. PICK q \in 1..n : \E k \in 1..Len(runs[q]) : runs[q][k] = l
      BY <1>4, <3>1
    <3>3. q \in 1..n + 1 /\ more[q] = runs[q]
      BY <1>1, <2>1, <3>2
    <3> QED
      BY <3>2, <3>3
  <2>8. later[1] = 0 /\ later[n + 1] + Len(more[n + 1]) = i
    BY <1>1, <2>1, <2>2, <2>3
  <2>9. Spread(more, i, later)
    BY <2>1, <2>2, <2>3, <2>5, <2>6, <2>7, <2>8 DEF Spread
  <2> QED
    BY <2>9 DEF more
<1>7. CASE text[i] # "token"
  <2> DEFINE longer == Append(lastRun, i)
  <2>1. /\ longer \in Seq(Nat) /\ Len(longer) = Len(lastRun) + 1 /\ longer[Len(lastRun) + 1] = i
        /\ \A k \in 1..Len(lastRun) : longer[k] = lastRun[k]
    BY <1>1
  <2>2. more = Append(Front(runs), longer)
    BY <1>7 DEF AddRun, Last
  <2> HIDE DEF longer, more
  <2>3. /\ Front(runs) \in Seq(Seq(Nat)) /\ Len(Front(runs)) = n - 1
        /\ \A q \in 1..n - 1 : Front(runs)[q] = runs[q]
    BY <1>1, FrontIs
  <2>4. /\ more \in Seq(Seq(Nat)) /\ Len(more) = n /\ more[n] = longer
        /\ \A q \in 1..n - 1 : more[q] = runs[q]
    <3> DEFINE d == Front(runs)
    <3> HIDE DEF d
    <3>1. /\ d \in Seq(Seq(Nat)) /\ Len(d) = n - 1 /\ \A q \in 1..n - 1 : d[q] = runs[q]
      BY <2>3 DEF d
    <3>2. more = Append(d, longer) /\ n - 1 \in Nat /\ (n - 1) + 1 = n
      BY <1>1, <2>2 DEF d
    <3> HIDE DEF n
    <3>3. /\ Append(d, longer) \in Seq(Seq(Nat)) /\ Len(Append(d, longer)) = Len(d) + 1
          /\ Append(d, longer)[Len(d) + 1] = longer
          /\ \A q \in 1..Len(d) : Append(d, longer)[q] = d[q]
      BY <2>1, <3>1
    <3> QED
      BY <3>1, <3>2, <3>3
  <2>5. /\ \A q \in 1..n : q = n \/ q \in 1..n - 1
        /\ \A q \in 1..n - 1 : q \in 1..n
    BY <1>1
  <2>6. Run(longer, from[n], i) /\ from[n] + Len(longer) = i
    <3> DEFINE a == from[n]
    <3>1. a \in Nat /\ a + Len(lastRun) = i - 1 /\ Run(lastRun, a, a + Len(lastRun))
      BY <1>1, <1>2
    <3> HIDE DEF a, lastRun
    <3>2. \A k \in 1..Len(lastRun) : longer[k] = a + k
      BY <2>1, <3>1 DEF Run
    <3>3. a + Len(longer) = i /\ i = a + (Len(lastRun) + 1)
      <4>1. i \in Nat /\ Len(lastRun) \in Nat /\ Len(longer) = Len(lastRun) + 1
        BY <1>1, <2>1
      <4> QED
        BY <3>1, <4>1
    <3>4. \A k \in 1..Len(longer) : longer[k] = a + k
      <4> SUFFICES ASSUME NEW k \in 1..Len(longer) PROVE longer[k] = a + k
        OBVIOUS
      <4>1. k \in 1..Len(lastRun) \/ k = Len(lastRun) + 1
        BY <1>1, <2>1
      <4> QED
        BY <2>1, <3>2, <3>3, <4>1
    <3>5. Run(longer, a, i)
      BY <1>1, <2>1, <3>1, <3>3, <3>4 DEF Run
    <3> QED
      BY <3>3, <3>5 DEF a
  <2> HIDE DEF n
  <2>7. \A q \in 1..n : Run(more[q], from[q], from[q] + Len(more[q])) /\ from[q] + Len(more[q]) <= i
    <3>1. ASSUME NEW q \in 1..n - 1
          PROVE  Run(more[q], from[q], from[q] + Len(more[q])) /\ from[q] + Len(more[q]) <= i
      <4>1. /\ q \in 1..n /\ from[q] + Len(runs[q]) <= i - 1 /\ from[q] \in Nat /\ Len(runs[q]) \in Nat
        BY <1>1, <1>2, <1>5, <2>5
      <4>2. from[q] + Len(runs[q]) <= i
        BY <1>1, <4>1
      <4> QED
        BY <1>2, <2>4, <4>1, <4>2
    <3>2. Run(more[n], from[n], from[n] + Len(more[n])) /\ from[n] + Len(more[n]) <= i
      BY <1>1, <2>4, <2>6
    <3> QED
      BY <2>5, <3>1, <3>2
  <2>8. \A q \in 2..n : /\ from[q] = from[q - 1] + Len(more[q - 1]) + 1
                        /\ from[q] \in DOMAIN text /\ text[from[q]] = "token"
    <3>1. \A q \in 2..n : q - 1 \in 1..n - 1
      BY <1>1
    <3> QED
      BY <1>3, <2>4, <3>1
  <2>9. \A l \in 1..i : text[l] = "token" \/ \E q \in 1..n : \E k \in 1..Len(more[q]) : more[q][k] = l
    <3> SUFFICES ASSUME NEW l \in 1..i, text[l] # "token"
                 PROVE  \E q \in 1..n : \E k \in 1..Len(more[q]) : more[q][k] = l
      OBVIOUS
    <3>1. CASE l = i
      <4>1. Len(lastRun) + 1 \in 1..Len(longer)
        BY <1>1, <2>1
      <4> QED
        BY <1>1, <2>1, <2>4, <3>1, <4>1
    <3>2. CASE l # i
      <4>1. l \in 1..i - 1
        BY <1>1, <3>2
      <4>2. PICK q \in 1..n : \E k \in 1..Len(runs[q]) : runs[q][k] = l
        BY <1>4, <4>1
      <4>3. PICK k \in 1..Len(runs[q]) : runs[q][k] = l
        BY <4>2
      <4>4. CASE q = n
        <5>1. k \in 1..Len(lastRun) /\ k \in 1..Len(longer) /\ lastRun[k] = l
          BY <1>1, <2>1, <4>3, <4>4 DEF lastRun
        <5> QED
          BY <2>1, <2>4, <4>4, <5>1
      <4>5. CASE q # n
        <5>1. more[q] = runs[q]
          BY <2>4, <2>5, <4>5
        <5> QED
          BY <4>3, <5>1
      <4> QED
        BY <4>4, <4>5
    <3> QED
      BY <3>1, <3>2
  <2>10. Spread(more, i, from)
    BY <1>1, <2>4, <2>6, <2>7, <2>8, <2>9 DEF Spread
  <2> QED
    BY <2>10 DEF more
<1> QED
  BY <1>6, <1>7

LEMMA RunsIs ==
  ASSUME Written
  PROVE  \A i \in 0..Len(text) : Runs[i] = IF i = 0 THEN <<<<>>>> ELSE AddRun(Runs[i - 1], i)
<1> DEFINE n == Len(text)
           b == <<<<>>>>
           S == {r \in Seq(Seq(Nat)) : Len(r) # 0}
           g == [x \in S \X (1..n) |-> AddRun(x[1], x[2])]
           o == 0
<1>1. n \in Nat /\ b \in S /\ o \in Nat
  BY DEF Written
<1>2. ASSUME NEW r \in S, NEW i \in 1..n PROVE AddRun(r, i) \in S
  <2>1. r \in Seq(Seq(Nat)) /\ Len(r) # 0 /\ r[Len(r)] \in Seq(Nat) /\ i \in Nat
    OBVIOUS
  <2>2. <<>> \in Seq(Nat) /\ Append(r[Len(r)], i) \in Seq(Nat) /\ Front(r) \in Seq(Seq(Nat))
    BY <2>1, FrontIs
  <2> DEFINE d == Front(r)
             e == Append(r[Len(r)], i)
  <2>3. AddRun(r, i) = IF text[i] = "token" THEN Append(r, <<>>) ELSE Append(d, e)
    BY DEF AddRun, Last
  <2> HIDE DEF d, e
  <2>4. d \in Seq(Seq(Nat)) /\ e \in Seq(Nat)
    BY <2>2 DEF d, e
  <2>5. /\ Append(r, <<>>) \in Seq(Seq(Nat)) /\ Len(Append(r, <<>>)) # 0
        /\ Append(d, e) \in Seq(Seq(Nat)) /\ Len(Append(d, e)) # 0
    BY <2>1, <2>2, <2>4
  <2> QED
    BY <2>3, <2>5
<1>3. g \in [S \X (1..n) -> S]
  BY <1>2
<1>4. \A r \in S, i \in 1..n : g[<<r, i>>] = AddRun(r, i)
  OBVIOUS
<1> HIDE DEF g, b, S, n, o
<1>5. \E f \in [0..n -> S] : Solves(f, n, o, b, g)
  BY <1>1, <1>3, Recursion
<1>6. PICK f \in [0..n -> S] : \A i \in 0..n : f[i] = IF i <= 0 THEN b ELSE g[<<f[i - 1], i>>]
  BY <1>5 DEF o, Solves
<1>7. \A i \in 0..n : (IF i <= 0 THEN b ELSE g[<<f[i - 1], i>>]) = IF i = 0 THEN b ELSE AddRun(f[i - 1], i)
  <2> SUFFICES ASSUME NEW i \in 0..n, i # 0 PROVE g[<<f[i - 1], i>>] = AddRun(f[i - 1], i)
    OBVIOUS
  <2>1. i \in 1..n /\ f[i - 1] \in S
    BY <1>1
  <2> QED
    BY <1>4, <2>1
<1>8. f = [i \in 0..n |-> IF i = 0 THEN b ELSE AddRun(f[i - 1], i)]
  BY <1>6, <1>7
<1>9. Runs = [i \in 0..n |-> IF i = 0 THEN b ELSE AddRun(Runs[i - 1], i)]
  BY <1>8 DEF Runs, AddRun, b, n
<1> QED
  BY <1>9 DEF b, n

(* The runs are the lines between the attachments, in their order.         *)
LEMMA RunsSpread ==
  ASSUME Written
  PROVE  \E from : Spread(Runs[Len(text)], Len(text), from)
<1> DEFINE P == {i \in Nat : i <= Len(text) => \E from : Spread(Runs[i], i, from)}
<1>0. Len(text) \in Nat
  BY DEF Written
<1>1. 0 \in P
  <2> DEFINE b == <<<<>>>>
             from == [q \in 1..1 |-> 0]
  <2>1. Runs[0] = b
    BY <1>0, RunsIs
  <2>2. b \in Seq(Seq(Nat)) /\ Len(b) = 1 /\ b[1] = <<>> /\ from \in [1..1 -> Nat] /\ from[1] = 0
    OBVIOUS
  <2> HIDE DEF b, from
  <2>3. Run(<<>>, 0, 0) /\ Len(<<>>) = 0
    BY DEF Run
  <2>4. /\ 1..0 = {} /\ 2..1 = {} /\ \A q \in 1..1 : q = 1
    OBVIOUS
  <2>5. Spread(b, 0, from)
    BY <2>2, <2>3, <2>4 DEF Spread
  <2> QED
    BY <2>1, <2>5
<1>2. ASSUME NEW m \in P PROVE m + 1 \in P
  <2> SUFFICES ASSUME m + 1 <= Len(text) PROVE \E from : Spread(Runs[m + 1], m + 1, from)
    BY <1>2
  <2> DEFINE i == m + 1
  <2>1. /\ i \in DOMAIN text /\ i \in 0..Len(text) /\ i # 0 /\ i - 1 = m
        /\ \E from : Spread(Runs[m], m, from)
    BY <1>0, <1>2 DEF Written
  <2> HIDE DEF i
  <2>2. PICK from : Spread(Runs[i - 1], i - 1, from)
    BY <2>1
  <2>3. \E later : Spread(AddRun(Runs[i - 1], i), i, later)
    BY <2>1, <2>2, SpreadStep
  <2>4. Runs[i] = AddRun(Runs[i - 1], i)
    BY <2>1, RunsIs
  <2>5. \E later : Spread(Runs[i], i, later)
    BY <2>3, <2>4
  <2> QED
    BY <2>5 DEF i
<1> HIDE DEF P
<1>3. P = Nat
  <2>1. P \subseteq Nat
    BY DEF P
  <2> QED
    BY <1>1, <1>2, <2>1, Induction
<1> QED
  BY <1>0, <1>3 DEF P

-----------------------------------------------------------------------------
(* The first fence of a run, at f: without it the others are counted from  *)
(* the next line on.                                                       *)
LEMMA RemovedCounts ==
  ASSUME NEW c \in Seq(Nat), NEW f \in DOMAIN c, FenceLine(c[f]),
         \A k \in 1..f - 1 : ~FenceLine(c[k]),
         NEW d \in Seq(Nat), Len(d) = Len(c) - 1,
         \A q \in 1..f - 1 : d[q] = c[q], \A q \in f..Len(c) - 1 : d[q] = c[q + 1],
         NEW k \in 0..Len(d)
  PROVE  /\ Within(d, k) \in Nat
         /\ k < f => Within(d, k) = 0
         /\ k >= f - 1 => Within(c, k + 1) = Within(d, k) + 1
<1> DEFINE P == {m \in Nat : m <= Len(d) => /\ m < f => Within(d, m) = 0 /\ Within(c, m) = 0
                                            /\ m >= f - 1 => Within(c, m + 1) = Within(d, m) + 1}
<1>0. /\ f \in Nat \ {0} /\ f <= Len(c) /\ Len(c) \in Nat /\ Len(d) \in Nat
      /\ DOMAIN c = 1..Len(c) /\ DOMAIN d = 1..Len(d)
  OBVIOUS
<1>s. ASSUME NEW m \in Nat
      PROVE  /\ Within(c, 0) = 0 /\ Within(d, 0) = 0 /\ Within(c, m) \in Nat /\ Within(d, m) \in Nat
             /\ Within(c, m + 1) = Within(c, m) + (IF m + 1 \in FenceIn(c) THEN 1 ELSE 0)
             /\ Within(d, m + 1) = Within(d, m) + (IF m + 1 \in FenceIn(d) THEN 1 ELSE 0)
  BY TallySteps DEF Within
<1>1. 0 \in P
  <2>1. 0 \in Nat
    OBVIOUS
  <2>2. /\ Within(c, 0) = 0 /\ Within(d, 0) = 0
        /\ Within(c, 1) = Within(c, 0) + (IF 1 \in FenceIn(c) THEN 1 ELSE 0)
    <3> DEFINE o == 0
    <3>1. o \in Nat /\ o + 1 = 1
      OBVIOUS
    <3> HIDE DEF o
    <3>2. /\ Within(c, 0) = 0 /\ Within(d, 0) = 0
          /\ Within(c, o + 1) = Within(c, o) + (IF o + 1 \in FenceIn(c) THEN 1 ELSE 0)
      BY <3>1, <1>s
    <3> QED
      BY <3>1, <3>2 DEF o
  <2>3. 0 >= f - 1 => f = 1
    BY <1>0
  <2>4. f = 1 => 1 \in FenceIn(c)
    BY <1>0 DEF FenceIn
  <2> QED
    BY <1>0, <2>2, <2>3, <2>4
<1>2. ASSUME NEW m \in P PROVE m + 1 \in P
  <2> DEFINE i == m + 1
  <2> SUFFICES ASSUME i <= Len(d)
               PROVE  /\ i < f => Within(d, i) = 0 /\ Within(c, i) = 0
                      /\ i >= f - 1 => Within(c, i + 1) = Within(d, i) + 1
    BY <1>2
  <2>1. /\ m \in Nat /\ i \in Nat /\ i \in 1..Len(d) /\ i = m + 1
        /\ m < f => Within(d, m) = 0 /\ Within(c, m) = 0
        /\ m >= f - 1 => Within(c, m + 1) = Within(d, m) + 1
    BY <1>0, <1>2
  <2>2. /\ Within(c, m) \in Nat /\ Within(d, m) \in Nat /\ Within(c, i) \in Nat
        /\ Within(c, i) = Within(c, m) + (IF i \in FenceIn(c) THEN 1 ELSE 0)
        /\ Within(d, i) = Within(d, m) + (IF i \in FenceIn(d) THEN 1 ELSE 0)
        /\ Within(c, i + 1) = Within(c, i) + (IF i + 1 \in FenceIn(c) THEN 1 ELSE 0)
    <3>1. /\ Within(c, m) \in Nat /\ Within(d, m) \in Nat
          /\ Within(c, i) = Within(c, m) + (IF i \in FenceIn(c) THEN 1 ELSE 0)
          /\ Within(d, i) = Within(d, m) + (IF i \in FenceIn(d) THEN 1 ELSE 0)
      BY <2>1, <1>s
    <3> HIDE DEF i
    <3>2. /\ Within(c, i) \in Nat
          /\ Within(c, i + 1) = Within(c, i) + (IF i + 1 \in FenceIn(c) THEN 1 ELSE 0)
      BY <2>1, <1>s
    <3> QED
      BY <3>1, <3>2
  <2> HIDE DEF i
  <2>3. CASE i < f
    <3>0. m \in Nat /\ i \in Nat /\ i \in 1..Len(d) /\ i = m + 1 /\ Len(d) = Len(c) - 1
      BY <2>1
    <3>a. f \in Nat /\ Len(c) \in Nat /\ Len(d) \in Nat
      BY <1>0
    <3>b. i \in 1..f - 1 /\ i \in 1..Len(c) /\ m < f
      <4>1. i \in Nat /\ f \in Nat /\ i >= 1 /\ i < f /\ m \in Nat /\ i = m + 1
        BY <3>a, <3>0, <2>3
      <4>2. i \in 1..f - 1 /\ m < f
        BY <4>1
      <4>3. i \in 1..Len(c)
        BY <3>a, <3>0
      <4> QED
        BY <4>2, <4>3
    <3>1. i \in 1..f - 1 /\ i \in DOMAIN d /\ i \in DOMAIN c /\ m < f
      BY <3>b, <1>0, <3>0
    <3>2. i \notin FenceIn(c) /\ i \notin FenceIn(d)
      BY <3>1 DEF FenceIn
    <3>3. Within(d, i) = 0 /\ Within(c, i) = 0
      BY <2>1, <2>2, <3>1, <3>2
    <3>4. i >= f - 1 => i + 1 \in FenceIn(c)
      <4> SUFFICES ASSUME i >= f - 1 PROVE i + 1 \in FenceIn(c)
        OBVIOUS
      <4>1. i + 1 = f
        BY <1>0, <2>1, <2>3
      <4> QED
        BY <4>1 DEF FenceIn
    <3> QED
      BY <2>2, <3>3, <3>4
  <2>4. CASE ~(i < f)
    <3>0. m \in Nat /\ i \in Nat /\ i \in 1..Len(d) /\ i = m + 1 /\ Len(d) = Len(c) - 1
      BY <2>1
    <3>a. f \in Nat /\ Len(c) \in Nat /\ Len(d) \in Nat
      BY <1>0
    <3>b. i \in f..Len(c) - 1 /\ i + 1 \in 1..Len(c) /\ m >= f - 1
      BY <3>a, <3>0, <2>4
    <3>1. i \in f..Len(c) - 1 /\ i \in DOMAIN d /\ i + 1 \in DOMAIN c /\ m >= f - 1
      BY <3>b, <1>0, <3>0
    <3>2. i \in FenceIn(d) <=> i + 1 \in FenceIn(c)
      BY <3>1 DEF FenceIn
    <3>3. Within(c, i) = Within(d, m) + 1
      BY <2>1, <3>1
    <3> QED
      BY <2>2, <2>4, <3>2, <3>3
  <2> QED
    BY <2>3, <2>4
<1> HIDE DEF P
<1>3. P = Nat
  <2>1. P \subseteq Nat
    BY DEF P
  <2> QED
    BY <1>1, <1>2, <2>1, Induction
<1>4. k \in Nat /\ k <= Len(d)
  BY <1>0
<1>5. Within(d, k) \in Nat
  BY <1>4, <1>s
<1> QED
  BY <1>3, <1>4, <1>5 DEF P

LEMMA MinIs ==
  ASSUME NEW T, T \subseteq Nat, T # {}
  PROVE  Min(T) \in T /\ \A y \in T : Min(T) <= y
<1>1. \E x \in T : \A y \in T : x <= y
  BY LeastNat
<1> QED
  BY <1>1 DEF Min

(* Read on its own, a run without the fence that closes the one above      *)
(* shows its lines as the whole does.                                      *)
LEMMA RemovedFits ==
  ASSUME Written, NEW c, NEW a, NEW z, Run(c, a, z), z <= Len(text), Fences(a) % 2 = 1,
         NEW f \in DOMAIN c, FenceLine(c[f]), \A k \in 1..f - 1 : text[c[k]] = "blank"
  PROVE  LET d == RemoveAt(c, f)
         IN /\ d \in Seq(Nat) /\ Fits(FALSE, d)
            /\ (One(FALSE) + Within(d, Len(d))) % 2 = 1 <=> Fences(z) % 2 = 1
            /\ \A k \in DOMAIN c \ {f} : \E j \in DOMAIN d : d[j] = c[k]
<1> DEFINE d == RemoveAt(c, f)
           n == Len(c)
<1>1. /\ c \in Seq(Nat) /\ n \in Nat /\ f \in 1..n /\ a \in Nat /\ z = a + n /\ DOMAIN c = 1..n
      /\ \A k \in 1..n : c[k] = a + k
  BY DEF Run
<1>2. /\ d \in Seq(Nat) /\ Len(d) = n - 1
      /\ \A q \in 1..f - 1 : d[q] = c[q]
      /\ \A q \in f..n - 1 : d[q] = c[q + 1]
  BY <1>1, RemoveAtIs
<1> HIDE DEF d
<1>3. /\ \A k \in 1..f - 1 : ~FenceLine(c[k])
      /\ f \in Nat /\ 1 <= f /\ f <= n /\ DOMAIN text = 1..Len(text) /\ Len(text) \in Nat
      /\ DOMAIN d = 1..n - 1 /\ n - 1 \in Nat
  <2>1. \A k \in 1..f - 1 : ~FenceLine(c[k])
    BY DEF FenceLine
  <2>2. f \in Nat /\ 1 <= f /\ f <= n /\ n - 1 \in Nat
    BY <1>1
  <2>3. DOMAIN text = 1..Len(text) /\ Len(text) \in Nat
    BY DEF Written
  <2>4. DOMAIN d = 1..n - 1
    BY <1>2
  <2> QED
    BY <2>1, <2>2, <2>3, <2>4
<1>4. ASSUME NEW k \in 0..n - 1
      PROVE  /\ Within(d, k) \in Nat
             /\ k >= f - 1 => (Fences(a + (k + 1)) % 2 = 1 <=> Within(d, k) % 2 = 1)
  <2>1. Within(d, k) \in Nat /\ (k >= f - 1 => Within(c, k + 1) = Within(d, k) + 1)
    <3>1. /\ c \in Seq(Nat) /\ f \in DOMAIN c /\ FenceLine(c[f]) /\ \A j \in 1..f - 1 : ~FenceLine(c[j])
          /\ d \in Seq(Nat) /\ Len(d) = Len(c) - 1 /\ \A q \in 1..f - 1 : d[q] = c[q]
          /\ \A q \in f..Len(c) - 1 : d[q] = c[q + 1]
      BY <1>1, <1>2, <1>3
    <3>2. k \in 0..Len(d)
      BY <1>2
    <3> HIDE DEF n
    <3> QED
      BY <3>1, <3>2, RemovedCounts
  <2> SUFFICES ASSUME k >= f - 1 PROVE Fences(a + (k + 1)) % 2 = 1 <=> Within(d, k) % 2 = 1
    BY <2>1
  <2> DEFINE w == Within(d, k)
             i == k + 1
  <2>2. i \in 0..Len(c) /\ i = k + 1
    BY <1>1
  <2> HIDE DEF i
  <2>3. Fences(a + i) = Fences(a) + Within(c, i)
    BY <2>2, RunCounts
  <2>4. w \in Nat /\ Within(c, i) = w + 1
    BY <2>1, <2>2
  <2> HIDE DEF w
  <2>5. Fences(a) \in Nat
    BY <1>1, TallySteps DEF Fences
  <2>6. w + 1 \in Nat /\ ((w + 1) % 2 = 1 <=> ~(w % 2 = 1))
    BY <2>4
  <2>7. (Fences(a) + (w + 1)) % 2 = 1 <=> ~(Fences(a) % 2 = 1 <=> (w + 1) % 2 = 1)
    BY <2>5, <2>6, Odd
  <2> QED
    BY <2>3, <2>4, <2>6, <2>7 DEF w, i
<1>5. One(FALSE) = 0 /\ \A w \in Nat : 0 + w = w
  BY DEF One
<1>6. ASSUME NEW q \in DOMAIN d
      PROVE  /\ d[q] \in DOMAIN text
             /\ text[d[q]] # "blank" =>
                  ((One(FALSE) + Within(d, q - 1)) % 2 = 1 <=> Fences(d[q] - 1) % 2 = 1)
  <2>1. q \in 1..n - 1 /\ q \in 1..n /\ q \in Nat
    BY <1>1, <1>3
  <2>2. CASE q < f
    <3>1. q \in 1..f - 1
      BY <1>3, <2>1, <2>2
    <3>2. d[q] = c[q] /\ text[c[q]] = "blank" /\ c[q] = a + q
      BY <1>1, <1>2, <2>1, <3>1
    <3>3. a + q \in 1..Len(text)
      BY <1>1, <1>3, <2>1
    <3> QED
      BY <1>3, <3>2, <3>3
  <2>3. CASE ~(q < f)
    <3>0. f \in Nat /\ 1 <= f /\ n \in Nat
      BY <1>1, <1>3
    <3> HIDE DEF n
    <3>1. q \in f..n - 1 /\ q - 1 \in 0..n - 1 /\ q - 1 >= f - 1 /\ (q - 1) + 1 = q /\ q + 1 \in 1..n
      BY <3>0, <2>1, <2>3
    <3>2. d[q] = c[q + 1] /\ c[q + 1] = a + (q + 1)
      BY <1>1, <1>2, <3>1
    <3>3. a + (q + 1) \in 1..Len(text) /\ (a + (q + 1)) - 1 = a + q
      <4>1. z = a + n /\ z <= Len(text) /\ a \in Nat /\ Len(text) \in Nat
        BY <1>1, <1>3
      <4>2. q \in Nat /\ q + 1 <= n
        BY <3>0, <3>1, <2>1
      <4> QED
        BY <4>1, <4>2, <3>0
    <3> DEFINE k == q - 1
    <3>4. k \in 0..n - 1 /\ k >= f - 1 /\ k + 1 = q
      BY <3>1
    <3> HIDE DEF k
    <3>5. Within(d, k) \in Nat /\ (Fences(a + (k + 1)) % 2 = 1 <=> Within(d, k) % 2 = 1)
      BY <1>4, <3>4
    <3>6. Fences(d[q] - 1) = Fences(a + (k + 1))
      BY <3>2, <3>3, <3>4
    <3> QED
      BY <1>3, <1>5, <3>2, <3>3, <3>5, <3>6 DEF k
  <2> QED
    BY <2>2, <2>3
<1>7. (One(FALSE) + Within(d, Len(d))) % 2 = 1 <=> Fences(z) % 2 = 1
  <2> DEFINE k == n - 1
  <2>1. k \in 0..n - 1 /\ k >= f - 1 /\ k + 1 = n /\ k = Len(d)
    BY <1>1, <1>2, <1>3
  <2> HIDE DEF k
  <2>2. Within(d, k) \in Nat /\ (Fences(a + (k + 1)) % 2 = 1 <=> Within(d, k) % 2 = 1)
    BY <1>4, <2>1
  <2> QED
    BY <1>1, <1>5, <2>1, <2>2
<1>8. ASSUME NEW k \in DOMAIN c \ {f} PROVE \E j \in DOMAIN d : d[j] = c[k]
  <2>1. CASE k < f
    <3>1. n \in Nat /\ f \in Nat /\ f <= n /\ DOMAIN c = 1..n /\ DOMAIN d = 1..n - 1
      BY <1>1, <1>3
    <3>2. k \in Nat /\ 1 <= k
      BY <3>1
    <3>3. k \in 1..f - 1 /\ k \in 1..n - 1
      BY <2>1, <3>1, <3>2
    <3> QED
      BY <1>2, <3>1, <3>3
  <2>2. CASE ~(k < f)
    <3>1. n \in Nat /\ f \in Nat /\ f >= 1 /\ f <= n /\ DOMAIN c = 1..n /\ DOMAIN d = 1..n - 1
      BY <1>1, <1>3
    <3>2. k \in Nat /\ k <= n /\ f < k
      BY <2>2, <3>1
    <3>3. k - 1 \in f..n - 1 /\ k - 1 \in 1..n - 1 /\ (k - 1) + 1 = k
      BY <3>1, <3>2
    <3> QED
      BY <1>2, <3>1, <3>3
  <2> QED
    BY <2>1, <2>2
<1>9. Fits(FALSE, d)
  BY <1>6 DEF Fits
<1> QED
  BY <1>2, <1>7, <1>8, <1>9 DEF d

(* One run is repaired: the parts so far stay, and every line of the run   *)
(* but its blank lines and its fences is in a part.                        *)
Shown(parts, l) == \E p \in DOMAIN parts : \E j \in DOMAIN parts[p].lines : parts[p].lines[j] = l

LEMMA RepairRunReads ==
  ASSUME Written, NEW run, NEW a, NEW z, Run(run, a, z), z <= Len(text),
         NEW st \in Mends, st.carried <=> Fences(a) % 2 = 1, \A p \in DOMAIN st.parts : ReadsAlike(st.parts[p])
  PROVE  LET grown == RepairRun(st, run)
         IN /\ grown \in Mends /\ (grown.carried <=> Fences(z) % 2 = 1)
            /\ \A p \in DOMAIN grown.parts : ReadsAlike(grown.parts[p])
            /\ \A l \in Nat : Shown(st.parts, l) => Shown(grown.parts, l)
            /\ \A k \in DOMAIN run : \/ text[run[k]] = "blank" \/ FenceLine(run[k])
                                     \/ Shown(grown.parts, run[k])
<1> DEFINE grown == RepairRun(st, run)
           solid == {k \in DOMAIN run : text[run[k]] # "blank"}
           first == Min(solid)
<1>1. /\ st.parts \in Seq(Parts) /\ st.carried \in BOOLEAN /\ run \in Seq(Nat) /\ DOMAIN run = 1..Len(run)
      /\ Len(run) \in Nat /\ a + Len(run) = z /\ a \in Nat
  BY DEF Mends, Run
<1>2. ASSUME NEW s \in Mends, s.parts = st.parts, NEW c \in Seq(Nat), Fits(s.carried, c),
             (One(s.carried) + Within(c, Len(c))) % 2 = 1 <=> Fences(z) % 2 = 1,
             grown = Repair(s, c),
             \A k \in DOMAIN run : text[run[k]] = "blank" \/ FenceLine(run[k]) \/ \E j \in DOMAIN c : c[j] = run[k]
      PROVE  /\ grown \in Mends /\ (grown.carried <=> Fences(z) % 2 = 1)
             /\ \A p \in DOMAIN grown.parts : ReadsAlike(grown.parts[p])
             /\ \A l \in Nat : Shown(st.parts, l) => Shown(grown.parts, l)
             /\ \A k \in DOMAIN run : \/ text[run[k]] = "blank" \/ FenceLine(run[k])
                                      \/ Shown(grown.parts, run[k])
  <2> HIDE DEF grown
  <2>1. s.parts \in Seq(Parts) /\ s.carried \in BOOLEAN /\ grown \in Mends
    BY <1>1, <1>2, RepairType DEF Mends
  <2>2. PICK p \in Parts :
             /\ grown.parts = Append(st.parts, p) /\ p.lines = c /\ ReadsAlike(p)
             /\ grown.carried <=> (One(s.carried) + Within(c, Len(c))) % 2 = 1
    BY <1>2, <2>1, RepairReads
  <2> DEFINE n == Len(st.parts)
  <2>3. /\ n \in Nat /\ DOMAIN st.parts = 1..n /\ DOMAIN grown.parts = 1..n + 1
        /\ grown.parts[n + 1] = p /\ \A q \in 1..n : grown.parts[q] = st.parts[q]
    BY <1>1, <2>2
  <2> HIDE DEF n
  <2>4. \A q \in 1..n + 1 : q = n + 1 \/ q \in 1..n
    BY <2>3
  <2>5. n + 1 \in DOMAIN grown.parts /\ \A q \in 1..n : q \in DOMAIN grown.parts
    BY <2>3
  <2>6. \A q \in DOMAIN grown.parts : ReadsAlike(grown.parts[q])
    BY <2>2, <2>3, <2>4
  <2>7. \A l \in Nat : Shown(st.parts, l) => Shown(grown.parts, l)
    BY <2>3, <2>5 DEF Shown
  <2>8. \A k \in DOMAIN run : (\E j \in DOMAIN c : c[j] = run[k]) => Shown(grown.parts, run[k])
    BY <2>2, <2>3, <2>5 DEF Shown
  <2> QED
    BY <1>2, <2>1, <2>2, <2>6, <2>7, <2>8
<1>3. CASE solid = {}
  <2>1. grown = st
    BY <1>3 DEF RepairRun
  <2>2. FenceIn(run) = {}
    BY <1>3 DEF FenceIn, FenceLine
  <2>3. Within(run, Len(run)) = 0
    <3>1. \A k \in Nat : {j \in 1..k : j \in {}} = {}
      OBVIOUS
    <3> QED
      BY <1>1, <2>2, <3>1, FS_EmptySet DEF Within, Tally
  <2>4. Fences(z) = Fences(a)
    <3>1. Len(run) \in 0..Len(run) /\ Fences(a) \in Nat
      BY <1>1, TallySteps DEF Fences
    <3>2. Fences(a + Len(run)) = Fences(a) + Within(run, Len(run))
      BY <3>1, RunCounts
    <3> QED
      BY <1>1, <2>3, <3>1, <3>2
  <2> HIDE DEF grown
  <2>5. \A k \in DOMAIN run : text[run[k]] = "blank"
    BY <1>3
  <2> HIDE DEF solid, first
  <2> QED
    BY <2>1, <2>4, <2>5 DEF grown
<1>4. CASE solid # {}
  <2>1. /\ first \in DOMAIN run /\ text[run[first]] # "blank"
        /\ \A k \in 1..first - 1 : text[run[k]] = "blank"
    <3>1. solid \subseteq Nat
      BY <1>1
    <3>2. first \in solid /\ \A k \in solid : first <= k
      BY <1>4, <3>1, MinIs
    <3> HIDE DEF first
    <3>3. ASSUME NEW k \in 1..first - 1 PROVE text[run[k]] = "blank"
      <4>1. k \in DOMAIN run /\ ~(first <= k)
        BY <1>1, <3>1, <3>2
      <4> QED
        BY <3>2, <4>1
    <3> QED
      BY <3>2, <3>3
  <2>2. CASE st.carried /\ FenceLine(run[first])
    <3> DEFINE s == [st EXCEPT !.carried = FALSE]
               c == RemoveAt(run, first)
    <3>1. grown = Repair(s, c)
      BY <1>4, <2>2 DEF RepairRun
    <3>2. s \in Mends /\ s.parts = st.parts /\ s.carried = FALSE
      BY DEF Mends
    <3> HIDE DEF grown, s, first
    <3>3. /\ c \in Seq(Nat) /\ Fits(FALSE, c)
          /\ (One(FALSE) + Within(c, Len(c))) % 2 = 1 <=> Fences(z) % 2 = 1
          /\ \A k \in DOMAIN run \ {first} : \E j \in DOMAIN c : c[j] = run[k]
      BY <2>1, <2>2, RemovedFits
    <3> HIDE DEF c
    <3>4. \A k \in DOMAIN run : text[run[k]] = "blank" \/ FenceLine(run[k]) \/ \E j \in DOMAIN c : c[j] = run[k]
      BY <2>2, <3>3
    <3>5. Fits(s.carried, c) /\ ((One(s.carried) + Within(c, Len(c))) % 2 = 1 <=> Fences(z) % 2 = 1)
      BY <3>2, <3>3
    <3>6. /\ grown \in Mends /\ (grown.carried <=> Fences(z) % 2 = 1)
          /\ \A p \in DOMAIN grown.parts : ReadsAlike(grown.parts[p])
          /\ \A l \in Nat : Shown(st.parts, l) => Shown(grown.parts, l)
          /\ \A k \in DOMAIN run : \/ text[run[k]] = "blank" \/ FenceLine(run[k])
                                   \/ Shown(grown.parts, run[k])
      BY <1>2, <3>1, <3>2, <3>3, <3>4, <3>5
    <3> QED
      BY <3>6 DEF grown
  <2>3. CASE ~(st.carried /\ FenceLine(run[first]))
    <3>1. grown = Repair(st, run)
      BY <1>4, <2>3 DEF RepairRun
    <3> HIDE DEF grown
    <3>2. Fits(st.carried, run) /\ ((One(st.carried) + Within(run, Len(run))) % 2 = 1 <=> Fences(z) % 2 = 1)
      BY <1>1, RunFits
    <3>3. \A k \in DOMAIN run : \E j \in DOMAIN run : run[j] = run[k]
      OBVIOUS
    <3>4. /\ grown \in Mends /\ (grown.carried <=> Fences(z) % 2 = 1)
          /\ \A p \in DOMAIN grown.parts : ReadsAlike(grown.parts[p])
          /\ \A l \in Nat : Shown(st.parts, l) => Shown(grown.parts, l)
          /\ \A k \in DOMAIN run : \/ text[run[k]] = "blank" \/ FenceLine(run[k])
                                   \/ Shown(grown.parts, run[k])
      BY <1>1, <1>2, <3>1, <3>2, <3>3
    <3> QED
      BY <3>4 DEF grown
  <2> QED
    BY <2>2, <2>3
<1> QED
  BY <1>3, <1>4

LEMMA RepairRunType ==
  ASSUME NEW st \in Mends, NEW c \in Seq(Nat)
  PROVE  RepairRun(st, c) \in Mends
<1> DEFINE solid == {k \in DOMAIN c : text[c[k]] # "blank"}
           first == Min(solid)
           s == [st EXCEPT !.carried = FALSE]
<1>1. s \in Mends
  BY DEF Mends
<1> HIDE DEF s
<1>2. CASE solid = {}
  BY <1>2 DEF RepairRun
<1>3. CASE solid # {}
  <2>1. solid \subseteq Nat
    OBVIOUS
  <2>2. first \in solid
    BY <1>3, <2>1, MinIs
  <2>3. first \in 1..Len(c)
    BY <2>2
  <2> HIDE DEF first
  <2>4. RemoveAt(c, first) \in Seq(Nat)
    BY <2>3, RemoveAtIs
  <2>5. Repair(s, RemoveAt(c, first)) \in Mends /\ Repair(st, c) \in Mends
    BY <1>1, <2>4, RepairType
  <2>6. RepairRun(st, c) = IF st.carried /\ FenceLine(c[first])
                           THEN Repair(s, RemoveAt(c, first)) ELSE Repair(st, c)
    BY <1>3 DEF RepairRun, first, s
  <2> QED
    BY <2>5, <2>6
<1> QED
  BY <1>2, <1>3

LEMMA RepairedIs ==
  ASSUME NEW chunks \in Seq(Seq(Nat))
  PROVE  LET repaired[m \in 0..Len(chunks)] ==
               IF m = 0 THEN Unrepaired ELSE RepairRun(repaired[m - 1], chunks[m])
         IN \A m \in 0..Len(chunks) : repaired[m] =
               IF m = 0 THEN Unrepaired ELSE RepairRun(repaired[m - 1], chunks[m])
<1> DEFINE n == Len(chunks)
           b == Unrepaired
           S == Mends
           g == [x \in S \X (1..n) |-> RepairRun(x[1], chunks[x[2]])]
           o == 0
           repaired[m \in 0..Len(chunks)] ==
               IF m = 0 THEN Unrepaired ELSE RepairRun(repaired[m - 1], chunks[m])
<1>1. n \in Nat /\ b \in S /\ o \in Nat
  BY DEF Unrepaired, Mends
<1>2. \A x \in S \X (1..n) : x[1] \in S /\ chunks[x[2]] \in Seq(Nat)
  OBVIOUS
<1>3. g \in [S \X (1..n) -> S]
  BY <1>2, RepairRunType
<1>4. \A st \in S, m \in 1..n : g[<<st, m>>] = RepairRun(st, chunks[m])
  OBVIOUS
<1> HIDE DEF g, b, S, n, o
<1>5. \E f \in [0..n -> S] : Solves(f, n, o, b, g)
  BY <1>1, <1>3, Recursion
<1>6. PICK f \in [0..n -> S] : \A i \in 0..n : f[i] = IF i <= 0 THEN b ELSE g[<<f[i - 1], i>>]
  BY <1>5 DEF o, Solves
<1>7. \A i \in 0..n : (IF i <= 0 THEN b ELSE g[<<f[i - 1], i>>]) =
                      IF i = 0 THEN b ELSE RepairRun(f[i - 1], chunks[i])
  <2> SUFFICES ASSUME NEW i \in 0..n, i # 0 PROVE g[<<f[i - 1], i>>] = RepairRun(f[i - 1], chunks[i])
    OBVIOUS
  <2>1. i \in 1..n /\ f[i - 1] \in S
    BY <1>1
  <2> QED
    BY <1>4, <2>1
<1>8. f = [i \in 0..n |-> IF i = 0 THEN b ELSE RepairRun(f[i - 1], chunks[i])]
  BY <1>6, <1>7
<1>9. repaired = [m \in 0..Len(chunks) |->
                    IF m = 0 THEN Unrepaired ELSE RepairRun(repaired[m - 1], chunks[m])]
  BY <1>8 DEF n, b
<1> QED
  BY <1>9

(* The first m runs are repaired.                                          *)
Till(runs, from, m) == IF m = 0 THEN 0 ELSE from[m] + Len(runs[m])
Patched(st, runs, from, m) ==
  /\ st \in Mends /\ (st.carried <=> Fences(Till(runs, from, m)) % 2 = 1)
  /\ \A p \in DOMAIN st.parts : ReadsAlike(st.parts[p])
  /\ \A q \in 1..m : \A k \in DOMAIN runs[q] : \/ text[runs[q][k]] = "blank" \/ FenceLine(runs[q][k])
                                               \/ Shown(st.parts, runs[q][k])

LEMMA PatchedStep ==
  ASSUME Written, NEW runs, NEW from, Spread(runs, Len(text), from), NEW m \in 1..Len(runs), NEW st,
         Patched(st, runs, from, m - 1)
  PROVE  Patched(RepairRun(st, runs[m]), runs, from, m)
<1> DEFINE run == runs[m]
           a == from[m]
           z == a + Len(run)
           grown == RepairRun(st, run)
<1>1. /\ run \in Seq(Nat) /\ a \in Nat /\ m \in Nat /\ m - 1 \in Nat /\ Len(runs) \in Nat
      /\ runs \in Seq(Seq(Nat)) /\ Run(run, a, z) /\ z <= Len(text)
      /\ \A q \in 1..m - 1 : q \in 1..Len(runs)
  <2>1. runs \in Seq(Seq(Nat)) /\ from \in [1..Len(runs) -> Nat]
    BY DEF Spread
  <2>2. run \in Seq(Nat) /\ a \in Nat /\ m \in Nat /\ m - 1 \in Nat /\ Len(runs) \in Nat
    <3>1. Len(runs) \in Nat
      BY <2>1
    <3>2. m \in Nat /\ m - 1 \in Nat
      OBVIOUS
    <3>3. run \in Seq(Nat)
      BY <2>1
    <3>4. a \in Nat
      <4> DEFINE n == Len(runs)
      <4>1. from \in [1..n -> Nat] /\ m \in 1..n
        BY <2>1
      <4> HIDE DEF n
      <4> QED
        BY <4>1
    <3> QED
      BY <3>1, <3>2, <3>3, <3>4
  <2>3. Run(run, a, z) /\ z <= Len(text)
    BY DEF Spread
  <2> QED
    BY <2>1, <2>2, <2>3
<1>2. st.carried <=> Fences(a) % 2 = 1
  <2>1. CASE m = 1
    <3>1. a = 0 /\ Till(runs, from, m - 1) = 0
      BY <2>1 DEF Spread, Till
    <3> QED
      BY <3>1 DEF Patched
  <2>2. CASE m # 1
    <3>1. m \in 2..Len(runs) /\ m - 1 # 0 /\ m - 1 \in 1..Len(runs)
      BY <1>1, <2>2
    <3>2. a = from[m - 1] + Len(runs[m - 1]) + 1 /\ a \in DOMAIN text /\ text[a] = "token"
      BY <3>1 DEF Spread
    <3>3. Till(runs, from, m - 1) = a - 1
      <4>1. from[m - 1] \in Nat /\ Len(runs[m - 1]) \in Nat
        BY <1>1, <3>1 DEF Spread
      <4>2. Till(runs, from, m - 1) = from[m - 1] + Len(runs[m - 1])
        BY <3>1 DEF Till
      <4> HIDE DEF a
      <4> QED
        BY <1>1, <3>2, <4>1, <4>2
    <3>4. Fences(a) = Fences(a - 1)
      <4>1. ~FenceLine(a)
        BY <3>2 DEF FenceLine
      <4> HIDE DEF a
      <4> QED
        BY <3>2, <4>1, FenceSteps
    <3> QED
      BY <3>3, <3>4 DEF Patched
  <2> QED
    BY <2>1, <2>2
<1>3. Till(runs, from, m) = z
  BY DEF Till
<1>4. /\ st \in Mends /\ \A p \in DOMAIN st.parts : ReadsAlike(st.parts[p])
      /\ \A q \in 1..m - 1 : \A k \in DOMAIN runs[q] : \/ text[runs[q][k]] = "blank" \/ FenceLine(runs[q][k])
                                                       \/ Shown(st.parts, runs[q][k])
  BY DEF Patched
<1> HIDE DEF run, a, z
<1>5. /\ grown \in Mends /\ (grown.carried <=> Fences(z) % 2 = 1)
      /\ \A p \in DOMAIN grown.parts : ReadsAlike(grown.parts[p])
      /\ \A l \in Nat : Shown(st.parts, l) => Shown(grown.parts, l)
      /\ \A k \in DOMAIN run : \/ text[run[k]] = "blank" \/ FenceLine(run[k])
                               \/ Shown(grown.parts, run[k])
  BY <1>1, <1>2, <1>4, RepairRunReads
<1> HIDE DEF grown
<1>6. ASSUME NEW q \in 1..m, NEW k \in DOMAIN runs[q]
      PROVE  text[runs[q][k]] = "blank" \/ FenceLine(runs[q][k]) \/ Shown(grown.parts, runs[q][k])
  <2>1. CASE q = m
    BY <1>5, <2>1 DEF run
  <2>2. CASE q # m
    <3>1. q \in 1..m - 1
      BY <1>1, <2>2
    <3>2. runs[q] \in Seq(Nat)
      BY <1>1, <3>1
    <3>3. runs[q][k] \in Nat
      BY <3>2
    <3> QED
      BY <1>4, <1>5, <3>1, <3>3
  <2> QED
    BY <2>1, <2>2
<1>7. Patched(grown, runs, from, m)
  BY <1>3, <1>5, <1>6 DEF Patched
<1> QED
  BY <1>7 DEF grown, run

(* Cut at its attachments, code stays code and no line is lost.            *)
LEMMA RunsRead ==
  ASSUME Written
  PROVE  /\ \A p \in Range(RepairedRuns) : ReadsAlike(p)
         /\ {i \in DOMAIN text : ~FenceLine(i) /\ text[i] \notin {"token", "blank"}}
               \subseteq UNION {Range(p.lines) : p \in Range(RepairedRuns)}
<1> DEFINE runs == Runs[Len(text)]
           n == Len(runs)
           repaired[m \in 0..Len(runs)] ==
               IF m = 0 THEN Unrepaired ELSE RepairRun(repaired[m - 1], runs[m])
<1>1. PICK from : Spread(runs, Len(text), from)
  BY RunsSpread
<1> HIDE DEF runs
<1>2. runs \in Seq(Seq(Nat)) /\ n \in Nat /\ DOMAIN text = 1..Len(text) /\ DOMAIN runs = 1..n
  <2>1. runs \in Seq(Seq(Nat))
    BY <1>1 DEF Spread
  <2> QED
    BY <2>1 DEF Written
<1>3. RepairedRuns = repaired[n].parts
  BY DEF RepairedRuns, runs
<1>4. \A m \in 0..n : repaired[m] = IF m = 0 THEN Unrepaired ELSE RepairRun(repaired[m - 1], runs[m])
  BY <1>2, RepairedIs
<1> HIDE DEF repaired
<1> DEFINE P == {m \in Nat : m <= n => Patched(repaired[m], runs, from, m)}
<1>5. 0 \in P
  <2>1. Unrepaired.parts = <<>> /\ Unrepaired.carried = FALSE /\ Unrepaired \in Mends
    BY DEF Unrepaired, Mends
  <2>2. Fences(0) = 0 /\ ~(0 % 2 = 1) /\ Till(runs, from, 0) = 0 /\ DOMAIN <<>> = {} /\ 1..0 = {}
    BY TallySteps DEF Fences, Till
  <2>3. Patched(Unrepaired, runs, from, 0)
    BY <2>1, <2>2 DEF Patched
  <2> QED
    BY <1>2, <1>4, <2>3
<1>6. ASSUME NEW m \in P PROVE m + 1 \in P
  <2> SUFFICES ASSUME m + 1 <= n PROVE Patched(repaired[m + 1], runs, from, m + 1)
    BY <1>6
  <2> DEFINE i == m + 1
  <2>1. i \in 1..n /\ i \in 0..n /\ i # 0 /\ i - 1 = m /\ Patched(repaired[m], runs, from, m)
    BY <1>2, <1>6
  <2> HIDE DEF i
  <2>2. repaired[i] = RepairRun(repaired[i - 1], runs[i])
    BY <1>4, <2>1
  <2>3. Patched(RepairRun(repaired[i - 1], runs[i]), runs, from, i)
    BY <1>1, <2>1, PatchedStep
  <2>4. Patched(repaired[i], runs, from, i)
    BY <2>2, <2>3
  <2> QED
    BY <2>4 DEF i
<1> HIDE DEF P
<1>7. P = Nat
  <2>1. P \subseteq Nat
    BY DEF P
  <2> QED
    BY <1>5, <1>6, <2>1, Induction
<1> DEFINE parts == RepairedRuns
<1>8. /\ \A p \in DOMAIN parts : ReadsAlike(parts[p])
      /\ \A q \in 1..n : \A k \in DOMAIN runs[q] : \/ text[runs[q][k]] = "blank" \/ FenceLine(runs[q][k])
                                                   \/ Shown(parts, runs[q][k])
  <2>1. Patched(repaired[n], runs, from, n)
    BY <1>2, <1>7 DEF P
  <2> QED
    BY <1>3, <2>1 DEF Patched
<1>9. ASSUME NEW l \in DOMAIN text, ~FenceLine(l), text[l] \notin {"token", "blank"}
      PROVE  l \in UNION {Range(p.lines) : p \in Range(parts)}
  <2>1. PICK q \in 1..n : \E k \in 1..Len(runs[q]) : runs[q][k] = l
    BY <1>1, <1>2, <1>9 DEF Spread
  <2>2. PICK k \in 1..Len(runs[q]) : runs[q][k] = l
    BY <2>1
  <2>3. k \in DOMAIN runs[q]
    BY <1>2, <2>1, <2>2
  <2>4. Shown(parts, l)
    BY <1>8, <1>9, <2>2, <2>3
  <2> HIDE DEF parts
  <2>5. PICK p \in DOMAIN parts : \E j \in DOMAIN parts[p].lines : parts[p].lines[j] = l
    BY <2>4 DEF Shown
  <2>6. l \in Range(parts[p].lines) /\ parts[p] \in Range(parts)
    BY <2>5 DEF Range
  <2> QED
    BY <2>6
<1>10. \A p \in Range(parts) : ReadsAlike(p)
  <2> HIDE DEF parts
  <2> QED
    BY <1>8 DEF Range
<1> QED
  BY <1>9, <1>10

LEMMA CodeRead ==
  ASSUME Written
  PROVE  CodeStaysCode
<1>1. /\ \A p \in Range(SplitMarkdown) : ReadsAlike(p)
      /\ UNION {Range(p.lines) : p \in Range(SplitMarkdown)} = DOMAIN text
  BY MarkdownReads
<1>2. /\ \A p \in Range(RepairedRuns) : ReadsAlike(p)
      /\ {i \in DOMAIN text : ~FenceLine(i) /\ text[i] \notin {"token", "blank"}}
            \subseteq UNION {Range(p.lines) : p \in Range(RepairedRuns)}
  BY RunsRead
<1>3. \A p \in Range(SplitMarkdown) \cup Range(RepairedRuns) : ReadsAlike(p)
  BY <1>1, <1>2
<1> QED
  BY <1>1, <1>2, <1>3 DEF CodeStaysCode

(* The lines that have arrived are lines of the kinds the module knows.    *)
LEMMA WrittenStays == MCSpec => []Written
<1>1. MCInit => Written
  BY DEF MCInit, Init, Written
<1>2. Written /\ [MCNext]_mcvars => Written'
  <2> SUFFICES ASSUME Written, [MCNext]_mcvars PROVE Written'
    OBVIOUS
  <2>1. CASE Next
    <3>1. ASSUME NEW kind \in Kinds, NEW p \in {"none", "vague", "clear"}, Type(kind, p) PROVE Written'
      <4>1. text' = Append(text, kind) /\ kind \in AllKinds
        BY <3>1, KindsAssumption DEF Type
      <4> QED
        BY <4>1 DEF Written
    <3>2. CASE TypeOn \/ SplitLive \/ Tick
      BY <3>2 DEF TypeOn, SplitLive, Tick, Written
    <3> QED
      BY <2>1, <3>1, <3>2 DEF Next
  <2>2. CASE UNCHANGED vars
    BY <2>2 DEF vars, Written
  <2> QED
    BY <2>1, <2>2 DEF MCNext, mcvars
<1> QED
  BY <1>1, <1>2, PTL DEF MCSpec

(* However a reply is cut, to the size of a message or at its attachments, *)
(* every part shows code as code and prose as prose and no line is lost,   *)
(* for a reply and a limit of any length (split_message, split_markdown,   *)
(* repair_fences_across_tokens).                                           *)
THEOREM PartsReadAlike == MCSpec => []CodeStaysCode
<1>1. Written => CodeStaysCode
  BY CodeRead
<1> QED
  BY <1>1, WrittenStays, PTL

-----------------------------------------------------------------------------
(* Markup: draft frames                                                    *)

Begins(s, t) == Len(s) <= Len(t) /\ \A i \in 1..Len(s) : s[i] = t[i]

LEMMA PrefixIs ==
  ASSUME NEW S, NEW s \in Seq(S), NEW t \in Seq(S)
  PROVE  IsPrefix(s, t) <=> Begins(s, t)
<1>1. /\ Len(s) \in Nat /\ Len(t) \in Nat /\ Len(s) \in Int /\ 1 \in Int
      /\ \A i \in 1..Len(s) : s[i] \in S
      /\ Len(s) <= Len(t) => \A i \in 1..Len(s) : t[i] \in S
  OBVIOUS
<1>2. SUFFICES ASSUME Len(s) <= Len(t)
               PROVE  SubSeq(s, 1, Len(s)) = SubSeq(t, 1, Len(s)) <=> \A i \in 1..Len(s) : s[i] = t[i]
  BY DEF IsPrefix, Begins
<1> DEFINE a == SubSeq(s, 1, Len(s))
           b == SubSeq(t, 1, Len(s))
<1>3. /\ a \in Seq(S) /\ Len(a) = IF 1 <= Len(s) THEN Len(s) - 1 + 1 ELSE 0
      /\ \A i \in 1..Len(s) - 1 + 1 : a[i] = s[1 + i - 1]
  BY <1>1, SubSeqProperties
<1>4. /\ b \in Seq(S) /\ Len(b) = IF 1 <= Len(s) THEN Len(s) - 1 + 1 ELSE 0
      /\ \A i \in 1..Len(s) - 1 + 1 : b[i] = t[1 + i - 1]
  BY <1>1, <1>2, SubSeqProperties
<1> HIDE DEF a, b
<1>5. Len(s) - 1 + 1 = Len(s) /\ \A i \in 1..Len(s) : 1 + i - 1 = i
  BY <1>1
<1>6. Len(a) = Len(s) /\ \A i \in 1..Len(s) : a[i] = s[i]
  BY <1>1, <1>3, <1>5
<1>7. Len(b) = Len(s) /\ \A i \in 1..Len(s) : b[i] = t[i]
  BY <1>1, <1>4, <1>5
<1>8. ASSUME \A i \in 1..Len(s) : s[i] = t[i] PROVE a = b
  <2>1. \A i \in 1..Len(a) : a[i] = b[i]
    BY <1>6, <1>7, <1>8
  <2> QED
    BY <1>3, <1>4, <1>6, <1>7, <2>1, SeqEqual
<1>9. a = b => \A i \in 1..Len(s) : s[i] = t[i]
  BY <1>6, <1>7
<1> QED
  BY <1>8, <1>9 DEF a, b

LEMMA BeginsChain ==
  ASSUME NEW S, NEW s \in Seq(S), NEW t \in Seq(S), NEW u \in Seq(S)
  PROVE  Begins(s, s) /\ (Begins(s, t) /\ Begins(t, u) => Begins(s, u))
BY DEF Begins

LEMMA BeginsAppend ==
  ASSUME NEW S, NEW s \in Seq(S), NEW x \in S
  PROVE  /\ Append(s, x) \in Seq(S) /\ Begins(s, Append(s, x))
         /\ Append(s, x) # <<>> /\ Front(Append(s, x)) = s
<1> DEFINE t == Append(s, x)
<1>1. /\ t \in Seq(S) /\ Len(t) = Len(s) + 1 /\ t # <<>> /\ Len(s) \in Nat
      /\ \A i \in 1..Len(s) : t[i] = s[i]
  OBVIOUS
<1> HIDE DEF t
<1>2. /\ Front(t) \in Seq(S) /\ Len(Front(t)) = Len(t) - 1
      /\ \A q \in 1..Len(t) - 1 : Front(t)[q] = t[q]
  BY <1>1, FrontIs
<1>3. Len(Front(t)) = Len(s) /\ \A q \in 1..Len(Front(t)) : Front(t)[q] = s[q]
  BY <1>1, <1>2
<1>4. Front(t) = s
  BY <1>2, <1>3, SeqEqual
<1> QED
  BY <1>1, <1>4 DEF t, Begins

LEMMA MaxIs ==
  ASSUME NEW n \in Nat, NEW T, T \subseteq 1..n, T # {}
  PROVE  Max(T) \in T /\ \A y \in T : y <= Max(T)
<1> DEFINE U == {m \in Nat : \A y \in T : y <= m}
<1>1. U \subseteq Nat /\ n \in U
  OBVIOUS
<1>2. PICK x \in U : \A y \in U : x <= y
  BY <1>1, LeastNat
<1>3. x \in T
  <2> SUFFICES ASSUME x \notin T PROVE FALSE
    OBVIOUS
  <2>1. PICK z \in T : TRUE
    OBVIOUS
  <2>2. x \in Nat /\ \A y \in T : y <= x /\ y # x /\ y \in Nat /\ y >= 1
    BY <1>2
  <2>3. x - 1 \in Nat /\ \A y \in T : y <= x - 1
    BY <2>1, <2>2
  <2>4. x - 1 \in U
    BY <2>3
  <2> HIDE DEF U
  <2> QED
    BY <1>2, <2>2, <2>4
<1>4. \E z \in T : \A y \in T : z >= y
  BY <1>2, <1>3
<1>5. Max(T) \in T /\ \A y \in T : Max(T) >= y
  BY <1>4 DEF Max
<1> QED
  BY <1>5

(* The lines of a draft, and what the lines up to some line make of it.    *)
Lines == AllKinds \cup {"gap", "bold"}
Demoting == [out : Seq(Lines), fence : BOOLEAN, pending : BOOLEAN]

(* What stands above the next solid line, and right above a line.          *)
Above(st) == IF st.pending THEN Spaced(st.out) ELSE st.out
Stem(st, line) == IF line = "heading" /\ ~st.fence /\ Above(st) # <<>> THEN Spaced(Above(st)) ELSE Above(st)

LEMMA SpacedIs ==
  ASSUME NEW s \in Seq(Lines)
  PROVE  Spaced(s) \in Seq(Lines) /\ Begins(s, Spaced(s))
<1>1. "gap" \in Lines
  BY DEF Lines
<1>2. Append(s, "gap") \in Seq(Lines) /\ Begins(s, Append(s, "gap")) /\ Begins(s, s)
  BY <1>1, BeginsAppend, BeginsChain
<1> QED
  BY <1>2 DEF Spaced

LEMMA StemIs ==
  ASSUME NEW st \in Demoting, NEW line \in AllKinds
  PROVE  /\ Above(st) \in Seq(Lines) /\ Stem(st, line) \in Seq(Lines)
         /\ Begins(st.out, Above(st)) /\ Begins(Above(st), Stem(st, line))
         /\ Begins(st.out, Stem(st, line)) /\ Stem(st, "prose") = Above(st)
         /\ ~st.pending => Above(st) = st.out
<1>1. st.out \in Seq(Lines)
  BY DEF Demoting
<1>2. Above(st) \in Seq(Lines) /\ Begins(st.out, Above(st))
  BY <1>1, SpacedIs, BeginsChain DEF Above
<1>3. Stem(st, line) \in Seq(Lines) /\ Begins(Above(st), Stem(st, line))
  BY <1>2, SpacedIs, BeginsChain DEF Stem
<1>4. Begins(st.out, Stem(st, line))
  BY <1>1, <1>2, <1>3, BeginsChain
<1>5. Stem(st, "prose") = Above(st)
  BY DEF Stem
<1>6. ~st.pending => Above(st) = st.out
  BY DEF Above
<1> QED
  BY <1>2, <1>3, <1>4, <1>5, <1>6

(* A blank line changes nothing; any other puts itself under its stem.     *)
LEMMA DemoteStep ==
  ASSUME NEW st \in Demoting, NEW line \in AllKinds
  PROVE  /\ DemoteLine(st, line) \in Demoting
         /\ Begins(st.out, DemoteLine(st, line).out)
         /\ ~Solid(line) => DemoteLine(st, line) = st
         /\ Solid(line) => /\ DemoteLine(st, line).out # <<>>
                           /\ Front(DemoteLine(st, line).out) = Stem(st, line)
                           /\ Begins(Stem(st, line), DemoteLine(st, line).out)
         /\ Solid(line) /\ line # "heading" => ~DemoteLine(st, line).pending
<1> DEFINE d == DemoteLine(st, line)
           s == Stem(st, line)
<1>1. /\ st.out \in Seq(Lines) /\ st.fence \in BOOLEAN /\ st.pending \in BOOLEAN
      /\ line \in Lines /\ "bold" \in Lines
  BY DEF Demoting, Lines
<1>2. s \in Seq(Lines) /\ Begins(st.out, s)
  BY StemIs
<1>3. CASE ~Solid(line)
  <2>1. d = st
    BY <1>3 DEF DemoteLine, Solid, Marker
  <2> QED
    BY <1>1, <1>3, <2>1, BeginsChain
<1>4. CASE Solid(line)
  <2>1. \E x \in Lines, f, p \in BOOLEAN : /\ d = [out |-> Append(s, x), fence |-> f, pending |-> p]
                                           /\ line # "heading" => ~p
    <3>1. CASE Marker(line) # "no"
      <4>1. line # "heading"
        BY <3>1 DEF Marker
      <4>2. d = [out |-> Append(s, line), fence |-> ~st.fence, pending |-> FALSE]
        BY <1>4, <3>1, <4>1 DEF DemoteLine, Stem, Above
      <4> QED
        BY <1>1, <4>2
    <3>2. CASE line = "heading" /\ ~st.fence
      <4>1. Marker(line) = "no"
        BY <3>2 DEF Marker
      <4>2. d = [out |-> Append(s, "bold"), fence |-> FALSE, pending |-> TRUE]
        BY <1>4, <3>2, <4>1 DEF DemoteLine, Stem, Above
      <4> QED
        BY <1>1, <3>2, <4>2
    <3>3. CASE Marker(line) = "no" /\ ~(line = "heading" /\ ~st.fence)
      <4>1. d = [out |-> Append(s, line), fence |-> st.fence, pending |-> FALSE]
        BY <1>4, <3>3 DEF DemoteLine, Stem, Above
      <4> QED
        BY <1>1, <4>1
    <3> QED
      BY <3>1, <3>2, <3>3
  <2>2. PICK x \in Lines, f \in BOOLEAN, p \in BOOLEAN :
            d = [out |-> Append(s, x), fence |-> f, pending |-> p] /\ (line # "heading" => ~p)
    BY <2>1
  <2>3. /\ Append(s, x) \in Seq(Lines) /\ Begins(s, Append(s, x))
        /\ Append(s, x) # <<>> /\ Front(Append(s, x)) = s
    BY <1>2, BeginsAppend
  <2>4. Begins(st.out, Append(s, x))
    BY <1>1, <1>2, <2>3, BeginsChain
  <2>5. d \in Demoting /\ d.out = Append(s, x) /\ d.pending = p
    BY <2>2, <2>3 DEF Demoting
  <2> HIDE DEF d, s
  <2> QED
    BY <1>4, <2>2, <2>3, <2>4, <2>5 DEF d, s
<1> QED
  BY <1>3, <1>4

(* A line that is half typed is not blank and was not posted.              *)
TextInv ==
  /\ Written /\ partial \in {"none", "vague", "clear"} /\ base \in 0..Len(text)
  /\ partial # "none" => base < Len(text) /\ text[Len(text)] # "blank"

Seens ==
  /\ Len(text) \in Nat /\ base \in Nat
  /\ \A i \in 1..Len(text) : /\ text[i] \in AllKinds /\ Seen[i] \in AllKinds
                             /\ i < Len(text) => Seen[i] = text[i]
  /\ partial = "vague" => Seen[Len(text)] = "prose"
  /\ partial # "vague" => \A i \in 1..Len(text) : Seen[i] = text[i]
  /\ partial # "none" => Len(text) \in 1..Len(text) /\ Solid(Seen[Len(text)])

LEMMA SeensAre ==
  ASSUME TextInv
  PROVE  Seens
<1>1. /\ Len(text) \in Nat /\ base \in Nat /\ DOMAIN text = 1..Len(text)
      /\ \A i \in 1..Len(text) : text[i] \in AllKinds
  BY DEF TextInv, Written
<1>2. partial # "none" => base < Len(text) /\ text[Len(text)] # "blank"
  BY DEF TextInv
<1>3. \A i \in 1..Len(text) : Seen[i] = IF i = Len(text) /\ partial = "vague" THEN "prose" ELSE text[i]
  BY <1>1 DEF Seen
<1>4. "prose" \in AllKinds
  BY DEF AllKinds
<1>5. partial # "none" => Len(text) \in 1..Len(text)
  BY <1>1, <1>2
<1>6. partial = "vague" => Seen[Len(text)] = "prose"
  BY <1>3, <1>5
<1>7. partial # "none" => Solid(Seen[Len(text)])
  BY <1>2, <1>3, <1>5 DEF Solid
<1>8. \A i \in 1..Len(text) : Seen[i] \in AllKinds
  BY <1>1, <1>3, <1>4
<1>9. \A i \in 1..Len(text) : i < Len(text) => Seen[i] = text[i]
  <2> SUFFICES ASSUME NEW i \in 1..Len(text), i < Len(text) PROVE Seen[i] = text[i]
    OBVIOUS
  <2>1. Len(text) \in Nat
    BY <1>1
  <2>2. i # Len(text)
    BY <2>1
  <2> QED
    BY <1>3, <2>2
<1>10. partial # "vague" => \A i \in 1..Len(text) : Seen[i] = text[i]
  BY <1>3
<1> QED
  BY <1>1, <1>5, <1>6, <1>7, <1>8, <1>9, <1>10 DEF Seens

Bare == [out |-> <<>>, fence |-> FALSE, pending |-> FALSE]
Drafts == \A i \in 0..Len(text) : /\ Demoted[i] \in Demoting
                                  /\ Demoted[i] = IF i <= base THEN Bare ELSE DemoteLine(Demoted[i - 1], Seen[i])

LEMMA DraftsAre ==
  ASSUME TextInv
  PROVE  Drafts
<1> DEFINE n == Len(text)
           S == Demoting
           g == [x \in S \X (1..n) |-> DemoteLine(x[1], Seen[x[2]])]
<1>1. n \in Nat /\ base \in Nat /\ \A i \in 1..n : Seen[i] \in AllKinds
  BY SeensAre DEF Seens
<1>2. Bare \in S
  <2>1. <<>> \in Seq(Lines)
    OBVIOUS
  <2> QED
    BY <2>1 DEF Bare, Demoting
<1>3. \A st \in S, i \in 1..n : DemoteLine(st, Seen[i]) \in S
  BY <1>1, DemoteStep
<1>4. \A x \in S \X (1..n) : x[1] \in S /\ x[2] \in 1..n
  OBVIOUS
<1>5. g \in [S \X (1..n) -> S]
  BY <1>3, <1>4
<1>6. \A st \in S, i \in 1..n : g[<<st, i>>] = DemoteLine(st, Seen[i])
  OBVIOUS
<1> HIDE DEF g, S, n
<1>7. \E f \in [0..n -> S] : Solves(f, n, base, Bare, g)
  BY <1>1, <1>2, <1>5, Recursion
<1>8. PICK f \in [0..n -> S] : \A i \in 0..n : f[i] = IF i <= base THEN Bare ELSE g[<<f[i - 1], i>>]
  BY <1>7 DEF Solves
<1>9. \A i \in 0..n : (IF i <= base THEN Bare ELSE g[<<f[i - 1], i>>]) =
                      IF i <= base THEN Bare ELSE DemoteLine(f[i - 1], Seen[i])
  <2> SUFFICES ASSUME NEW i \in 0..n, ~(i <= base) PROVE g[<<f[i - 1], i>>] = DemoteLine(f[i - 1], Seen[i])
    OBVIOUS
  <2>1. i \in 1..n /\ f[i - 1] \in S
    BY <1>1
  <2> QED
    BY <1>6, <2>1
<1>10. f = [i \in 0..n |-> IF i <= base THEN Bare ELSE DemoteLine(f[i - 1], Seen[i])]
  BY <1>8, <1>9
<1>11. Demoted = [i \in 0..n |-> IF i <= base THEN Bare ELSE DemoteLine(Demoted[i - 1], Seen[i])]
  BY <1>10 DEF Demoted, Bare, n
<1>12. \A i \in 0..n : Demoted[i] \in S
  <2> DEFINE P == {i \in Nat : i <= n => Demoted[i] \in S}
  <2>1. 0 \in P
    BY <1>1, <1>2, <1>11
  <2>2. ASSUME NEW i \in P PROVE i + 1 \in P
    <3> SUFFICES ASSUME i + 1 <= n PROVE Demoted[i + 1] \in S
      BY <2>2
    <3>1. i \in Nat /\ i + 1 \in 1..n /\ i + 1 \in 0..n /\ (i + 1) - 1 = i /\ Demoted[i] \in S
      BY <1>1, <2>2
    <3>2. Demoted[i + 1] = IF i + 1 <= base THEN Bare ELSE DemoteLine(Demoted[i], Seen[i + 1])
      BY <1>11, <3>1
    <3> QED
      BY <1>2, <1>3, <3>1, <3>2 DEF S
  <2> HIDE DEF P
  <2>3. P = Nat
    <3>1. P \subseteq Nat
      BY DEF P
    <3> QED
      BY <2>1, <2>2, <3>1, Induction
  <2> QED
    BY <1>1, <2>3 DEF P
<1> QED
  BY <1>11, <1>12 DEF Drafts, S, n

(* What the frame shows: everything when the last line is complete, else   *)
(* what stands above it; and no row is left out right below a heading.     *)
Shot ==
  /\ partial = "none" => Frame.lines = Demoted[Len(text)].out /\ ~Frame.half
  /\ partial # "none" => /\ Clips => partial = "clear"
                         /\ Clips => /\ ~Demoted[Len(text) - 1].pending
                                     /\ Frame.lines = Demoted[Len(text) - 1].out /\ ~Frame.half
                         /\ ~Clips => Frame.lines = Stem(Demoted[Len(text) - 1], Seen[Len(text)])

LEMMA ShotIs ==
  ASSUME TextInv
  PROVE  Shot
<1> DEFINE n == Len(text)
<1>1. /\ n \in Nat /\ base \in 0..n /\ base \in Nat
      /\ \A i \in 1..n : Seen[i] \in AllKinds
      /\ partial # "none" => n \in 1..n /\ base < n /\ Solid(Seen[n])
      /\ partial = "vague" => Seen[n] = "prose"
      /\ partial \in {"none", "vague", "clear"}
  BY SeensAre DEF TextInv, Seens
<1>2. \A i \in 0..n : /\ Demoted[i] \in Demoting
                      /\ Demoted[i] = IF i <= base THEN Bare ELSE DemoteLine(Demoted[i - 1], Seen[i])
  BY DraftsAre DEF Drafts
<1>3. CASE partial = "none"
  <2>1. ~HalfTyped /\ ~Clips
    BY <1>3 DEF HalfTyped, Clips
  <2> QED
    BY <1>3, <2>1 DEF Frame, Shot
<1>4. CASE partial # "none"
  <2>1. HalfTyped /\ n \in 1..n /\ n - 1 \in 0..n /\ base <= n - 1 /\ ~(n <= base)
    BY <1>1, <1>4 DEF HalfTyped
  <2>2. Clips => partial = "clear"
    BY <1>1, <1>4 DEF Clips, HasPipe
  <2>3. ASSUME Clips PROVE ~Demoted[n - 1].pending
    <3>1. PICK i \in TableRows : TRUE
      BY <2>3 DEF Clips, Established
    <3>2. i \in base + 1 .. n - 1 /\ \A j \in i .. n - 1 : HasPipe(Seen[j])
      BY DEF TableRows
    <3>3. n - 1 \in i .. n - 1 /\ ~(n - 1 <= base) /\ n - 1 \in 1..n /\ n - 1 - 1 \in 0..n
      BY <1>1, <2>1, <3>2
    <3>4. HasPipe(Seen[n - 1]) /\ Seen[n - 1] \in AllKinds
      BY <1>1, <3>2, <3>3
    <3>5. Solid(Seen[n - 1]) /\ Seen[n - 1] # "heading"
      BY <3>4 DEF HasPipe, Solid
    <3>6. Demoted[n - 1] = DemoteLine(Demoted[n - 1 - 1], Seen[n - 1]) /\ Demoted[n - 1 - 1] \in Demoting
      BY <1>2, <2>1, <3>3
    <3> QED
      BY <3>4, <3>5, <3>6, DemoteStep
  <2>4. ASSUME Clips PROVE Frame.lines = Demoted[n - 1].out /\ ~Frame.half
    BY <2>4 DEF Frame
  <2>5. ASSUME ~Clips PROVE Frame.lines = Stem(Demoted[n - 1], Seen[n])
    <3>1. Demoted[n] = DemoteLine(Demoted[n - 1], Seen[n]) /\ Demoted[n - 1] \in Demoting
      BY <1>2, <2>1
    <3>2. Demoted[n].out # <<>> /\ Front(Demoted[n].out) = Stem(Demoted[n - 1], Seen[n])
      BY <1>1, <1>4, <2>1, <3>1, DemoteStep
    <3>3. Frame = [lines |-> Front(Demoted[n].out), half |-> TRUE]
      BY <2>1, <2>5, <3>2 DEF Frame
    <3> QED
      BY <3>2, <3>3
  <2> QED
    BY <1>1, <1>4, <2>2, <2>3, <2>4, <2>5 DEF Shot
<1> QED
  BY <1>3, <1>4

FrameTyped == Frame.lines \in Seq(Lines)

LEMMA FrameIsTyped ==
  ASSUME TextInv
  PROVE  FrameTyped
<1>1. Shot /\ Drafts
  BY ShotIs, DraftsAre
<1>2. /\ Len(text) \in Nat /\ base \in Nat
      /\ partial # "none" => Len(text) \in 1..Len(text)
      /\ \A i \in 1..Len(text) : Seen[i] \in AllKinds
  BY SeensAre DEF Seens
<1>3. \A i \in 0..Len(text) : Demoted[i] \in Demoting
  BY <1>1 DEF Drafts
<1>4. CASE partial = "none"
  <2>1. Demoted[Len(text)] \in Demoting
    BY <1>2, <1>3
  <2> QED
    BY <1>1, <1>4, <2>1 DEF Shot, FrameTyped, Demoting
<1>5. CASE partial # "none"
  <2> DEFINE n == Len(text)
  <2>0. n \in 1..n /\ n \in Nat
    BY <1>2, <1>5
  <2>1. Demoted[n - 1] \in Demoting /\ Seen[n] \in AllKinds
    <3>1. \A i \in 0..n : Demoted[i] \in Demoting
      BY <1>3
    <3>2. \A i \in 1..n : Seen[i] \in AllKinds
      BY <1>2
    <3> HIDE DEF n
    <3>3. n - 1 \in 0..n
      BY <2>0
    <3> QED
      BY <2>0, <3>1, <3>2, <3>3
  <2>2. Demoted[Len(text) - 1].out \in Seq(Lines)
    BY <2>1 DEF Demoting
  <2>3. Stem(Demoted[Len(text) - 1], Seen[Len(text)]) \in Seq(Lines)
    BY <2>1, StemIs
  <2> QED
    BY <1>1, <1>5, <2>2, <2>3 DEF Shot, FrameTyped
<1> QED
  BY <1>4, <1>5

(* What is made of the lines up to some line does not depend on the lines  *)
(* behind it.                                                              *)
LEMMA DraftsKept ==
  ASSUME TextInv, TextInv', base' = base,
         NEW m \in Nat, m <= Len(text), m <= Len(text'), \A i \in 1..m : Seen'[i] = Seen[i]
  PROVE  \A i \in 0..m : Demoted'[i] = Demoted[i]
<1>1. Drafts
  BY DraftsAre
<1>2. Drafts'
  <2>1. TextInv' => Drafts'
    BY DraftsAre, PTL
  <2> QED
    BY <2>1
<1>3. Len(text) \in Nat /\ base \in Nat /\ Len(text') \in Nat
  BY SeensAre DEF Seens, TextInv, Written
<1> DEFINE P == {i \in Nat : i <= m => Demoted'[i] = Demoted[i]}
<1>4. \A i \in 0..Len(text) :
         Demoted[i] = IF i <= base THEN Bare ELSE DemoteLine(Demoted[i - 1], Seen[i])
  BY <1>1 DEF Drafts
<1>5. \A i \in 0..Len(text') :
         Demoted'[i] = IF i <= base THEN Bare ELSE DemoteLine(Demoted'[i - 1], Seen'[i])
  BY <1>2 DEF Drafts
<1>6. 0 \in P
  BY <1>3, <1>4, <1>5
<1>7. ASSUME NEW i \in P PROVE i + 1 \in P
  <2> SUFFICES ASSUME i + 1 <= m PROVE Demoted'[i + 1] = Demoted[i + 1]
    BY <1>7
  <2>1. i \in Nat /\ i + 1 \in 0..Len(text) /\ i + 1 \in 0..Len(text') /\ (i + 1) - 1 = i /\ i + 1 \in 1..m
    BY <1>3, <1>7
  <2>2. Demoted'[i] = Demoted[i] /\ Seen'[i + 1] = Seen[i + 1]
    BY <1>7, <2>1
  <2>3. Demoted[i + 1] = IF i + 1 <= base THEN Bare ELSE DemoteLine(Demoted[i], Seen[i + 1])
    BY <1>4, <2>1
  <2>4. Demoted'[i + 1] = IF i + 1 <= base THEN Bare ELSE DemoteLine(Demoted'[i], Seen'[i + 1])
    BY <1>5, <2>1
  <2> QED
    BY <2>2, <2>3, <2>4
<1> HIDE DEF P
<1>8. P = Nat
  <2>1. P \subseteq Nat
    BY DEF P
  <2> QED
    BY <1>6, <1>7, <2>1, Induction
<1> QED
  BY <1>8 DEF P

(* A draft made of more text begins with the draft made of less.           *)
LEMMA DraftGrows ==
  ASSUME TextInv, TextInv', TypeOn \/ \E kind \in Kinds, p \in {"none", "vague", "clear"} : Type(kind, p)
  PROVE  Begins(Frame.lines, Frame'.lines)
<1>1. Shot /\ Drafts /\ FrameTyped
  BY ShotIs, DraftsAre, FrameIsTyped
<1>2. Shot' /\ Drafts' /\ FrameTyped'
  <2>1. TextInv' => Shot' /\ Drafts' /\ FrameTyped'
    BY ShotIs, DraftsAre, FrameIsTyped, PTL
  <2> QED
    BY <2>1
<1> DEFINE n == Len(text)
           k == Len(text')
<1>3. /\ n \in Nat /\ base \in Nat
      /\ \A i \in 1..n : text[i] \in AllKinds /\ Seen[i] \in AllKinds /\ (i < n => Seen[i] = text[i])
      /\ partial = "vague" => Seen[n] = "prose"
      /\ partial # "vague" => \A i \in 1..n : Seen[i] = text[i]
      /\ partial # "none" => n \in 1..n /\ Solid(Seen[n])
  BY SeensAre DEF Seens
<1>4. Seens'
  <2>1. TextInv' => Seens'
    BY SeensAre, PTL
  <2> QED
    BY <2>1
<1>5. /\ k \in Nat /\ base' \in Nat
      /\ \A i \in 1..k : text'[i] \in AllKinds /\ Seen'[i] \in AllKinds /\ (i < k => Seen'[i] = text'[i])
      /\ partial' = "vague" => Seen'[k] = "prose"
      /\ partial' # "vague" => \A i \in 1..k : Seen'[i] = text'[i]
      /\ partial' # "none" => k \in 1..k /\ Solid(Seen'[k])
  BY <1>4 DEF Seens
<1>6. base' = base /\ base <= n
  BY DEF TypeOn, Type, TextInv
<1>7. /\ \A i \in 0..n : Demoted[i] \in Demoting
      /\ \A i \in 0..k : Demoted'[i] \in Demoting
      /\ \A i \in 0..k : Demoted'[i] = IF i <= base THEN Bare ELSE DemoteLine(Demoted'[i - 1], Seen'[i])
  BY <1>1, <1>2, <1>6 DEF Drafts
<1>8. Frame.lines \in Seq(Lines) /\ Frame'.lines \in Seq(Lines)
  BY <1>1, <1>2 DEF FrameTyped
<1>9. CASE TypeOn
  <2>1. text' = text /\ k = n /\ partial # "none" /\ partial' \in {"clear", "none"}
    BY <1>9 DEF TypeOn
  <2>2. base < n /\ n - 1 \in Nat /\ n - 1 <= n /\ n \in 0..n /\ n - 1 \in 0..n /\ n \in 1..n /\ ~(n <= base)
    BY <1>3, <2>1 DEF TextInv
  <2> DEFINE d == Demoted[n - 1]
  <2>3. d \in Demoting
    BY <1>7, <2>2
  <2>4. Demoted'[n - 1] = d
    <3>1. \A i \in 1..n - 1 : Seen'[i] = Seen[i]
      <4> SUFFICES ASSUME NEW i \in 1..n - 1 PROVE Seen'[i] = Seen[i]
        OBVIOUS
      <4>1. i \in 1..n /\ i < n
        BY <1>3
      <4> QED
        BY <1>3, <1>5, <2>1, <4>1
    <3> HIDE DEF n
    <3>2. n - 1 <= Len(text) /\ n - 1 <= Len(text')
      BY <2>1, <2>2 DEF n
    <3>3. \A i \in 0..n - 1 : Demoted'[i] = Demoted[i]
      BY <1>6, <2>2, <3>1, <3>2, DraftsKept
    <3> QED
      BY <2>2, <3>3
  <2>5. Demoted'[n] = DemoteLine(d, Seen'[n])
    BY <1>7, <2>1, <2>2, <2>4
  <2>6. Seen'[n] = text[n] /\ Seen'[n] \in AllKinds /\ Seen[n] \in AllKinds
    BY <1>3, <1>5, <2>1, <2>2
  <2>7. Solid(Seen'[n])
    BY <2>1, <2>6 DEF Solid, TextInv
  <2> HIDE DEF d, n, k
  <2> DEFINE a == Above(d)
             s == Stem(d, Seen'[n])
             w == DemoteLine(d, Seen'[n])
  <2>8. /\ a \in Seq(Lines) /\ s \in Seq(Lines) /\ w.out \in Seq(Lines) /\ d.out \in Seq(Lines)
        /\ Begins(d.out, a) /\ Begins(a, s) /\ Begins(d.out, s) /\ Begins(s, w.out) /\ Begins(d.out, w.out)
        /\ Stem(d, "prose") = a /\ (~d.pending => a = d.out)
    BY <2>3, <2>6, <2>7, StemIs, DemoteStep DEF Demoting
  <2>9. Begins(a, w.out) /\ Begins(s, s) /\ Begins(a, a) /\ Begins(d.out, d.out)
    <3> HIDE DEF a, s, w
    <3> QED
      BY <2>8, BeginsChain
  <2>10. /\ Clips => Frame.lines = d.out /\ ~d.pending /\ partial = "clear"
         /\ ~Clips => Frame.lines = Stem(d, Seen[n])
    BY <1>1, <2>1 DEF Shot, d, n
  <2>11. /\ partial' = "none" => Frame'.lines = w.out
         /\ partial' # "none" => /\ Clips' => Frame'.lines = d.out /\ ~d.pending
                                 /\ ~Clips' => Frame'.lines = s
    BY <1>2, <2>1, <2>4, <2>5 DEF Shot, n, k
  <2>12. partial = "clear" => partial' = "none" /\ Seen[n] = Seen'[n]
    BY <1>3, <1>9, <2>2, <2>6 DEF TypeOn
  <2>13. partial = "clear" \/ (partial = "vague" /\ Seen[n] = "prose")
    BY <1>3, <2>1 DEF TextInv
  <2> HIDE DEF a, w
  <2>14. CASE partial = "clear"
    BY <2>8, <2>9, <2>10, <2>11, <2>12, <2>14
  <2>15. CASE partial = "vague" /\ Seen[n] = "prose"
    <3>1. Frame.lines = a
      BY <2>8, <2>10, <2>15
    <3> QED
      BY <2>8, <2>9, <2>11, <3>1
  <2> QED
    BY <2>13, <2>14, <2>15
<1>10. ASSUME NEW kind \in Kinds, NEW p \in {"none", "vague", "clear"}, Type(kind, p)
       PROVE  Begins(Frame.lines, Frame'.lines)
  <2>1. partial = "none" /\ text' = Append(text, kind) /\ partial' = p
    BY <1>10 DEF Type
  <2>2. k = n + 1 /\ \A i \in 1..n : text'[i] = text[i]
    BY <2>1 DEF TextInv, Written
  <2>3. \A i \in 1..n : Seen'[i] = Seen[i]
    <3> SUFFICES ASSUME NEW i \in 1..n PROVE Seen'[i] = Seen[i]
      OBVIOUS
    <3>1. i \in 1..k /\ i < k
      BY <1>3, <2>2
    <3> QED
      BY <1>3, <1>5, <2>1, <2>2, <3>1
  <2> DEFINE d == Demoted[n]
  <2>4. d \in Demoting /\ n \in 0..n /\ k \in 0..k /\ k \in 1..k /\ n \in 0..k /\ k - 1 = n /\ ~(k <= base)
    BY <1>3, <1>6, <1>7, <2>2
  <2>5. Demoted'[n] = d
    <3> HIDE DEF n, k
    <3>1. n <= Len(text) /\ n <= Len(text')
      BY <1>3, <2>2 DEF n, k
    <3>2. \A i \in 0..n : Demoted'[i] = Demoted[i]
      BY <1>3, <1>6, <2>3, <3>1, DraftsKept
    <3> QED
      BY <2>4, <3>2
  <2>6. Demoted'[k] = DemoteLine(d, Seen'[k]) /\ Seen'[k] \in AllKinds
    BY <1>5, <1>7, <2>4, <2>5
  <2>7. Frame.lines = d.out
    BY <1>1, <2>1 DEF Shot
  <2> HIDE DEF d, n, k
  <2> DEFINE s == Stem(d, Seen'[k])
             w == DemoteLine(d, Seen'[k])
  <2>8. Begins(d.out, s) /\ Begins(d.out, w.out) /\ Begins(d.out, d.out)
    BY <2>4, <2>6, StemIs, DemoteStep, BeginsChain DEF Demoting
  <2>9. Frame'.lines \in {d.out, s, w.out}
    BY <1>2, <2>4, <2>5, <2>6 DEF Shot, k
  <2> HIDE DEF s, w
  <2> QED
    BY <2>7, <2>8, <2>9
<1> QED
  BY <1>9, <1>10

(* A frame with a half-typed line shows no table's row: that was clipped.  *)
LEMMA NoRowShown ==
  ASSUME TextInv, Frame.half
  PROVE  ~InTable
<1> SUFFICES ASSUME InTable PROVE FALSE
  OBVIOUS
<1> DEFINE n == Len(text)
<1>1. HalfTyped /\ ~Clips
  BY DEF Frame
<1>2. PICK h \in base + 1 .. n - 1 :
           /\ HasPipe(Seen[h]) /\ Seen[h + 1] = "sep"
           /\ \A j \in h + 1 .. n : HasPipe(Seen[j])
  BY DEF InTable
<1>3. n \in Nat /\ base \in Nat
  BY SeensAre DEF Seens
<1>4. n \in h + 1 .. n /\ h \in Nat /\ \A j \in h .. n - 1 : j = h \/ j \in h + 1 .. n
  BY <1>3
<1>5. HasPipe(Seen[n]) /\ \A j \in h .. n - 1 : HasPipe(Seen[j])
  BY <1>2, <1>4
<1>6. h \in TableRows
  BY <1>2, <1>5 DEF TableRows
<1>7. CASE h + 1 = n
  BY <1>1, <1>2, <1>5, <1>6, <1>7 DEF Clips
<1>8. CASE h + 1 # n
  <2>1. h + 1 \in base + 1 .. n - 1 /\ \A j \in h + 1 .. n - 1 : j \in h .. n - 1
    BY <1>3, <1>4, <1>8
  <2>2. h + 1 \in TableRows
    BY <1>5, <2>1 DEF TableRows
  <2> QED
    BY <1>1, <1>2, <1>5, <2>2 DEF Clips, Established
<1> QED
  BY <1>7, <1>8

(* Blocks are posted up to a line that closes one, and that is complete.   *)
LEMMA ClosedEndIs ==
  ASSUME TextInv, ClosedEnd # base
  PROVE  /\ ClosedEnd \in base + 1 .. Len(text)
         /\ Ends(Scanned(base)[ClosedEnd - 1], ClosedEnd)
         /\ Seen[ClosedEnd] \in {"ticks", "tildes"}
         /\ ClosedEnd < Len(text) \/ partial = "none"
<1> DEFINE scan == Scanned(base)
           n == Len(text)
           ends == {i \in base + 1 .. n : /\ Ends(scan[i - 1], i) /\ Seen[i] \in {"ticks", "tildes"}
                                          /\ i < n \/ partial = "none"}
<1>1. ClosedEnd = IF ends = {} THEN base ELSE Max(ends)
  BY DEF ClosedEnd
<1>2. n \in Nat /\ base \in Nat
  BY SeensAre DEF Seens
<1>3. ends \subseteq 1..n
  BY <1>2
<1> HIDE DEF scan, n
<1>4. ends # {} => Max(ends) \in ends
  <2> HIDE DEF ends
  <2> QED
    BY <1>2, <1>3, MaxIs
<1>5. ClosedEnd \in ends
  <2> HIDE DEF ends
  <2> QED
    BY <1>1, <1>4
<1> HIDE DEF ClosedEnd
<1> QED
  BY <1>5 DEF scan, n

LEMMA TextStep ==
  ASSUME TextInv, [MCNext]_mcvars
  PROVE  TextInv'
<1>0. /\ Len(text) \in Nat /\ base \in 0..Len(text) /\ Written /\ partial \in {"none", "vague", "clear"}
      /\ partial # "none" => base < Len(text) /\ text[Len(text)] # "blank"
  BY SeensAre DEF Seens, TextInv
<1>1. ASSUME NEW kind \in Kinds, NEW p \in {"none", "vague", "clear"}, Type(kind, p) PROVE TextInv'
  <2>1. /\ text' = Append(text, kind) /\ partial' = p /\ base' = base /\ kind \in AllKinds
        /\ kind = "blank" => p = "none"
    BY <1>1, KindsAssumption DEF Type
  <2>2. text' \in Seq(AllKinds) /\ Len(text') = Len(text) + 1 /\ text'[Len(text')] = kind
    BY <1>0, <2>1 DEF Written
  <2>3. base' \in 0..Len(text') /\ base' < Len(text')
    BY <1>0, <2>1, <2>2
  <2> QED
    BY <2>1, <2>2, <2>3 DEF TextInv, Written
<1>2. CASE TypeOn
  <2>1. text' = text /\ base' = base /\ partial # "none" /\ partial' \in {"clear", "none"}
    BY <1>2 DEF TypeOn
  <2> QED
    BY <1>0, <2>1 DEF TextInv, Written
<1>3. CASE SplitLive
  <2>1. text' = text /\ base' = ClosedEnd /\ partial' = partial /\ ClosedEnd # base
    BY <1>3 DEF SplitLive, Due
  <2>2. ClosedEnd \in base + 1 .. Len(text) /\ (ClosedEnd < Len(text) \/ partial = "none")
    BY <2>1, ClosedEndIs
  <2> HIDE DEF ClosedEnd
  <2>3. base' \in 0..Len(text') /\ (base' < Len(text') \/ partial' = "none")
    BY <1>0, <2>1, <2>2
  <2> QED
    BY <1>0, <2>1, <2>3 DEF TextInv, Written
<1>4. CASE Tick \/ UNCHANGED vars
  BY <1>0, <1>4 DEF Tick, vars, TextInv, Written
<1> QED
  BY <1>1, <1>2, <1>3, <1>4 DEF MCNext, mcvars, Next

LEMMA TextInvStays == MCSpec => []TextInv
<1>1. MCInit => TextInv
  BY DEF MCInit, Init, TextInv, Written
<1>2. TextInv /\ [MCNext]_mcvars => TextInv'
  BY TextStep
<1> QED
  BY <1>1, <1>2, PTL DEF MCSpec

LEMMA FrameSame ==
  ASSUME text' = text, partial' = partial, base' = base
  PROVE  Frame' = Frame
<1>1. Seen' = Seen
  BY DEF Seen
<1>2. TableRows' = TableRows
  BY <1>1 DEF TableRows
<1>3. Clips' = Clips /\ HalfTyped' = HalfTyped
  BY <1>1, <1>2 DEF Clips, HalfTyped, Established
<1>4. Demoted' = Demoted
  BY <1>1 DEF Demoted
<1> QED
  BY <1>3, <1>4 DEF Frame

FrameInv == frame.lines \in Seq(Lines) /\ Begins(frame.lines, Frame.lines)

(* As long as nothing is posted, the text, the frame or neither changes.   *)
LEMMA FrameStep ==
  ASSUME TextInv, TextInv', FrameInv, [MCNext]_mcvars
  PROVE  /\ FrameInv'
         /\ base' = base => /\ IsPrefix(frame.lines, frame'.lines)
                            /\ frame' # frame /\ frame'.half => ~InTable
<1>1. FrameTyped /\ FrameTyped'
  <2>1. TextInv' => FrameTyped'
    BY FrameIsTyped, PTL
  <2> QED
    BY <2>1, FrameIsTyped
<1>2. /\ frame.lines \in Seq(Lines) /\ Frame.lines \in Seq(Lines) /\ Frame'.lines \in Seq(Lines)
      /\ Begins(frame.lines, Frame.lines)
      /\ Begins(frame.lines, frame.lines) /\ Begins(Frame.lines, Frame.lines)
  BY <1>1, BeginsChain DEF FrameTyped, FrameInv
<1>3. CASE TypeOn \/ \E kind \in Kinds, p \in {"none", "vague", "clear"} : Type(kind, p)
  <2>1. Begins(Frame.lines, Frame'.lines)
    BY <1>3, DraftGrows
  <2>2. frame' = frame
    BY <1>3 DEF TypeOn, Type
  <2>3. Begins(frame.lines, Frame'.lines)
    BY <1>2, <2>1, BeginsChain
  <2>4. IsPrefix(frame.lines, frame.lines)
    BY <1>2, PrefixIs
  <2> QED
    BY <1>2, <2>2, <2>3, <2>4 DEF FrameInv
<1>4. CASE SplitLive
  <2>1. frame' = Empty /\ base' # base
    BY <1>4 DEF SplitLive, Due
  <2>2. frame'.lines = <<>> /\ <<>> \in Seq(Lines)
    BY <2>1 DEF Empty
  <2>3. Begins(<<>>, Frame'.lines)
    BY <1>2 DEF Begins
  <2> QED
    BY <2>1, <2>2, <2>3 DEF FrameInv
<1>5. CASE Tick
  <2>1. frame' = Frame /\ text' = text /\ partial' = partial /\ base' = base
    BY <1>5 DEF Tick
  <2>2. Frame' = Frame
    BY <2>1, FrameSame
  <2>3. frame'.half => ~InTable
    BY <2>1, NoRowShown
  <2>4. IsPrefix(frame.lines, Frame.lines)
    BY <1>2, PrefixIs
  <2> HIDE DEF Frame
  <2> QED
    BY <1>2, <2>1, <2>2, <2>3, <2>4 DEF FrameInv
<1>6. CASE UNCHANGED vars
  <2>1. frame' = frame /\ text' = text /\ partial' = partial /\ base' = base
    BY <1>6 DEF vars
  <2>2. Frame' = Frame
    BY <2>1, FrameSame
  <2>3. IsPrefix(frame.lines, frame.lines)
    BY <1>2, PrefixIs
  <2> QED
    BY <1>2, <2>1, <2>2, <2>3 DEF FrameInv
<1> QED
  BY <1>3, <1>4, <1>5, <1>6 DEF MCNext, mcvars, Next

LEMMA FramesOnlyGrow == MCSpec => FramesGrow
<1>1. MCInit => FrameInv
  <2> SUFFICES ASSUME MCInit PROVE FrameInv
    OBVIOUS
  <2>1. TextInv
    BY DEF MCInit, Init, TextInv, Written
  <2>2. Frame.lines \in Seq(Lines)
    BY <2>1, FrameIsTyped DEF FrameTyped
  <2>3. frame.lines = <<>> /\ <<>> \in Seq(Lines)
    BY DEF MCInit, Init, Empty
  <2> QED
    BY <2>2, <2>3 DEF FrameInv, Begins
<1>2. TextInv /\ TextInv' /\ FrameInv /\ [MCNext]_mcvars => FrameInv'
  BY FrameStep
<1>3. TextInv /\ TextInv' /\ FrameInv /\ [MCNext]_mcvars
      => [base' = base => /\ IsPrefix(frame.lines, frame'.lines)
                          /\ frame' # frame /\ frame'.half => ~InTable]_vars
  BY FrameStep
<1> QED
  BY <1>1, <1>2, <1>3, TextInvStays, PTL DEF MCSpec, FramesGrow

-----------------------------------------------------------------------------
(* Markup: blocks that are posted live                                     *)

Segs == [code : BOOLEAN, lines : SUBSET Nat]
Scans == [open : Nat, out : Seq(Segs)]

(* One line of the scan, of what kind it is, whether it ends the block and *)
(* whether it starts one.                                                  *)
WithProse(out, i, kind) ==
    IF kind = "blank" THEN out
    ELSE IF out # <<>> /\ ~Last(out).code
    THEN Append(Front(out), [code |-> FALSE, lines |-> Last(out).lines \cup {i}])
    ELSE Append(out, [code |-> FALSE, lines |-> {i}])
Block(st, i) == Append(st.out, [code |-> TRUE, lines |-> st.open .. i])
Walk(st, i, kind, ends, starts) ==
    IF ends THEN [open |-> 0, out |-> IF kind \in {"lang", "info"} THEN WithProse(Block(st, i), i, kind)
                                      ELSE Block(st, i)]
    ELSE IF st.open # 0 THEN st
    ELSE IF starts THEN [open |-> i, out |-> st.out]
    ELSE [open |-> st.open, out |-> WithProse(st.out, i, kind)]

LEMMA WithProseIs ==
  ASSUME NEW out \in Seq(Segs), NEW i \in Nat, NEW kind
  PROVE  WithProse(out, i, kind) \in Seq(Segs)
<1> DEFINE x == [code |-> FALSE, lines |-> {i}]
           y == [code |-> FALSE, lines |-> Last(out).lines \cup {i}]
<1>1. x \in Segs
  BY DEF Segs
<1>2. CASE out # <<>>
  <2>1. Len(out) # 0 /\ out[Len(out)] \in Segs
    BY <1>2
  <2>2. Last(out).lines \subseteq Nat
    BY <2>1 DEF Last, Segs
  <2>3. y \in Segs
    BY <2>2 DEF Segs
  <2>4. Front(out) \in Seq(Segs)
    BY <2>1, FrontIs
  <2> HIDE DEF x, y
  <2>5. Append(Front(out), y) \in Seq(Segs) /\ Append(out, x) \in Seq(Segs)
    BY <1>1, <2>3, <2>4, AppendProperties
  <2> QED
    BY <2>5 DEF WithProse, x, y
<1>3. CASE out = <<>>
  <2> HIDE DEF x
  <2>1. Append(out, x) \in Seq(Segs)
    BY <1>1, AppendProperties
  <2> QED
    BY <1>3, <2>1 DEF WithProse, x
<1> QED
  BY <1>2, <1>3

LEMMA BlockIs ==
  ASSUME NEW st \in Scans, NEW i \in Nat
  PROVE  Block(st, i) \in Seq(Segs) /\ Block(st, i) # <<>> /\ Last(Block(st, i)).code
<1> DEFINE x == [code |-> TRUE, lines |-> st.open .. i]
<1>1. st.open \in Nat /\ st.out \in Seq(Segs)
  BY DEF Scans
<1>2. x \in Segs /\ x.code
  BY <1>1 DEF Segs
<1> HIDE DEF x
<1>3. /\ Append(st.out, x) \in Seq(Segs) /\ Append(st.out, x) # <<>>
      /\ Len(Append(st.out, x)) = Len(st.out) + 1 /\ Append(st.out, x)[Len(st.out) + 1] = x
  BY <1>1, <1>2, AppendProperties
<1> QED
  BY <1>2, <1>3 DEF Block, Last, x

LEMMA WalkType ==
  ASSUME NEW st \in Scans, NEW i \in Nat, NEW kind, NEW ends \in BOOLEAN, NEW starts \in BOOLEAN
  PROVE  Walk(st, i, kind, ends, starts) \in Scans
<1>1. /\ st.open \in Nat /\ st.out \in Seq(Segs) /\ Block(st, i) \in Seq(Segs)
      /\ WithProse(st.out, i, kind) \in Seq(Segs) /\ WithProse(Block(st, i), i, kind) \in Seq(Segs)
  BY BlockIs, WithProseIs DEF Scans
<1> QED
  BY <1>1 DEF Walk, Scans

(* What a segment that ends in code has above it does not matter.          *)
Closed(pre) == pre \in Seq(Segs) /\ (pre = <<>> \/ Last(pre).code)

LEMMA JoinAppend ==
  ASSUME NEW pre \in Seq(Segs), NEW out \in Seq(Segs), NEW x \in Segs
  PROVE  Append(pre \o out, x) = pre \o Append(out, x)
<1>1. <<x>> \in Seq(Segs) /\ pre \o out \in Seq(Segs)
  BY ConcatProperties
<1>2. Append(pre \o out, x) = (pre \o out) \o <<x>> /\ Append(out, x) = out \o <<x>>
  BY <1>1, AppendIsConcat
<1> QED
  BY <1>1, <1>2, ConcatAssociative

LEMMA JoinLast ==
  ASSUME NEW pre \in Seq(Segs), NEW out \in Seq(Segs), out # <<>>
  PROVE  /\ pre \o out # <<>> /\ Last(pre \o out) = Last(out)
         /\ Front(pre \o out) = pre \o Front(out) /\ Front(out) \in Seq(Segs)
<1>1. PICK s \in Seq(Segs), x \in Segs : out = Append(s, x)
  BY SequenceEmptyOrAppend
<1>2. pre \o s \in Seq(Segs) /\ pre \o out = Append(pre \o s, x)
  BY <1>1, JoinAppend, ConcatProperties
<1>3. Front(out) = s /\ Front(pre \o out) = pre \o s /\ pre \o out # <<>>
  BY <1>1, <1>2, BeginsAppend
<1>4. /\ Len(out) = Len(s) + 1 /\ out[Len(s) + 1] = x
      /\ Len(pre \o out) = Len(pre \o s) + 1 /\ (pre \o out)[Len(pre \o s) + 1] = x
  BY <1>1, <1>2, AppendProperties
<1> QED
  BY <1>3, <1>4 DEF Last

LEMMA ProseJoin ==
  ASSUME NEW pre, Closed(pre), NEW out \in Seq(Segs), NEW i \in Nat, NEW kind
  PROVE  WithProse(pre \o out, i, kind) = pre \o WithProse(out, i, kind)
<1> DEFINE x == [code |-> FALSE, lines |-> {i}]
<1>1. pre \in Seq(Segs) /\ x \in Segs
  BY DEF Closed, Segs
<1>2. CASE kind = "blank"
  BY <1>2 DEF WithProse
<1>3. CASE kind # "blank" /\ out = <<>>
  <2>1. pre \o out = pre
    BY <1>1, <1>3, ConcatEmptySeq
  <2>2. ~(pre # <<>> /\ ~Last(pre).code)
    BY DEF Closed
  <2>3. WithProse(pre, i, kind) = Append(pre, x)
    BY <1>3, <2>2 DEF WithProse
  <2>4. WithProse(out, i, kind) = Append(out, x)
    BY <1>3 DEF WithProse
  <2> HIDE DEF x
  <2>5. Append(pre \o out, x) = pre \o Append(out, x)
    BY <1>1, JoinAppend
  <2> QED
    BY <2>1, <2>3, <2>4, <2>5
<1>4. CASE kind # "blank" /\ out # <<>>
  <2>1. /\ pre \o out # <<>> /\ Last(pre \o out) = Last(out)
        /\ Front(pre \o out) = pre \o Front(out) /\ Front(out) \in Seq(Segs)
    BY <1>1, <1>4, JoinLast
  <2>2. CASE Last(out).code
    <3>1. WithProse(pre \o out, i, kind) = Append(pre \o out, x) /\ WithProse(out, i, kind) = Append(out, x)
      BY <1>4, <2>1, <2>2 DEF WithProse
    <3> HIDE DEF x
    <3>2. Append(pre \o out, x) = pre \o Append(out, x)
      BY <1>1, JoinAppend
    <3> QED
      BY <3>1, <3>2
  <2>3. CASE ~Last(out).code
    <3> DEFINE y == [code |-> FALSE, lines |-> Last(out).lines \cup {i}]
               f == Front(out)
    <3>1. WithProse(pre \o out, i, kind) = Append(pre \o f, y) /\ WithProse(out, i, kind) = Append(f, y)
      BY <1>4, <2>1, <2>3 DEF WithProse
    <3>2. Last(out) \in Segs
      BY <1>4 DEF Last
    <3>3. y \in Segs
      BY <3>2 DEF Segs
    <3>4. f \in Seq(Segs)
      BY <2>1
    <3> HIDE DEF y, f
    <3>5. Append(pre \o f, y) = pre \o Append(f, y)
      BY <1>1, <3>3, <3>4, JoinAppend
    <3> QED
      BY <3>1, <3>5
  <2> QED
    BY <2>2, <2>3
<1> QED
  BY <1>2, <1>3, <1>4

Joined(pre, st) == [open |-> st.open, out |-> pre \o st.out]

LEMMA WalkJoin ==
  ASSUME NEW pre, Closed(pre), NEW st \in Scans, NEW i \in Nat, NEW kind,
         NEW ends \in BOOLEAN, NEW starts \in BOOLEAN
  PROVE  Walk(Joined(pre, st), i, kind, ends, starts) = Joined(pre, Walk(st, i, kind, ends, starts))
<1> DEFINE w == Joined(pre, st)
           x == [code |-> TRUE, lines |-> st.open .. i]
<1>1. /\ st.open \in Nat /\ st.out \in Seq(Segs) /\ pre \in Seq(Segs) /\ w.open = st.open /\ w.out = pre \o st.out
      /\ x \in Segs
  BY DEF Scans, Closed, Joined, Segs
<1>2. Block(w, i) = pre \o Block(st, i) /\ Block(st, i) \in Seq(Segs)
  <2>1. Block(w, i) = Append(pre \o st.out, x) /\ Block(st, i) = Append(st.out, x)
    BY <1>1 DEF Block
  <2> HIDE DEF w, x
  <2>2. Append(pre \o st.out, x) = pre \o Append(st.out, x)
    BY <1>1, JoinAppend
  <2> QED
    BY <2>1, <2>2, BlockIs
<1>3. WithProse(Block(w, i), i, kind) = pre \o WithProse(Block(st, i), i, kind)
  BY <1>2, ProseJoin
<1>4. WithProse(w.out, i, kind) = pre \o WithProse(st.out, i, kind)
  BY <1>1, ProseJoin
<1>5. w = [open |-> st.open, out |-> pre \o st.out]
  BY DEF Joined
<1> HIDE DEF w
<1>6. CASE ends
  <2> DEFINE b == Block(st, i)
             q == WithProse(b, i, kind)
  <2>1. Walk(st, i, kind, ends, starts) = [open |-> 0, out |-> IF kind \in {"lang", "info"} THEN q ELSE b]
    BY <1>6 DEF Walk
  <2>2. Walk(w, i, kind, ends, starts)
        = [open |-> 0, out |-> IF kind \in {"lang", "info"} THEN pre \o q ELSE pre \o b]
    BY <1>2, <1>3, <1>6 DEF Walk
  <2> HIDE DEF q, b
  <2> DEFINE z == IF kind \in {"lang", "info"} THEN q ELSE b
  <2>3. Walk(st, i, kind, ends, starts) = [open |-> 0, out |-> z]
    BY <2>1
  <2>4. Walk(w, i, kind, ends, starts) = [open |-> 0, out |-> pre \o z]
    BY <2>2
  <2> HIDE DEF z
  <2> QED
    BY <2>3, <2>4 DEF Joined, w
<1>7. CASE ~ends /\ st.open # 0
  BY <1>1, <1>5, <1>7 DEF Walk, Joined
<1>8. CASE ~ends /\ st.open = 0 /\ starts
  BY <1>1, <1>8 DEF Walk, Joined
<1>9. CASE ~ends /\ st.open = 0 /\ ~starts
  BY <1>1, <1>4, <1>9 DEF Walk, Joined
<1> QED
  BY <1>6, <1>7, <1>8, <1>9 DEF w

LEMMA WalkIs ==
  ASSUME NEW st \in Scans, NEW i \in Nat
  PROVE  AddLine(st, i) = Walk(st, i, Seen[i], Ends(st, i), Opens(i) /\ Closer(i) # 0)
<1>1. st = [open |-> st.open, out |-> st.out]
  BY DEF Scans
<1>2. \A out : AddProse(out, i) = WithProse(out, i, Seen[i])
  BY DEF AddProse, WithProse
<1>3. Ends(st, i) => st.open # 0
  BY DEF Ends
<1>4. CASE Ends(st, i)
  <2>1. AddLine(st, i) = [open |-> 0, out |-> IF Seen[i] \in {"lang", "info"}
                                              THEN AddProse(Block(st, i), i) ELSE Block(st, i)]
    BY <1>3, <1>4 DEF AddLine, Block
  <2> QED
    BY <1>2, <1>4, <2>1 DEF Walk
<1>5. CASE ~Ends(st, i) /\ st.open # 0
  <2>1. AddLine(st, i) = st
    BY <1>5 DEF AddLine
  <2> QED
    BY <1>5, <2>1 DEF Walk
<1>6. CASE ~Ends(st, i) /\ st.open = 0 /\ Opens(i) /\ Closer(i) # 0
  <2>1. AddLine(st, i) = [st EXCEPT !.open = i]
    BY <1>6 DEF AddLine
  <2> QED
    BY <1>1, <1>6, <2>1 DEF Walk
<1>7. CASE ~Ends(st, i) /\ st.open = 0 /\ ~(Opens(i) /\ Closer(i) # 0)
  <2>1. AddLine(st, i) = [st EXCEPT !.out = AddProse(@, i)]
    BY <1>7 DEF AddLine
  <2>2. AddLine(st, i) = [open |-> st.open, out |-> WithProse(st.out, i, Seen[i])]
    BY <1>1, <1>2, <2>1
  <2> QED
    BY <1>7, <2>2 DEF Walk
<1> QED
  BY <1>4, <1>5, <1>6, <1>7

LEMMA ScannedIs ==
  ASSUME NEW n \in Nat, n = Len(text), NEW from \in Nat
  PROVE  \A i \in 0..n : /\ Scanned(from)[i] \in Scans
                         /\ Scanned(from)[i] = IF i <= from THEN Outside ELSE AddLine(Scanned(from)[i - 1], i)
<1> DEFINE S == Scans
           g == [x \in S \X (1..n) |-> AddLine(x[1], x[2])]
           scan[i \in 0..Len(text)] == IF i <= from THEN Outside ELSE AddLine(scan[i - 1], i)
<1>1. Outside \in S
  <2>1. <<>> \in Seq(Segs)
    OBVIOUS
  <2> QED
    BY <2>1 DEF Outside, Scans
<1>2. \A st \in S, i \in 1..n : AddLine(st, i) \in S
  <2> SUFFICES ASSUME NEW st \in S, NEW i \in 1..n PROVE AddLine(st, i) \in S
    OBVIOUS
  <2>1. i \in Nat /\ st \in Scans /\ Ends(st, i) \in BOOLEAN /\ (Opens(i) /\ Closer(i) # 0) \in BOOLEAN
    BY DEF Ends, Opens
  <2>2. AddLine(st, i) = Walk(st, i, Seen[i], Ends(st, i), Opens(i) /\ Closer(i) # 0)
    BY <2>1, WalkIs
  <2> QED
    BY <2>1, <2>2, WalkType
<1>3. \A x \in S \X (1..n) : x[1] \in S /\ x[2] \in 1..n
  OBVIOUS
<1>4. g \in [S \X (1..n) -> S]
  BY <1>2, <1>3
<1>5. \A st \in S, i \in 1..n : g[<<st, i>>] = AddLine(st, i)
  OBVIOUS
<1>6. Scanned(from) = scan
  BY DEF Scanned
<1> HIDE DEF g, S
<1>7. \E f \in [0..n -> S] : Solves(f, n, from, Outside, g)
  BY <1>1, <1>4, Recursion
<1>8. PICK f \in [0..n -> S] : \A i \in 0..n : f[i] = IF i <= from THEN Outside ELSE g[<<f[i - 1], i>>]
  BY <1>7 DEF Solves
<1>9. \A i \in 0..n : (IF i <= from THEN Outside ELSE g[<<f[i - 1], i>>]) =
                      IF i <= from THEN Outside ELSE AddLine(f[i - 1], i)
  <2> SUFFICES ASSUME NEW i \in 0..n, ~(i <= from) PROVE g[<<f[i - 1], i>>] = AddLine(f[i - 1], i)
    OBVIOUS
  <2>1. i \in 1..n /\ f[i - 1] \in S
    OBVIOUS
  <2> QED
    BY <1>5, <2>1
<1>10. f = [i \in 0..n |-> IF i <= from THEN Outside ELSE AddLine(f[i - 1], i)]
  BY <1>8, <1>9
<1>11. scan = [i \in 0..Len(text) |-> IF i <= from THEN Outside ELSE AddLine(scan[i - 1], i)]
  BY <1>10
<1> HIDE DEF scan
<1>12. \A i \in 0..n : scan[i] = IF i <= from THEN Outside ELSE AddLine(scan[i - 1], i)
  BY <1>11
<1> DEFINE P == {i \in Nat : i <= n => scan[i] \in S}
<1>13. 0 \in P
  BY <1>1, <1>12
<1>14. ASSUME NEW i \in P PROVE i + 1 \in P
  <2> SUFFICES ASSUME i + 1 <= n PROVE scan[i + 1] \in S
    BY <1>14
  <2>1. i \in Nat /\ i + 1 \in 1..n /\ i + 1 \in 0..n /\ (i + 1) - 1 = i /\ scan[i] \in S
    BY <1>14
  <2>2. scan[i + 1] = IF i + 1 <= from THEN Outside ELSE AddLine(scan[i], i + 1)
    BY <1>12, <2>1
  <2> QED
    BY <1>1, <1>2, <2>1, <2>2
<1> HIDE DEF P
<1>15. P = Nat
  <2>1. P \subseteq Nat
    BY DEF P
  <2> QED
    BY <1>13, <1>14, <2>1, Induction
<1> QED
  BY <1>6, <1>12, <1>15 DEF P, S

(* The scan from the first line, in terms of where blocks may start and    *)
(* where they end.                                                         *)
Scan == Scanned(0)
Marks == [i \in 1..Len(text) |-> Closer(i)]
Starts == {i \in 1..Len(text) : Opens(i) /\ Closer(i) # 0}
Shut(o, i, marks) == o # 0 /\ marks[o] = i
Whole ==
  \A i \in 0..Len(text) :
    /\ Scan[i] \in Scans
    /\ Scan[i].open # 0 => Scan[i].open \in 1..i /\ Marker(Seen[Scan[i].open]) # "no"
    /\ Scan[i] = IF i = 0 THEN Outside
                 ELSE Walk(Scan[i - 1], i, Seen[i], Shut(Scan[i - 1].open, i, Marks), i \in Starts)

LEMMA WholeIs ==
  ASSUME TextInv
  PROVE  Whole
<1> DEFINE n == Len(text)
           o == 0
<1>1. n \in Nat /\ o \in Nat
  BY SeensAre DEF Seens
<1>2. \A i \in 0..n : /\ Scan[i] \in Scans
                      /\ Scan[i] = IF i <= 0 THEN Outside ELSE AddLine(Scan[i - 1], i)
  <2> HIDE DEF o
  <2>1. \A i \in 0..n : /\ Scanned(o)[i] \in Scans
                        /\ Scanned(o)[i] = IF i <= o THEN Outside ELSE AddLine(Scanned(o)[i - 1], i)
    BY <1>1, ScannedIs
  <2> QED
    BY <2>1 DEF Scan, o
<1> DEFINE P == {i \in Nat : i <= n => (Scan[i].open # 0 => /\ Scan[i].open \in 1..i
                                                            /\ Marker(Seen[Scan[i].open]) # "no")}
<1>3. 0 \in P
  BY <1>1, <1>2 DEF Outside
<1>4. ASSUME NEW i \in 1..n
      PROVE  Scan[i] = Walk(Scan[i - 1], i, Seen[i], Ends(Scan[i - 1], i), i \in Starts)
  <2>1. i \in Nat /\ i - 1 \in 0..n /\ i \in 0..n /\ ~(i <= 0)
    BY <1>1
  <2>2. Scan[i] = AddLine(Scan[i - 1], i) /\ Scan[i - 1] \in Scans
    BY <1>2, <2>1
  <2>3. (i \in Starts) = (Opens(i) /\ Closer(i) # 0)
    BY DEF Starts, Opens
  <2> QED
    BY <2>1, <2>2, <2>3, WalkIs
<1>5. ASSUME NEW i \in P PROVE i + 1 \in P
  <2> SUFFICES ASSUME i + 1 <= n, Scan[i + 1].open # 0
               PROVE  /\ Scan[i + 1].open \in 1..i + 1
                      /\ Marker(Seen[Scan[i + 1].open]) # "no"
    BY <1>5
  <2> DEFINE st == Scan[i]
             j == i + 1
  <2>1. i \in Nat /\ j \in 1..n /\ j - 1 = i /\ i \in 0..n
    BY <1>1, <1>5
  <2>2. st.open # 0 => st.open \in 1..i /\ Marker(Seen[st.open]) # "no"
    BY <1>1, <1>5, <2>1
  <2>3. Scan[j] = Walk(st, j, Seen[j], Ends(st, j), j \in Starts)
    BY <1>4, <2>1
  <2>4. Scan[j].open \in {0, st.open} \/ (Scan[j].open = j /\ j \in Starts)
    <3> HIDE DEF st, j
    <3> QED
      BY <2>3 DEF Walk
  <2>5. j \in Starts => Marker(Seen[j]) # "no"
    BY DEF Starts, Opens, Marker
  <2>6. CASE Scan[j].open = st.open
    BY <2>1, <2>2, <2>6
  <2>7. CASE Scan[j].open = j /\ j \in Starts
    BY <2>1, <2>5, <2>7
  <2> QED
    BY <2>4, <2>6, <2>7
<1> HIDE DEF P
<1>6. P = Nat
  <2>1. P \subseteq Nat
    BY DEF P
  <2> QED
    BY <1>3, <1>5, <2>1, Induction
<1>7. \A i \in 0..n : Scan[i].open # 0 => Scan[i].open \in 1..i /\ Marker(Seen[Scan[i].open]) # "no"
  BY <1>1, <1>6 DEF P
<1>8. ASSUME NEW i \in 1..n PROVE Ends(Scan[i - 1], i) = Shut(Scan[i - 1].open, i, Marks)
  <2>1. i - 1 \in 0..n
    BY <1>1
  <2>2. Scan[i - 1].open # 0 => Scan[i - 1].open \in 1..n
    BY <1>1, <1>7, <2>1
  <2> QED
    BY <2>2 DEF Ends, Shut, Marks
<1>9. \A i \in 0..n : i # 0 => i \in 1..n
  BY <1>1
<1>10. ASSUME NEW i \in 0..n
       PROVE  Scan[i] = IF i = 0 THEN Outside
                        ELSE Walk(Scan[i - 1], i, Seen[i], Shut(Scan[i - 1].open, i, Marks), i \in Starts)
  BY <1>2, <1>4, <1>8, <1>9
<1> QED
  BY <1>2, <1>7, <1>10 DEF Whole

SameMarks == \A i, j \in 1..Len(text) :
                Marker(text[i]) # "no" /\ Marker(text[j]) # "no" => Marker(text[i]) = Marker(text[j])

LEMMA MarksSame ==
  ASSUME TextInv, SameMarks, NEW i \in 1..Len(text), NEW j \in 1..Len(text),
         Marker(Seen[i]) # "no", Marker(Seen[j]) # "no"
  PROVE  Marker(Seen[i]) = Marker(Seen[j])
<1>1. Marker("prose") = "no"
  BY DEF Marker
<1>2. \A l \in 1..Len(text) : Seen[l] = text[l] \/ Seen[l] = "prose"
  BY DEF Seen, TextInv, Written
<1> QED
  BY <1>1, <1>2 DEF SameMarks

(* What is posted are the segments of the lines above, and the last of     *)
(* these ends a block, whose opener is found from the first line on.       *)
LiveInv ==
  /\ posted \in Seq(Segs)
  /\ SameMarks => /\ Scan[base] = [open |-> 0, out |-> posted]
                  /\ base # 0 => /\ posted # <<>> /\ Last(posted).code
                                 /\ Marker(Seen[base]) # "no"
                                 /\ Shut(Scan[base - 1].open, base, Marks)

LEMMA ScanJoin ==
  ASSUME TextInv, LiveInv, SameMarks
  PROVE  /\ Closed(posted)
         /\ \A i \in base..Len(text) : /\ Scanned(base)[i] \in Scans
                                       /\ Scan[i] = Joined(posted, Scanned(base)[i])
<1> DEFINE n == Len(text)
           scan == Scanned(base)
<1>1. n \in Nat /\ base \in Nat /\ base <= n
  BY SeensAre DEF Seens, TextInv
<1>2. Whole
  BY WholeIs
<1>3. \A i \in 0..n : scan[i] \in Scans /\ scan[i] = IF i <= base THEN Outside ELSE AddLine(scan[i - 1], i)
  BY <1>1, ScannedIs
<1>4. Closed(posted)
  <2>1. posted \in Seq(Segs) /\ Scan[base] = [open |-> 0, out |-> posted]
    BY DEF LiveInv
  <2>2. base # 0 => Last(posted).code
    BY DEF LiveInv
  <2>3. base = 0 => posted = <<>>
    <3> SUFFICES ASSUME base = 0 PROVE posted = <<>>
      OBVIOUS
    <3>1. Scan[0] = Outside
      BY <1>1, <1>2 DEF Whole
    <3> QED
      BY <2>1, <3>1 DEF Outside
  <2> QED
    BY <2>1, <2>2, <2>3 DEF Closed
<1> HIDE DEF scan
<1> DEFINE P == {i \in Nat : base <= i /\ i <= n => Scan[i] = Joined(posted, scan[i])}
<1>5. Scan[base] = Joined(posted, scan[base])
  <2>1. scan[base] = Outside
    BY <1>1, <1>3
  <2>2. Scan[base] = [open |-> 0, out |-> posted] /\ posted \in Seq(Segs)
    BY DEF LiveInv
  <2>3. posted \o <<>> = posted
    BY <2>2, ConcatEmptySeq
  <2> QED
    BY <2>1, <2>2, <2>3 DEF Outside, Joined
<1>6. 0 \in P
  BY <1>1, <1>5
<1>7. ASSUME NEW i \in P PROVE i + 1 \in P
  <2> SUFFICES ASSUME base <= i + 1, i + 1 <= n PROVE Scan[i + 1] = Joined(posted, scan[i + 1])
    BY <1>7
  <2> DEFINE j == i + 1
  <2>1. i \in Nat
    BY <1>7
  <2>2. CASE base = i + 1
    BY <1>5, <2>2
  <2>3. CASE base # i + 1
    <3>1. i \in Nat /\ i \in 0..n /\ base <= i /\ j \in 0..n /\ j \in 1..n /\ ~(j <= base) /\ j - 1 = i /\ j # 0
      BY <1>1, <2>1, <2>3
    <3>2. Scan[i] = Joined(posted, scan[i])
      BY <1>7, <3>1
    <3> DEFINE st == scan[i]
               sh == Shut(Scan[i].open, j, Marks)
               go == j \in Starts
    <3>3. Scan[j] = Walk(Scan[i], j, Seen[j], sh, go) /\ Scan[i].open = st.open
      BY <1>2, <3>1, <3>2 DEF Whole, Joined
    <3>4. st.open # 0 => st.open \in 1..n
      <4>1. Scan[i].open # 0 => Scan[i].open \in 1..i
        BY <1>2, <3>1 DEF Whole
      <4> QED
        BY <1>1, <3>1, <3>3, <4>1
    <3>5. Ends(st, j) = sh /\ (Opens(j) /\ Closer(j) # 0) = go
      BY <3>1, <3>3, <3>4 DEF Ends, Shut, Marks, Starts, Opens
    <3>6. scan[j] = AddLine(st, j) /\ st \in Scans
      BY <1>3, <3>1
    <3>7. scan[j] = Walk(st, j, Seen[j], sh, go)
      BY <3>1, <3>5, <3>6, WalkIs
    <3>8. sh \in BOOLEAN /\ go \in BOOLEAN /\ j \in Nat
      BY <3>1 DEF Shut
    <3> HIDE DEF sh, go, st, j
    <3>9. Walk(Joined(posted, st), j, Seen[j], sh, go) = Joined(posted, Walk(st, j, Seen[j], sh, go))
      BY <1>4, <3>6, <3>8, WalkJoin
    <3>10. Scan[j] = Joined(posted, scan[j])
      BY <3>2, <3>3, <3>7, <3>9 DEF st
    <3> QED
      BY <3>10 DEF j
  <2> QED
    BY <2>2, <2>3
<1> HIDE DEF P
<1>8. P = Nat
  <2>1. P \subseteq Nat
    BY DEF P
  <2> QED
    BY <1>6, <1>7, <2>1, Induction
<1>9. ASSUME NEW i \in base..n PROVE scan[i] \in Scans /\ Scan[i] = Joined(posted, scan[i])
  <2>1. i \in 0..n /\ i \in Nat /\ base <= i /\ i <= n
    BY <1>1
  <2> QED
    BY <1>3, <1>8, <2>1 DEF P
<1> QED
  BY <1>4, <1>9 DEF scan

LEMMA MinSame ==
  ASSUME NEW T, NEW U, T \subseteq Nat, U \subseteq Nat, NEW b \in Nat, b \in T,
         \A x \in Nat : x <= b => (x \in T <=> x \in U)
  PROVE  Min(T) = Min(U) /\ Min(T) \in Nat /\ Min(T) \in T
<1>1. b \in U /\ T # {} /\ U # {}
  OBVIOUS
<1>2. /\ Min(T) \in T /\ \A y \in T : Min(T) <= y
      /\ Min(U) \in U /\ \A y \in U : Min(U) <= y
  BY <1>1, MinIs
<1> DEFINE t == Min(T)
           u == Min(U)
<1>3. t \in Nat /\ u \in Nat /\ t <= b /\ u <= b
  BY <1>1, <1>2
<1> HIDE DEF t, u
<1>4. t \in U /\ u \in T
  BY <1>2, <1>3 DEF t, u
<1>5. t <= u /\ u <= t
  BY <1>2, <1>4 DEF t, u
<1>6. t = u
  BY <1>3, <1>5
<1> QED
  BY <1>2, <1>3, <1>6 DEF t, u

(* What was found above a closing line stands when lines are added below.  *)
LEMMA MarksKept ==
  ASSUME TextInv, TextInv', SameMarks, SameMarks', base' = base, base # 0, Marker(Seen[base]) # "no",
         Len(text) <= Len(text'), \A i \in 1..base : Seen'[i] = Seen[i],
         NEW i \in 1..base, i # base
  PROVE  /\ Marker(Seen[i]) # "no" => Marks'[i] = Marks[i] /\ Marks[i] # 0
         /\ (i \in Starts') <=> (i \in Starts)
<1>1. /\ Len(text) \in Nat /\ base \in 1..Len(text) /\ base \in Nat
      /\ Len(text') \in Nat /\ base \in 1..Len(text')
      /\ i \in Nat /\ i < base /\ i \in 1..Len(text) /\ i \in 1..Len(text')
      /\ i < Len(text) /\ i < Len(text')
  BY SeensAre DEF Seens, TextInv, Written
<1>2. Seen'[i] = Seen[i] /\ Seen'[base] = Seen[base]
  BY <1>1
<1>3. ASSUME Marker(Seen[i]) # "no" PROVE Marks'[i] = Marks[i] /\ Marks[i] # 0
  <2> DEFINE T == {j \in i + 1 .. Len(text) : Marker(Seen[j]) = Marker(Seen[i])}
             U == {j \in i + 1 .. Len(text') : Marker(Seen'[j]) = Marker(Seen'[i])}
  <2>1. Marker(Seen[i]) = Marker(Seen[base])
    BY <1>1, <1>3, MarksSame
  <2>2. base \in T /\ T \subseteq Nat /\ U \subseteq Nat
    BY <1>1, <2>1
  <2>3. ASSUME NEW x \in Nat, x <= base PROVE x \in T <=> x \in U
    <3>1. x \in i + 1 .. Len(text) => x \in 1..base
      BY <1>1, <2>3
    <3>2. x \in i + 1 .. Len(text) <=> x \in i + 1 .. Len(text')
      BY <1>1, <2>3
    <3> QED
      BY <1>2, <3>1, <3>2
  <2>4. Marks[i] = IF T = {} THEN 0 ELSE Min(T)
    BY <1>1 DEF Marks, Closer
  <2>5. Marks'[i] = IF U = {} THEN 0 ELSE Min(U)
    BY <1>1 DEF Marks, Closer
  <2>6. \A x \in T : x # 0
    BY <1>1
  <2>7. U # {}
    BY <1>1, <2>2, <2>3
  <2> HIDE DEF T, U
  <2>8. Min(T) = Min(U) /\ Min(T) \in T
    BY <1>1, <2>2, <2>3, MinSame
  <2> QED
    BY <2>2, <2>4, <2>5, <2>6, <2>7, <2>8
<1>4. Marks[i] = Closer(i) /\ Marks'[i] = Closer(i)'
  BY <1>1 DEF Marks
<1>5. Opens(i) <=> Seen[i] \in {"ticks", "lang", "tildes"}
  BY <1>1 DEF Opens
<1>6. Opens(i)' <=> Seen[i] \in {"ticks", "lang", "tildes"}
  BY <1>1, <1>2 DEF Opens
<1>7. Opens(i) => Marker(Seen[i]) # "no"
  BY <1>5 DEF Marker
<1>8. (i \in Starts <=> Opens(i) /\ Closer(i) # 0) /\ (i \in Starts' <=> Opens(i)' /\ Closer(i)' # 0)
  BY <1>1 DEF Starts
<1> QED
  BY <1>3, <1>4, <1>5, <1>6, <1>7, <1>8

LEMMA ScanKept ==
  ASSUME TextInv, TextInv', LiveInv, SameMarks, SameMarks', base' = base,
         Len(text) <= Len(text'), \A i \in 1..base : Seen'[i] = Seen[i]
  PROVE  \A i \in 0..base : Scan'[i] = Scan[i]
<1>1. /\ Len(text) \in Nat /\ base \in Nat /\ base <= Len(text)
      /\ Len(text') \in Nat /\ base <= Len(text')
  BY SeensAre DEF Seens, TextInv, Written
<1>2. Whole
  BY WholeIs
<1>3. Whole'
  <2>1. TextInv' => Whole'
    BY WholeIs, PTL
  <2> QED
    BY <2>1
<1>4. base # 0 => /\ Marker(Seen[base]) # "no" /\ Shut(Scan[base - 1].open, base, Marks)
  BY DEF LiveInv
<1> DEFINE P == {i \in Nat : i <= base => Scan'[i] = Scan[i]}
<1>5. 0 \in P
  <2>1. 0 \in 0..Len(text) /\ 0 \in 0..Len(text')
    BY <1>1
  <2> QED
    BY <1>2, <1>3, <2>1 DEF Whole
<1>6. ASSUME NEW h \in P PROVE h + 1 \in P
  <2> SUFFICES ASSUME h + 1 <= base PROVE Scan'[h + 1] = Scan[h + 1]
    BY <1>6
  <2> DEFINE i == h + 1
             st == Scan[h]
             o == st.open
  <2>1. /\ h \in Nat /\ i - 1 = h /\ i # 0 /\ base # 0 /\ i \in 1..base
        /\ h \in 0..Len(text) /\ i \in 0..Len(text) /\ i \in 0..Len(text')
    BY <1>1, <1>6
  <2>2. Scan'[h] = st
    BY <1>1, <1>6, <2>1
  <2>3. st \in Scans /\ (o # 0 => o \in 1..h /\ Marker(Seen[o]) # "no")
    BY <1>2, <2>1 DEF Whole
  <2>4. Scan[i] = Walk(st, i, Seen[i], Shut(o, i, Marks), i \in Starts)
    BY <1>2, <2>1 DEF Whole
  <2>5. Scan'[i] = Walk(st, i, Seen'[i], Shut(o, i, Marks'), i \in Starts')
    BY <1>3, <2>1, <2>2 DEF Whole
  <2>6. Seen'[i] = Seen[i]
    BY <2>1
  <2>7. Shut(o, i, Marks') = Shut(o, i, Marks)
    <3>1. CASE o = 0
      BY <3>1 DEF Shut
    <3>2. CASE o # 0
      <4>1. o \in 1..base /\ o # base /\ Marker(Seen[o]) # "no"
        BY <1>1, <2>1, <2>3, <3>2
      <4> HIDE DEF o
      <4>2. Marks'[o] = Marks[o]
        BY <1>4, <2>1, <4>1, MarksKept
      <4> QED
        BY <4>2 DEF Shut
    <3> QED
      BY <3>1, <3>2
  <2> HIDE DEF i, st, o
  <2>8. CASE i # base
    <3>1. (i \in Starts') = (i \in Starts)
      BY <1>4, <2>1, <2>8, MarksKept
    <3> QED
      BY <2>4, <2>5, <2>6, <2>7, <3>1 DEF i
  <2>9. CASE i = base
    <3>1. Shut(o, i, Marks)
      BY <1>4, <2>1, <2>9 DEF st, o
    <3> QED
      BY <2>4, <2>5, <2>6, <2>7, <3>1 DEF Walk, i
  <2> QED
    BY <2>8, <2>9
<1> HIDE DEF P
<1>7. P = Nat
  <2>1. P \subseteq Nat
    BY DEF P
  <2> QED
    BY <1>5, <1>6, <2>1, Induction
<1> QED
  BY <1>1, <1>7 DEF P

LEMMA ScanSame ==
  ASSUME text' = text, partial' = partial
  PROVE  Seen' = Seen /\ Scan' = Scan /\ Marks' = Marks
<1>1. Seen' = Seen
  BY DEF Seen
<1>2. Scan' = Scan
  BY <1>1 DEF Scan, Scanned, AddLine, AddProse, Ends, Opens, Closer
<1>3. Marks' = Marks
  BY <1>1 DEF Marks, Closer
<1> QED
  BY <1>1, <1>2, <1>3

LEMMA LiveStep ==
  ASSUME TextInv, TextInv', LiveInv, [MCNext]_mcvars
  PROVE  LiveInv'
<1>1. /\ Len(text) \in Nat /\ base \in Nat /\ base <= Len(text) /\ posted \in Seq(Segs)
      /\ Len(text') \in Nat
  BY SeensAre DEF Seens, TextInv, Written, LiveInv
<1>0. DOMAIN text = 1..Len(text) /\ DOMAIN text' = 1..Len(text')
  BY DEF TextInv, Written
<1>2. CASE TypeOn \/ \E kind \in Kinds, p \in {"none", "vague", "clear"} : Type(kind, p)
  <2>1. posted' = posted /\ base' = base
    BY <1>2 DEF TypeOn, Type
  <2>2. /\ Len(text) <= Len(text') /\ (Len(text') # Len(text) \/ base < Len(text))
        /\ \A i \in 1..Len(text) : text'[i] = text[i]
    <3>1. CASE TypeOn
      <4>1. text' = text /\ base < Len(text)
        BY <3>1 DEF TypeOn, TextInv
      <4> QED
        BY <1>1, <4>1
    <3>2. ASSUME NEW kind \in Kinds, NEW p \in {"none", "vague", "clear"}, Type(kind, p)
          PROVE  Len(text') = Len(text) + 1 /\ \A i \in 1..Len(text) : text'[i] = text[i]
      <4>1. text' = Append(text, kind) /\ kind \in AllKinds /\ text \in Seq(AllKinds)
        BY <3>2, KindsAssumption DEF Type, TextInv, Written
      <4> QED
        BY <4>1, AppendProperties
    <3> QED
      BY <1>1, <1>2, <3>1, <3>2
  <2>3. SUFFICES ASSUME SameMarks'
                 PROVE  /\ Scan'[base] = [open |-> 0, out |-> posted]
                        /\ base # 0 => /\ posted # <<>> /\ Last(posted).code
                                       /\ Marker(Seen'[base]) # "no"
                                       /\ Shut(Scan'[base - 1].open, base, Marks')
    BY <1>1, <2>1 DEF LiveInv
  <2>4. SameMarks
    <3> SUFFICES ASSUME NEW i \in 1..Len(text), NEW j \in 1..Len(text),
                        Marker(text[i]) # "no", Marker(text[j]) # "no"
                 PROVE  Marker(text[i]) = Marker(text[j])
      BY DEF SameMarks
    <3>1. /\ i \in 1..Len(text') /\ j \in 1..Len(text')
          /\ text'[i] = text[i] /\ text'[j] = text[j]
      BY <1>1, <2>2
    <3> QED
      BY <2>3, <3>1 DEF SameMarks
  <2>5. \A i \in 1..base : Seen'[i] = Seen[i]
    <3> SUFFICES ASSUME NEW i \in 1..base PROVE Seen'[i] = Seen[i]
      OBVIOUS
    <3>0. (partial # "none" => base < Len(text)) /\ (partial' # "none" => base' < Len(text'))
      BY DEF TextInv
    <3>1. i \in 1..Len(text) /\ i \in 1..Len(text') /\ i \in Nat
      BY <1>1, <2>2
    <3>2. (i # Len(text) \/ partial = "none") /\ (i # Len(text') \/ partial' = "none")
      BY <1>1, <2>1, <2>2, <3>0, <3>1
    <3>3. Seen[i] = text[i]
      BY <1>0, <3>1, <3>2 DEF Seen
    <3>4. Seen'[i] = text'[i]
      BY <1>0, <3>1, <3>2 DEF Seen
    <3> QED
      BY <2>2, <3>1, <3>3, <3>4
  <2>6. \A i \in 0..base : Scan'[i] = Scan[i]
    BY <2>1, <2>2, <2>3, <2>4, <2>5, ScanKept
  <2>7. /\ Scan[base] = [open |-> 0, out |-> posted]
        /\ base # 0 => /\ posted # <<>> /\ Last(posted).code
                       /\ Marker(Seen[base]) # "no"
                       /\ Shut(Scan[base - 1].open, base, Marks)
    BY <2>4 DEF LiveInv
  <2>8. ASSUME base # 0
        PROVE  Marker(Seen'[base]) # "no" /\ Shut(Scan'[base - 1].open, base, Marks')
    <3> DEFINE o == Scan[base - 1].open
    <3>1. base - 1 \in 0..base /\ base - 1 \in 0..Len(text) /\ base \in 1..base
      BY <1>1, <2>8
    <3>2. o # 0 => o \in 1..base - 1 /\ Marker(Seen[o]) # "no"
      BY <3>1, WholeIs DEF Whole
    <3>3. o # 0 /\ Marks[o] = base
      BY <2>7, <2>8 DEF Shut
    <3>4. Scan'[base - 1].open = o /\ Marker(Seen'[base]) # "no"
      BY <2>5, <2>6, <2>7, <2>8, <3>1
    <3> HIDE DEF o
    <3>5. o \in 1..base /\ o # base /\ Marker(Seen[o]) # "no"
      BY <1>1, <3>2, <3>3
    <3>6. Marks'[o] = Marks[o]
      BY <2>1, <2>2, <2>3, <2>4, <2>5, <2>7, <2>8, <3>5, MarksKept
    <3> QED
      BY <3>3, <3>4, <3>6 DEF Shut
  <2>9. Scan'[base] = Scan[base]
    BY <1>1, <2>6
  <2> QED
    BY <2>7, <2>8, <2>9
<1>3. CASE SplitLive
  <2> DEFINE e == ClosedEnd
             scan == Scanned(base)
  <2>1. /\ text' = text /\ partial' = partial /\ base' = e /\ e # base
        /\ posted' = posted \o scan[e].out
    BY <1>3 DEF SplitLive, Due, Segments
  <2>2. /\ e \in base + 1 .. Len(text) /\ Ends(scan[e - 1], e) /\ Seen[e] \in {"ticks", "tildes"}
    BY <2>1, ClosedEndIs
  <2>3. Seen' = Seen /\ Scan' = Scan /\ Marks' = Marks
    BY <2>1, ScanSame
  <2> HIDE DEF e, scan
  <2>4. /\ e \in Nat /\ e # 0 /\ e - 1 \in base..Len(text) /\ e \in base..Len(text) /\ ~(e <= base)
        /\ e \in 0..Len(text) /\ e - 1 \in 0..Len(text) /\ e \in 1..Len(text)
    BY <1>1, <2>2
  <2>5. \A i \in 0..Len(text) : scan[i] \in Scans /\ scan[i] = IF i <= base THEN Outside ELSE AddLine(scan[i - 1], i)
    BY <1>1, ScannedIs DEF scan
  <2>6. scan[e] \in Scans /\ scan[e - 1] \in Scans /\ scan[e] = AddLine(scan[e - 1], e)
    BY <2>4, <2>5
  <2>7. scan[e] = [open |-> 0, out |-> Block(scan[e - 1], e)]
    <3>1. scan[e] = Walk(scan[e - 1], e, Seen[e], Ends(scan[e - 1], e), Opens(e) /\ Closer(e) # 0)
      BY <2>4, <2>6, WalkIs
    <3> QED
      BY <2>2, <3>1 DEF Walk
  <2>8. posted' \in Seq(Segs)
    <3>1. scan[e].out \in Seq(Segs)
      BY <2>6 DEF Scans
    <3> QED
      BY <1>1, <2>1, <3>1, ConcatProperties
  <2>9. ASSUME SameMarks
        PROVE  /\ Scan[e] = [open |-> 0, out |-> posted']
               /\ posted' # <<>> /\ Last(posted').code
               /\ Marker(Seen[e]) # "no"
               /\ Shut(Scan[e - 1].open, e, Marks)
    <3>1. Scan[e] = Joined(posted, scan[e]) /\ Scan[e - 1] = Joined(posted, scan[e - 1])
      BY <2>4, <2>9, ScanJoin DEF scan
    <3>2. Scan[e] = [open |-> 0, out |-> posted']
      BY <2>1, <2>7, <3>1 DEF Joined
    <3>3. posted' # <<>> /\ Last(posted').code
      <4> DEFINE b == Block(scan[e - 1], e)
      <4>1. b \in Seq(Segs) /\ b # <<>> /\ Last(b).code
        BY <2>4, <2>6, BlockIs
      <4>2. posted' = posted \o b
        BY <2>1, <2>7
      <4> HIDE DEF b
      <4> QED
        BY <1>1, <4>1, <4>2, JoinLast
    <3>4. Marker(Seen[e]) # "no"
      BY <2>2 DEF Marker
    <3>5. Scan[e - 1].open = scan[e - 1].open
      BY <3>1 DEF Joined
    <3>6. Scan[e - 1].open # 0 => Scan[e - 1].open \in 1..e - 1
      BY <2>4, WholeIs DEF Whole
    <3>7. Scan[e - 1].open # 0 /\ e = Closer(Scan[e - 1].open)
      BY <2>2, <3>5 DEF Ends
    <3>8. Scan[e - 1].open \in 1..Len(text)
      BY <1>1, <2>4, <3>6, <3>7
    <3>9. Marks[Scan[e - 1].open] = e
      BY <3>7, <3>8 DEF Marks
    <3> QED
      BY <3>2, <3>3, <3>4, <3>7, <3>9 DEF Shut
  <2>10. SameMarks' => SameMarks
    BY <2>1 DEF SameMarks
  <2> QED
    BY <2>1, <2>3, <2>8, <2>9, <2>10 DEF LiveInv
<1>4. CASE Tick \/ UNCHANGED vars
  <2>1. text' = text /\ partial' = partial /\ base' = base /\ posted' = posted
    BY <1>4 DEF Tick, vars
  <2>2. Seen' = Seen /\ Scan' = Scan /\ Marks' = Marks
    BY <2>1, ScanSame
  <2> QED
    BY <2>1, <2>2 DEF LiveInv, SameMarks
<1> QED
  BY <1>2, <1>3, <1>4 DEF MCNext, mcvars, Next

(* A reply with one kind of fence has the marks of that kind.              *)
LEMMA OneKindIs ==
  ASSUME TextInv, Cardinality({Marker(text[i]) : i \in DOMAIN text} \ {"no"}) <= 1
  PROVE  SameMarks
<1> SUFFICES ASSUME NEW i \in 1..Len(text), NEW j \in 1..Len(text),
                    Marker(text[i]) # "no", Marker(text[j]) # "no", Marker(text[i]) # Marker(text[j])
             PROVE  FALSE
  BY DEF SameMarks
<1> DEFINE M == {Marker(text[l]) : l \in DOMAIN text} \ {"no"}
<1>1. i \in DOMAIN text /\ j \in DOMAIN text
  BY DEF TextInv, Written
<1>2. \A kind : Marker(kind) \in {"no", "ticks", "tildes"}
  BY DEF Marker
<1>3. M = {"ticks", "tildes"}
  BY <1>1, <1>2
<1>4. Cardinality({"ticks", "tildes"}) = 2
  <2> DEFINE A == {"ticks"}
  <2>1. IsFiniteSet(A) /\ Cardinality(A) = 1
    BY FS_Singleton
  <2>2. "tildes" \notin A /\ {"ticks", "tildes"} = A \cup {"tildes"}
    OBVIOUS
  <2> HIDE DEF A
  <2>3. Cardinality(A \cup {"tildes"}) = Cardinality(A) + 1
    BY <2>1, <2>2, FS_AddElement
  <2>4. Cardinality(A \cup {"tildes"}) = 2
    BY <2>1, <2>3
  <2> QED
    BY <2>2, <2>4, Zenon
<1> HIDE DEF M
<1>5. Cardinality(M) <= 1
  BY DEF M
<1>6. Cardinality(M) = 2
  BY <1>3, <1>4
<1> QED
  BY <1>5, <1>6

LEMMA BlocksMatch ==
  ASSUME TextInv, LiveInv
  PROVE  LiveBlocksMatch
<1> SUFFICES ASSUME Cardinality({Marker(text[i]) : i \in DOMAIN text} \ {"no"}) <= 1
             PROVE  posted \o Segments(base, Len(text)) = Segments(0, Len(text))
  BY DEF LiveBlocksMatch
<1>1. SameMarks
  BY OneKindIs
<1>2. Len(text) \in base..Len(text)
  BY SeensAre DEF Seens, TextInv
<1>3. Scan[Len(text)] = Joined(posted, Scanned(base)[Len(text)])
  BY <1>1, <1>2, ScanJoin
<1> QED
  BY <1>3 DEF Segments, Scan, Joined

(* What the reader has seen of a reply stands: a frame only grows, and     *)
(* blocks that were posted early read as in the finished text, for a reply *)
(* of any length (clip_partial_table, demote_headings,                     *)
(* split_closed_blocks, segment_blocks).                                   *)
THEOREM SeenStands == MCSpec => TextStands
<1>1. MCInit => LiveInv
  <2> SUFFICES ASSUME MCInit PROVE LiveInv
    OBVIOUS
  <2>1. TextInv /\ base = 0 /\ posted = <<>> /\ text = <<>>
    BY DEF MCInit, Init, TextInv, Written
  <2>2. Scan[0] = Outside
    BY <2>1, WholeIs DEF Whole
  <2> QED
    BY <2>1, <2>2 DEF LiveInv, Outside
<1>2. TextInv /\ TextInv' /\ LiveInv /\ [MCNext]_mcvars => LiveInv'
  BY LiveStep
<1>3. TextInv /\ LiveInv => LiveBlocksMatch
  BY BlocksMatch
<1> QED
  BY <1>1, <1>2, <1>3, TextInvStays, FramesOnlyGrow, PTL DEF MCSpec, TextStands
=============================================================================
