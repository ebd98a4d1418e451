-------------------------- MODULE TurnStream_proofs --------------------------
(***************************************************************************)
(* What TurnStream checks on three messages, proved for every set of       *)
(* messages: no answer is given twice, and none to another message as long *)
(* as run() can tell what became of the messages injected into its turns.  *)
(* From "Streamer" on, for every turn: what the model wrote is posted once *)
(* and in order, and no preview and no control plate outlives the turn.    *)
(***************************************************************************)
EXTENDS TurnStream, Streamer, SequenceTheorems, TLAPS

(* run() knows what it was called for; run(None) sends nothing. *)
CurKnown ==
  /\ rpc = "connect" => cur \in Messages \cup {FollowUp}
  /\ rpc = "send" => cur \in Messages

TypeInv == TypeOK /\ CurKnown

-----------------------------------------------------------------------------
(* Where a message may be: with its handler, in the queue, in run()'s      *)
(* hand, in the CLI's pipe, turn or output, in the stash, in the result    *)
(* that run() settles, and in the replies.                                 *)

Elems(s) == {s[i] : i \in DOMAIN s}
AnswersOf(s) == UNION {s[i].answers : i \in DOMAIN s}

Outside == {m \in Messages : hpc[m] \in {"new", "sending"}}
InQueue == Elems(queue)
InHand == IF rpc \in {"connect", "send"} THEN {cur} ELSE {}
InPipe == Elems(inbox)
InStream == AnswersOf(stream)
InStash == AnswersOf(stash)
InReplies == UNION {reply[m] : m \in Messages}

(* A message is in at most one place. *)
OnePlace ==
  \A m \in Messages :
    /\ m \in Outside => m \notin InQueue \cup InHand \cup InPipe \cup answering \cup InStream
                                  \cup InStash \cup result \cup InReplies \cup followed
    /\ m \in InQueue => m \notin InHand \cup InPipe \cup answering \cup InStream
                                  \cup InStash \cup result \cup InReplies \cup followed
    /\ m \in InHand => m \notin InPipe \cup answering \cup InStream
                                  \cup InStash \cup result \cup InReplies \cup followed
    /\ m \in InPipe => m \notin answering \cup InStream
                                  \cup InStash \cup result \cup InReplies \cup followed
    /\ m \in answering => m \notin InStream \cup InStash \cup result \cup InReplies \cup followed
    /\ m \in InStream => m \notin InStash \cup result \cup InReplies \cup followed
    /\ m \in InStash => m \notin result \cup InReplies \cup followed
    /\ m \in result => m \notin InReplies \cup followed
    /\ m \in InReplies => m \notin followed

(* ... and once in that place. *)
Distinct(s) == \A i, j \in DOMAIN s : s[i] = s[j] => i = j
Disjoint(s) == \A i, j \in DOMAIN s : i # j => s[i].answers \cap s[j].answers = {}
RepliesDisjoint == \A m, n \in Messages : m # n => reply[m] \cap reply[n] = {}

OnceInPlace ==
  Distinct(queue) /\ Distinct(inbox) /\ Disjoint(stream) /\ Disjoint(stash) /\ RepliesDisjoint

IInv == TypeInv /\ OnePlace /\ OnceInPlace

-----------------------------------------------------------------------------
(* Sequences                                                               *)

(* A sequence is taken from its head. *)
LEMMA TailElems ==
  ASSUME NEW S, NEW s \in Seq(S), s # <<>>, Distinct(s)
  PROVE  /\ Head(s) \in S /\ Tail(s) \in Seq(S) /\ Distinct(Tail(s))
         /\ Head(s) \in Elems(s) /\ Elems(Tail(s)) = Elems(s) \ {Head(s)}
<1>1. /\ Head(s) = s[1] /\ Len(s) \in Nat \ {0} /\ DOMAIN s = 1..Len(s) /\ Tail(s) \in Seq(S)
      /\ DOMAIN Tail(s) = 1..(Len(s) - 1)
      /\ \A i \in 1..(Len(s) - 1) : Tail(s)[i] = s[i + 1]
  OBVIOUS
<1>2. Head(s) \in S /\ Head(s) \in Elems(s) BY <1>1 DEF Elems
<1>3. Distinct(Tail(s)) BY <1>1 DEF Distinct
<1>4. ASSUME NEW x PROVE x \in Elems(Tail(s)) <=> x \in Elems(s) /\ x # Head(s)
  <2>1. ASSUME NEW i \in DOMAIN s, s[i] # Head(s) PROVE i - 1 \in DOMAIN Tail(s) /\ Tail(s)[i - 1] = s[i]
    BY <2>1, <1>1
  <2>2. ASSUME NEW i \in DOMAIN Tail(s) PROVE i + 1 \in DOMAIN s /\ s[i + 1] = Tail(s)[i] /\ s[i + 1] # Head(s)
    BY <2>2, <1>1 DEF Distinct
  <2>3. ASSUME x \in Elems(Tail(s)) PROVE x \in Elems(s) /\ x # Head(s)
    <3>1. PICK i \in DOMAIN Tail(s) : x = Tail(s)[i] BY <2>3 DEF Elems
    <3> QED BY <3>1, <2>2 DEF Elems
  <2>4. ASSUME x \in Elems(s), x # Head(s) PROVE x \in Elems(Tail(s))
    <3>1. PICK i \in DOMAIN s : x = s[i] BY <2>4 DEF Elems
    <3>2. i - 1 \in DOMAIN Tail(s) /\ Tail(s)[i - 1] = x BY <3>1, <2>4, <2>1
    <3> QED BY <3>2 DEF Elems
  <2> QED BY <2>3, <2>4
<1> QED BY <1>1, <1>2, <1>3, <1>4

(* A sequence is extended at its end. *)
LEMMA AppendElems ==
  ASSUME NEW S, NEW s \in Seq(S), NEW e \in S
  PROVE  /\ Append(s, e) \in Seq(S) /\ Elems(Append(s, e)) = Elems(s) \cup {e}
         /\ Distinct(s) /\ e \notin Elems(s) => Distinct(Append(s, e))
<1>1. /\ Append(s, e) \in Seq(S) /\ Len(s) \in Nat
      /\ DOMAIN s = 1..Len(s) /\ DOMAIN Append(s, e) = 1..(Len(s) + 1)
      /\ \A i \in 1..Len(s) : Append(s, e)[i] = s[i]
      /\ Append(s, e)[Len(s) + 1] = e
  OBVIOUS
<1>2. \A i \in 1..(Len(s) + 1) : i \in 1..Len(s) \/ i = Len(s) + 1 BY <1>1
<1>3. \A i \in 1..Len(s) : i \in 1..(Len(s) + 1) BY <1>1
<1>4. Len(s) + 1 \in 1..(Len(s) + 1) BY <1>1
<1>5. Elems(Append(s, e)) = Elems(s) \cup {e} BY <1>1, <1>2, <1>3, <1>4, Zenon DEF Elems
<1>6. ASSUME Distinct(s), e \notin Elems(s) PROVE Distinct(Append(s, e))
  <2>1. \A i \in 1..Len(s) : s[i] # e BY <1>1, <1>6 DEF Elems
  <2> QED BY <2>1, <1>1, <1>2, <1>6 DEF Distinct
<1> QED BY <1>1, <1>5, <1>6

(* The first message of the CLI's output takes its answers with it. *)
LEMMA TailAnswers ==
  ASSUME NEW s \in Seq(StreamMessages), s # <<>>, Disjoint(s)
  PROVE  /\ Head(s) \in StreamMessages /\ Tail(s) \in Seq(StreamMessages) /\ Disjoint(Tail(s))
         /\ Head(s).answers \subseteq AnswersOf(s)
         /\ AnswersOf(Tail(s)) = AnswersOf(s) \ Head(s).answers
<1>1. /\ Head(s) = s[1] /\ Len(s) \in Nat \ {0} /\ DOMAIN s = 1..Len(s)
      /\ Tail(s) \in Seq(StreamMessages) /\ Head(s) \in StreamMessages
      /\ DOMAIN Tail(s) = 1..(Len(s) - 1)
      /\ \A i \in 1..(Len(s) - 1) : Tail(s)[i] = s[i + 1]
  OBVIOUS
<1>2. Disjoint(Tail(s)) BY <1>1 DEF Disjoint
<1>3. Head(s).answers \subseteq AnswersOf(s)
  <2>1. 1 \in DOMAIN s BY <1>1
  <2> QED BY <2>1, <1>1 DEF AnswersOf
<1>4. ASSUME NEW x PROVE x \in AnswersOf(Tail(s)) <=> x \in AnswersOf(s) /\ x \notin Head(s).answers
  <2>1. ASSUME NEW i \in DOMAIN s, x \in s[i].answers, x \notin Head(s).answers
        PROVE  i - 1 \in DOMAIN Tail(s) /\ Tail(s)[i - 1] = s[i]
    BY <2>1, <1>1
  <2>2. ASSUME NEW i \in DOMAIN Tail(s), x \in Tail(s)[i].answers
        PROVE  i + 1 \in DOMAIN s /\ s[i + 1] = Tail(s)[i] /\ x \notin Head(s).answers
    <3>1. i + 1 \in DOMAIN s /\ s[i + 1] = Tail(s)[i] /\ i + 1 # 1 /\ 1 \in DOMAIN s BY <2>2, <1>1
    <3> QED BY <3>1, <2>2, <1>1 DEF Disjoint
  <2> QED BY <2>1, <2>2 DEF AnswersOf
<1> QED BY <1>1, <1>2, <1>3, <1>4

(* A message at the end of the CLI's output adds its answers. *)
LEMMA AppendAnswers ==
  ASSUME NEW s \in Seq(StreamMessages), NEW e \in StreamMessages
  PROVE  /\ Append(s, e) \in Seq(StreamMessages)
         /\ AnswersOf(Append(s, e)) = AnswersOf(s) \cup e.answers
         /\ Disjoint(s) /\ e.answers \cap AnswersOf(s) = {} => Disjoint(Append(s, e))
<1>1. /\ Append(s, e) \in Seq(StreamMessages) /\ Len(s) \in Nat
      /\ DOMAIN s = 1..Len(s) /\ DOMAIN Append(s, e) = 1..(Len(s) + 1)
      /\ \A i \in 1..Len(s) : Append(s, e)[i] = s[i]
      /\ Append(s, e)[Len(s) + 1] = e
  OBVIOUS
<1>2. \A i \in 1..(Len(s) + 1) : i \in 1..Len(s) \/ i = Len(s) + 1 BY <1>1
<1>3. \A i \in 1..Len(s) : i \in 1..(Len(s) + 1) BY <1>1
<1>4. Len(s) + 1 \in 1..(Len(s) + 1) BY <1>1
<1>5. ASSUME NEW x PROVE x \in AnswersOf(Append(s, e)) <=> x \in AnswersOf(s) \/ x \in e.answers
  BY <1>1, <1>2, <1>3, <1>4 DEF AnswersOf
<1>6. ASSUME Disjoint(s), e.answers \cap AnswersOf(s) = {} PROVE Disjoint(Append(s, e))
  <2>1. \A i \in 1..Len(s) : s[i].answers \cap e.answers = {} BY <1>1, <1>6 DEF AnswersOf
  <2> QED BY <2>1, <1>1, <1>2, <1>6 DEF Disjoint
<1> QED BY <1>1, <1>5, <1>6

(* Only messages are answered. *)
LEMMA AnswersAreMessages ==
  ASSUME NEW s \in Seq(StreamMessages)
  PROVE  AnswersOf(s) \subseteq Messages
<1>1. \A i \in DOMAIN s : s[i] \in StreamMessages OBVIOUS
<1>2. \A e \in StreamMessages : e.answers \subseteq Messages BY DEF StreamMessages
<1> QED BY <1>1, <1>2 DEF AnswersOf

(* Nothing is in an empty sequence, and nothing in it twice. *)
LEMMA EmptySequence ==
  Elems(<<>>) = {} /\ AnswersOf(<<>>) = {} /\ Distinct(<<>>) /\ Disjoint(<<>>)
BY DEF Elems, AnswersOf, Distinct, Disjoint

(* Two messages at the end of the stream. *)
LEMMA AppendTwo ==
  ASSUME NEW s \in Seq(StreamMessages), NEW a \in StreamMessages, NEW b \in StreamMessages,
         a.answers = {}
  PROVE  /\ s \o <<a, b>> \in Seq(StreamMessages)
         /\ AnswersOf(s \o <<a, b>>) = AnswersOf(s) \cup b.answers
         /\ Disjoint(s) /\ b.answers \cap AnswersOf(s) = {} => Disjoint(s \o <<a, b>>)
<1>1. s \o <<a, b>> = Append(Append(s, a), b) OBVIOUS
<1>2. /\ Append(s, a) \in Seq(StreamMessages) /\ AnswersOf(Append(s, a)) = AnswersOf(s)
      /\ Disjoint(s) => Disjoint(Append(s, a))
  BY AppendAnswers
<1> QED BY <1>1, <1>2, AppendAnswers

(* The kinds that say something of the CLI's state answer nothing. *)
LEMMA States ==
  \A k \in {"running", "idle", "init", "error"} : State(k) \in StreamMessages /\ State(k).answers = {}
BY DEF State, StreamMessages

(* A result is a message of the CLI's output and answers what it is for. *)
LEMMA Results ==
  \A S \in SUBSET Messages : Result(S) \in StreamMessages /\ Result(S).answers = S
BY DEF Result, StreamMessages

-----------------------------------------------------------------------------
(* The CLI                                                                 *)

(* Nobody has written. *)
LEMMA InitIInv == Init => IInv
<1> SUFFICES ASSUME Init PROVE IInv OBVIOUS
<1>1. TypeInv
  <2>1. hpc \in [Messages -> {"new", "sending", "written", "injected", "queued"}]
        /\ reply \in [Messages -> SUBSET Messages]
    BY DEF Init
  <2>2. queue \in Seq(Messages) /\ inbox \in Seq(Messages)
        /\ stash \in Seq(StreamMessages) /\ stream \in Seq(StreamMessages)
    BY DEF Init
  <2>3. CurKnown BY DEF Init, CurKnown
  <2> QED BY <2>1, <2>2, <2>3 DEF Init, TypeInv, TypeOK
<1>2. OnceInPlace BY EmptySequence DEF Init, OnceInPlace, RepliesDisjoint
<1>3. InQueue = {} /\ InHand = {} /\ InPipe = {} /\ InStream = {} /\ InStash = {} /\ InReplies = {}
      /\ answering = {} /\ result = {} /\ followed = {}
  BY EmptySequence DEF Init, InQueue, InHand, InPipe, InStream, InStash, InReplies
<1>4. OnePlace BY <1>3 DEF OnePlace
<1> QED BY <1>1, <1>2, <1>4 DEF IInv

(* The CLI moves a message from its pipe to its turn, and from the turn to *)
(* the result in its output.                                               *)
LEMMA CliIInv ==
  ASSUME IInv, CliNext
  PROVE  IInv'
<1> USE DEF IInv, handlerVars, runVars, countVars, replyVars
<1>0. /\ stream \in Seq(StreamMessages) /\ inbox \in Seq(Messages) /\ answering \subseteq Messages
      /\ Distinct(inbox) /\ Disjoint(stream) /\ OnePlace
      /\ UNCHANGED <<handlerVars, runVars, countVars, reply, followed, failed, raced>>
  BY DEF TypeInv, TypeOK, OnceInPlace, CliNext, CliStart, CliFold, CliResult, CliError, CliIdle,
         CliExit
<1>1. /\ UNCHANGED <<Outside, InQueue, InHand, InStash, InReplies>>
      /\ InPipe' = Elems(inbox') /\ InStream' = AnswersOf(stream')
  BY <1>0 DEF Outside, InQueue, InHand, InStash, InReplies, InPipe, InStream
<1>2. ASSUME TypeOK', Distinct(inbox'), Disjoint(stream'), OnePlace' PROVE IInv'
  BY <1>0, <1>2 DEF TypeInv, CurKnown, OnceInPlace, RepliesDisjoint
<1>3. CASE CliStart
  <2>1. /\ inbox # <<>> /\ inbox' = Tail(inbox) /\ answering' = {Head(inbox)}
        /\ cli \in {"idle", "after"} /\ cli' = "turn"
        /\ stream' = stream \o <<State("running"), Opening>> /\ UNCHANGED lost
    BY <1>3 DEF CliStart
  <2>2. /\ Head(inbox) \in Messages /\ inbox' \in Seq(Messages) /\ Distinct(inbox')
        /\ Head(inbox) \in InPipe /\ InPipe' = InPipe \ {Head(inbox)}
    BY <2>1, <1>0, <1>1, TailElems DEF InPipe
  <2>3. stream' \in Seq(StreamMessages) /\ InStream' = InStream /\ Disjoint(stream')
    <3>1. /\ State("running") \in StreamMessages /\ State("running").answers = {}
          /\ Opening \in StreamMessages /\ Opening.answers = {}
      BY States DEF Opening
    <3>2. /\ stream' \in Seq(StreamMessages) /\ Disjoint(stream')
          /\ AnswersOf(stream') = AnswersOf(stream)
      <4> DEFINE t == stream \o <<State("running"), Opening>>
      <4>1. /\ t \in Seq(StreamMessages) /\ AnswersOf(t) = AnswersOf(stream) \cup Opening.answers
            /\ Disjoint(stream) /\ Opening.answers \cap AnswersOf(stream) = {} => Disjoint(t)
        BY <3>1, <1>0, AppendTwo, Zenon
      <4> HIDE DEF t
      <4>2. AnswersOf(t) = AnswersOf(stream) /\ Disjoint(t) BY <4>1, <3>1, <1>0
      <4>3. stream' = t BY <2>1 DEF t
      <4> QED BY <4>1, <4>2, <4>3
    <3> QED BY <3>2, <1>1 DEF InStream
  <2>4. TypeOK' BY <2>1, <2>2, <2>3, <1>0 DEF TypeInv, TypeOK
  <2>5. OnePlace' BY <2>1, <2>2, <2>3, <1>0, <1>1 DEF OnePlace
  <2> QED BY <2>2, <2>3, <2>4, <2>5, <1>2
<1>4. CASE CliFold
  <2>1. /\ inbox # <<>> /\ inbox' = Tail(inbox) /\ answering' = answering \cup {Head(inbox)}
        /\ UNCHANGED <<cli, stream, lost>>
    BY <1>4 DEF CliFold
  <2>2. /\ Head(inbox) \in Messages /\ inbox' \in Seq(Messages) /\ Distinct(inbox')
        /\ Head(inbox) \in InPipe /\ InPipe' = InPipe \ {Head(inbox)}
    BY <2>1, <1>0, <1>1, TailElems DEF InPipe
  <2>3. TypeOK' BY <2>1, <2>2, <1>0 DEF TypeInv, TypeOK
  <2>4. InStream' = InStream BY <2>1 DEF InStream
  <2>5. OnePlace' BY <2>1, <2>2, <2>4, <1>0, <1>1 DEF OnePlace
  <2> QED BY <2>1, <2>2, <2>3, <2>5, <1>0, <1>2
<1>5. CASE CliResult \/ CliError
  <2>1. /\ cli' = "after" /\ answering' = {} /\ UNCHANGED <<inbox, lost>>
        /\ \/ stream' = Append(stream, Result(answering))
           \/ stream' = stream \o <<State("error"), Result(answering)>>
    BY <1>5 DEF CliResult, CliError
  <2>2. answering \cap InStream = {} BY <1>0 DEF OnePlace
  <2>a. /\ Result(answering) \in StreamMessages /\ Result(answering).answers = answering
        /\ State("error") \in StreamMessages /\ State("error").answers = {}
    BY <1>0, States, Results
  <2>3. stream' \in Seq(StreamMessages) /\ InStream' = InStream \cup answering /\ Disjoint(stream')
    <3>1. CASE stream' = Append(stream, Result(answering))
      BY <3>1, <2>a, <2>2, <1>0, <1>1, AppendAnswers DEF InStream
    <3>2. CASE stream' = stream \o <<State("error"), Result(answering)>>
      BY <3>2, <2>a, <2>2, <1>0, <1>1, AppendTwo DEF InStream
    <3> QED BY <3>1, <3>2, <2>1
  <2>4. TypeOK' BY <2>1, <2>3, <1>0 DEF TypeInv, TypeOK
  <2>5. InPipe' = InPipe BY <2>1 DEF InPipe
  <2>6. OnePlace' BY <2>1, <2>3, <2>5, <1>0, <1>1 DEF OnePlace
  <2> QED BY <2>1, <2>3, <2>4, <2>6, <1>0, <1>2
<1>6. CASE CliIdle
  <2>1. cli' = "idle" /\ stream' = Append(stream, State("idle")) /\ UNCHANGED <<inbox, answering, lost>>
    BY <1>6 DEF CliIdle
  <2>2. stream' \in Seq(StreamMessages) /\ InStream' = InStream /\ Disjoint(stream')
    BY <2>1, <1>0, <1>1, AppendAnswers, States DEF InStream
  <2>3. TypeOK' BY <2>1, <2>2, <1>0 DEF TypeInv, TypeOK
  <2>4. InPipe' = InPipe BY <2>1 DEF InPipe
  <2>5. OnePlace' BY <2>1, <2>2, <2>4, <1>0, <1>1 DEF OnePlace
  <2> QED BY <2>1, <2>2, <2>3, <2>5, <1>0, <1>2
<1>7. CASE CliExit
  <2>1. /\ cli' = "gone" /\ answering' = {} /\ inbox' = <<>> /\ UNCHANGED stream
        /\ lost' = lost \cup answering \cup {inbox[i] : i \in DOMAIN inbox}
    BY <1>7 DEF CliExit
  <2>2. {inbox[i] : i \in DOMAIN inbox} \subseteq Messages BY <1>0
  <2>3. TypeOK' BY <2>1, <2>2, <1>0 DEF TypeInv, TypeOK
  <2>4. InPipe' = {} /\ Distinct(inbox') BY <2>1, <1>1, EmptySequence
  <2>5. InStream' = InStream BY <2>1 DEF InStream
  <2>6. OnePlace' BY <2>1, <2>4, <2>5, <1>0, <1>1 DEF OnePlace
  <2> QED BY <2>1, <2>3, <2>4, <2>6, <1>0, <1>2
<1> QED BY <1>3, <1>4, <1>5, <1>6, <1>7 DEF CliNext

-----------------------------------------------------------------------------
(* handle_text and inject()                                                *)

(* handle_text moves a message to the queue or to the CLI's pipe. *)
LEMMA HandlerIInv ==
  ASSUME IInv, NEW m \in Messages, HandlerNext(m)
  PROVE  IInv'
<1> USE DEF IInv, runVars, countVars, cliVars, replyVars
<1>0. /\ queue \in Seq(Messages) /\ inbox \in Seq(Messages) /\ injected \in Nat
      /\ hpc \in [Messages -> {"new", "sending", "written", "injected", "queued"}]
      /\ Distinct(queue) /\ Distinct(inbox) /\ OnePlace
      /\ UNCHANGED <<runVars, statesSeen, stash, stream, cli, answering, replyVars>>
  BY DEF TypeInv, TypeOK, OnceInPlace, HandlerNext, Arrive, InjectWrite, InjectFails, InjectCounts,
         Queue
<1>1. UNCHANGED <<InHand, InStream, InStash, InReplies>>
  BY <1>0 DEF InHand, InStream, InStash, InReplies
<1>2. ASSUME TypeOK', Distinct(queue'), Distinct(inbox'), OnePlace' PROVE IInv'
  BY <1>0, <1>2 DEF TypeInv, CurKnown, OnceInPlace, RepliesDisjoint
<1>3. ASSUME hpc[m] \in {"new", "sending"}, Queue(m), UNCHANGED <<inbox, injected, raced>>
      PROVE  IInv'
  <2>1. Outside' = Outside \ {m} /\ m \in Outside BY <1>0, <1>3 DEF Queue, Outside
  <2>2. m \notin InQueue BY <2>1, <1>0 DEF OnePlace
  <2>3. queue' \in Seq(Messages) /\ InQueue' = InQueue \cup {m} /\ Distinct(queue')
    BY <2>2, <1>0, <1>3, AppendElems DEF Queue, InQueue
  <2>4. TypeOK' BY <2>3, <1>0, <1>3 DEF TypeInv, TypeOK, Queue
  <2>5. InPipe' = InPipe BY <1>3 DEF InPipe
  <2>6. OnePlace' BY <2>1, <2>3, <2>5, <1>0, <1>1 DEF OnePlace
  <2> QED BY <2>3, <2>4, <2>6, <1>0, <1>2, <1>3
<1>4. ASSUME hpc' = [hpc EXCEPT ![m] = "sending"], hpc[m] = "new",
             UNCHANGED <<queue, inbox, injected, raced>>
      PROVE  IInv'
  <2>1. Outside' = Outside BY <1>0, <1>4 DEF Outside
  <2>2. TypeOK' BY <1>0, <1>4 DEF TypeInv, TypeOK
  <2>3. InPipe' = InPipe /\ InQueue' = InQueue BY <1>4 DEF InPipe, InQueue
  <2>4. OnePlace' BY <2>1, <2>3, <1>0, <1>1 DEF OnePlace
  <2> QED BY <2>2, <2>4, <1>0, <1>2, <1>4
<1>5. CASE Arrive(m)
  <2>1. hpc[m] = "new" /\ UNCHANGED <<inbox, injected, raced>> BY <1>5 DEF Arrive
  <2>2. CASE hpc' = [hpc EXCEPT ![m] = "sending"] /\ UNCHANGED queue BY <2>1, <2>2, <1>4
  <2>3. CASE Queue(m) BY <2>1, <2>3, <1>3
  <2> QED BY <2>2, <2>3, <1>5 DEF Arrive
<1>6. CASE InjectFails(m) BY <1>6, <1>3 DEF InjectFails
<1>7. CASE InjectWrite(m)
  <2>1. /\ hpc[m] = "sending" /\ hpc' = [hpc EXCEPT ![m] = "written"]
        /\ inbox' = Append(inbox, m) /\ raced' \subseteq raced \cup {"late"}
        /\ UNCHANGED <<queue, injected>>
    BY <1>7 DEF InjectWrite
  <2>2. Outside' = Outside \ {m} /\ m \in Outside BY <1>0, <2>1 DEF Outside
  <2>3. m \notin InPipe BY <2>2, <1>0 DEF OnePlace
  <2>4. inbox' \in Seq(Messages) /\ InPipe' = InPipe \cup {m} /\ Distinct(inbox')
    BY <2>1, <2>3, <1>0, AppendElems DEF InPipe
  <2>5. TypeOK' BY <2>1, <2>4, <1>0 DEF TypeInv, TypeOK, Races
  <2>6. InQueue' = InQueue BY <2>1 DEF InQueue
  <2>7. OnePlace' BY <2>2, <2>4, <2>6, <1>0, <1>1 DEF OnePlace
  <2> QED BY <2>1, <2>4, <2>5, <2>7, <1>0, <1>2
<1>8. CASE InjectCounts(m)
  <2>1. /\ hpc[m] = "written" /\ hpc' = [hpc EXCEPT ![m] = "injected"]
        /\ injected' = injected + 1 /\ UNCHANGED <<queue, inbox, raced>>
    BY <1>8 DEF InjectCounts
  <2>2. Outside' = Outside BY <1>0, <2>1 DEF Outside
  <2>3. TypeOK' BY <2>1, <1>0 DEF TypeInv, TypeOK
  <2>4. InPipe' = InPipe /\ InQueue' = InQueue BY <2>1 DEF InPipe, InQueue
  <2>5. OnePlace' BY <2>2, <2>4, <1>0, <1>1 DEF OnePlace
  <2> QED BY <2>1, <2>3, <2>5, <1>0, <1>2
<1> QED BY <1>5, <1>6, <1>7, <1>8 DEF HandlerNext

-----------------------------------------------------------------------------
(* run()                                                                   *)

(* The worker takes a message and run() sends it. *)
LEMMA SendIInv ==
  ASSUME IInv, RunStart \/ RunConnect \/ RunSend
  PROVE  IInv'
<1> USE NamesAssumption DEF IInv, handlerVars, runVars, countVars, cliVars, replyVars
<1>0. /\ queue \in Seq(Messages) /\ inbox \in Seq(Messages) /\ stash \in Seq(StreamMessages)
      /\ Distinct(queue) /\ Distinct(inbox) /\ OnePlace /\ Disjoint(stash)
      /\ UNCHANGED <<hpc, result, stream, answering, reply, followed, failed, lost, raced>>
  BY DEF TypeInv, TypeOK, OnceInPlace, RunStart, RunConnect, RunSend
<1>1. UNCHANGED <<Outside, InStream, InReplies>> BY <1>0 DEF Outside, InStream, InReplies
<1>2. ASSUME TypeInv', Distinct(queue'), Distinct(inbox'), Disjoint(stash'), OnePlace'
      PROVE  IInv'
  BY <1>0, <1>2 DEF OnceInPlace, RepliesDisjoint
<1>3. CASE RunStart
  <2>1. /\ rpc = "off" /\ rpc' = "connect" /\ queue # <<>>
        /\ cur' = Head(queue) /\ queue' = Tail(queue)
        /\ UNCHANGED <<turnActive, followup, statesSeen, injected, stash, cli, inbox>>
    BY <1>3 DEF RunStart
  <2>2. /\ cur' \in Messages /\ queue' \in Seq(Messages) /\ Distinct(queue')
        /\ cur' \in InQueue /\ InQueue' = InQueue \ {cur'}
    BY <2>1, <1>0, TailElems DEF InQueue
  <2>3. InHand = {} /\ InHand' = {cur'} BY <2>1 DEF InHand
  <2>4. TypeInv' BY <2>1, <2>2, <1>0 DEF TypeInv, TypeOK, CurKnown
  <2>5. InPipe' = InPipe /\ InStash' = InStash BY <2>1 DEF InPipe, InStash
  <2>6. OnePlace' BY <2>2, <2>3, <2>5, <1>0, <1>1 DEF OnePlace
  <2> QED BY <2>1, <2>2, <2>4, <2>6, <1>0, <1>2
<1>4. CASE RunConnect
  <2>1. /\ rpc = "connect" /\ UNCHANGED <<queue, inbox, cur>> /\ followup' = FALSE
        /\ \/ cli' = "idle" /\ injected' = 0 /\ statesSeen' = FALSE /\ stash' = <<>>
           \/ UNCHANGED <<cli, injected, statesSeen, stash>>
        /\ \/ cur = FollowUp /\ rpc' = "read" /\ turnActive' = TRUE
           \/ cur # FollowUp /\ rpc' = "send" /\ UNCHANGED turnActive
    BY <1>4 DEF RunConnect
  <2>a. /\ cli' \in {"off", "idle", "turn", "after", "gone"} /\ injected' \in Nat
        /\ stash' \in Seq(StreamMessages)
    <3>1. /\ cli \in {"off", "idle", "turn", "after", "gone"} /\ injected \in Nat
          /\ stash \in Seq(StreamMessages) /\ <<>> \in Seq(StreamMessages)
      BY DEF TypeInv, TypeOK
    <3>2. CASE cli' = "idle" /\ injected' = 0 /\ stash' = <<>> BY <3>1, <3>2
    <3>3. CASE UNCHANGED <<cli, injected, stash>> BY <3>1, <3>3
    <3> QED BY <2>1, <3>2, <3>3
  <2>b. turnActive' \in BOOLEAN /\ statesSeen' \in BOOLEAN /\ followup' \in BOOLEAN
    <3>1. turnActive \in BOOLEAN /\ statesSeen \in BOOLEAN BY DEF TypeInv, TypeOK
    <3>2. followup' \in BOOLEAN BY <2>1
    <3>3. turnActive' \in BOOLEAN BY <2>1, <3>1
    <3>4. statesSeen' \in BOOLEAN BY <2>1, <3>1
    <3> QED BY <3>2, <3>3, <3>4
  <2>c. TypeOK' BY <2>a, <2>b, <2>1, <1>0 DEF TypeInv, TypeOK
  <2>d. CurKnown' BY <2>1, <1>0 DEF TypeInv, CurKnown
  <2>2. TypeInv' BY <2>c, <2>d DEF TypeInv
  <2>3. InHand = {cur} /\ InHand' \subseteq InHand BY <2>1 DEF InHand
  <2>4. InStash' \subseteq InStash /\ Disjoint(stash') BY <2>1, <1>0, EmptySequence DEF InStash
  <2>5. InPipe' = InPipe /\ InQueue' = InQueue BY <2>1 DEF InPipe, InQueue
  <2>6. OnePlace' BY <2>3, <2>4, <2>5, <1>0, <1>1 DEF OnePlace
  <2> QED BY <2>1, <2>2, <2>4, <2>6, <1>0, <1>2
<1>5. CASE RunSend
  <2>1. /\ rpc = "send" /\ rpc' = "read" /\ turnActive' = TRUE /\ inbox' = Append(inbox, cur)
        /\ UNCHANGED <<queue, cur, followup, statesSeen, injected, stash, cli>>
    BY <1>5 DEF RunSend
  <2>2. cur \in Messages /\ InHand = {cur} /\ InHand' = {} BY <2>1 DEF InHand, TypeInv, CurKnown
  <2>3. cur \notin InPipe BY <2>2, <1>0 DEF OnePlace
  <2>4. inbox' \in Seq(Messages) /\ InPipe' = InPipe \cup {cur} /\ Distinct(inbox')
    BY <2>1, <2>2, <2>3, <1>0, AppendElems DEF InPipe
  <2>5. TypeInv' BY <2>1, <2>4, <1>0 DEF TypeInv, TypeOK, CurKnown
  <2>6. InStash' = InStash /\ InQueue' = InQueue BY <2>1 DEF InStash, InQueue
  <2>7. OnePlace' BY <2>2, <2>4, <2>6, <1>0, <1>1 DEF OnePlace
  <2> QED BY <2>1, <2>4, <2>5, <2>7, <1>0, <1>2
<1> QED BY <1>3, <1>4, <1>5

(* The next message of stash or stream is taken out of both. *)
LEMMA Take ==
  ASSUME IInv, Incoming # <<>>, TakeIncoming
  PROVE  /\ stash' \in Seq(StreamMessages) /\ stream' \in Seq(StreamMessages)
         /\ Disjoint(stash') /\ Disjoint(stream')
         /\ Head(Incoming) \in StreamMessages
         /\ Head(Incoming).answers \subseteq InStash \cup InStream
         /\ InStash' \cup InStream' = (InStash \cup InStream) \ Head(Incoming).answers
         /\ InStash' \subseteq InStash /\ InStream' \subseteq InStream
<1>0. stash \in Seq(StreamMessages) /\ stream \in Seq(StreamMessages)
      /\ Disjoint(stash) /\ Disjoint(stream) /\ OnePlace
  BY DEF IInv, TypeInv, TypeOK, OnceInPlace
<1>a. \A x \in Messages : ~(x \in InStash /\ x \in InStream) BY <1>0 DEF OnePlace
<1>b. \A e \in StreamMessages : e.answers \subseteq Messages BY DEF StreamMessages
<1>1. CASE stash # <<>>
  <2>1. Head(Incoming) = Head(stash) BY <1>0, <1>1 DEF Incoming
  <2>2. stash' = Tail(stash) /\ stream' = stream BY <1>1 DEF TakeIncoming
  <2>3. /\ Head(stash) \in StreamMessages /\ stash' \in Seq(StreamMessages) /\ Disjoint(stash')
        /\ Head(stash).answers \subseteq InStash /\ InStash' = InStash \ Head(stash).answers
    BY <2>2, <1>0, <1>1, TailAnswers DEF InStash
  <2>4. InStream' = InStream BY <2>2 DEF InStream
  <2>5. Head(stash).answers \cap InStream = {} BY <2>3, <1>a, <1>b
  <2> QED BY <2>1, <2>2, <2>3, <2>4, <2>5, <1>0
<1>2. CASE stash = <<>>
  <2>1. Incoming = stream BY <1>0, <1>2, ConcatEmptySeq DEF Incoming
  <2>2. stream # <<>> /\ stream' = Tail(stream) /\ stash' = stash BY <2>1, <1>2 DEF TakeIncoming
  <2>3. /\ Head(stream) \in StreamMessages /\ stream' \in Seq(StreamMessages) /\ Disjoint(stream')
        /\ Head(stream).answers \subseteq InStream /\ InStream' = InStream \ Head(stream).answers
    BY <2>2, <1>0, TailAnswers DEF InStream
  <2>4. InStash = {} /\ InStash' = {} BY <2>2, <1>2, EmptySequence DEF InStash
  <2> QED BY <2>1, <2>2, <2>3, <2>4, <1>0
<1> QED BY <1>1, <1>2

(* A result is given for the message run() was called for, or as a         *)
(* follow-up: what it answers was nowhere else.                            *)
LEMMA ReportIInv ==
  ASSUME IInv, NEW S \in SUBSET Messages, Report(S), rpc \in {"read", "settle"},
         stash' \in Seq(StreamMessages), stream' \in Seq(StreamMessages),
         Disjoint(stash'), Disjoint(stream'),
         InStash' \cup InStream' \subseteq (InStash \cup InStream) \ S,
         InStash' \cap InStream' = {},
         S \subseteq InStash \cup InStream \cup result,
         followup' \in BOOLEAN, statesSeen' \in BOOLEAN, injected' \in Nat, raced' \subseteq Races,
         UNCHANGED <<handlerVars, cli, inbox, answering>>
  PROVE  IInv'
<1> USE NamesAssumption DEF IInv, handlerVars
<1>0. /\ queue \in Seq(Messages) /\ inbox \in Seq(Messages) /\ followed \subseteq Messages
      /\ Distinct(queue) /\ Distinct(inbox) /\ OnePlace /\ RepliesDisjoint
      /\ reply \in [Messages -> SUBSET Messages] /\ result \subseteq Messages
  BY DEF TypeInv, TypeOK, OnceInPlace
<1>1. UNCHANGED <<Outside, InQueue, InPipe, answering>> BY DEF Outside, InQueue, InPipe
<1>2. /\ turnActive' = FALSE /\ result' = {} /\ UNCHANGED <<failed, lost>>
      /\ \/ followed' = followed \cup S /\ UNCHANGED reply
         \/ followed' = followed /\ reply' = [reply EXCEPT ![cur] = @ \cup S]
      /\ rpc' \in {"connect", "off"} /\ cur' \in {FollowUp, Nobody}
      /\ rpc' = "connect" => cur' = FollowUp
  BY DEF Report
<1>3. TypeInv'
  <2>1. reply' \in [Messages -> SUBSET Messages] /\ followed' \subseteq Messages BY <1>0, <1>2
  <2>2. rpc' \in {"off", "connect", "send", "read", "settle"}
        /\ cur' \in Messages \cup {FollowUp, Nobody}
    BY <1>2
  <2>3. turnActive' \in BOOLEAN /\ result' \subseteq Messages BY <1>2
  <2>4. failed' \subseteq Messages /\ lost' \subseteq Messages BY <1>2 DEF TypeInv, TypeOK
  <2>5. TypeOK' BY <2>1, <2>2, <2>3, <2>4, <1>0 DEF TypeInv, TypeOK
  <2>6. CurKnown' BY <1>2 DEF CurKnown
  <2> QED BY <2>5, <2>6 DEF TypeInv
<1>4. InHand = {} BY DEF InHand
<1>5. \A m \in Messages : m \notin InHand' BY <1>2 DEF InHand
<1>6. \A m \in S : /\ m \notin Outside \cup InQueue \cup InPipe \cup answering
                   /\ m \notin InReplies \cup followed
  BY <1>0 DEF OnePlace
<1>7. /\ \A m \in Messages : m \in InReplies' \cup followed' => m \in InReplies \cup followed \cup S
      /\ \A m \in Messages : ~(m \in InReplies' /\ m \in followed')
      /\ RepliesDisjoint'
  <2>1. CASE followed' = followed \cup S /\ UNCHANGED reply
    <3>1. InReplies' = InReplies BY <2>1 DEF InReplies
    <3> QED BY <3>1, <2>1, <1>0, <1>6 DEF OnePlace, RepliesDisjoint
  <2>2. CASE followed' = followed /\ reply' = [reply EXCEPT ![cur] = @ \cup S]
    <3>1. CASE cur \in Messages
      <4>1. \A n \in Messages : reply'[n] = IF n = cur THEN reply[n] \cup S ELSE reply[n]
        BY <2>2, <3>1, <1>0
      <4>2. InReplies' = InReplies \cup S
        <5>1. \A n \in Messages : reply[n] \subseteq reply'[n] BY <4>1
        <5>2. S \subseteq reply'[cur] BY <4>1, <3>1
        <5>3. InReplies \cup S \subseteq InReplies' BY <5>1, <5>2, <3>1 DEF InReplies
        <5>4. \A n \in Messages : reply'[n] \subseteq reply[n] \cup S BY <4>1
        <5>5. InReplies' \subseteq InReplies \cup S BY <5>4 DEF InReplies
        <5> QED BY <5>3, <5>5
      <4>3. \A n \in Messages : reply[n] \cap S = {} BY <1>6 DEF InReplies
      <4>4. RepliesDisjoint' BY <4>1, <4>3, <1>0 DEF RepliesDisjoint
      <4> QED BY <4>2, <4>4, <2>2, <1>0, <1>6 DEF OnePlace
    <3>2. CASE cur \notin Messages
      <4>1. reply' = reply BY <2>2, <3>2, <1>0
      <4>2. InReplies' = InReplies BY <4>1 DEF InReplies
      <4> QED BY <4>1, <4>2, <2>2, <1>0 DEF OnePlace, RepliesDisjoint
    <3> QED BY <3>1, <3>2
  <2> QED BY <2>1, <2>2, <1>2
<1>8. OnePlace' BY <1>0, <1>1, <1>2, <1>5, <1>6, <1>7 DEF OnePlace
<1>9. OnceInPlace' BY <1>0, <1>7 DEF OnceInPlace
<1> QED BY <1>3, <1>8, <1>9

(* run() reads. *)
LEMMA ReadIInv ==
  ASSUME IInv, RunRead \/ RunResult \/ RunError
  PROVE  IInv'
<1> USE DEF IInv, handlerVars, runVars, countVars, replyVars
<1>0. /\ rpc = "read" /\ Incoming # <<>> /\ TakeIncoming /\ OnePlace /\ injected \in Nat
      /\ UNCHANGED <<handlerVars, cli, inbox, answering, lost>> /\ raced' \subseteq Races
  BY DEF TypeInv, TypeOK, RunRead, RunResult, RunError, Report, GiveUp, Races
<1>1. /\ stash' \in Seq(StreamMessages) /\ stream' \in Seq(StreamMessages)
      /\ Disjoint(stash') /\ Disjoint(stream') /\ Head(Incoming) \in StreamMessages
      /\ Head(Incoming).answers \subseteq InStash \cup InStream
      /\ InStash' \cup InStream' = (InStash \cup InStream) \ Head(Incoming).answers
      /\ InStash' \subseteq InStash /\ InStream' \subseteq InStream
  BY <1>0, Take
<1>2. Head(Incoming).answers \in SUBSET Messages BY <1>1 DEF StreamMessages
<1>3. UNCHANGED <<Outside, InQueue, InPipe>> BY <1>0 DEF Outside, InQueue, InPipe
<1>4. InHand = {} BY <1>0 DEF InHand
<1>5. CASE RunRead
  <2>1. UNCHANGED <<runVars, replyVars>> /\ injected' \in {injected, 0} /\ statesSeen' \in {statesSeen, TRUE}
    BY <1>5 DEF RunRead, NoteState
  <2>2. InHand' = InHand /\ InReplies' = InReplies BY <2>1 DEF InHand, InReplies
  <2>a. injected' \in Nat BY <2>1, <1>0
  <2>b. statesSeen' \in BOOLEAN
    <3>1. statesSeen \in BOOLEAN BY DEF TypeInv, TypeOK
    <3> QED BY <2>1, <3>1
  <2>c. TypeOK' BY <2>a, <2>b, <2>1, <1>0, <1>1 DEF TypeInv, TypeOK
  <2>d. CurKnown' BY <2>1, <1>0 DEF TypeInv, CurKnown
  <2>3. TypeInv' BY <2>c, <2>d DEF TypeInv
  <2>4. OnePlace' BY <2>1, <2>2, <1>0, <1>1, <1>3 DEF OnePlace
  <2> QED BY <2>1, <2>3, <2>4, <1>0, <1>1 DEF OnceInPlace, RepliesDisjoint
<1>6. CASE RunResult
  <2>1. UNCHANGED <<followup, statesSeen, injected>> BY <1>6 DEF RunResult
  <2>2. CASE Report(Head(Incoming).answers)
    <3>1. followup' \in BOOLEAN /\ statesSeen' \in BOOLEAN /\ injected' \in Nat
      BY <2>1 DEF TypeInv, TypeOK
    <3>2. \A m \in Messages : ~(m \in InStash /\ m \in InStream) BY <1>0 DEF OnePlace
    <3>3. InStash' \cap InStream' = {}
      <4>1. InStash' \subseteq Messages BY <1>1, AnswersAreMessages DEF InStash
      <4> QED BY <4>1, <3>2, <1>1
    <3> QED BY <3>1, <3>3, <2>2, <1>0, <1>1, <1>2, ReportIInv
  <2>3. CASE /\ rpc' = "settle" /\ result' = Head(Incoming).answers
             /\ UNCHANGED <<cur, turnActive, replyVars>>
    <3>1. InHand' = InHand /\ InReplies' = InReplies BY <2>3, <1>0 DEF InHand, InReplies
    <3>2. TypeInv' BY <2>1, <2>3, <1>0, <1>1, <1>2 DEF TypeInv, TypeOK, CurKnown
    <3>3. OnePlace' BY <2>3, <3>1, <1>0, <1>1, <1>3 DEF OnePlace
    <3> QED BY <2>3, <3>2, <3>3, <1>0, <1>1 DEF OnceInPlace, RepliesDisjoint
  <2> QED BY <2>2, <2>3, <1>6 DEF RunResult
<1>7. CASE RunError
  <2>1. /\ rpc' = "off" /\ cur' = Nobody /\ result' = {} /\ turnActive' = FALSE
        /\ failed' = failed \cup ({cur} \cap Messages)
        /\ UNCHANGED <<followup, statesSeen, injected, reply, followed>>
    BY <1>7 DEF RunError, GiveUp
  <2>2. InHand' = {} /\ InReplies' = InReplies BY <2>1 DEF InHand, InReplies
  <2>a. failed' \subseteq Messages /\ cur' \in Messages \cup {FollowUp, Nobody}
    BY <2>1 DEF TypeInv, TypeOK
  <2>b. TypeOK' BY <2>a, <2>1, <1>0, <1>1 DEF TypeInv, TypeOK
  <2>c. CurKnown' BY <2>1 DEF CurKnown
  <2>3. TypeInv' BY <2>b, <2>c DEF TypeInv
  <2>4. OnePlace' BY <2>1, <2>2, <1>0, <1>1, <1>3 DEF OnePlace
  <2> QED BY <2>1, <2>3, <2>4, <1>0, <1>1 DEF OnceInPlace, RepliesDisjoint
<1> QED BY <1>5, <1>6, <1>7

(* run() settles after a result. *)
LEMMA SettleIInv ==
  ASSUME IInv, SettleRead \/ SettleEnds \/ SettleTimeout
  PROVE  IInv'
<1> USE DEF IInv, handlerVars, runVars, countVars, cliVars, replyVars
<1>0. /\ rpc = "settle" /\ OnePlace /\ result \in SUBSET Messages /\ injected \in Nat
      /\ stash \in Seq(StreamMessages) /\ stream \in Seq(StreamMessages)
      /\ Disjoint(stash) /\ Disjoint(stream) /\ followup \in BOOLEAN /\ statesSeen \in BOOLEAN
      /\ UNCHANGED <<handlerVars, cli, inbox, answering>> /\ raced' \subseteq Races
  BY DEF TypeInv, TypeOK, OnceInPlace, SettleRead, SettleEnds, SettleTimeout, Races
<1>1. InStash \subseteq Messages /\ InStream \subseteq Messages
  BY <1>0, AnswersAreMessages DEF InStash, InStream
<1>2. InStash \cap InStream = {} /\ (InStash \cup InStream) \cap result = {}
  BY <1>0, <1>1 DEF OnePlace
<1>3. ASSUME UNCHANGED <<stash, stream, statesSeen, injected, followup>>, Report(result) PROVE IInv'
  <2>1. InStash' = InStash /\ InStream' = InStream BY <1>3 DEF InStash, InStream
  <2> QED BY <2>1, <1>0, <1>2, <1>3, ReportIInv
<1>4. CASE SettleEnds \/ SettleTimeout BY <1>3, <1>4 DEF SettleEnds, SettleTimeout
<1>5. CASE SettleRead
  <2>1. stream # <<>> /\ stream' = Tail(stream) BY <1>5 DEF SettleRead
  <2>2. /\ Head(stream) \in StreamMessages /\ stream' \in Seq(StreamMessages) /\ Disjoint(stream')
        /\ Head(stream).answers \subseteq InStream /\ InStream' = InStream \ Head(stream).answers
    BY <2>1, <1>0, TailAnswers DEF InStream
  <2>3. CASE /\ injected' \in {injected, 0} /\ statesSeen' = TRUE
             /\ UNCHANGED <<runVars, stash, replyVars>>
    <3>1. InHand' = InHand /\ InReplies' = InReplies /\ InStash' = InStash
          /\ Outside' = Outside /\ InQueue' = InQueue /\ InPipe' = InPipe
      BY <2>3, <1>0 DEF InHand, InReplies, InStash, Outside, InQueue, InPipe
    <3>2. TypeInv' BY <2>2, <2>3, <1>0 DEF TypeInv, TypeOK, CurKnown
    <3>3. OnePlace' BY <2>2, <2>3, <3>1, <1>0 DEF OnePlace
    <3> QED BY <2>2, <2>3, <3>2, <3>3, <1>0 DEF OnceInPlace, RepliesDisjoint
  <2>4. CASE /\ injected' \in {injected, 0} /\ statesSeen' = TRUE /\ UNCHANGED <<stash, followup>>
             /\ Report(result)
    <3>1. InStash' = InStash BY <2>4 DEF InStash
    <3> QED BY <3>1, <2>2, <2>4, <1>0, <1>2, ReportIInv
  <2>5. CASE /\ stash' = Append(stash, Head(stream)) /\ followup' = TRUE
             /\ UNCHANGED <<statesSeen, injected>> /\ Report(result)
    <3>1. Head(stream).answers \cap InStash = {} BY <2>2, <1>2
    <3>2. /\ stash' \in Seq(StreamMessages) /\ Disjoint(stash')
          /\ InStash' = InStash \cup Head(stream).answers
      BY <2>2, <2>5, <3>1, <1>0, AppendAnswers DEF InStash
    <3> QED BY <3>2, <2>2, <2>5, <1>0, <1>2, ReportIInv
  <2> QED BY <2>3, <2>4, <2>5, <1>5 DEF SettleRead, NoteState
<1> QED BY <1>4, <1>5

(* run() ends without a result. *)
LEMMA GiveUpIInv ==
  ASSUME IInv, RunEnds \/ RunFails
  PROVE  IInv'
<1> USE DEF IInv, handlerVars, runVars, countVars, cliVars
<1>0. /\ stash \in Seq(StreamMessages) /\ stream \in Seq(StreamMessages) /\ OnePlace
      /\ Disjoint(stream) /\ Distinct(inbox) /\ inbox \in Seq(Messages)
      /\ answering \subseteq Messages /\ result \subseteq Messages
  BY DEF TypeInv, TypeOK, OnceInPlace
<1>1. /\ rpc' = "off" /\ cur' = Nobody /\ result' = {} /\ turnActive' = FALSE
      /\ failed' = failed \cup ({cur} \cap Messages)
      /\ UNCHANGED <<handlerVars, followup, countVars, reply, followed, raced>>
  BY DEF RunEnds, RunFails, GiveUp
<1>2. /\ InHand' = {} /\ InReplies' = InReplies /\ InStash' = InStash
      /\ Outside' = Outside /\ InQueue' = InQueue
  BY <1>1 DEF InHand, InReplies, InStash, Outside, InQueue
<1>3. /\ stream' \in {stream, <<>>} /\ inbox' \in {inbox, <<>>} /\ answering' \in {answering, {}}
      /\ cli' \in {cli, "off"}
  BY DEF RunEnds, RunFails
<1>4. lost' \subseteq Messages
  <2>1. CASE RunEnds BY <2>1 DEF RunEnds, TypeInv, TypeOK
  <2>2. CASE RunFails
    <3>1. {inbox[i] : i \in DOMAIN inbox} \subseteq Messages BY <1>0
    <3>2. UNION {stream[i].answers : i \in DOMAIN stream} \subseteq Messages
      BY <1>0, AnswersAreMessages DEF AnswersOf
    <3>3. lost \subseteq Messages BY DEF TypeInv, TypeOK
    <3> QED BY <2>2, <3>1, <3>2, <3>3, <1>0 DEF RunFails
  <2> QED BY <2>1, <2>2
<1>5. stream' \in Seq(StreamMessages) /\ inbox' \in Seq(Messages) /\ Disjoint(stream')
      /\ Distinct(inbox') /\ InStream' \subseteq InStream /\ InPipe' \subseteq InPipe
  <2>1. stream' \in Seq(StreamMessages) /\ inbox' \in Seq(Messages)
    <3>1. <<>> \in Seq(StreamMessages) /\ <<>> \in Seq(Messages) OBVIOUS
    <3>2. stream' = stream \/ stream' = <<>> BY <1>3
    <3>3. inbox' = inbox \/ inbox' = <<>> BY <1>3
    <3> QED BY <1>0, <3>1, <3>2, <3>3
  <2>2. Disjoint(stream') /\ InStream' \subseteq InStream
    BY <1>0, <1>3, EmptySequence DEF InStream
  <2>3. Distinct(inbox') /\ InPipe' \subseteq InPipe BY <1>0, <1>3, EmptySequence DEF InPipe
  <2> QED BY <2>1, <2>2, <2>3
<1>6. TypeInv'
  <2>1. failed' \subseteq Messages /\ cur' \in Messages \cup {FollowUp, Nobody}
    BY <1>1 DEF TypeInv, TypeOK
  <2>2. answering' \subseteq Messages /\ cli' \in {"off", "idle", "turn", "after", "gone"}
    BY <1>0, <1>3 DEF TypeInv, TypeOK
  <2>3. TypeOK' BY <2>1, <2>2, <1>1, <1>4, <1>5 DEF TypeInv, TypeOK
  <2>4. CurKnown' BY <1>1 DEF CurKnown
  <2> QED BY <2>3, <2>4 DEF TypeInv
<1>7. OnePlace' BY <1>0, <1>1, <1>2, <1>3, <1>5 DEF OnePlace
<1> QED BY <1>1, <1>5, <1>6, <1>7 DEF OnceInPlace, RepliesDisjoint

-----------------------------------------------------------------------------
(* Every step. *)
LEMMA NextIInv == IInv /\ [Next]_vars => IInv'
<1> SUFFICES ASSUME IInv, [Next]_vars PROVE IInv' OBVIOUS
<1>1. CASE CliNext BY <1>1, CliIInv
<1>2. CASE RunNext BY <1>2, SendIInv, ReadIInv, SettleIInv, GiveUpIInv DEF RunNext
<1>3. ASSUME NEW m \in Messages, HandlerNext(m) PROVE IInv' BY <1>3, HandlerIInv
<1>4. CASE UNCHANGED vars
  BY <1>4 DEF vars, handlerVars, runVars, countVars, cliVars, replyVars, IInv, TypeInv, TypeOK,
       CurKnown, OnePlace, OnceInPlace, RepliesDisjoint, Outside, InQueue, InHand, InPipe,
       InStream, InStash, InReplies
<1> QED BY <1>1, <1>2, <1>3, <1>4 DEF Next

(* Every variable keeps its type (ClaudeSession.run, inject).              *)
THEOREM TypeCorrect == Spec => []TypeOK
<1>1. IInv => TypeOK BY DEF IInv, TypeInv
<1> QED BY <1>1, InitIInv, NextIInv, PTL DEF Spec

(* No message is answered twice, not even one whose injection failed or    *)
(* whose answer was stashed: replies and follow-up replies are disjoint    *)
(* (ClaudeSession.run, _settle_after_result).                              *)
THEOREM NeverTwice == Spec => []AnsweredOnce
<1>1. IInv => AnsweredOnce
  BY DEF IInv, OnePlace, OnceInPlace, RepliesDisjoint, InReplies, AnsweredOnce, TypeInv, TypeOK
<1> QED BY <1>1, InitIInv, NextIInv, PTL DEF Spec

-----------------------------------------------------------------------------
(* Whose answer is whose.  A second invariant follows the message of the   *)
(* turn from run()'s hand to the first result that run() will read.        *)

Ends(s) == {i \in DOMAIN s : s[i].kind = "result"}
Idle(i) == stream[i].kind = "idle"

(* run(None) from its start to its result, run() before it has sent its    *)
(* message, and run() between its message and the result.                  *)
FollowsUp == cur = FollowUp /\ rpc \in {"connect", "read"}
BeforeSend == rpc = "off" \/ (rpc \in {"connect", "send"} /\ cur \in Messages)
Reading == rpc = "read" /\ cur \in Messages

(* The process and what is kept about it.  What nobody has read begins     *)
(* with "running" as long as no state was seen; the stash is replayed by   *)
(* the follow-up that it asks for.                                         *)
Process ==
  /\ cli = "off" => stream = <<>> /\ inbox = <<>>
  /\ cli = "gone" => inbox = <<>>
  /\ rpc \in {"send", "read", "settle"} \/ FollowsUp => cli # "off"
  /\ rpc \in {"send", "read", "settle"} => ~followup
  /\ rpc \in {"read", "settle"} => cur # Nobody
  /\ rpc = "settle" \/ FollowsUp => statesSeen
  /\ ~statesSeen /\ cli # "off" =>
       IF stream = <<>> THEN cli \in {"idle", "gone"} ELSE Head(stream).kind = "running"
  /\ stash # <<>> => Len(stash) = 1 /\ (cli = "off" \/ FollowsUp)
  /\ BeforeSend => ~turnActive

(* Nothing is outstanding when a message is sent.                          *)
Quiet ==
  /\ Ends(stream) = {} /\ inbox = <<>> /\ cli # "turn"
  /\ cli = "after" => \A m \in Messages : hpc[m] # "sending"

(* The first result is the one of the message that was sent.               *)
Mine ==
  IF Ends(stream) = {}
  THEN \/ cli = "turn" /\ cur \in answering
       \/ cli \in {"idle", "after"} /\ inbox # <<>> /\ Head(inbox) = cur
       \/ cli = "gone"
  ELSE \A i \in Ends(stream) : (\A j \in Ends(stream) : i <= j) => cur \in stream[i].answers

(* What the first result may leave unanswered was injected, and is counted *)
(* or about to be.                                                         *)
Beyond ==
  \/ \E i, j \in Ends(stream) : i # j
  \/ Ends(stream) # {} /\ (cli = "turn" \/ inbox # <<>>)
  \/ cli = "turn" /\ inbox # <<>>
  \/ Len(inbox) > 1
Counted == injected > 0 \/ \E m \in Messages : hpc[m] = "written"

(* An "idle" after the result is the last word of a CLI with nothing to do.*)
LastWord(i) == i = Len(stream) /\ cli \in {"idle", "gone"} /\ inbox = <<>>

Phase ==
  /\ BeforeSend => Quiet
  /\ Reading => /\ Mine
                /\ Beyond => Counted
                /\ \A i \in DOMAIN stream, j \in Ends(stream) : j < i /\ Idle(i) => LastWord(i)
  /\ rpc = "settle" \/ FollowsUp =>
       injected > 0 /\ \A i \in DOMAIN stream : Idle(i) => LastWord(i)
  /\ rpc = "settle" /\ cur \in Messages => cur \in result

MatchInv == Process /\ (raced = {} => Phase /\ RepliesMatch)

-----------------------------------------------------------------------------
(* A message at the end of the CLI's output leaves the others where they   *)
(* are.                                                                    *)
LEMMA Pushed ==
  ASSUME NEW s \in Seq(StreamMessages), NEW e \in StreamMessages
  PROVE  /\ Append(s, e) \in Seq(StreamMessages) /\ Append(s, e) # <<>>
         /\ Head(Append(s, e)) = IF s = <<>> THEN e ELSE Head(s)
         /\ Len(Append(s, e)) = Len(s) + 1 /\ Len(s) \in Nat
         /\ Append(s, e)[Len(s) + 1] = e /\ Len(s) + 1 \in DOMAIN Append(s, e)
         /\ \A i \in DOMAIN s : i \in DOMAIN Append(s, e) /\ Append(s, e)[i] = s[i]
                                /\ i \in Nat /\ i <= Len(s)
         /\ \A i \in DOMAIN Append(s, e) : i \in DOMAIN s \/ i = Len(s) + 1
         /\ Ends(Append(s, e)) = Ends(s) \cup (IF e.kind = "result" THEN {Len(s) + 1} ELSE {})
<1> DEFINE t == Append(s, e)
<1>1. /\ t \in Seq(StreamMessages) /\ t # <<>> /\ Len(t) = Len(s) + 1 /\ Len(s) \in Nat
      /\ Head(t) = IF s = <<>> THEN e ELSE Head(s)
      /\ DOMAIN s = 1..Len(s) /\ DOMAIN t = 1..(Len(s) + 1)
      /\ t[Len(s) + 1] = e /\ \A i \in 1..Len(s) : t[i] = s[i]
  OBVIOUS
<1> HIDE DEF t
<1>2. /\ Len(s) + 1 \in DOMAIN t
      /\ \A i \in DOMAIN s : i \in DOMAIN t /\ t[i] = s[i] /\ i \in Nat /\ i <= Len(s)
      /\ \A i \in DOMAIN t : i \in DOMAIN s \/ i = Len(s) + 1
  BY <1>1
<1>3. Ends(t) = Ends(s) \cup (IF e.kind = "result" THEN {Len(s) + 1} ELSE {})
  BY <1>1, <1>2 DEF Ends
<1> QED
  BY <1>1, <1>2, <1>3 DEF t

(* Without the first message the others move up.                           *)
LEMMA Popped ==
  ASSUME NEW s \in Seq(StreamMessages), s # <<>>
  PROVE  /\ Tail(s) \in Seq(StreamMessages) /\ Head(s) \in StreamMessages
         /\ Head(s) = s[1] /\ 1 \in DOMAIN s /\ Len(s) \in Nat /\ Len(Tail(s)) = Len(s) - 1
         /\ \A i \in DOMAIN Tail(s) : i \in Nat /\ i >= 1 /\ i + 1 \in DOMAIN s /\ Tail(s)[i] = s[i + 1]
         /\ \A i \in DOMAIN s : i \in Nat /\ i >= 1 /\ i <= Len(s)
         /\ \A i \in DOMAIN s : i # 1 => i - 1 \in DOMAIN Tail(s)
         /\ \A i \in DOMAIN Tail(s) : i \in Ends(Tail(s)) <=> i + 1 \in Ends(s)
         /\ 1 \in Ends(s) <=> Head(s).kind = "result"
<1> DEFINE t == Tail(s)
<1>1. /\ t \in Seq(StreamMessages) /\ Head(s) \in StreamMessages /\ Head(s) = s[1]
      /\ Len(s) \in Nat /\ Len(s) >= 1 /\ Len(t) = Len(s) - 1
      /\ DOMAIN s = 1..Len(s) /\ DOMAIN t = 1..(Len(s) - 1)
      /\ \A i \in 1..(Len(s) - 1) : t[i] = s[i + 1]
  OBVIOUS
<1> HIDE DEF t
<1>2. /\ 1 \in DOMAIN s
      /\ \A i \in DOMAIN t : i \in Nat /\ i >= 1 /\ i + 1 \in DOMAIN s /\ t[i] = s[i + 1]
      /\ \A i \in DOMAIN s : i \in Nat /\ i >= 1 /\ i <= Len(s)
      /\ \A i \in DOMAIN s : i # 1 => i - 1 \in DOMAIN t
  BY <1>1
<1>3. /\ \A i \in DOMAIN t : i \in Ends(t) <=> i + 1 \in Ends(s)
      /\ 1 \in Ends(s) <=> Head(s).kind = "result"
  BY <1>1, <1>2 DEF Ends
<1> QED
  BY <1>1, <1>2, <1>3 DEF t

(* More output that is neither an "idle" nor a result.                     *)
Silent(s, t) ==
  /\ t \in Seq(StreamMessages) /\ Ends(t) = Ends(s)
  /\ \A i \in DOMAIN t : t[i].kind = "idle" => i \in DOMAIN s /\ s[i].kind = "idle"
  /\ \A i \in Ends(s) : t[i] = s[i]
  /\ s # <<>> => t # <<>> /\ Head(t) = Head(s)

LEMMA PushSilent ==
  ASSUME NEW s \in Seq(StreamMessages), NEW e \in StreamMessages, e.kind \notin {"idle", "result"}
  PROVE  Silent(s, Append(s, e))
<1> DEFINE t == Append(s, e)
<1>1. Ends(s) \subseteq DOMAIN s
  BY DEF Ends
<1>2. /\ t \in Seq(StreamMessages) /\ t # <<>> /\ Head(t) = IF s = <<>> THEN e ELSE Head(s)
      /\ t[Len(s) + 1] = e /\ \A i \in DOMAIN s : t[i] = s[i]
      /\ \A i \in DOMAIN t : i \in DOMAIN s \/ i = Len(s) + 1
      /\ Ends(t) = Ends(s) \cup (IF e.kind = "result" THEN {Len(s) + 1} ELSE {})
  BY Pushed
<1> HIDE DEF t
<1>3. e.kind # "result" /\ t[Len(s) + 1].kind # "idle"
  BY <1>2
<1>4. Ends(t) = Ends(s)
  BY <1>2, <1>3
<1>5. Silent(s, t)
  BY <1>1, <1>2, <1>3, <1>4 DEF Silent
<1> QED
  BY <1>5 DEF t

-----------------------------------------------------------------------------
(* The CLI keeps the order of what it is sent.                             *)
LEMMA CliMatch ==
  ASSUME TypeInv, MatchInv, CliNext
  PROVE  MatchInv'
<1> USE DEF handlerVars, runVars, countVars, replyVars
<1>0. /\ stream \in Seq(StreamMessages) /\ inbox \in Seq(Messages)
      /\ cli \in {"off", "idle", "turn", "after", "gone"} /\ answering \subseteq Messages
      /\ UNCHANGED <<hpc, queue, rpc, cur, result, turnActive, followup, statesSeen, injected,
                     stash, reply, raced>>
  BY DEF TypeInv, TypeOK, CliNext, CliStart, CliFold, CliResult, CliError, CliIdle, CliExit
<1>1. /\ (FollowsUp' <=> FollowsUp) /\ (BeforeSend' <=> BeforeSend) /\ (Reading' <=> Reading)
      /\ (RepliesMatch' <=> RepliesMatch) /\ (Counted' <=> Counted)
  BY <1>0 DEF FollowsUp, BeforeSend, Reading, RepliesMatch, Counted
<1>2. ASSUME Process', raced = {} /\ Phase => Phase' PROVE MatchInv'
  BY <1>0, <1>1, <1>2 DEF MatchInv
<1>3. State("running") \in StreamMessages /\ State("running").kind = "running"
      /\ Opening \in StreamMessages /\ Opening.kind = "init"
      /\ State("error") \in StreamMessages /\ State("error").kind = "error"
      /\ State("idle") \in StreamMessages /\ State("idle").kind = "idle"
      /\ Result(answering) \in StreamMessages /\ Result(answering).kind = "result"
      /\ Result(answering).answers = answering
  BY <1>0 DEF State, Opening, Result, StreamMessages
<1>4. CASE CliStart
  <2>1. /\ cli \in {"idle", "after"} /\ inbox # <<>> /\ cli' = "turn"
        /\ answering' = {Head(inbox)} /\ inbox' = Tail(inbox)
        /\ stream' = Append(Append(stream, State("running")), Opening)
    BY <1>0, <1>3, <1>4 DEF CliStart
  <2>2. /\ Silent(stream, stream') /\ stream' # <<>>
        /\ stream = <<>> => Head(stream').kind = "running"
    <3> DEFINE s == Append(stream, State("running"))
    <3>1. s \in Seq(StreamMessages) /\ s # <<>> /\ (stream = <<>> => Head(s) = State("running"))
      BY <1>0, <1>3, Pushed
    <3>2. Silent(stream, s)
      BY <1>0, <1>3, PushSilent
    <3>3. stream' = Append(s, Opening)
      BY <2>1
    <3> HIDE DEF s
    <3>4. Silent(s, stream')
      BY <3>1, <3>3, <1>3, PushSilent
    <3> QED
      BY <3>1, <3>2, <3>4, <1>3 DEF Silent
  <2>3. /\ Tail(inbox) # <<>> => Len(inbox) > 1
        /\ Len(Tail(inbox)) > 1 => Len(inbox) > 1
    BY <1>0, <2>1
  <2>4. Process'
    BY <1>0, <1>1, <2>1, <2>2 DEF Process, MatchInv, Silent
  <2>5. ASSUME Phase PROVE Phase'
    <3>1. ~BeforeSend /\ \A i : ~LastWord(i)
      BY <2>1, <2>5 DEF Phase, Quiet, LastWord
    <3>2. Reading => Mine'
      BY <1>0, <2>1, <2>2, <2>5 DEF Phase, Mine, Silent
    <3>3. Beyond' => Beyond
      BY <2>1, <2>2, <2>3 DEF Beyond, Silent
    <3>4. Reading => \A i \in DOMAIN stream', j \in Ends(stream') : ~(j < i /\ Idle(i)')
      BY <2>2, <2>5, <3>1 DEF Phase, Silent, Idle
    <3>5. rpc = "settle" \/ FollowsUp => \A i \in DOMAIN stream' : ~Idle(i)'
      BY <2>2, <2>5, <3>1 DEF Phase, Silent, Idle
    <3> QED
      BY <1>0, <1>1, <2>5, <3>1, <3>2, <3>3, <3>4, <3>5 DEF Phase
  <2> QED
    BY <1>2, <2>4, <2>5
<1>5. CASE CliFold
  <2>1. /\ cli = "turn" /\ inbox # <<>> /\ answering' = answering \cup {Head(inbox)}
        /\ inbox' = Tail(inbox) /\ UNCHANGED <<cli, stream>>
    BY <1>5 DEF CliFold
  <2>2. Process'
    BY <1>0, <1>1, <2>1 DEF Process, MatchInv
  <2>3. ASSUME Phase PROVE Phase'
    <3>1. ~BeforeSend /\ \A i : ~LastWord(i)
      BY <2>1, <2>3 DEF Phase, Quiet, LastWord
    <3>2. (Mine => Mine') /\ (Beyond' => Beyond)
      BY <1>0, <2>1 DEF Mine, Beyond
    <3> QED
      BY <1>0, <1>1, <2>1, <2>3, <3>1, <3>2 DEF Phase, Idle
  <2> QED
    BY <1>2, <2>2, <2>3
<1>6. CASE CliResult \/ CliError
  <2>1. /\ cli = "turn" /\ cli' = "after" /\ inbox' = inbox
        /\ \/ stream' = Append(stream, Result(answering))
           \/ stream' = Append(Append(stream, State("error")), Result(answering))
    BY <1>0, <1>3, <1>6 DEF CliResult, CliError
  <2>2. PICK s : Silent(stream, s) /\ stream' = Append(s, Result(answering))
    <3>1. Silent(stream, stream) /\ Silent(stream, Append(stream, State("error")))
      <4>1. Silent(stream, stream)
        BY <1>0 DEF Silent, Ends
      <4> QED
        BY <4>1, <1>0, <1>3, PushSilent
    <3> QED
      BY <2>1, <3>1
  <2>3. /\ stream' # <<>> /\ Len(s) \in Nat
        /\ Head(stream') = IF s = <<>> THEN Result(answering) ELSE Head(s)
        /\ stream'[Len(s) + 1] = Result(answering)
        /\ \A i \in DOMAIN s : stream'[i] = s[i] /\ i \in Nat /\ i <= Len(s)
        /\ \A i \in DOMAIN stream' : i \in DOMAIN s \/ i = Len(s) + 1
        /\ Ends(stream') = Ends(stream) \cup {Len(s) + 1} /\ Ends(stream) \subseteq DOMAIN s
    <3>1. s \in Seq(StreamMessages) /\ Ends(s) = Ends(stream) /\ Ends(s) \subseteq DOMAIN s
      BY <2>2 DEF Silent, Ends
    <3> QED
      BY <2>2, <3>1, <1>3, Pushed
  <2>4. Process'
    BY <1>0, <1>1, <2>1, <2>2, <2>3 DEF Process, MatchInv, Silent
  <2>5. ASSUME Phase PROVE Phase'
    <3>1. ~BeforeSend /\ \A i : ~LastWord(i)
      BY <2>1, <2>5 DEF Phase, Quiet, LastWord
    <3>2. Reading => Mine'
      <4>1. CASE Ends(stream) = {}
        BY <2>1, <2>3, <2>5, <4>1, <1>3, <1>0 DEF Phase, Mine
      <4>2. CASE Ends(stream) # {}
        <5> SUFFICES ASSUME Reading, NEW i \in Ends(stream'), \A j \in Ends(stream') : i <= j
                     PROVE  cur \in stream'[i].answers
          BY <1>0, <2>3, <4>2 DEF Mine
        <5>1. i \in Ends(stream) /\ \A j \in Ends(stream) : i <= j
          BY <2>3, <4>2
        <5> QED
          BY <2>2, <2>3, <2>5, <4>2, <5>1 DEF Phase, Mine, Silent
      <4> QED
        BY <4>1, <4>2
    <3>3. Beyond' => Beyond
      <4>1. ASSUME NEW i \in Ends(stream'), NEW j \in Ends(stream'), i # j PROVE Beyond
        BY <2>1, <2>3, <4>1 DEF Beyond
      <4> QED
        BY <2>1, <4>1 DEF Beyond
    <3>4. \A i \in DOMAIN stream' : Idle(i)' => i \in DOMAIN stream /\ Idle(i) /\ i <= Len(s)
      BY <2>2, <2>3, <1>3 DEF Silent, Idle
    <3>5. Reading => \A i \in DOMAIN stream', j \in Ends(stream') : ~(j < i /\ Idle(i)')
      BY <2>3, <2>5, <3>1, <3>4 DEF Phase
    <3>6. rpc = "settle" \/ FollowsUp => \A i \in DOMAIN stream' : ~Idle(i)'
      BY <2>5, <3>1, <3>4 DEF Phase
    <3> QED
      BY <1>0, <1>1, <2>5, <3>1, <3>2, <3>3, <3>5, <3>6 DEF Phase
  <2> QED
    BY <1>2, <2>4, <2>5
<1>7. CASE CliIdle
  <2>1. /\ cli = "after" /\ inbox = <<>> /\ cli' = "idle" /\ inbox' = <<>> /\ answering' = answering
        /\ stream' = Append(stream, State("idle"))
    BY <1>7 DEF CliIdle
  <2>2. /\ stream' # <<>> /\ Len(stream) \in Nat /\ Len(stream') = Len(stream) + 1
        /\ Head(stream') = IF stream = <<>> THEN State("idle") ELSE Head(stream)
        /\ \A i \in DOMAIN stream : stream'[i] = stream[i] /\ i \in Nat /\ i <= Len(stream)
        /\ \A i \in DOMAIN stream' : i \in DOMAIN stream \/ i = Len(stream')
        /\ Ends(stream') = Ends(stream) /\ Ends(stream) \subseteq DOMAIN stream
    BY <1>0, <1>3, <2>1, Pushed DEF Ends
  <2>3. Process'
    BY <1>0, <1>1, <2>1, <2>2 DEF Process, MatchInv
  <2>4. ASSUME Phase PROVE Phase'
    <3>1. \A i : ~LastWord(i)
      BY <2>1 DEF LastWord
    <3>2. BeforeSend => Quiet'
      BY <1>0, <2>1, <2>2, <2>4 DEF Phase, Quiet
    <3>3. (Mine => Mine') /\ (Beyond' => Beyond)
      BY <1>0, <2>1, <2>2 DEF Mine, Beyond
    <3>4. \A i : i = Len(stream') => LastWord(i)'
      BY <2>1 DEF LastWord
    <3>5. Reading => \A i \in DOMAIN stream', j \in Ends(stream') : j < i /\ Idle(i)' => LastWord(i)'
      BY <2>2, <2>4, <3>1, <3>4 DEF Phase, Idle
    <3>6. rpc = "settle" \/ FollowsUp => \A i \in DOMAIN stream' : Idle(i)' => LastWord(i)'
      BY <2>2, <2>4, <3>1, <3>4 DEF Phase, Idle
    <3> QED
      BY <1>0, <1>1, <2>4, <3>2, <3>3, <3>5, <3>6 DEF Phase
  <2> QED
    BY <1>2, <2>3, <2>4
<1>8. CASE CliExit
  <2>1. cli' = "gone" /\ inbox' = <<>> /\ stream' = stream /\ cli # "off"
    BY <1>8 DEF CliExit
  <2>2. Process'
    BY <1>0, <1>1, <2>1 DEF Process, MatchInv
  <2>3. ASSUME Phase PROVE Phase'
    <3>1. /\ Quiet => Quiet'
          /\ Mine => Mine'
          /\ Beyond' => Beyond
          /\ \A i : LastWord(i) => LastWord(i)'
      BY <1>0, <2>1 DEF Quiet, Mine, Beyond, LastWord
    <3> QED
      BY <1>0, <1>1, <2>1, <2>3, <3>1 DEF Phase, Idle
  <2> QED
    BY <1>2, <2>2, <2>3
<1> QED
  BY <1>4, <1>5, <1>6, <1>7, <1>8 DEF CliNext

(* A message is injected into a turn that runs; one that comes later than  *)
(* the "idle" is a race.                                                   *)
LEMMA HandlerMatch ==
  ASSUME TypeInv, MatchInv, NEW m \in Messages, HandlerNext(m)
  PROVE  MatchInv'
<1> USE DEF runVars, countVars, cliVars, replyVars
<1>0. /\ inbox \in Seq(Messages) /\ injected \in Nat
      /\ hpc \in [Messages -> {"new", "sending", "written", "injected", "queued"}]
      /\ cli \in {"off", "idle", "turn", "after", "gone"}
      /\ UNCHANGED <<rpc, cur, result, turnActive, followup, statesSeen, stash, stream, cli,
                     answering, reply>>
  BY DEF TypeInv, TypeOK, HandlerNext, Arrive, InjectWrite, InjectFails, InjectCounts
<1>1. /\ (FollowsUp' <=> FollowsUp) /\ (BeforeSend' <=> BeforeSend) /\ (Reading' <=> Reading)
      /\ (RepliesMatch' <=> RepliesMatch)
  BY <1>0 DEF FollowsUp, BeforeSend, Reading, RepliesMatch
<1>2. ASSUME Process', raced \subseteq raced', raced' = {} /\ Phase => Phase' PROVE MatchInv'
  BY <1>0, <1>1, <1>2 DEF MatchInv
<1>3. CASE Arrive(m) \/ InjectFails(m)
  <2>1. /\ UNCHANGED <<inbox, injected, raced>>
        /\ \A n \in Messages : hpc'[n] = "sending" => hpc[n] = "sending" \/ turnActive
        /\ \A n \in Messages : hpc[n] = "written" => hpc'[n] = "written"
    BY <1>0, <1>3 DEF Arrive, InjectFails, Queue, CanInject
  <2>2. Process'
    BY <1>0, <1>1, <2>1 DEF Process, MatchInv
  <2>3. ASSUME Phase PROVE Phase'
    <3>1. BeforeSend => Quiet'
      BY <1>0, <2>1, <2>3 DEF Phase, Quiet, MatchInv, Process
    <3>2. (Mine => Mine') /\ (Beyond' => Beyond) /\ (Counted => Counted')
          /\ \A i : LastWord(i) => LastWord(i)'
      BY <1>0, <2>1 DEF Mine, Beyond, Counted, LastWord
    <3> QED
      BY <1>0, <1>1, <2>1, <2>3, <3>1, <3>2 DEF Phase, Idle
  <2> QED
    BY <1>2, <2>1, <2>2, <2>3
<1>4. CASE InjectWrite(m)
  <2>1. /\ hpc[m] = "sending" /\ cli \notin {"off", "gone"} /\ inbox' = Append(inbox, m)
        /\ hpc'[m] = "written" /\ injected' = injected
        /\ raced' = raced \cup (IF cli = "idle" /\ inbox = <<>> THEN {"late"} ELSE {})
    BY <1>0, <1>4 DEF InjectWrite
  <2>2. /\ inbox' # <<>> /\ (inbox # <<>> => Head(inbox') = Head(inbox)) /\ Counted'
    BY <1>0, <2>1 DEF Counted
  <2>3. Process'
    BY <1>0, <1>1, <2>1 DEF Process, MatchInv
  <2>4. ASSUME Phase, raced' = {} PROVE Phase'
    <3>1. ~(cli = "idle" /\ inbox = <<>>)
      BY <2>1, <2>4
    <3>2. ~BeforeSend
      BY <1>0, <2>1, <2>4, <3>1 DEF Phase, Quiet
    <3>3. \A i : ~LastWord(i)
      BY <2>1, <3>1 DEF LastWord
    <3>4. Mine => Mine'
      BY <1>0, <2>1, <2>2 DEF Mine
    <3> QED
      BY <1>0, <1>1, <2>1, <2>2, <2>4, <3>2, <3>3, <3>4 DEF Phase, Idle
  <2> QED
    BY <1>2, <2>1, <2>3, <2>4
<1>5. CASE InjectCounts(m)
  <2>1. /\ injected' = injected + 1 /\ UNCHANGED <<inbox, raced>>
        /\ \A n \in Messages : hpc'[n] = "sending" => hpc[n] = "sending"
    BY <1>0, <1>5 DEF InjectCounts
  <2>2. Process'
    BY <1>0, <1>1, <2>1 DEF Process, MatchInv
  <2>3. ASSUME Phase PROVE Phase'
    <3>1. (Quiet => Quiet') /\ (Mine => Mine') /\ Counted' /\ injected' > 0
          /\ \A i : LastWord(i) => LastWord(i)'
      BY <1>0, <2>1 DEF Quiet, Mine, Counted, LastWord
    <3> QED
      BY <1>0, <1>1, <2>1, <2>3, <3>1 DEF Phase, Idle
  <2> QED
    BY <1>2, <2>1, <2>2, <2>3
<1> QED
  BY <1>3, <1>4, <1>5 DEF HandlerNext

-----------------------------------------------------------------------------
(* run() sends when nothing is outstanding, so that its message is the     *)
(* first the CLI answers.                                                  *)
LEMMA SendMatch ==
  ASSUME TypeInv, TypeInv', NamesAssumption, MatchInv, RunStart \/ RunConnect \/ RunSend
  PROVE  MatchInv'
<1> USE DEF handlerVars, runVars, countVars, cliVars, replyVars
<1>0. /\ stream \in Seq(StreamMessages) /\ inbox \in Seq(Messages)
      /\ cli \in {"off", "idle", "turn", "after", "gone"}
      /\ cur' \in Messages \cup {FollowUp, Nobody} /\ FollowUp \notin Messages /\ CurKnown /\ CurKnown'
      /\ Nobody \notin Messages /\ Nobody # FollowUp
      /\ UNCHANGED <<hpc, result, reply, stream, answering, raced>>
  BY DEF TypeInv, TypeOK, RunStart, RunConnect, RunSend, NamesAssumption
<1>1. RepliesMatch' <=> RepliesMatch
  BY <1>0 DEF RepliesMatch
<1>2. ASSUME Process', raced = {} /\ Phase => Phase' PROVE MatchInv'
  BY <1>0, <1>1, <1>2 DEF MatchInv
<1>3. CASE RunStart
  <2>1. /\ rpc = "off" /\ rpc' = "connect" /\ cur' \in Messages
        /\ UNCHANGED <<turnActive, followup, statesSeen, stash, injected, cli, inbox>>
    <3>1. cur' # FollowUp
      BY <1>0, <1>3 DEF RunStart, TypeInv, TypeOK
    <3> QED
      BY <1>0, <1>3 DEF RunStart, TypeInv, TypeOK, CurKnown
  <2>2. Process'
    BY <1>0, <2>1 DEF Process, MatchInv, FollowsUp, BeforeSend
  <2>3. ASSUME Phase PROVE Phase'
    <3>1. Quiet'
      BY <1>0, <2>1, <2>3 DEF Phase, BeforeSend, Quiet
    <3> QED
      BY <1>0, <2>1, <3>1 DEF Phase, FollowsUp, Reading
  <2> QED
    BY <1>2, <2>2, <2>3
<1>4. CASE RunConnect
  <2>1. rpc = "connect" /\ UNCHANGED <<cur, inbox>> /\ followup' = FALSE
    BY <1>4 DEF RunConnect
  <2>2. cli = "off" => /\ cli' = "idle" /\ statesSeen' = FALSE /\ stash' = <<>>
                       /\ stream = <<>> /\ inbox = <<>>
    BY <1>4 DEF RunConnect, MatchInv, Process
  <2>3. cli # "off" => UNCHANGED <<cli, injected, statesSeen, stash>>
    BY <1>4 DEF RunConnect
  <2>4. CASE cur = FollowUp
    <3>1. rpc' = "read" /\ FollowsUp /\ FollowsUp' /\ ~BeforeSend' /\ ~Reading' /\ cli # "off"
      BY <1>0, <1>4, <2>1, <2>4 DEF RunConnect, FollowsUp, BeforeSend, Reading, MatchInv, Process
    <3>2. Process'
      BY <1>0, <2>1, <2>3, <2>4, <3>1 DEF Process, MatchInv
    <3>3. ASSUME Phase PROVE Phase'
      <4>1. \A i : LastWord(i) => LastWord(i)'
        BY <1>0, <2>1, <2>3, <3>1 DEF LastWord
      <4> QED
        BY <1>0, <2>3, <3>1, <3>3, <4>1 DEF Phase, Idle
    <3> QED
      BY <1>2, <3>2, <3>3
  <2>5. CASE cur # FollowUp
    <3>1. /\ cur \in Messages /\ rpc' = "send" /\ turnActive' = turnActive /\ BeforeSend
          /\ BeforeSend' /\ ~Reading' /\ ~FollowsUp' /\ ~FollowsUp /\ cli' # "off"
      BY <1>0, <1>4, <2>1, <2>2, <2>3, <2>5
      DEF RunConnect, FollowsUp, BeforeSend, Reading, CurKnown
    <3>2. Process'
      BY <1>0, <2>1, <2>2, <2>3, <3>1 DEF Process, MatchInv
    <3>3. ASSUME Phase PROVE Phase'
      <4>1. Quiet'
        BY <1>0, <2>1, <2>2, <2>3, <3>1, <3>3 DEF Phase, Quiet
      <4> QED
        BY <1>0, <3>1, <4>1 DEF Phase
    <3> QED
      BY <1>2, <3>2, <3>3
  <2> QED
    BY <2>4, <2>5
<1>5. CASE RunSend
  <2>1. /\ rpc = "send" /\ rpc' = "read" /\ cli # "gone" /\ inbox' = Append(inbox, cur) /\ cur \in Messages
        /\ UNCHANGED <<cur, followup, statesSeen, stash, injected, cli>>
        /\ BeforeSend /\ Reading' /\ ~BeforeSend' /\ ~FollowsUp' /\ ~FollowsUp
    BY <1>0, <1>5 DEF RunSend, CurKnown, BeforeSend, Reading, FollowsUp
  <2>2. Process'
    BY <1>0, <2>1 DEF Process, MatchInv
  <2>3. ASSUME Phase PROVE Phase'
    <3>1. Quiet /\ cli # "off"
      BY <2>1, <2>3 DEF Phase, MatchInv, Process
    <3>2. inbox' # <<>> /\ Head(inbox') = cur /\ Len(inbox') = 1
      BY <1>0, <2>1, <3>1 DEF Quiet
    <3>3. Mine' /\ ~Beyond' /\ Ends(stream') = {}
      BY <1>0, <2>1, <3>1, <3>2 DEF Quiet, Mine, Beyond
    <3> QED
      BY <2>1, <3>3 DEF Phase
  <2> QED
    BY <1>2, <2>2, <2>3
<1> QED
  BY <1>3, <1>4, <1>5

-----------------------------------------------------------------------------
(* Reading                                                                 *)

(* The stash is read by the follow-up alone, and it is one message.        *)
LEMMA Incomes ==
  ASSUME TypeInv, Process, rpc = "read", Incoming # <<>>, TakeIncoming
  PROVE  /\ stash' = <<>>
         /\ \/ stash = <<>> /\ stream # <<>> /\ Head(Incoming) = Head(stream) /\ stream' = Tail(stream)
            \/ cur = FollowUp /\ stream' = stream
<1>0. stash \in Seq(StreamMessages) /\ stream \in Seq(StreamMessages)
  BY DEF TypeInv, TypeOK
<1>1. CASE stash = <<>>
  <2>1. Incoming = stream
    BY <1>0, <1>1 DEF Incoming
  <2> QED
    BY <1>1, <2>1 DEF TakeIncoming
<1>2. CASE stash # <<>>
  <2>1. Len(stash) = 1 /\ cur = FollowUp
    BY <1>2 DEF Process, FollowsUp
  <2>2. Tail(stash) = <<>>
    <3>1. Tail(stash) \in Seq(StreamMessages) /\ Len(Tail(stash)) = 0
      BY <1>0, <1>2, <2>1, Popped
    <3> QED
      BY <3>1, EmptySeq
  <2> QED
    BY <1>2, <2>1, <2>2 DEF TakeIncoming
<1> QED
  BY <1>1, <1>2

(* The last word stays the last when the message before it is taken.       *)
LEMMA TailLast ==
  ASSUME stream \in Seq(StreamMessages), stream # <<>>, stream' = Tail(stream), UNCHANGED <<cli, inbox>>
  PROVE  \A i \in DOMAIN stream' :
           /\ i + 1 \in DOMAIN stream /\ i >= 1 /\ i \in Nat /\ (Idle(i)' <=> Idle(i + 1))
           /\ LastWord(i + 1) => LastWord(i)'
<1> SUFFICES ASSUME NEW i \in DOMAIN stream'
             PROVE  /\ i + 1 \in DOMAIN stream /\ i >= 1 /\ i \in Nat /\ (Idle(i)' <=> Idle(i + 1))
                    /\ LastWord(i + 1) => LastWord(i)'
  OBVIOUS
<1>1. /\ i \in Nat /\ i >= 1 /\ i + 1 \in DOMAIN stream /\ stream'[i] = stream[i + 1]
      /\ Len(stream') = Len(stream) - 1 /\ Len(stream) \in Nat
  BY Popped
<1> QED
  BY <1>1 DEF Idle, LastWord

(* A reply that has the message it is given for.                           *)
LEMMA ReplyMatch ==
  ASSUME TypeInv, RepliesMatch, NEW S, Report(S), cur \in Messages => cur \in S
  PROVE  RepliesMatch'
<1>1. reply \in [Messages -> SUBSET Messages]
  BY DEF TypeInv, TypeOK
<1>2. CASE reply' = reply
  BY <1>2 DEF RepliesMatch
<1>3. CASE cur # FollowUp /\ reply' = [reply EXCEPT ![cur] = @ \cup S]
  <2>1. \A m \in Messages : reply'[m] = IF m = cur THEN reply[m] \cup S ELSE reply[m]
    BY <1>1, <1>3
  <2> QED
    BY <2>1 DEF RepliesMatch
<1> QED
  BY <1>2, <1>3 DEF Report

(* Up to the result nothing changes whose turn it is.                      *)
LEMMA ReadMatch ==
  ASSUME TypeInv, MatchInv, RunRead
  PROVE  MatchInv'
<1> USE DEF handlerVars, runVars, replyVars
<1>0. /\ stash \in Seq(StreamMessages) /\ stream \in Seq(StreamMessages) /\ injected \in Nat
      /\ rpc = "read" /\ Incoming # <<>> /\ TakeIncoming
      /\ UNCHANGED <<hpc, rpc, cur, result, turnActive, followup, cli, inbox, answering, reply>>
  BY DEF TypeInv, TypeOK, RunRead
<1> DEFINE k == Head(Incoming).kind
<1>1. /\ k \notin {"error", "result"}
      /\ IF k = "init" THEN UNCHANGED <<statesSeen, injected>>
         ELSE statesSeen' = TRUE /\ injected' = IF k = "idle" THEN 0 ELSE injected
      /\ raced' = raced \cup (IF k = "idle" /\ injected > 0 THEN {"stale"} ELSE {})
  BY DEF RunRead, NoteState
<1>2. /\ stash' = <<>>
      /\ \/ stash = <<>> /\ stream # <<>> /\ k = Head(stream).kind /\ stream' = Tail(stream)
         \/ cur = FollowUp /\ stream' = stream
  BY <1>0, Incomes DEF MatchInv
<1>3. cli # "off" /\ ~followup /\ ~BeforeSend /\ ~BeforeSend' /\ (FollowsUp' <=> FollowsUp)
      /\ (FollowsUp <=> cur = FollowUp) /\ (Reading' <=> Reading)
  BY <1>0 DEF MatchInv, Process, BeforeSend, FollowsUp, Reading
<1> HIDE DEF k
<1>4. statesSeen'
  <2>1. CASE cur = FollowUp
    BY <1>1, <1>3, <2>1 DEF MatchInv, Process
  <2>2. CASE cur # FollowUp
    BY <1>1, <1>2, <1>3, <2>2 DEF MatchInv, Process
  <2> QED
    BY <2>1, <2>2
<1>5. Process'
  BY <1>0, <1>2, <1>3, <1>4 DEF MatchInv, Process
<1>6. ASSUME raced' = {} PROVE Phase' /\ RepliesMatch'
  <2>1. raced = {} /\ (k = "idle" => injected = 0) /\ injected' = injected
    BY <1>0, <1>1, <1>6
  <2>2. Phase /\ RepliesMatch
    BY <2>1 DEF MatchInv
  <2>3. CASE stream # <<>> /\ stream' = Tail(stream) /\ k = Head(stream).kind
    <3>1. \A i \in DOMAIN stream' :
            /\ i + 1 \in DOMAIN stream /\ i >= 1 /\ i \in Nat /\ (Idle(i)' <=> Idle(i + 1))
            /\ LastWord(i + 1) => LastWord(i)'
      BY <1>0, <2>3, TailLast
    <3>2. /\ \A i \in DOMAIN stream' : i \in Ends(stream') <=> i + 1 \in Ends(stream)
          /\ \A i \in DOMAIN stream' : stream'[i] = stream[i + 1]
          /\ \A i \in DOMAIN stream : i \in Nat /\ i >= 1 /\ (i # 1 => i - 1 \in DOMAIN stream')
          /\ 1 \notin Ends(stream)
          /\ Ends(stream) \subseteq DOMAIN stream /\ Ends(stream') \subseteq DOMAIN stream'
      BY <1>0, <1>1, <2>3, Popped DEF Ends
    <3>3. \A i \in Ends(stream) : i - 1 \in Ends(stream') /\ i \in Nat
      BY <3>2
    <3>4. Mine => Mine'
      <4>1. Ends(stream') = {} <=> Ends(stream) = {}
        BY <3>2, <3>3
      <4>2. ASSUME NEW i \in Ends(stream'), \A j \in Ends(stream') : i <= j
            PROVE  i + 1 \in Ends(stream) /\ \A j \in Ends(stream) : i + 1 <= j
        BY <3>1, <3>2, <3>3, <4>2
      <4> QED
        BY <1>0, <3>2, <4>1, <4>2 DEF Mine
    <3>5. Beyond' => Beyond
      <4>1. ASSUME NEW i \in Ends(stream'), NEW j \in Ends(stream'), i # j PROVE Beyond
        <5>1. i + 1 \in Ends(stream) /\ j + 1 \in Ends(stream) /\ i + 1 # j + 1
          BY <3>1, <3>2, <4>1
        <5> QED
          BY <5>1 DEF Beyond
      <4>2. Ends(stream') # {} => Ends(stream) # {}
        BY <3>2
      <4> QED
        BY <1>0, <4>1, <4>2 DEF Beyond
    <3>6. Counted' <=> Counted
      BY <1>0, <2>1 DEF Counted
    <3>7. Reading => \A i \in DOMAIN stream', j \in Ends(stream') : j < i /\ Idle(i)' => LastWord(i)'
      <4> SUFFICES ASSUME Reading, NEW i \in DOMAIN stream', NEW j \in Ends(stream'), j < i, Idle(i)'
                   PROVE  LastWord(i)'
        OBVIOUS
      <4>1. /\ i + 1 \in DOMAIN stream /\ j + 1 \in Ends(stream) /\ Idle(i + 1) /\ j + 1 < i + 1
        BY <3>1, <3>2
      <4> QED
        BY <2>2, <3>1, <4>1 DEF Phase
    <3>8. FollowsUp => \A i \in DOMAIN stream' : Idle(i)' => LastWord(i)'
      BY <2>2, <3>1 DEF Phase
    <3> QED
      BY <1>0, <1>3, <2>1, <2>2, <3>4, <3>5, <3>6, <3>7, <3>8 DEF Phase, RepliesMatch
  <2>4. CASE cur = FollowUp /\ stream' = stream
    <3>1. ~Reading \/ FollowsUp
      BY <2>4, <1>3
    <3>2. /\ Mine <=> Mine'
          /\ Beyond' <=> Beyond
          /\ Counted' <=> Counted
          /\ \A i : LastWord(i)' <=> LastWord(i)
      BY <1>0, <2>1, <2>4 DEF Mine, Beyond, Counted, LastWord
    <3> QED
      BY <1>0, <1>3, <2>1, <2>2, <2>4, <3>2 DEF Phase, Idle, RepliesMatch
  <2> QED
    BY <1>2, <2>3, <2>4
<1> QED
  BY <1>5, <1>6 DEF MatchInv

(* The first result has the message; what may be left is counted, and then *)
(* run() settles.                                                          *)
LEMMA ResultMatch ==
  ASSUME TypeInv, NamesAssumption, MatchInv, RunResult
  PROVE  MatchInv'
<1> USE DEF handlerVars
<1> DEFINE S == Head(Incoming).answers
<1>0. /\ stash \in Seq(StreamMessages) /\ stream \in Seq(StreamMessages) /\ injected \in Nat
      /\ rpc = "read" /\ Incoming # <<>> /\ Head(Incoming).kind = "result" /\ TakeIncoming
      /\ raced' = raced \cup (IF InjectUnderWay THEN {"uncounted"} ELSE {})
      /\ UNCHANGED <<hpc, followup, statesSeen, injected, cli, inbox, answering>>
      /\ FollowUp \notin Messages /\ Nobody \notin Messages /\ Nobody # FollowUp
  BY DEF TypeInv, TypeOK, RunResult, NamesAssumption
<1>1. IF injected > 0 /\ statesSeen
      THEN rpc' = "settle" /\ result' = S /\ UNCHANGED <<cur, turnActive, reply>>
      ELSE Report(S)
  BY DEF RunResult, replyVars
<1>2. /\ stash' = <<>>
      /\ \/ stash = <<>> /\ stream # <<>> /\ Head(Incoming) = Head(stream) /\ stream' = Tail(stream)
         \/ cur = FollowUp /\ stream' = stream
  BY <1>0, Incomes DEF MatchInv
<1>3. cli # "off" /\ ~followup
  BY <1>0 DEF MatchInv, Process
<1>4. statesSeen
  <2>1. CASE cur = FollowUp
    BY <1>0, <2>1 DEF MatchInv, Process, FollowsUp
  <2>2. CASE cur # FollowUp
    BY <1>0, <1>2, <1>3, <2>2 DEF MatchInv, Process
  <2> QED
    BY <2>1, <2>2
<1>5. Report(S) => rpc' = "off" /\ cur' = Nobody /\ ~turnActive'
  BY <1>0, <1>3 DEF Report
<1>6. Process'
  BY <1>0, <1>1, <1>2, <1>3, <1>4, <1>5 DEF MatchInv, Process, FollowsUp, BeforeSend
<1> HIDE DEF S
<1>7. ASSUME raced' = {} PROVE Phase' /\ RepliesMatch'
  <2>1. raced = {} /\ ~InjectUnderWay
    BY <1>0, <1>7
  <2>2. Phase /\ RepliesMatch
    BY <2>1 DEF MatchInv
  <2>3. CASE cur = FollowUp
    <3>1. injected > 0 /\ \A i \in DOMAIN stream : Idle(i) => LastWord(i)
      BY <1>0, <2>2, <2>3 DEF Phase, FollowsUp
    <3>2. rpc' = "settle" /\ cur' = cur /\ reply' = reply
      BY <1>1, <1>4, <3>1
    <3>3. \A i \in DOMAIN stream' : Idle(i)' => LastWord(i)'
      <4>1. CASE stream' = stream
        BY <1>0, <3>1, <4>1 DEF Idle, LastWord
      <4>2. CASE stream # <<>> /\ stream' = Tail(stream)
        BY <1>0, <3>1, <4>2, TailLast
      <4> QED
        BY <1>2, <4>1, <4>2
    <3> QED
      BY <1>0, <2>2, <2>3, <3>1, <3>2, <3>3 DEF Phase, BeforeSend, Reading, RepliesMatch
  <2>4. CASE cur # FollowUp /\ cur \notin Messages
    <3>1. FALSE
      BY <1>0, <2>4 DEF TypeInv, TypeOK, MatchInv, Process
    <3> QED
      BY <3>1
  <2>5. CASE cur \in Messages
    <3>0. /\ stream # <<>> /\ stream' = Tail(stream) /\ Head(Incoming) = Head(stream) /\ Reading
      BY <1>0, <1>2, <2>5 DEF Reading
    <3>1. /\ 1 \in Ends(stream) /\ Ends(stream) \subseteq DOMAIN stream
          /\ \A i \in DOMAIN stream : i >= 1
          /\ Head(stream) = stream[1] /\ Ends(stream') \subseteq DOMAIN stream'
          /\ \A i \in DOMAIN stream' : i \in Ends(stream') <=> i + 1 \in Ends(stream)
      BY <1>0, <3>0, Popped DEF Ends
    <3>2. cur \in S
      BY <2>2, <3>0, <3>1 DEF Phase, Mine, S
    <3>3. CASE injected > 0
      <4>1. rpc' = "settle" /\ cur' = cur /\ reply' = reply /\ result' = S
        BY <1>1, <1>4, <3>3
      <4>2. \A i \in DOMAIN stream' : Idle(i)' => LastWord(i)'
        <5> SUFFICES ASSUME NEW i \in DOMAIN stream', Idle(i)' PROVE LastWord(i)'
          OBVIOUS
        <5>1. /\ i + 1 \in DOMAIN stream /\ i >= 1 /\ i \in Nat /\ Idle(i + 1)
              /\ LastWord(i + 1) => LastWord(i)'
          BY <1>0, <3>0, TailLast
        <5>2. LastWord(i + 1)
          BY <2>2, <3>0, <3>1, <5>1 DEF Phase
        <5> QED
          BY <5>1, <5>2
      <4> QED
        BY <1>0, <2>2, <3>2, <3>3, <4>1, <4>2 DEF Phase, BeforeSend, Reading, RepliesMatch
    <3>4. CASE ~(injected > 0)
      <4>1. Report(S)
        BY <1>1, <3>4
      <4>2. ~Beyond
        BY <2>1, <2>2, <3>0, <3>4 DEF Phase, Counted, InjectUnderWay
      <4>3. cli # "turn" /\ inbox = <<>> /\ \A i \in Ends(stream) : i = 1
        BY <3>1, <4>2 DEF Beyond
      <4>4. Ends(stream') = {}
        <5>1. \A i \in DOMAIN stream' : i \in Nat /\ i >= 1
          BY <1>0, <3>0, Popped
        <5> QED
          BY <3>1, <4>3, <5>1
      <4>5. Quiet'
        BY <1>0, <2>1, <4>3, <4>4 DEF Quiet, InjectUnderWay
      <4>6. RepliesMatch'
        BY <2>2, <3>2, <4>1, ReplyMatch
      <4> QED
        BY <1>0, <1>5, <4>1, <4>5, <4>6 DEF Phase, Reading, FollowsUp
    <3> QED
      BY <3>3, <3>4
  <2> QED
    BY <2>3, <2>4, <2>5
<1> QED
  BY <1>6, <1>7 DEF MatchInv

-----------------------------------------------------------------------------
(* The states after the result.  An "idle" is the last word, so nothing is *)
(* outstanding after it; anything but a state is for the follow-up.        *)
LEMMA SettleMatch ==
  ASSUME TypeInv, NamesAssumption, MatchInv, SettleRead \/ SettleEnds \/ SettleTimeout
  PROVE  MatchInv'
<1> USE DEF handlerVars, runVars, countVars, cliVars, replyVars
<1>0. /\ stream \in Seq(StreamMessages) /\ rpc = "settle"
      /\ UNCHANGED <<hpc, cli, inbox, answering>>
      /\ FollowUp \notin Messages /\ Nobody \notin Messages /\ Nobody # FollowUp
  BY DEF TypeInv, TypeOK, SettleRead, SettleEnds, SettleTimeout, NamesAssumption
<1>1. cli # "off" /\ ~followup /\ statesSeen /\ cur # Nobody /\ stash = <<>>
  BY <1>0 DEF MatchInv, Process, FollowsUp
<1>2. ASSUME Phase, stream # <<>>, stream' = Tail(stream)
      PROVE  \A i \in DOMAIN stream' : Idle(i)' => LastWord(i)'
  <2>1. \A i \in DOMAIN stream : Idle(i) => LastWord(i)
    BY <1>0, <1>2 DEF Phase
  <2> QED
    BY <1>0, <1>2, <2>1, TailLast
<1>3. ASSUME RepliesMatch, Phase, Report(result) PROVE RepliesMatch'
  <2>1. cur \in Messages => cur \in result
    BY <1>0, <1>3 DEF Phase
  <2> QED
    BY <1>3, <2>1, ReplyMatch
(* The turn is over. *)
<1>4. ASSUME Report(result), UNCHANGED <<followup, stash>>, statesSeen'
      PROVE  rpc' = "off" /\ cur' = Nobody /\ Process'
  <2>1. rpc' = "off" /\ cur' = Nobody /\ ~turnActive'
    BY <1>1, <1>4 DEF Report
  <2>2. inbox' = inbox /\ (cli = "gone" => inbox = <<>>)
    BY <1>0 DEF MatchInv, Process
  <2> QED
    BY <1>0, <1>1, <1>4, <2>1, <2>2 DEF Process, FollowsUp
<1>5. ASSUME Report(result), UNCHANGED <<followup, stash>>, statesSeen', raced' = raced,
             Phase => Quiet'
      PROVE  MatchInv'
  <2>1. ASSUME raced = {} PROVE Phase' /\ RepliesMatch'
    BY <1>3, <1>4, <1>5, <2>1 DEF MatchInv, Phase, Reading, FollowsUp
  <2> QED
    BY <1>4, <1>5, <2>1 DEF MatchInv
<1>6. CASE SettleRead
  <2>1. stream # <<>> /\ stream' = Tail(stream) /\ raced' = raced
    BY <1>6 DEF SettleRead
  <2>2. CASE Head(stream).kind = "running"
    <3>1. statesSeen' /\ injected' = injected /\ UNCHANGED <<rpc, cur, result, turnActive, followup, stash, reply>>
      BY <1>6, <2>2 DEF SettleRead, NoteState
    <3>2. Process'
      BY <1>0, <1>1, <3>1 DEF MatchInv, Process, FollowsUp, BeforeSend
    <3>3. ASSUME raced = {} PROVE Phase' /\ RepliesMatch'
      <4>1. \A i \in DOMAIN stream' : Idle(i)' => LastWord(i)'
        BY <1>2, <2>1, <3>3 DEF MatchInv
      <4> QED
        BY <1>0, <3>1, <3>3, <4>1 DEF MatchInv, Phase, RepliesMatch, BeforeSend, Reading
    <3> QED
      BY <2>1, <3>2, <3>3 DEF MatchInv
  <2>3. CASE Head(stream).kind = "idle"
    <3>1. statesSeen' /\ UNCHANGED <<stash, followup>> /\ Report(result)
      BY <1>6, <2>3 DEF SettleRead, NoteState
    <3>2. ASSUME Phase PROVE Quiet'
      <4>1. 1 \in DOMAIN stream /\ Idle(1) /\ stream' \in Seq(StreamMessages)
            /\ Len(stream') = Len(stream) - 1 /\ Len(stream) \in Nat
        BY <1>0, <2>1, <2>3, Popped DEF Idle
      <4>2. LastWord(1)
        BY <1>0, <3>2, <4>1 DEF Phase
      <4>3. Len(stream) = 1
        BY <4>2 DEF LastWord
      <4>4. stream' = <<>>
        <5>1. Len(stream') = 0
          BY <4>1, <4>3
        <5> QED
          BY <4>1, <5>1, EmptySeq
      <4> QED
        BY <1>0, <4>2, <4>4 DEF LastWord, Quiet, Ends
    <3> QED
      BY <1>5, <2>1, <3>1, <3>2
  <2>4. CASE Head(stream).kind \in {"init", "error", "result"}
    <3>1. /\ stash' = Append(stash, Head(stream)) /\ followup' /\ Report(result)
          /\ UNCHANGED <<statesSeen, injected>>
      BY <1>6, <2>4 DEF SettleRead
    <3>2. rpc' = "connect" /\ cur' = FollowUp /\ ~turnActive' /\ Len(stash') = 1
      BY <1>1, <3>1 DEF Report
    <3>3. FollowsUp' /\ ~BeforeSend' /\ ~Reading'
      BY <1>0, <3>2 DEF FollowsUp, BeforeSend, Reading
    <3>4. Process'
      BY <1>0, <1>1, <3>1, <3>2, <3>3 DEF MatchInv, Process
    <3>5. ASSUME raced = {} PROVE Phase' /\ RepliesMatch'
      <4>1. \A i \in DOMAIN stream' : Idle(i)' => LastWord(i)'
        BY <1>2, <2>1, <3>5 DEF MatchInv
      <4>2. RepliesMatch'
        BY <1>3, <3>1, <3>5 DEF MatchInv
      <4> QED
        BY <1>0, <3>1, <3>2, <3>3, <3>5, <4>1, <4>2 DEF MatchInv, Phase
    <3> QED
      BY <2>1, <3>4, <3>5 DEF MatchInv
  <2> QED
    BY <1>6, <2>2, <2>3, <2>4 DEF SettleRead
<1>7. CASE SettleEnds
  <2>1. Report(result) /\ UNCHANGED <<followup, stash, raced>> /\ statesSeen'
    BY <1>1, <1>7 DEF SettleEnds
  <2>2. Quiet'
    BY <1>0, <1>7 DEF SettleEnds, MatchInv, Process, Quiet, Ends
  <2> QED
    BY <1>5, <2>1, <2>2
<1>8. CASE SettleTimeout
  <2>1. /\ Report(result) /\ UNCHANGED <<followup, stash>> /\ statesSeen'
        /\ raced' # {}
    BY <1>1, <1>8 DEF SettleTimeout
  <2> QED
    BY <1>4, <2>1 DEF MatchInv
<1> QED
  BY <1>6, <1>7, <1>8

(* A turn without a result leaves nothing behind, or is a race.            *)
LEMMA GiveUpMatch ==
  ASSUME TypeInv, NamesAssumption, MatchInv, RunError \/ RunEnds \/ RunFails
  PROVE  MatchInv'
<1> USE DEF handlerVars, runVars, countVars, cliVars, replyVars
<1>0. /\ stash \in Seq(StreamMessages) /\ stream \in Seq(StreamMessages)
      /\ rpc' = "off" /\ cur' = Nobody /\ ~turnActive'
      /\ UNCHANGED <<hpc, followup, statesSeen, injected, reply>>
      /\ Nobody # FollowUp
  BY DEF TypeInv, TypeOK, RunError, RunEnds, RunFails, GiveUp, NamesAssumption
<1>1. ~FollowsUp' /\ BeforeSend' /\ ~Reading' /\ (RepliesMatch' <=> RepliesMatch)
  BY <1>0 DEF FollowsUp, BeforeSend, Reading, RepliesMatch
<1>2. CASE RunError
  <2>1. /\ rpc = "read" /\ Incoming # <<>> /\ Head(Incoming).kind = "error" /\ TakeIncoming
        /\ raced' # {} /\ UNCHANGED <<cli, inbox>>
    BY <1>2 DEF RunError
  <2>2. /\ stash' = <<>>
        /\ \/ stash = <<>> /\ stream # <<>> /\ Head(Incoming) = Head(stream) /\ stream' = Tail(stream)
           \/ cur = FollowUp /\ stream' = stream
    BY <2>1, Incomes DEF MatchInv
  <2>3. cli # "off"
    BY <2>1 DEF MatchInv, Process
  <2>4. statesSeen
    <3>1. CASE cur = FollowUp
      BY <2>1, <3>1 DEF MatchInv, Process, FollowsUp
    <3>2. CASE cur # FollowUp
      BY <2>1, <2>2, <2>3, <3>2 DEF MatchInv, Process
    <3> QED
      BY <3>1, <3>2
  <2> QED
    BY <1>0, <1>1, <2>1, <2>2, <2>3, <2>4 DEF MatchInv, Process
<1>3. CASE RunEnds
  <2>1. cli = "gone" /\ Incoming = <<>> /\ UNCHANGED <<stash, stream, cli, inbox, raced>>
    BY <1>3 DEF RunEnds
  <2>2. stash = <<>> /\ stream = <<>>
    BY <1>0, <2>1 DEF Incoming
  <2>3. Process' /\ Quiet'
    BY <1>0, <1>1, <2>1, <2>2 DEF MatchInv, Process, Quiet, Ends
  <2> QED
    BY <1>0, <1>1, <2>1, <2>3 DEF MatchInv, Phase
<1>4. CASE RunFails
  <2>1. cli' = "off" /\ stream' = <<>> /\ inbox' = <<>> /\ UNCHANGED <<stash, raced>>
    BY <1>4 DEF RunFails
  <2>2. Process' /\ Quiet'
    BY <1>0, <1>1, <2>1 DEF MatchInv, Process, Quiet, Ends
  <2> QED
    BY <1>0, <1>1, <2>1, <2>2 DEF MatchInv, Phase
<1> QED
  BY <1>2, <1>3, <1>4

-----------------------------------------------------------------------------
(* Nothing was sent. *)
LEMMA InitMatch == Init /\ NamesAssumption => MatchInv
<1> SUFFICES ASSUME Init, NamesAssumption PROVE MatchInv
  OBVIOUS
<1>1. ~FollowsUp /\ BeforeSend /\ ~Reading
  BY DEF Init, FollowsUp, BeforeSend, Reading
<1>2. Process /\ Quiet /\ RepliesMatch
  BY <1>1 DEF Init, Process, Quiet, Ends, RepliesMatch
<1> QED
  BY <1>1, <1>2 DEF Init, MatchInv, Phase

(* Every step. *)
LEMMA NextMatch == IInv /\ IInv' /\ MatchInv /\ [Next]_vars => MatchInv'
<1> SUFFICES ASSUME IInv, IInv', MatchInv, [Next]_vars PROVE MatchInv'
  OBVIOUS
<1>0. TypeInv /\ TypeInv'
  BY DEF IInv
<1>1. CASE CliNext
  BY <1>0, <1>1, CliMatch
<1>2. CASE RunNext
  BY <1>0, <1>2, NamesAssumption, SendMatch, ReadMatch, ResultMatch, SettleMatch, GiveUpMatch
  DEF RunNext
<1>3. ASSUME NEW m \in Messages, HandlerNext(m) PROVE MatchInv'
  BY <1>0, <1>3, HandlerMatch
<1>4. CASE UNCHANGED vars
  BY <1>4 DEF vars, handlerVars, runVars, countVars, cliVars, replyVars, MatchInv, Process, Phase,
       RepliesMatch, FollowsUp, BeforeSend, Reading, Quiet, Mine, Beyond, Counted, LastWord, Idle, Ends
<1> QED
  BY <1>1, <1>2, <1>3, <1>4 DEF Next

(* The answers never shift by one: as long as run() could tell what became *)
(* of the messages injected into its turns, the reply to a message answers *)
(* that message (ClaudeSession.run, inject, _settle_after_result).         *)
THEOREM NeverShifted == Spec => []RepliesMatchUnlessRaced
<1>1. Init => IInv /\ MatchInv
  BY InitIInv, InitMatch, NamesAssumption
<1>2. (IInv /\ MatchInv) /\ [Next]_vars => (IInv /\ MatchInv)'
  BY NextIInv, NextMatch
<1>3. MatchInv => RepliesMatchUnlessRaced
  BY DEF MatchInv, RepliesMatchUnlessRaced
<1> QED
  BY <1>1, <1>2, <1>3, PTL DEF Spec

-----------------------------------------------------------------------------
(* Streamer                                                                *)

(* The text up to Reach has been posted, or is none of the answer: without *)
(* streaming what a tool call interrupted is not.                          *)
Low == IF streams THEN 0 ELSE burst
Reach == IF tpc \in {"finish", "commit"} THEN com.text.from
         ELSE IF tpc = "begin" THEN com.text.to
         ELSE IF tpc \in {"start", "events", "remainder"} THEN base
         ELSE written
Cut == "cancelled" \in hist \/ "cutFinish" \in hist

Run == [from : Nat, to : Nat]
Com == [text : Run, why : {"flush", "break", "final"}, step : {"rich", "interleave", "pieces"}]
CountInv ==
  /\ written \in Nat /\ base \in 0..written /\ burst \in 0..written
  /\ streams \in BOOLEAN /\ segmented \in BOOLEAN
  /\ com \in Com
  /\ tpc \in {"start", "events", "commit", "begin", "remainder", "finish", "cleanup", "after", "over"}
  /\ chat \in Seq([text : Run, ping : BOOLEAN])
  /\ Reach <= written

(* What is buffered and committed is the text not yet posted.              *)
TextInv ==
  /\ ~segmented => base = 0
  /\ ~streams => /\ ~segmented /\ tpc \notin {"begin", "remainder"}
                 /\ tpc = "commit" => com.why = "final"
                 /\ tpc \in {"start", "events", "finish"} => chat = <<>>
  /\ streams /\ tpc = "events" => /\ ~segmented => burst = 0
                                  /\ full = Running \/ base = written
  /\ tpc = "start" => written = 0
  /\ tpc = "remainder" => segmented
  /\ tpc \in {"commit", "begin"} /\ com.why = "break" => com.text.to = written
  /\ tpc \in {"start", "events", "begin", "remainder"} => com.why # "final"
  /\ tpc \in {"finish", "cleanup"} => com.why = "final"
  /\ tpc \in {"finish", "commit"} =>
       /\ com.text.from <= com.text.to /\ com.text.to <= written
       /\ com.why = "final" => com.text.to = written

(* It was posted once and in order.                                        *)
PostInv ==
  /\ "refused" \in hist \/ Cut \/ \A p \in Low + 1..Reach : Covered(p)
  /\ "doubted" \in hist \/
       /\ \A i \in DOMAIN chat : chat[i].text.to <= Reach
       /\ \A i, j \in DOMAIN chat : i < j => chat[i].text.to <= chat[j].text.from

(* From finish() on the animator is off, and what the chat shows is final. *)
Finale == \/ tpc = "cleanup"
          \/ tpc = "commit" /\ com.why = "final"
          \/ tpc \in {"after", "over"} /\ com.why = "final" /\ ~Cut
PreviewInv ==
  /\ Finale => apc = "off" /\ ~streaming
  /\ Finale /\ tpc # "commit" => "refused" \in hist \/ live = NoDraft

(* The id of a plate on the screen is known, unless its sending was cut.   *)
PlateInv ==
  /\ controlId \in BOOLEAN /\ plate \in BOOLEAN
  /\ kpc = "cut" => "cutPlate" \in hist
  /\ plate => controlId \/ "cutPlate" \in hist
  /\ tpc \in {"after", "over"} =>
       "cutPlate" \in hist \/ "cutFinish" \in hist \/ (~plate /\ kpc \in {"off", "done"})

ReplyInv == CountInv /\ TextInv /\ PostInv /\ PreviewInv /\ PlateInv

LEMMA ReplyStarts == StreamInit => ReplyInv
<1> SUFFICES ASSUME StreamInit PROVE ReplyInv
  OBVIOUS
<1>1. com \in Com /\ com.why = "break"
  BY DEF StreamInit, Nothing, Run, Com
<1>2. <<>> \in Seq([text : Run, ping : BOOLEAN]) /\ \A i \in DOMAIN <<>> : FALSE
  OBVIOUS
<1>3. CountInv
  <2>1. Reach = 0 /\ written = 0 /\ base = 0 /\ burst = 0 /\ chat = <<>> /\ tpc = "start"
        /\ streams \in BOOLEAN /\ segmented = FALSE
    BY DEF StreamInit, Reach
  <2>2. written \in Nat /\ base \in 0..written /\ burst \in 0..written /\ Reach <= written
    BY <2>1
  <2>3. chat \in Seq([text : Run, ping : BOOLEAN]) /\ segmented \in BOOLEAN
    BY <1>2, <2>1
  <2> QED
    BY <1>1, <2>1, <2>2, <2>3 DEF CountInv
<1>4. TextInv
  BY <1>1 DEF StreamInit, TextInv
<1>5. PostInv
  <2>1. Reach = 0 /\ Low = 0
    BY DEF StreamInit, Reach, Low
  <2>2. \A p \in Low + 1..Reach : FALSE
    BY <2>1
  <2> QED
    BY <1>2, <2>2 DEF StreamInit, PostInv
<1>6. PreviewInv /\ PlateInv
  BY DEF StreamInit, PreviewInv, PlateInv, Finale
<1> QED
  BY <1>3, <1>4, <1>5, <1>6 DEF ReplyInv

(* Steps that post nothing.                                                *)
LEMMA Entries ==
  ASSUME NEW S, NEW s \in Seq(S)
  PROVE  \A i \in DOMAIN s : i \in Nat /\ i <= Len(s) /\ s[i] \in S
  OBVIOUS

LEMMA ChatText ==
  ASSUME CountInv
  PROVE  \A i \in DOMAIN chat : /\ i \in Nat /\ i <= Len(chat) /\ chat[i].text \in Run
                                /\ chat[i].text.from \in Nat /\ chat[i].text.to \in Nat
<1>1. chat \in Seq([text : Run, ping : BOOLEAN])
  BY DEF CountInv
<1>2. \A i \in DOMAIN chat : i \in Nat /\ i <= Len(chat) /\ chat[i] \in [text : Run, ping : BOOLEAN]
  BY <1>1, Entries
<1>3. \A i \in DOMAIN chat : chat[i].text \in Run
  BY <1>2
<1> QED
  BY <1>2, <1>3 DEF Run

LEMMA PostsNothing ==
  ASSUME PostInv, chat' = chat, hist \subseteq hist', CountInv, Low \in Nat, Low' \in Nat, Reach \in Nat, Reach' \in Nat,
         Low <= Low', Reach <= Reach',
         Reach' = Reach \/ Reach' <= Low' \/ "refused" \in hist' \/ Cut'
  PROVE  PostInv'
<1>1. Cut => Cut'
  BY DEF Cut
<1>2. \A p : Covered(p) => Covered(p)'
  BY DEF Covered
<1>3. "refused" \in hist' \/ Cut' \/ \A p \in Low' + 1..Reach' : Covered(p)'
  BY <1>1, <1>2 DEF PostInv
<1>4. "doubted" \in hist' \/
        /\ \A i \in DOMAIN chat : chat[i].text.to <= Reach'
        /\ \A i, j \in DOMAIN chat : i < j => chat[i].text.to <= chat[j].text.from
  <2>1. \A i \in DOMAIN chat : chat[i].text.to \in Nat
    BY ChatText
  <2> QED
    BY <2>1 DEF PostInv
<1> QED
  BY <1>3, <1>4 DEF PostInv

(* A message that follows the ones before.                                 *)
LEMMA PostsNext ==
  ASSUME CountInv, PostInv, NEW e \in [text : Run, ping : BOOLEAN], chat' = Append(chat, e),
         hist \subseteq hist', Low' = Low, Low \in Nat, Reach \in Nat, Reach' \in Nat,
         \/ e.text.from = Reach /\ e.text.to = Reach' /\ Reach <= Reach'
         \/ Reach' = Reach /\ "doubted" \in hist'
  PROVE  chat' \in Seq([text : Run, ping : BOOLEAN]) /\ PostInv'
<1>1. /\ chat' \in Seq([text : Run, ping : BOOLEAN])
      /\ \A i \in DOMAIN chat : i \in DOMAIN chat' /\ chat'[i] = chat[i]
      /\ \A i \in DOMAIN chat' : i \in DOMAIN chat \/ i = Len(chat) + 1
      /\ Len(chat) + 1 \in DOMAIN chat' /\ chat'[Len(chat) + 1] = e
      /\ DOMAIN chat = 1..Len(chat) /\ Len(chat) \in Nat
  BY DEF CountInv
<1>2. Cut => Cut'
  BY DEF Cut
<1>3. \A p : Covered(p) => Covered(p)'
  BY <1>1 DEF Covered
<1>4. "refused" \in hist' \/ Cut' \/ \A p \in Low' + 1..Reach' : Covered(p)'
  <2> SUFFICES ASSUME "refused" \notin hist', ~Cut', NEW p \in Low' + 1..Reach'
               PROVE  Covered(p)'
    OBVIOUS
  <2>1. CASE p <= Reach
    BY <1>2, <1>3, <2>1 DEF PostInv
  <2>2. CASE ~(p <= Reach)
    <3>1. chat'[Len(chat) + 1].text.from < p /\ p <= chat'[Len(chat) + 1].text.to
      BY <1>1, <2>2
    <3> QED
      BY <1>1, <3>1 DEF Covered
  <2> QED
    BY <2>1, <2>2
<1>5. ASSUME "doubted" \notin hist'
      PROVE  /\ \A i \in DOMAIN chat' : chat'[i].text.to <= Reach'
             /\ \A i, j \in DOMAIN chat' : i < j => chat'[i].text.to <= chat'[j].text.from
  <2>1. \A i \in DOMAIN chat : chat[i].text.to <= Reach /\ chat[i].text.to \in Nat /\ i <= Len(chat) /\ i \in Nat
    BY <1>1, <1>5, ChatText DEF PostInv
  <2>2. e.text.from = Reach /\ e.text.to = Reach' /\ Reach <= Reach'
    BY <1>5
  <2>3. \A i \in DOMAIN chat' : chat'[i].text.to <= Reach'
    BY <1>1, <2>1, <2>2
  <2>4. ASSUME NEW i \in DOMAIN chat', NEW j \in DOMAIN chat', i < j
        PROVE  chat'[i].text.to <= chat'[j].text.from
    <3>1. i \in DOMAIN chat
      BY <1>1, <2>1, <2>4
    <3>2. CASE j \in DOMAIN chat
      BY <1>1, <1>5, <2>4, <3>1, <3>2 DEF PostInv
    <3>3. CASE j = Len(chat) + 1
      BY <1>1, <2>1, <2>2, <3>1, <3>3
    <3> QED
      BY <1>1, <3>2, <3>3
  <2> QED
    BY <2>3, <2>4
<1> QED
  BY <1>1, <1>4, <1>5 DEF PostInv

LEMMA Counts ==
  ASSUME CountInv
  PROVE  /\ Low \in Nat /\ Reach \in Nat /\ base \in Nat /\ burst \in Nat /\ written \in Nat
         /\ base <= written /\ burst <= written
         /\ com.text \in Run /\ com.text.from \in Nat /\ com.text.to \in Nat
<1>1. com.text \in Run
  BY DEF CountInv, Com
<1>2. com.text.from \in Nat /\ com.text.to \in Nat
  BY <1>1 DEF Run
<1> QED
  BY <1>1, <1>2 DEF CountInv, Low, Reach

(* Steps of the turn that change neither what it posted nor what it has.   *)
LEMMA TurnStays ==
  ASSUME ReplyInv, UNCHANGED <<streams, tpc, written, base, burst, segmented, com, full, chat>>,
         hist' \in {hist, hist \cup {"latePress"}}
  PROVE  CountInv' /\ TextInv' /\ PostInv' /\ (Cut' <=> Cut) /\ (Finale' <=> Finale)
<1>1. (Cut' <=> Cut) /\ ("refused" \in hist' <=> "refused" \in hist)
      /\ ("doubted" \in hist' <=> "doubted" \in hist)
  BY DEF Cut
<1>2. Reach' = Reach /\ Low' = Low
  BY DEF Reach, Low
<1>3. CountInv'
  BY <1>2 DEF ReplyInv, CountInv
<1>4. TextInv'
  BY DEF ReplyInv, TextInv, Running
<1>5. PostInv'
  BY <1>1, <1>2 DEF ReplyInv, PostInv, Covered
<1>6. Finale' <=> Finale
  BY <1>1 DEF Finale
<1> QED
  BY <1>1, <1>3, <1>4, <1>5, <1>6

LEMMA Background ==
  ASSUME ReplyInv, Animator \/ Control \/ Button
  PROVE  ReplyInv'
<1>1. /\ UNCHANGED <<streams, tpc, written, base, burst, segmented, com, full, chat>>
      /\ hist' \in {hist, hist \cup {"latePress"}}
  BY DEF Animator, Control, Button, Tick, FrameSent, ControlWakes, ControlSent,
      ControlCheck, ControlArrives, Push, HeldMessage, StopUnlessPushed,
      modeVars, turnVars, bufVars
<1>2. CountInv' /\ TextInv' /\ PostInv' /\ (Cut' <=> Cut) /\ (Finale' <=> Finale)
  BY <1>1, TurnStays
<1>3. PreviewInv /\ PlateInv
  BY DEF ReplyInv
<1>4. /\ "refused" \in hist' <=> "refused" \in hist
      /\ "cutPlate" \in hist' <=> "cutPlate" \in hist
      /\ "cutFinish" \in hist' <=> "cutFinish" \in hist
  BY <1>1
<1>5. PreviewInv'
  <2>1. CASE Tick
    BY <1>1, <1>2, <1>3, <1>4, <2>1 DEF PreviewInv, Tick, bufVars, NoDraft, Nothing
  <2>2. CASE FrameSent
    BY <1>1, <1>2, <1>3, <1>4, <2>2 DEF PreviewInv, FrameSent, NoDraft, Nothing
  <2>3. CASE Push
    BY <1>1, <1>2, <1>3, <1>4, <2>3 DEF PreviewInv, Push, animVars, NoDraft, Nothing
  <2>4. CASE Control \/ HeldMessage \/ StopUnlessPushed
    <3>1. UNCHANGED <<apc, streaming, live>>
      BY <2>4 DEF Control, ControlWakes, ControlSent, ControlCheck, ControlArrives,
         HeldMessage, StopUnlessPushed, bufVars, animVars
    <3> QED
      BY <1>1, <1>2, <1>3, <1>4, <3>1 DEF PreviewInv, NoDraft, Nothing
  <2> QED
    BY <2>1, <2>2, <2>3, <2>4 DEF Animator, Button
<1>6. PlateInv'
  <2>1. CASE Animator \/ Button
    <3>1. UNCHANGED <<kpc, controlId, plate>>
      BY <2>1 DEF Animator, Button, Tick, FrameSent, Push, HeldMessage,
         StopUnlessPushed, plateVars
    <3> QED
      BY <1>1, <1>3, <1>4, <3>1 DEF PlateInv
  <2>2. CASE Control
    <3>1. hist' = hist /\ tpc' = tpc
      BY <1>1, <2>2 DEF Control, ControlWakes, ControlSent, ControlCheck, ControlArrives
    <3>2. CASE ControlWakes
      BY <1>3, <3>1, <3>2 DEF PlateInv, ControlWakes
    <3>3. CASE ControlSent
      <4>1. /\ kpc = "send" /\ kpc' \in {"check", "done"}
            /\ kpc' = "done" => UNCHANGED <<controlId, plate>>
            /\ kpc' = "check" => controlId' = TRUE /\ plate' = TRUE
        BY <3>3 DEF ControlSent
      <4>2. controlId' \in BOOLEAN /\ plate' \in BOOLEAN
        <5>1. CASE kpc' = "done"
          <6>1. controlId' = controlId /\ plate' = plate
            BY <4>1, <5>1
          <6> QED
            BY <1>3, <6>1 DEF PlateInv
        <5>2. CASE kpc' = "check"
          BY <4>1, <5>2
        <5> QED
          BY <4>1, <5>1, <5>2
      <4>3. plate' => controlId' \/ "cutPlate" \in hist'
        <5>1. CASE kpc' = "done"
          <6>1. controlId' = controlId /\ plate' = plate /\ hist' = hist
            BY <3>1, <4>1, <5>1
          <6> QED
            BY <1>3, <6>1 DEF PlateInv
        <5>2. CASE kpc' = "check"
          BY <4>1, <5>2
        <5> QED
          BY <4>1, <5>1, <5>2
      <4>4. tpc \in {"after", "over"} => "cutPlate" \in hist \/ "cutFinish" \in hist
        BY <1>3, <4>1 DEF PlateInv
      <4> QED
        BY <3>1, <4>1, <4>2, <4>3, <4>4 DEF PlateInv
    <3>4. CASE ControlCheck
      BY <1>3, <3>1, <3>4 DEF PlateInv, ControlCheck
    <3>5. CASE ControlArrives
      BY <1>3, <3>1, <3>5 DEF PlateInv, ControlArrives
    <3> QED
      BY <2>2, <3>2, <3>3, <3>4, <3>5 DEF Control
  <2> QED
    BY <2>1, <2>2
<1> QED
  BY <1>2, <1>5, <1>6 DEF ReplyInv

-----------------------------------------------------------------------------
(* The turn before its end.                                                *)
LEMMA Goes ==
  ASSUME ReplyInv, tpc \in {"start", "events", "remainder"},
         UNCHANGED <<streams, base, segmented, chat, hist, controlId, plate>>, kpc' \in {kpc, "delay"},
         written' \in Nat, base <= written', burst' \in 0..written', burst <= burst', com' \in Com,
         com'.why # "final",
         \/ tpc' = "events" /\ (streams => /\ segmented \/ burst' = 0
                                           /\ full' = Running' \/ base = written')
         \/ tpc' = "commit" /\ streams /\ com'.text.from = base /\ com'.text.to \in base..written'
                               /\ (com'.why = "break" => com'.text.to = written')
  PROVE  ReplyInv'
<1>1. CountInv /\ TextInv /\ PostInv /\ PreviewInv /\ PlateInv /\ Reach = base /\ Reach' = base /\ base \in Nat
  BY Counts DEF ReplyInv, Reach
<1>2. CountInv'
  <2>1. tpc' \in {"events", "commit"} /\ base' \in 0..written' /\ Reach' <= written'
    BY <1>1
  <2> QED
    BY <1>1, <2>1 DEF CountInv
<1>3. TextInv'
  BY <1>1 DEF TextInv
<1>4. PostInv'
  <2>1. Low \in Nat /\ Low' \in Nat /\ Low <= Low'
    <3>1. burst \in Nat /\ burst' \in Nat
      BY <1>1, Counts
    <3> QED
      BY <3>1 DEF Low
  <2> QED
    BY <1>1, <2>1, PostsNothing
<1>5. PreviewInv' /\ PlateInv'
  BY <1>1 DEF PreviewInv, PlateInv, Finale
<1> QED
  BY <1>2, <1>3, <1>4, <1>5 DEF ReplyInv

LEMMA EventSteps ==
  ASSUME ReplyInv,
         \/ StartQuiet \/ Start \/ TextDelta \/ UpdateRemainder
         \/ \E tool \in BOOLEAN : Interruption(tool)
  PROVE  ReplyInv'
<1>1. CountInv /\ TextInv /\ com \in Com
  BY DEF ReplyInv, CountInv
<1>2. written \in Nat /\ base \in 0..written /\ burst \in 0..written /\ base <= written
  BY <1>1 DEF CountInv
<1>3. CASE StartQuiet \/ Start
  <2>1. /\ tpc = "start" /\ tpc' = "events" /\ kpc' \in {kpc, "delay"}
        /\ UNCHANGED <<streams, base, segmented, chat, hist, controlId, plate, written, burst, com>>
    BY <1>3 DEF StartQuiet, Start, modeVars, plateVars
  <2>2. written = 0 /\ base = 0 /\ burst = 0 /\ com.why # "final"
    BY <1>1, <1>2, <2>1 DEF TextInv
  <2> QED
    BY <1>1, <1>2, <2>1, <2>2, Goes
<1>4. CASE TextDelta
  <2>1. /\ tpc = "events" /\ written' = written + 1
        /\ UNCHANGED <<streams, base, segmented, chat, hist, controlId, plate, kpc, burst>>
        /\ streams => full' = [from |-> base, to |-> written']
        /\ \/ UNCHANGED <<com, tpc>>
           \/ streams /\ \E k \in base + 1..written' : BeginCommit([from |-> base, to |-> k], "flush")
    BY <1>4 DEF TextDelta, modeVars, plateVars
  <2>2. com.why # "final" /\ written' \in Nat /\ base <= written' /\ burst' \in 0..written' /\ burst <= burst'
    BY <1>1, <1>2, <2>1 DEF TextInv
  <2>3. CASE UNCHANGED <<com, tpc>>
    <3>1. streams => /\ segmented \/ burst' = 0
                     /\ full' = Running'
      BY <1>1, <2>1 DEF TextInv, Running
    <3> QED
      BY <1>1, <2>1, <2>2, <2>3, <3>1, Goes
  <2>4. CASE streams /\ \E k \in base + 1..written' : BeginCommit([from |-> base, to |-> k], "flush")
    <3>1. PICK k \in base + 1..written' : BeginCommit([from |-> base, to |-> k], "flush")
      BY <2>4
    <3>2. com' = [text |-> [from |-> base, to |-> k], why |-> "flush", step |-> "rich"] /\ tpc' = "commit"
      BY <3>1 DEF BeginCommit
    <3>3. k \in base..written' /\ k \in Nat /\ base \in Nat
      BY <1>2, <2>2
    <3>4. com' \in Com /\ com'.text.from = base /\ com'.text.to = k /\ com'.why = "flush"
      BY <3>2, <3>3 DEF Com, Run
    <3> QED
      BY <2>1, <2>2, <2>4, <3>2, <3>3, <3>4, Goes
  <2> QED
    BY <2>1, <2>3, <2>4
<1>5. CASE \E tool \in BOOLEAN : Interruption(tool)
  <2>1. PICK tool \in BOOLEAN : Interruption(tool)
    BY <1>5
  <2>2. /\ tpc = "events" /\ burst' = IF tool THEN written ELSE burst
        /\ UNCHANGED <<streams, base, segmented, chat, hist, controlId, plate, kpc, written, full>>
        /\ IF streams /\ base < written THEN BeginCommit(full, "break") ELSE UNCHANGED <<com, tpc>>
    BY <2>1 DEF Interruption, modeVars, plateVars, bufVars
  <2>3. com.why # "final" /\ burst' \in 0..written /\ burst <= burst'
    BY <1>1, <1>2, <2>2 DEF TextInv
  <2>4. CASE streams /\ base < written
    <3>1. full = [from |-> base, to |-> written]
      BY <1>1, <1>2, <2>2, <2>4 DEF TextInv, Running
    <3>2. com' = [text |-> [from |-> base, to |-> written], why |-> "break", step |-> "rich"] /\ tpc' = "commit"
      BY <2>2, <2>4, <3>1 DEF BeginCommit
    <3>3. com' \in Com /\ com'.text.from = base /\ com'.text.to = written /\ com'.why # "final"
      BY <1>2, <3>2 DEF Com, Run
    <3> QED
      BY <1>2, <2>2, <2>3, <2>4, <3>2, <3>3, Goes
  <2>5. CASE ~(streams /\ base < written)
    <3>1. streams => base = written
      BY <1>2, <2>5
    <3>2. streams => segmented \/ burst' = 0
      BY <1>1, <1>2, <2>2, <3>1 DEF TextInv
    <3> QED
      BY <1>1, <1>2, <2>2, <2>3, <2>5, <3>1, <3>2, Goes
  <2> QED
    BY <2>4, <2>5
<1>6. CASE UpdateRemainder
  <2>1. /\ tpc = "remainder" /\ tpc' = "events" /\ full' = Running
        /\ UNCHANGED <<streams, base, segmented, chat, hist, controlId, plate, kpc, written, burst, com>>
    BY <1>6 DEF UpdateRemainder, modeVars, plateVars
  <2>2. com.why # "final" /\ full' = Running' /\ (streams => segmented)
    BY <1>1, <2>1 DEF TextInv, Running
  <2> QED
    BY <1>1, <1>2, <2>1, <2>2, Goes
<1> QED
  BY <1>3, <1>4, <1>5, <1>6

-----------------------------------------------------------------------------
(* The end of the events, and what follows it without posting.             *)
LEMMA TurnEnds ==
  ASSUME ReplyInv, NEW last \in BOOLEAN, EndOfTurn(last)
  PROVE  ReplyInv'
<1>1. /\ CountInv /\ TextInv /\ PostInv /\ PlateInv /\ com \in Com /\ written \in Nat /\ base \in 0..written
      /\ burst \in 0..written /\ base \in Nat /\ burst \in Nat
  BY Counts DEF ReplyInv, CountInv
<1>2. /\ tpc = "events" /\ UNCHANGED <<streams, written, base, burst, segmented, full, chat, live>>
  BY DEF EndOfTurn, modeVars
<1> DEFINE answer == IF last /\ ~segmented THEN [from |-> burst, to |-> written] ELSE Running
<1>3. /\ answer.to = written /\ answer \in Run /\ answer.from \in 0..written
      /\ streams => answer.from = base
      /\ segmented => answer.from = base
      /\ ~streams => answer.from \in {0, burst} /\ base = 0
  BY <1>1, <1>2 DEF TextInv, Running, Run
<1>4. /\ IF segmented /\ answer.from = answer.to
         THEN /\ tpc' = "after" /\ com' = com /\ StopTasks
              /\ hist' = hist \cup CutPlate
         ELSE /\ tpc' = "finish" /\ com' = [text |-> answer, why |-> "final", step |-> "rich"]
              /\ UNCHANGED <<closed, streaming, apc, lock, kpc, controlId, plate, hist>>
  BY DEF EndOfTurn
<1> HIDE DEF answer
<1>5. Low' = Low /\ Reach = base /\ Low \in Nat
  BY <1>1, <1>2 DEF Low, Reach
<1>6. CASE segmented /\ answer.from = answer.to
  <2>1. tpc' = "after" /\ com' = com /\ StopTasks /\ hist' = hist \cup CutPlate /\ base = written
    BY <1>3, <1>4, <1>6
  <2>2. Reach' = written
    BY <1>2, <2>1 DEF Reach
  <2>3. CountInv'
    BY <1>1, <1>2, <2>1, <2>2 DEF CountInv
  <2>4. TextInv'
    BY <1>1, <1>2, <2>1 DEF TextInv
  <2>5. PostInv'
    BY <1>1, <1>2, <1>5, <2>1, <2>2, PostsNothing
  <2>6. ~Finale'
    BY <1>1, <1>2, <2>1 DEF Finale, TextInv
  <2>7. PlateInv'
    <3>1. /\ controlId' = FALSE /\ plate' = (plate /\ ~controlId)
          /\ kpc' = IF kpc = "send" THEN "cut" ELSE IF kpc = "off" THEN "off" ELSE "done"
      BY <2>1 DEF StopTasks
    <3>2. kpc = "send" => "cutPlate" \in hist'
      BY <2>1 DEF CutPlate
    <3>3. "cutPlate" \in hist => "cutPlate" \in hist'
      BY <2>1
    <3>4. plate' => "cutPlate" \in hist'
      BY <1>1, <3>1, <3>3 DEF PlateInv
    <3> QED
      BY <3>1, <3>2, <3>3, <3>4 DEF PlateInv
  <2> QED
    BY <2>3, <2>4, <2>5, <2>6, <2>7 DEF ReplyInv, PreviewInv
<1>7. CASE ~(segmented /\ answer.from = answer.to)
  <2>1. /\ tpc' = "finish" /\ com' = [text |-> answer, why |-> "final", step |-> "rich"]
        /\ UNCHANGED <<kpc, controlId, plate, hist>>
    BY <1>4, <1>7
  <2>2. com' \in Com /\ com'.text = answer /\ com'.why = "final"
    BY <1>3, <2>1 DEF Com
  <2>3. Reach' = answer.from
    BY <2>1, <2>2 DEF Reach
  <2>4. CountInv'
    BY <1>1, <1>2, <1>3, <2>1, <2>2, <2>3 DEF CountInv
  <2>5. TextInv'
    BY <1>1, <1>2, <1>3, <2>1, <2>2 DEF TextInv
  <2>6. PostInv'
    <3>1. Reach <= Reach' /\ Reach' \in Nat /\ (Reach' = Reach \/ Reach' <= Low')
      <4>1. CASE streams
        BY <1>1, <1>3, <1>5, <2>3, <4>1
      <4>2. CASE ~streams
        BY <1>1, <1>2, <1>3, <1>5, <2>3, <4>2 DEF Low
      <4> QED
        BY <4>1, <4>2 DEF CountInv
    <3> QED
      BY <1>1, <1>2, <1>5, <2>1, <3>1, PostsNothing
  <2>7. ~Finale' /\ PlateInv'
    BY <1>1, <2>1 DEF Finale, PlateInv
  <2> QED
    BY <2>4, <2>5, <2>6, <2>7 DEF ReplyInv, PreviewInv
<1> QED
  BY <1>6, <1>7

LEMMA LastSteps ==
  ASSUME ReplyInv, FinishLock \/ BeginNextSegment \/ RemoveControl \/ WorkerDone
  PROVE  ReplyInv'
<1>1. /\ CountInv /\ TextInv /\ PostInv /\ PreviewInv /\ PlateInv
  BY DEF ReplyInv
<1>2. UNCHANGED <<streams, written, burst, com, chat>>
  BY DEF FinishLock, BeginNextSegment, RemoveControl, WorkerDone, modeVars
<1>3. Low' = Low /\ Low \in Nat /\ Reach \in Nat
  BY <1>1, <1>2, Counts DEF Low
<1>4. CASE FinishLock
  <2>1. /\ tpc = "finish" /\ tpc' = "commit" /\ apc' = "off" /\ streaming' = FALSE
        /\ UNCHANGED <<base, segmented, hist, kpc, controlId, plate>>
    BY <1>4 DEF FinishLock, plateVars
  <2>2. Reach' = Reach
    BY <1>2, <2>1 DEF Reach
  <2>3. CountInv' /\ TextInv'
    BY <1>1, <1>2, <2>1, <2>2 DEF CountInv, TextInv
  <2>4. PostInv'
    BY <1>1, <1>2, <1>3, <2>1, <2>2, PostsNothing
  <2>5. PreviewInv' /\ PlateInv'
    BY <1>1, <2>1 DEF PreviewInv, PlateInv
  <2> QED
    BY <2>3, <2>4, <2>5 DEF ReplyInv
<1>5. CASE BeginNextSegment
  <2>1. /\ tpc = "begin" /\ tpc' \in {"remainder", "events"} /\ base' = com.text.to /\ segmented' = TRUE
        /\ full' = Nothing /\ com.why # "final" /\ streams
        /\ tpc' = "events" => com.why # "flush"
        /\ UNCHANGED <<hist, kpc, controlId, plate>>
    BY <1>1, <1>5 DEF TextInv, BeginNextSegment, plateVars
  <2>2. Reach' = Reach /\ Reach = com.text.to /\ com.text.to \in 0..written
    BY <1>1, <1>2, <2>1, Counts DEF Reach, CountInv
  <2>3. CountInv'
    BY <1>1, <1>2, <2>1, <2>2 DEF CountInv
  <2>4. TextInv'
    <3>1. tpc' = "events" => com.text.to = written
      BY <1>1, <2>1 DEF TextInv, CountInv, Com
    <3> QED
      BY <1>1, <1>2, <2>1, <2>2, <3>1 DEF TextInv
  <2>5. PostInv'
    BY <1>1, <1>2, <1>3, <2>1, <2>2, PostsNothing
  <2>6. PreviewInv' /\ PlateInv'
    BY <1>1, <1>2, <2>1 DEF PreviewInv, PlateInv, Finale
  <2> QED
    BY <2>3, <2>4, <2>5, <2>6 DEF ReplyInv
<1>6. CASE RemoveControl
  <2>1. /\ tpc = "cleanup" /\ tpc' = "after" /\ UNCHANGED <<base, segmented, apc, streaming, live>>
        /\ hist' = hist \cup CutPlate /\ controlId' = FALSE /\ plate' = (plate /\ ~controlId)
        /\ kpc' = IF kpc = "send" THEN "cut" ELSE IF kpc = "off" THEN "off" ELSE "done"
    BY <1>6 DEF RemoveControl, animVars, bufVars
  <2>2. Reach' = Reach
    BY <1>2, <2>1 DEF Reach
  <2>3. CountInv' /\ TextInv'
    BY <1>1, <1>2, <2>1, <2>2 DEF CountInv, TextInv
  <2>4. PostInv'
    BY <1>1, <1>2, <1>3, <2>1, <2>2, PostsNothing
  <2>5. /\ kpc = "send" => "cutPlate" \in hist'
        /\ "cutPlate" \in hist => "cutPlate" \in hist'
        /\ "refused" \in hist => "refused" \in hist'
    BY <2>1 DEF CutPlate
  <2>6. PreviewInv'
    <3>1. Finale
      BY <2>1 DEF Finale
    <3> QED
      BY <1>1, <2>1, <2>5, <3>1 DEF PreviewInv, NoDraft, Nothing
  <2>7. PlateInv'
    <3>1. plate' => "cutPlate" \in hist'
      BY <1>1, <2>1, <2>5 DEF PlateInv
    <3> QED
      BY <2>1, <2>5, <3>1 DEF PlateInv
  <2> QED
    BY <2>3, <2>4, <2>6, <2>7 DEF ReplyInv
<1>7. CASE WorkerDone
  <2>1. /\ tpc = "after" /\ tpc' = "over"
        /\ UNCHANGED <<base, segmented, hist, apc, streaming, live, kpc, controlId, plate>>
    BY <1>7 DEF WorkerDone, animVars, bufVars, plateVars
  <2>2. Reach' = Reach
    BY <1>2, <2>1 DEF Reach
  <2>3. CountInv' /\ TextInv'
    BY <1>1, <1>2, <2>1, <2>2 DEF CountInv, TextInv
  <2>4. PostInv'
    BY <1>1, <1>2, <1>3, <2>1, <2>2, PostsNothing
  <2>5. Finale' => Finale
    BY <1>2, <2>1 DEF Finale, Cut
  <2>6. PreviewInv' /\ PlateInv'
    BY <1>1, <2>1, <2>5 DEF PreviewInv, PlateInv, NoDraft, Nothing
  <2> QED
    BY <2>3, <2>4, <2>6 DEF ReplyInv
<1> QED
  BY <1>4, <1>5, <1>6, <1>7

LEMMA CancelSteps ==
  ASSUME ReplyInv, TurnCancelled
  PROVE  ReplyInv'
<1>1. /\ CountInv /\ TextInv /\ PostInv /\ PreviewInv /\ PlateInv
  BY DEF ReplyInv
<1>2. /\ tpc \notin {"after", "over"} /\ tpc' = "over" /\ hist \subseteq hist' /\ Cut'
      /\ UNCHANGED <<streams, written, base, burst, segmented, com, chat>>
  BY DEF TurnCancelled, modeVars, Cut
<1>3. Low' = Low /\ Low \in Nat /\ Reach \in Nat /\ Reach' = written /\ Reach <= written /\ written \in Nat
  BY <1>1, <1>2, Counts DEF Low, Reach, CountInv
<1>4. CountInv' /\ TextInv'
  BY <1>1, <1>2, <1>3 DEF CountInv, TextInv
<1>5. PostInv'
  BY <1>1, <1>2, <1>3, PostsNothing
<1>6. PreviewInv'
  BY <1>2 DEF PreviewInv, Finale
<1>7. PlateInv'
  <2>1. CASE "cutFinish" \in hist' /\ UNCHANGED <<kpc, controlId, plate>>
    BY <1>1, <1>2, <2>1 DEF PlateInv
  <2>2. CASE ~("cutFinish" \in hist' /\ UNCHANGED <<kpc, controlId, plate>>)
    <3>1. /\ controlId' = FALSE /\ plate' = (plate /\ ~controlId)
          /\ kpc' = IF kpc = "send" THEN "cut" ELSE IF kpc = "off" THEN "off" ELSE "done"
          /\ hist' = hist \cup {"cancelled"} \cup CutPlate
      BY <2>2 DEF TurnCancelled
    <3>2. /\ kpc = "send" => "cutPlate" \in hist'
          /\ "cutPlate" \in hist => "cutPlate" \in hist'
      BY <3>1 DEF CutPlate
    <3>3. plate' => "cutPlate" \in hist'
      BY <1>1, <3>1, <3>2 DEF PlateInv
    <3> QED
      BY <3>1, <3>2, <3>3 DEF PlateInv
  <2> QED
    BY <2>1, <2>2
<1> QED
  BY <1>4, <1>5, <1>6, <1>7 DEF ReplyInv

-----------------------------------------------------------------------------
(* A piece was posted or given up: the commit goes on, or ends.            *)
Ended == tpc' = (IF com.why = "final" THEN "cleanup" ELSE "begin") /\ com' = com
Continues ==
  /\ tpc' = "commit" /\ com' \in Com /\ com'.why = com.why
  /\ com'.text.to = com.text.to /\ com'.text.from \in com.text.from..com.text.to
Posts(from, to) ==
  \E e \in [text : Run, ping : BOOLEAN] : e.text.from = from /\ e.text.to = to /\ chat' = Append(chat, e)

LEMMA CommitGoes ==
  ASSUME ReplyInv, tpc = "commit", hist \subseteq hist',
         hist' \in {hist, hist \cup {"doubted"}, hist \cup {"refused"}},
         UNCHANGED <<streams, written, burst, base, segmented, full, apc, streaming, kpc, controlId, plate>>,
         Ended \/ Continues,
         Ended => "refused" \in hist' \/ live' = NoDraft,
         \/ chat' = chat /\ (Reach' = Reach \/ "refused" \in hist')
         \/ Posts(Reach, Reach')
         \/ Posts(com.text.from, com.text.to) /\ Reach' = Reach /\ "doubted" \in hist'
  PROVE  ReplyInv'
<1>1. /\ CountInv /\ TextInv /\ PostInv /\ PreviewInv /\ PlateInv /\ com \in Com /\ written \in Nat
      /\ com.text \in Run /\ com.text.from \in Nat /\ com.text.to \in Nat
  BY Counts DEF ReplyInv, CountInv
<1>2. /\ Low' = Low /\ Low \in Nat /\ Reach = com.text.from /\ Reach \in Nat
      /\ com.text.from <= com.text.to /\ com.text.to <= written
      /\ com.why = "final" => com.text.to = written
      /\ com.why = "break" => com.text.to = written
      /\ streams \/ com.why = "final"
  BY <1>1, Counts DEF Low, Reach, TextInv
<1>3. Reach' = IF tpc' = "commit" THEN com'.text.from ELSE com.text.to
  BY <1>2 DEF Reach, Ended, Continues
<1>4. Reach' \in Nat /\ Reach <= Reach' /\ Reach' <= written
  <2>1. CASE Ended
    BY <1>1, <1>2, <1>3, <2>1 DEF Ended
  <2>2. CASE Continues
    BY <1>1, <1>2, <1>3, <2>2 DEF Continues
  <2> QED
    BY <2>1, <2>2
<1>5. chat' \in Seq([text : Run, ping : BOOLEAN]) /\ PostInv'
  <2>1. CASE chat' = chat /\ (Reach' = Reach \/ "refused" \in hist')
    BY <1>1, <1>2, <1>4, <2>1, PostsNothing DEF CountInv
  <2>2. CASE Posts(Reach, Reach')
    BY <1>1, <1>2, <1>4, <2>2, PostsNext DEF Posts
  <2>3. CASE Posts(com.text.from, com.text.to) /\ Reach' = Reach /\ "doubted" \in hist'
    BY <1>1, <1>2, <1>4, <2>3, PostsNext DEF Posts
  <2> QED
    BY <2>1, <2>2, <2>3
<1>6. tpc' \in {"commit", "begin", "cleanup"} /\ com' \in Com
  BY <1>1 DEF Ended, Continues
<1>7. CountInv'
  BY <1>1, <1>4, <1>5, <1>6 DEF CountInv
<1>8. TextInv'
  <2>1. CASE Ended
    BY <1>1, <1>2, <2>1 DEF Ended, TextInv
  <2>2. CASE Continues
    BY <1>1, <1>2, <2>2 DEF Continues, TextInv
  <2> QED
    BY <2>1, <2>2
<1>9. PreviewInv'
  <2>1. Finale' => Finale
    BY <1>6 DEF Finale, Ended, Continues
  <2>2. Finale' => apc' = "off" /\ ~streaming'
    BY <1>1, <2>1 DEF PreviewInv
  <2>3. tpc' # "commit" => Ended
    BY DEF Continues
  <2> QED
    BY <2>2, <2>3 DEF PreviewInv, NoDraft, Nothing
<1>10. PlateInv'
  <2>1. "cutPlate" \in hist' <=> "cutPlate" \in hist
    OBVIOUS
  <2> QED
    BY <1>1, <1>6, <2>1 DEF PlateInv
<1> QED
  BY <1>5, <1>7, <1>8, <1>9, <1>10 DEF ReplyInv

LEMMA CommitSteps ==
  ASSUME ReplyInv, CommitRich \/ CommitInterleaved \/ CommitPiece
  PROVE  ReplyInv'
<1>1. /\ CountInv /\ TextInv /\ com \in Com /\ written \in Nat
      /\ com.text \in Run /\ com.text.from \in Nat /\ com.text.to \in Nat
  BY Counts DEF ReplyInv, CountInv
<1>2. /\ tpc = "commit"
      /\ UNCHANGED <<streams, written, burst, base, segmented, full, apc, streaming, kpc, controlId, plate>>
  BY DEF CommitRich, CommitInterleaved, CommitPiece, modeVars, bufVars,
     animVars, plateVars
<1>3. Reach = com.text.from /\ com.text.from <= com.text.to
  BY <1>1, <1>2 DEF Reach, TextInv
<1>4. Ended => Reach' = com.text.to
  BY <1>1, <1>2 DEF Ended, Reach, TextInv
<1>5. ASSUME NEW t \in Run, chat' = Post(t) PROVE Posts(t.from, t.to) /\ chat' # chat
  <2>1. [text |-> t, ping |-> com.why = "final"] \in [text : Run, ping : BOOLEAN]
    OBVIOUS
  <2>2. chat \in Seq([text : Run, ping : BOOLEAN])
    BY <1>1 DEF CountInv
  <2>3. Append(chat, [text |-> t, ping |-> com.why = "final"]) # chat
    BY <2>1, <2>2
  <2> QED
    BY <1>5, <2>1, <2>3 DEF Post, Posts
<1>6. CASE CommitRich
  <2>1. CASE chat' = Post(com.text) /\ live' = NoDraft /\ Committed /\ UNCHANGED <<com, hist>>
    <3>1. Ended
      BY <2>1 DEF Committed, Ended
    <3> QED
      BY <1>1, <1>2, <1>3, <1>4, <1>5, <2>1, <3>1, CommitGoes
  <2>2. CASE /\ \E s \in {"interleave", "pieces"} : com' = [com EXCEPT !.step = s]
             /\ \/ UNCHANGED <<chat, live, hist>>
                \/ chat' = Post(com.text) /\ hist' = hist \cup {"doubted"}
             /\ tpc' = tpc
    <3>1. PICK s \in {"interleave", "pieces"} : com' = [com EXCEPT !.step = s]
      BY <2>2
    <3>2. com' \in Com /\ com'.text = com.text /\ com'.why = com.why
      BY <1>1, <3>1 DEF Com
    <3>3. Continues /\ ~Ended
      BY <1>1, <1>2, <1>3, <2>2, <3>2 DEF Continues, Ended
    <3>4. Reach' = Reach
      BY <1>2, <2>2, <3>2 DEF Reach
    <3>5. CASE UNCHANGED <<chat, live, hist>>
      BY <1>2, <3>3, <3>4, <3>5, CommitGoes
    <3>6. CASE chat' = Post(com.text) /\ hist' = hist \cup {"doubted"}
      BY <1>1, <1>2, <1>5, <3>3, <3>4, <3>6, CommitGoes
    <3> QED
      BY <2>2, <3>5, <3>6
  <2> QED
    BY <1>6, <2>1, <2>2 DEF CommitRich
<1>7. CASE CommitInterleaved \/ CommitPiece
  <2>1. SendPiece /\ PieceDone /\ (chat' # chat => live' = NoDraft)
    BY <1>7 DEF CommitInterleaved, CommitPiece
  <2> DEFINE to == IF LastPiece THEN com.text.to ELSE com.text.from + 1
  <2>2. to \in com.text.from..com.text.to /\ to \in Nat
    BY <1>1, <1>3 DEF LastPiece
  <2>3. NextPiece = [from |-> com.text.from, to |-> to] /\ NextPiece \in Run
    BY <1>1, <2>2 DEF NextPiece, Run
  <2>4. Ended \/ Continues
    <3>1. CASE LastPiece
      BY <2>1, <3>1 DEF PieceDone, Committed, Ended
    <3>2. CASE ~LastPiece
      <4>1. com' = [com EXCEPT !.text.from = @ + 1] /\ tpc' = tpc
        BY <2>1, <3>2 DEF PieceDone
      <4>2. /\ com' \in Com /\ com'.why = com.why /\ com'.text.to = com.text.to
            /\ com'.text.from = com.text.from + 1
        BY <1>1, <4>1 DEF Com, Run
      <4> QED
        BY <1>1, <1>2, <1>3, <2>2, <3>2, <4>1, <4>2 DEF Continues
    <3> QED
      BY <3>1, <3>2
  <2>5. Reach' = to
    <3>1. CASE LastPiece
      <4>1. Ended
        BY <2>1, <3>1 DEF PieceDone, Committed, Ended
      <4> QED
        BY <1>4, <3>1, <4>1
    <3>2. CASE ~LastPiece
      <4>1. com' = [com EXCEPT !.text.from = @ + 1] /\ tpc' = "commit"
        BY <1>2, <2>1, <3>2 DEF PieceDone
      <4>2. com'.text.from = com.text.from + 1
        BY <1>1, <4>1 DEF Com, Run
      <4> QED
        BY <3>2, <4>1, <4>2 DEF Reach
    <3> QED
      BY <3>1, <3>2
  <2> HIDE DEF to
  <2>6. CASE chat' = Post(NextPiece) /\ hist' = hist
    <3>1. Posts(Reach, Reach') /\ chat' # chat
      BY <1>3, <1>5, <2>3, <2>5, <2>6
    <3> QED
      BY <1>2, <2>1, <2>4, <2>6, <3>1, CommitGoes
  <2>7. CASE hist' = hist \cup {"refused"} /\ chat' = chat
    BY <1>2, <2>4, <2>7, CommitGoes
  <2> QED
    BY <2>1, <2>6, <2>7 DEF SendPiece
<1> QED
  BY <1>6, <1>7

-----------------------------------------------------------------------------

LEMMA ReplySteps ==
  ASSUME ReplyInv, [StreamNext]_streamVars
  PROVE  ReplyInv'
<1>1. CASE UNCHANGED streamVars
  <2>1. UNCHANGED <<streams, tpc, written, base, burst, segmented, com, full, chat, hist, apc, streaming,
                    live, kpc, controlId, plate>>
    BY <1>1 DEF streamVars, modeVars, turnVars, bufVars, animVars, plateVars
  <2>2. CountInv' /\ TextInv' /\ PostInv' /\ (Finale' <=> Finale)
    BY <2>1, TurnStays
  <2>3. PreviewInv' /\ PlateInv'
    BY <2>1, <2>2 DEF ReplyInv, PreviewInv, PlateInv, NoDraft, Nothing
  <2> QED
    BY <2>2, <2>3 DEF ReplyInv
<1>2. CASE Events
  BY <1>2, EventSteps, TurnEnds DEF Events
<1>3. CASE Commits \/ Ending
  BY <1>3, EventSteps, CommitSteps, LastSteps DEF Commits, Ending
<1>4. CASE TurnCancelled
  BY <1>4, CancelSteps
<1>5. CASE Animator \/ Control \/ Button
  BY <1>5, Background
<1> QED
  BY <1>1, <1>2, <1>3, <1>4, <1>5 DEF StreamNext

(* What is buffered, committed and posted of a reply adds up.              *)
THEOREM ReplyStays == StreamSpec => []ReplyInv
<1>1. StreamInit => ReplyInv
  BY ReplyStarts
<1>2. ReplyInv /\ [StreamNext]_streamVars => ReplyInv'
  BY ReplySteps
<1> QED
  BY <1>1, <1>2, PTL DEF StreamSpec

(* Everything the model wrote is in the chat when the reply is complete,   *)
(* in order and once (Streamer._commit, finish, segment_break).            *)
THEOREM WholeAnswer == StreamSpec => []AnswerDelivered
<1>1. ASSUME ReplyInv PROVE AnswerDelivered
  <2>1. PostInv
    BY <1>1 DEF ReplyInv
  <2>2. Finished /\ "refused" \notin hist =>
          \A p \in (IF streams THEN 0 ELSE burst) + 1..written : Covered(p)
    <3> SUFFICES ASSUME Finished, "refused" \notin hist,
                        NEW p \in (IF streams THEN 0 ELSE burst) + 1..written
                 PROVE  Covered(p)
      OBVIOUS
    <3>1. tpc \in {"after", "over"} /\ ~Cut
      BY DEF Finished, Cut
    <3>2. Reach = written
      BY <3>1 DEF Reach
    <3> QED
      BY <2>1, <3>1, <3>2 DEF PostInv, Low
  <2>3. "doubted" \notin hist =>
          \A i, j \in DOMAIN chat : i < j => chat[i].text.to <= chat[j].text.from
    BY <2>1 DEF PostInv
  <2> QED
    BY <2>2, <2>3 DEF AnswerDelivered
<1> QED
  BY <1>1, ReplyStays, PTL

(* No frame, placeholder or Stop plate stays behind the answer             *)
(* (Streamer.finish, cancel, _delayed_control).                            *)
THEOREM NothingLeft == StreamSpec => []ScreenCleared
<1>1. ASSUME ReplyInv PROVE ScreenCleared
  <2>1. PreviewInv /\ PlateInv
    BY <1>1 DEF ReplyInv
  <2>2. NoPreviewAfterAnswer
    <3> SUFFICES ASSUME Finished, com.why = "final", "refused" \notin hist PROVE live = NoDraft
      BY DEF NoPreviewAfterAnswer
    <3>1. Finale /\ tpc # "commit"
      BY DEF Finished, Finale, Cut
    <3> QED
      BY <2>1, <3>1 DEF PreviewInv
  <2>3. PlateRemoved
    BY <2>1 DEF PlateInv, PlateRemoved
  <2> QED
    BY <2>2, <2>3 DEF ScreenCleared
<1> QED
  BY <1>1, ReplyStays, PTL

=============================================================================
