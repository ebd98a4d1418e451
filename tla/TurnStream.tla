----------------------------- MODULE TurnStream -----------------------------
(***************************************************************************)
(* One ClaudeSession of app/core/engine.py: the turns its worker runs, the *)
(* messages handle_text injects into a running turn, and the CLI process   *)
(* at the other end of the pipe.                                           *)
(*                                                                         *)
(* The CLI is external; what is modelled of it is what the engine relies   *)
(* on.  It answers the messages it receives in order, may fold one that    *)
(* arrives during a turn into that turn, reports "running" when a turn     *)
(* starts, a result when it ends (after a message with the error, when the *)
(* API refused or failed), and "idle" when nothing is left to do.  It may  *)
(* exit at any time.                                                       *)
(*                                                                         *)
(* A step of the bot is what a coroutine does from one await to the next.  *)
(* handle_text, the queue and the worker appear as far as they drive the   *)
(* engine; SessionManager has the rest of them.  A message is named by the *)
(* call of handle_text that brings it, and FollowUp is run(None).          *)
(***************************************************************************)
EXTENDS Naturals, Sequences, FiniteSets

CONSTANTS
  Messages,   \* the user's messages
  FollowUp,   \* what run(None) answers
  Nobody

(* run(None) and an idle run() are told from every message. *)
ASSUME NamesAssumption == FollowUp \notin Messages /\ Nobody \notin Messages \cup {FollowUp}

VARIABLES
  hpc,         \* where each message is in handle_text
  queue,       \* messages that wait for a turn of their own
  rpc,         \* where run() is
  cur,         \* what it was called for
  result,      \* the messages its result answers
  turnActive,  \* _turn_active
  statesSeen,  \* _states_seen
  injected,    \* _injected
  stash,       \* _stash
  followup,    \* followup_pending
  stream,      \* what the CLI has written and nobody has read
  cli,         \* the CLI: not connected, idle, in a turn, just after one, or gone
  inbox,       \* messages written to it and not taken up
  answering,   \* messages its current turn answers
  reply,       \* history: the messages answered by the reply to each message
  followed,    \* history: messages answered by follow-up replies
  failed,      \* history: messages whose turn ended without a result
  lost,        \* history: messages that went down with the CLI or its client
  raced        \* history: how run() lost track of an injected message

handlerVars == <<hpc, queue>>
runVars == <<rpc, cur, result, turnActive, followup>>
countVars == <<statesSeen, injected, stash>>
cliVars == <<stream, cli, inbox, answering>>
replyVars == <<reply, followed, failed, lost>>
vars == <<handlerVars, runVars, countVars, cliVars, replyVars, raced>>

State(s) == [kind |-> s, answers |-> {}]
Opening == State("init")
Result(S) == [kind |-> "result", answers |-> S]
StreamMessages == [kind : {"running", "idle", "init", "error", "result"}, answers : SUBSET Messages]

(* run() learns what became of the injected messages from the states it    *)
(* reads after the result.  It misreads them when a message was written    *)
(* after the CLI had gone idle, when the send of one had not returned at   *)
(* the result, when the "idle" of an earlier turn was read after one was   *)
(* counted, and when it gave up waiting.  After an error it reads neither  *)
(* the result nor the states that follow.                                  *)
Races == {"late", "uncounted", "stale", "timeout", "error"}

TypeOK ==
  /\ hpc \in [Messages -> {"new", "sending", "written", "injected", "queued"}]
  /\ queue \in Seq(Messages) /\ inbox \in Seq(Messages)
  /\ rpc \in {"off", "connect", "send", "read", "settle"}
  /\ cur \in Messages \cup {FollowUp, Nobody}
  /\ result \subseteq Messages /\ answering \subseteq Messages
  /\ turnActive \in BOOLEAN /\ statesSeen \in BOOLEAN /\ followup \in BOOLEAN
  /\ injected \in Nat
  /\ stash \in Seq(StreamMessages) /\ stream \in Seq(StreamMessages)
  /\ cli \in {"off", "idle", "turn", "after", "gone"}
  /\ reply \in [Messages -> SUBSET Messages]
  /\ followed \subseteq Messages /\ failed \subseteq Messages /\ lost \subseteq Messages
  /\ raced \subseteq Races

Init ==
  /\ hpc = [m \in Messages |-> "new"]
  /\ queue = <<>> /\ inbox = <<>> /\ stash = <<>> /\ stream = <<>>
  /\ rpc = "off" /\ cur = Nobody /\ result = {}
  /\ turnActive = FALSE /\ statesSeen = FALSE /\ followup = FALSE
  /\ injected = 0
  /\ cli = "off" /\ answering = {}
  /\ reply = [m \in Messages |-> {}]
  /\ followed = {} /\ failed = {} /\ lost = {}
  /\ raced = {}

-----------------------------------------------------------------------------
(* The CLI *)

CliStart ==
  /\ cli \in {"idle", "after"} /\ inbox # <<>>
  /\ cli' = "turn"
  /\ answering' = {Head(inbox)}
  /\ inbox' = Tail(inbox)
  /\ stream' = stream \o <<State("running"), Opening>>
  /\ UNCHANGED <<handlerVars, runVars, countVars, replyVars, raced>>

(* At a tool boundary the next message is folded into the turn. *)
CliFold ==
  /\ cli = "turn" /\ inbox # <<>>
  /\ answering' = answering \cup {Head(inbox)}
  /\ inbox' = Tail(inbox)
  /\ UNCHANGED <<handlerVars, runVars, countVars, stream, cli, replyVars, raced>>

CliResult ==
  /\ cli = "turn"
  /\ cli' = "after"
  /\ stream' = Append(stream, Result(answering))
  /\ answering' = {}
  /\ UNCHANGED <<handlerVars, runVars, countVars, inbox, replyVars, raced>>

(* The API fails or refuses the turn: the error, then a result. *)
CliError ==
  /\ cli = "turn"
  /\ cli' = "after"
  /\ stream' = stream \o <<State("error"), Result(answering)>>
  /\ answering' = {}
  /\ UNCHANGED <<handlerVars, runVars, countVars, inbox, replyVars, raced>>

CliIdle ==
  /\ cli = "after" /\ inbox = <<>>
  /\ cli' = "idle"
  /\ stream' = Append(stream, State("idle"))
  /\ UNCHANGED <<handlerVars, runVars, countVars, inbox, answering, replyVars, raced>>

(* The process ends; what it wrote can still be read. *)
CliExit ==
  /\ cli \in {"idle", "turn", "after"}
  /\ cli' = "gone"
  /\ lost' = lost \cup answering \cup {inbox[i] : i \in DOMAIN inbox}
  /\ answering' = {} /\ inbox' = <<>>
  /\ UNCHANGED <<handlerVars, runVars, countVars, stream, reply, followed, failed, raced>>

-----------------------------------------------------------------------------
(* handle_text and inject(), under the thread's lock *)

InjectUnderWay == \E m \in Messages : hpc[m] \in {"sending", "written"}

CanInject == rpc # "off" /\ queue = <<>> /\ cli # "off" /\ turnActive /\ statesSeen

Queue(m) ==
  /\ queue' = Append(queue, m)
  /\ hpc' = [hpc EXCEPT ![m] = "queued"]

Arrive(m) ==
  /\ hpc[m] = "new" /\ ~InjectUnderWay
  /\ \/ CanInject /\ hpc' = [hpc EXCEPT ![m] = "sending"] /\ UNCHANGED queue
     \/ ~CanInject /\ Queue(m)
  /\ UNCHANGED <<runVars, countVars, cliVars, replyVars, raced>>

(* The message goes down the pipe ... *)
InjectWrite(m) ==
  /\ hpc[m] = "sending" /\ cli \notin {"off", "gone"}
  /\ inbox' = Append(inbox, m)
  /\ hpc' = [hpc EXCEPT ![m] = "written"]
  /\ raced' = raced \cup (IF cli = "idle" /\ inbox = <<>> THEN {"late"} ELSE {})
  /\ UNCHANGED <<queue, runVars, countVars, stream, cli, answering, replyVars>>

(* ... or cannot be sent, and takes a turn of its own. *)
InjectFails(m) ==
  /\ hpc[m] = "sending"
  /\ Queue(m)
  /\ UNCHANGED <<runVars, countVars, cliVars, replyVars, raced>>

(* Mutant: handle_text queues the message although it was injected. *)
InjectCountsAndQueues(m) ==
  /\ hpc[m] = "written"
  /\ injected' = injected + 1
  /\ Queue(m)
  /\ UNCHANGED <<runVars, statesSeen, stash, cliVars, replyVars, raced>>

(* The send has returned: the message is counted. *)
InjectCounts(m) ==
  /\ hpc[m] = "written"
  /\ injected' = injected + 1
  /\ hpc' = [hpc EXCEPT ![m] = "injected"]
  /\ UNCHANGED <<queue, runVars, statesSeen, stash, cliVars, replyVars, raced>>

-----------------------------------------------------------------------------
(* run() *)

(* The worker takes the next queued message. *)
RunStart ==
  /\ rpc = "off" /\ queue # <<>>
  /\ cur' = Head(queue) /\ queue' = Tail(queue)
  /\ rpc' = "connect"
  /\ UNCHANGED <<hpc, result, turnActive, followup, countVars, cliVars, replyVars, raced>>

(* _ensure_client(): a fresh process has nothing injected or stashed. *)
RunConnect ==
  /\ rpc = "connect"
  /\ IF cli = "off"
     THEN cli' = "idle" /\ injected' = 0 /\ statesSeen' = FALSE /\ stash' = <<>>
     ELSE UNCHANGED <<cli, countVars>>
  /\ followup' = FALSE
  /\ IF cur = FollowUp THEN rpc' = "read" /\ turnActive' = TRUE
                       ELSE rpc' = "send" /\ UNCHANGED turnActive
  /\ UNCHANGED <<handlerVars, cur, result, stream, inbox, answering, replyVars, raced>>

RunSend ==
  /\ rpc = "send" /\ cli # "gone"
  /\ inbox' = Append(inbox, cur)
  /\ turnActive' = TRUE
  /\ rpc' = "read"
  /\ UNCHANGED <<handlerVars, cur, result, followup, countVars, stream, cli, answering,
                 replyVars, raced>>

(* The turn's result is reported; a follow-up is run next, if there is one. *)
Report(S) ==
  /\ turnActive' = FALSE
  /\ result' = {}
  /\ IF cur = FollowUp
     THEN followed' = followed \cup S /\ UNCHANGED reply
     ELSE reply' = [reply EXCEPT ![cur] = @ \cup S] /\ UNCHANGED followed
  /\ IF followup' THEN cur' = FollowUp /\ rpc' = "connect" ELSE cur' = Nobody /\ rpc' = "off"
  /\ UNCHANGED <<failed, lost>>

(* _messages(): the stash is replayed first. *)
Incoming == stash \o stream

(* Mutant: a stashed message is replayed and kept. *)
TakeIncomingKeepsStash ==
  IF stash # <<>> THEN UNCHANGED <<stash, stream>>
                  ELSE stream' = Tail(stream) /\ UNCHANGED stash

TakeIncoming ==
  IF stash # <<>> THEN stash' = Tail(stash) /\ UNCHANGED stream
                  ELSE stream' = Tail(stream) /\ UNCHANGED stash

(* _note_state(): an "idle" means that nothing injected is outstanding. *)
NoteState(s) ==
  /\ statesSeen' = TRUE
  /\ injected' = IF s = "idle" THEN 0 ELSE injected

(* A message of the stream that does not end the turn.  An "idle" read     *)
(* here is the one that followed an earlier turn's result.                 *)
RunRead ==
  /\ rpc = "read" /\ Incoming # <<>>
  /\ LET k == Head(Incoming).kind IN
     /\ k \notin {"error", "result"}
     /\ IF k = "init" THEN UNCHANGED <<statesSeen, injected>> ELSE NoteState(k)
     /\ raced' = raced \cup (IF k = "idle" /\ injected > 0 THEN {"stale"} ELSE {})
  /\ TakeIncoming
  /\ UNCHANGED <<handlerVars, runVars, cli, inbox, answering, replyVars>>

(* Mutant: the result is reported without settling what was injected. *)
RunResultUnsettled ==
  /\ rpc = "read" /\ Incoming # <<>> /\ Head(Incoming).kind = "result"
  /\ TakeIncoming
  /\ raced' = raced \cup (IF InjectUnderWay THEN {"uncounted"} ELSE {})
  /\ UNCHANGED followup
  /\ Report(Head(Incoming).answers)
  /\ UNCHANGED <<handlerVars, statesSeen, injected, cli, inbox, answering>>

(* The result.  If messages were injected, run() reads on to learn what    *)
(* became of them; otherwise the turn is over.                             *)
RunResult ==
  /\ rpc = "read" /\ Incoming # <<>> /\ Head(Incoming).kind = "result"
  /\ TakeIncoming
  /\ raced' = raced \cup (IF InjectUnderWay THEN {"uncounted"} ELSE {})
  /\ UNCHANGED followup
  /\ IF injected > 0 /\ statesSeen
     THEN /\ rpc' = "settle"
          /\ result' = Head(Incoming).answers
          /\ UNCHANGED <<cur, turnActive, replyVars>>
     ELSE Report(Head(Incoming).answers)
  /\ UNCHANGED <<handlerVars, statesSeen, injected, cli, inbox, answering>>

(* _settle_after_result(): idle means folded in; the first message of      *)
(* another turn is stashed for the follow-up.                              *)
SettleRead ==
  /\ rpc = "settle" /\ stream # <<>>
  /\ stream' = Tail(stream)
  /\ LET k == Head(stream).kind IN
     \/ /\ k = "running"
        /\ NoteState(k)
        /\ UNCHANGED <<runVars, stash, replyVars>>
     \/ /\ k = "idle"
        /\ NoteState(k)
        /\ UNCHANGED <<stash, followup>>
        /\ Report(result)
     \/ /\ k \in {"init", "error", "result"}
        /\ stash' = Append(stash, Head(stream))
        /\ followup' = TRUE
        /\ UNCHANGED <<statesSeen, injected>>
        /\ Report(result)
  /\ UNCHANGED <<handlerVars, cli, inbox, answering, raced>>

(* The stream ends while run() settles. *)
SettleEnds ==
  /\ rpc = "settle" /\ cli = "gone" /\ stream = <<>>
  /\ UNCHANGED followup
  /\ Report(result)
  /\ UNCHANGED <<handlerVars, countVars, cliVars, raced>>

SettleTimeout ==
  /\ rpc = "settle"
  /\ raced' = raced \cup {"timeout"}
  /\ UNCHANGED followup
  /\ Report(result)
  /\ UNCHANGED <<handlerVars, countVars, cliVars>>

(* run() ends without a result. *)
GiveUp ==
  /\ rpc' = "off" /\ cur' = Nobody /\ result' = {}
  /\ turnActive' = FALSE
  /\ failed' = failed \cup ({cur} \cap Messages)

(* "An errored assistant message is terminal for this turn." *)
RunError ==
  /\ rpc = "read" /\ Incoming # <<>> /\ Head(Incoming).kind = "error"
  /\ TakeIncoming
  /\ GiveUp
  /\ raced' = raced \cup {"error"}
  /\ UNCHANGED <<handlerVars, followup, statesSeen, injected, cli, inbox, answering,
                 reply, followed, lost>>

(* The stream ends: so does run(), with what it has, and keeps the client. *)
RunEnds ==
  /\ rpc = "read" /\ cli = "gone" /\ Incoming = <<>>
  /\ GiveUp
  /\ UNCHANGED <<handlerVars, followup, countVars, cliVars, reply, followed, lost, raced>>

(* A failure to connect, a stalled turn, an exception or a refused login:  *)
(* the client is dropped, with what it had not answered, and the next turn *)
(* reconnects.                                                             *)
RunFails ==
  /\ rpc # "off" /\ (rpc = "connect" => cli = "off")
  /\ GiveUp
  /\ lost' = lost \cup answering \cup {inbox[i] : i \in DOMAIN inbox} \cup result
                  \cup UNION {stream[i].answers : i \in DOMAIN stream}
  /\ cli' = "off" /\ stream' = <<>> /\ inbox' = <<>> /\ answering' = {}
  /\ UNCHANGED <<handlerVars, followup, countVars, reply, followed, raced>>

-----------------------------------------------------------------------------

CliNext == CliStart \/ CliFold \/ CliResult \/ CliError \/ CliIdle \/ CliExit

HandlerNext(m) == Arrive(m) \/ InjectWrite(m) \/ InjectFails(m) \/ InjectCounts(m)

RunNext ==
  \/ RunStart \/ RunConnect \/ RunSend \/ RunRead \/ RunResult \/ RunError \/ RunEnds
  \/ SettleRead \/ SettleEnds \/ SettleTimeout \/ RunFails

Next == CliNext \/ RunNext \/ \E m \in Messages : HandlerNext(m)

Spec == Init /\ [][Next]_vars

(* The CLI ends its turns and says when it is idle, the loop runs what is  *)
(* ready; a message to a process that has exited cannot be sent.  Nobody   *)
(* has to write, and nothing else has to fail or time out.                 *)
Fairness ==
  /\ WF_vars(CliStart) /\ WF_vars(CliResult \/ CliError) /\ WF_vars(CliIdle)
  /\ WF_vars(RunStart) /\ WF_vars(RunConnect)
  /\ WF_vars(RunSend \/ (rpc = "send" /\ RunFails))
  /\ WF_vars(RunRead \/ RunResult \/ RunError \/ RunEnds)
  /\ WF_vars(SettleRead \/ SettleEnds)
  /\ \A m \in Messages :
       WF_vars(InjectWrite(m) \/ InjectFails(m)) /\ WF_vars(InjectCounts(m))

FairSpec == Spec /\ Fairness

-----------------------------------------------------------------------------

(* A reply answers the message it is given for: the answers never shift by *)
(* one.  This holds whenever run() could tell what became of the messages  *)
(* injected into its turn.                                                 *)
RepliesMatch == \A m \in Messages : reply[m] # {} => m \in reply[m]
RepliesMatchUnlessRaced == raced = {} => RepliesMatch

(* No message is answered twice, not even one whose injection failed: the  *)
(* replies and the follow-up replies answer disjoint sets of messages.     *)
AnsweredOnce ==
  \A m, n \in Messages :
    /\ m # n => reply[m] \cap reply[n] = {}
    /\ reply[m] \cap followed = {}

(* run() always returns, and a message with a turn of its own is answered  *)
(* or its turn reported as failed.                                         *)
QueuedAnswered ==
  \A m \in Messages : hpc[m] = "queued" ~> reply[m] # {} \/ m \in failed

(* An injected message is answered, in the running turn or a follow-up,    *)
(* unless its client was dropped or run() could not tell.                  *)
Answered == followed \cup UNION {reply[m] : m \in Messages}
InjectedAnswered ==
  \A m \in Messages : hpc[m] = "injected" ~> raced # {} \/ m \in Answered \cup lost

(* No message that was accepted is left without an answer or a report.     *)
EveryMessageAnswered == QueuedAnswered /\ InjectedAnswered

=============================================================================
