------------------------------ MODULE Streamer ------------------------------
(***************************************************************************)
(* One reply in a private chat: the event loop of SessionManager._run_one  *)
(* (app/core/sessions.py), the Streamer it feeds (app/telegram/streamer.py)*)
(* with its animator and its delayed Stop plate, the push button of the    *)
(* draft, and Telegram.                                                    *)
(*                                                                         *)
(* The text the model writes is a number of pieces; every text the code    *)
(* handles is a run of consecutive pieces, [from, to] standing for the     *)
(* pieces after `from` up to `to`.  Telegram is external: a send succeeds, *)
(* fails, or succeeds without the bot learning of it.                      *)
(***************************************************************************)
EXTENDS Naturals, Sequences, FiniteSets

CONSTANTS
  MaxPieces,   \* pieces of text the model writes
  MaxPushes    \* presses of the draft's button

VARIABLES
  streams, code, \* the session streams; it is in code mode
  drafts,        \* use_drafts
  tpc,           \* where _run_one is
  written,       \* pieces written
  base,          \* running_text holds the pieces after this one
  burst,         \* the result's text holds the pieces after this one
  segmented,     \* segmented
  com,           \* the text under _commit() and how far it got
  streaming, closed,  \* _streaming, _closed
  full,          \* _full
  draftId,       \* _draft_id
  lock,          \* who holds _lock
  apc, frame,    \* where the animator is, and the frame it is sending
  kpc, controlId,\* where the task of the Stop plate is, and whether its id is known
  press,         \* the press of the button, if any
  interrupted,   \* the press was taken for a stop
  chat,          \* the messages of the reply in the chat
  live,          \* the draft, or the placeholder being edited, on the screen
  plate,         \* the Stop plate is on the screen
  hist           \* history: what went wrong on the way

modeVars == <<streams, code>>
turnVars == <<tpc, written, base, burst, segmented, com>>
bufVars == <<streaming, closed, full>>
animVars == <<apc, frame>>
plateVars == <<kpc, controlId, plate>>
pressVars == <<draftId, press, interrupted>>
streamVars == <<modeVars, drafts, turnVars, bufVars, lock, animVars, plateVars, pressVars,
                chat, live, hist>>

Text == [from : 0..MaxPieces, to : 0..MaxPieces]
Nothing == [from |-> 0, to |-> 0]
NoDraft == [id |-> 0, text |-> Nothing]
Running == [from |-> base, to |-> written]
Draft == [id : 0..MaxPushes + 1, text : Text]

(* refused: a message was given up; doubted: one reported as failed had    *)
(* been delivered; cutPlate: the task of the plate was cancelled while it  *)
(* sent; cutFinish: the turn was cancelled while it committed the answer;  *)
(* cancelled: it was cancelled before; latePress: a press was taken for a  *)
(* stop after its reply.                                                   *)
Mishaps == {"refused", "doubted", "cutPlate", "cutFinish", "cancelled", "latePress"}

StreamTypeOK ==
  /\ streams \in BOOLEAN /\ code \in BOOLEAN /\ drafts \in BOOLEAN
  /\ tpc \in {"start", "events", "commit", "begin", "remainder", "finish", "cleanup", "after", "over"}
  /\ written \in 0..MaxPieces /\ base \in 0..written /\ burst \in 0..written
  /\ segmented \in BOOLEAN
  /\ com \in [text : Text, why : {"flush", "break", "final"}, step : {"rich", "interleave", "pieces"}]
  /\ streaming \in BOOLEAN /\ closed \in BOOLEAN
  /\ full \in Text
  /\ draftId \in 1..MaxPushes + 1
  /\ lock \in {"free", "turn", "anim"}
  /\ apc \in {"off", "sleep", "send"} /\ frame \in Draft
  /\ kpc \in {"off", "delay", "send", "check", "cut", "done"} /\ controlId \in BOOLEAN
  /\ press \in {"none", "waiting", "settled"} /\ interrupted \in BOOLEAN
  /\ chat \in Seq([text : Text, ping : BOOLEAN])
  /\ live \in Draft /\ plate \in BOOLEAN
  /\ hist \subseteq Mishaps

StreamInit ==
  /\ streams \in BOOLEAN /\ code \in BOOLEAN /\ drafts = TRUE
  /\ tpc = "start" /\ written = 0 /\ base = 0 /\ burst = 0 /\ segmented = FALSE
  /\ com = [text |-> Nothing, why |-> "break", step |-> "rich"]
  /\ streaming = FALSE /\ closed = FALSE /\ full = Nothing
  /\ draftId = 1 /\ lock = "free"
  /\ apc = "off" /\ frame = NoDraft
  /\ kpc = "off" /\ controlId = FALSE /\ plate = FALSE
  /\ press = "none" /\ interrupted = FALSE
  /\ chat = <<>> /\ live = NoDraft /\ hist = {}

-----------------------------------------------------------------------------
(* start() *)

(* Without streaming nothing is shown before finish(). *)
StartQuiet ==
  /\ tpc = "start" /\ ~streams
  /\ tpc' = "events"
  /\ UNCHANGED <<modeVars, drafts, written, base, burst, segmented, com, bufVars, lock,
                 animVars, plateVars, pressVars, chat, live, hist>>

(* The probe of the draft shows the indicator; refused, a placeholder is   *)
(* sent and edited instead, and there is no Stop plate.                    *)
Start ==
  /\ tpc = "start" /\ streams
  /\ tpc' = "events" /\ streaming' = TRUE
  /\ apc' = "sleep"
  /\ \/ /\ live' = [id |-> draftId, text |-> Nothing]
        /\ kpc' = "delay"
        /\ UNCHANGED drafts
     \/ /\ drafts' = FALSE
        /\ live' \in {[id |-> draftId, text |-> Nothing], NoDraft}
        /\ UNCHANGED kpc
  /\ UNCHANGED <<modeVars, written, base, burst, segmented, com, closed, full, lock,
                 frame, controlId, plate, pressVars, chat, hist>>

-----------------------------------------------------------------------------
(* The events of run(), in the order the engine yields them *)

CanTake == lock = "free"

BeginCommit(t, why) ==
  /\ lock' = "turn"
  /\ com' = [text |-> t, why |-> why, step |-> "rich"]
  /\ tpc' = "commit"

(* A delta is added to running_text and to the buffer; in code mode a      *)
(* closed code block, with what precedes it, is committed at once.         *)
TextDelta ==
  /\ tpc = "events" /\ written < MaxPieces /\ ~interrupted
  /\ written' = written + 1
  /\ IF streams
     THEN /\ CanTake
          /\ full' = [from |-> base, to |-> written']
          /\ \/ UNCHANGED <<lock, com, tpc>>
             \/ code /\ \E k \in base + 1..written' : BeginCommit([from |-> base, to |-> k], "flush")
     ELSE UNCHANGED <<full, lock, com, tpc>>
  /\ UNCHANGED <<modeVars, drafts, base, burst, segmented, streaming, closed, animVars,
                 plateVars, pressVars, chat, live, hist>>

(* A tool call, or thinking after text: the text so far becomes a message  *)
(* of its own.  What precedes a tool call is not part of the result.       *)
Interruption(tool) ==
  /\ tpc = "events" /\ ~interrupted
  /\ burst' = IF tool THEN written ELSE burst
  /\ IF streams /\ base < written
     THEN CanTake /\ BeginCommit(full, "break")
     ELSE UNCHANGED <<lock, com, tpc>>
  /\ UNCHANGED <<modeVars, drafts, written, base, segmented, bufVars, animVars, plateVars,
                 pressVars, chat, live, hist>>

(* cancel(): the background tasks stop where they are; the plate is        *)
(* deleted if its id is known.                                             *)
StopTasks ==
  /\ closed' = TRUE /\ streaming' = FALSE
  /\ apc' = "off"
  /\ lock' = IF lock = "anim" THEN "free" ELSE lock
  /\ kpc' = IF kpc = "send" THEN "cut" ELSE IF kpc = "off" THEN "off" ELSE "done"
  /\ controlId' = FALSE
  /\ plate' = (plate /\ ~controlId)

CutPlate == IF kpc = "send" THEN {"cutPlate"} ELSE {}

(* Mutant: the result's own text is used although parts of it were posted. *)
EndOfTurnRepeats(gotResult) ==
  /\ tpc = "events"
  /\ LET answer == IF gotResult THEN [from |-> burst, to |-> written] ELSE Running IN
     /\ tpc' = "finish"
     /\ com' = [text |-> answer, why |-> "final", step |-> "rich"]
     /\ UNCHANGED <<closed, streaming, apc, lock, kpc, controlId, plate, hist>>
  /\ UNCHANGED <<modeVars, drafts, written, base, burst, segmented, full, frame,
                 pressVars, chat, live>>

(* The turn ends, with a result or without one (an error, an interrupt).   *)
(* If all its text is posted there is nothing to finish.                   *)
EndOfTurn(gotResult) ==
  /\ tpc = "events"
  /\ LET answer == IF gotResult /\ ~segmented THEN [from |-> burst, to |-> written] ELSE Running IN
     IF segmented /\ answer.from = answer.to
     THEN /\ tpc' = "after"
          /\ StopTasks
          /\ hist' = hist \cup CutPlate
          /\ UNCHANGED com
     ELSE /\ tpc' = "finish"
          /\ com' = [text |-> answer, why |-> "final", step |-> "rich"]
          /\ UNCHANGED <<closed, streaming, apc, lock, kpc, controlId, plate, hist>>
  /\ UNCHANGED <<modeVars, drafts, written, base, burst, segmented, full, frame,
                 pressVars, chat, live>>

-----------------------------------------------------------------------------
(* finish(), segment_break(), flush_segment() and _commit(), which they    *)
(* call with the lock                                                      *)

FinishLock ==
  /\ tpc = "finish" /\ CanTake
  /\ lock' = "turn" /\ tpc' = "commit"
  /\ streaming' = FALSE /\ closed' = TRUE
  /\ full' = com.text
  /\ apc' = "off"
  /\ UNCHANGED <<modeVars, drafts, written, base, burst, segmented, com, frame,
                 plateVars, pressVars, chat, live, hist>>

Post(t) == Append(chat, [text |-> t, ping |-> com.why = "final"])

(* A commit is done: the next segment begins, or the reply is complete. *)
Committed ==
  IF com.why = "final"
  THEN tpc' = "cleanup" /\ lock' = "free"
  ELSE tpc' = "begin" /\ UNCHANGED lock

(* The text goes out as one rich message, with its pictures and maps in    *)
(* it.  The placeholder is deleted; a draft ends when a message lands.  A  *)
(* send that fails is made up for piece by piece.                          *)
CommitRich ==
  /\ tpc = "commit" /\ com.step = "rich"
  /\ \/ /\ chat' = Post(com.text)
        /\ live' = NoDraft
        /\ Committed
        /\ UNCHANGED <<com, hist>>
     \/ /\ com' \in {[com EXCEPT !.step = s] : s \in {"interleave", "pieces"}}
        /\ \/ UNCHANGED <<chat, live, hist>>
           \/ /\ chat' = Post(com.text)
              /\ live' = IF drafts THEN NoDraft ELSE live
              /\ hist' = hist \cup {"doubted"}
        /\ UNCHANGED <<tpc, lock>>
  /\ UNCHANGED <<modeVars, drafts, written, base, burst, segmented, bufVars, animVars, plateVars,
                 pressVars>>

LastPiece == com.text.from + 1 >= com.text.to
NextPiece == [from |-> com.text.from, to |-> IF LastPiece THEN com.text.to ELSE com.text.from + 1]

PieceDone ==
  IF LastPiece THEN Committed /\ UNCHANGED com
               ELSE com' = [com EXCEPT !.text.from = @ + 1] /\ UNCHANGED <<tpc, lock>>

(* _safe(): a piece that cannot be sent is given up, and the others follow. *)
SendPiece ==
  \/ chat' = Post(NextPiece) /\ UNCHANGED hist
  \/ hist' = hist \cup {"refused"} /\ UNCHANGED chat

(* With attachments the placeholder goes first, then text and attachments  *)
(* are sent one after the other.                                           *)
CommitInterleaved ==
  /\ tpc = "commit" /\ com.step = "interleave"
  /\ SendPiece
  /\ live' = IF ~drafts \/ chat' # chat THEN NoDraft ELSE live
  /\ PieceDone
  /\ UNCHANGED <<modeVars, drafts, written, base, burst, segmented, bufVars, animVars, plateVars,
                 pressVars>>

(* Otherwise the first piece replaces the placeholder, if there is one.    *)
CommitPiece ==
  /\ tpc = "commit" /\ com.step = "pieces"
  /\ SendPiece
  /\ live' = IF chat' # chat THEN NoDraft ELSE live
  /\ PieceDone
  /\ UNCHANGED <<modeVars, drafts, written, base, burst, segmented, bufVars, animVars, plateVars,
                 pressVars>>

(* Mutant: the segment begins and the lock is kept. *)
BeginNextSegmentKeepsLock ==
  /\ tpc = "begin"
  /\ full' = Nothing
  /\ live' \in {[id |-> draftId, text |-> Nothing], NoDraft}
  /\ base' = com.text.to /\ segmented' = TRUE
  /\ tpc' = IF com.why = "flush" THEN "remainder" ELSE "events"
  /\ UNCHANGED <<modeVars, drafts, written, burst, com, lock, streaming, closed, animVars, plateVars,
                 pressVars, chat, hist>>

(* _begin_next_segment(), and in _run_one the text that was posted leaves  *)
(* running_text.                                                           *)
BeginNextSegment ==
  /\ tpc = "begin"
  /\ full' = Nothing
  /\ live' \in {[id |-> draftId, text |-> Nothing], NoDraft}
  /\ base' = com.text.to /\ segmented' = TRUE
  /\ lock' = "free"
  /\ tpc' = IF com.why = "flush" THEN "remainder" ELSE "events"
  /\ UNCHANGED <<modeVars, drafts, written, burst, com, streaming, closed, animVars, plateVars,
                 pressVars, chat, hist>>

(* What follows the code block goes back to the buffer. *)
UpdateRemainder ==
  /\ tpc = "remainder" /\ CanTake
  /\ full' = Running
  /\ tpc' = "events"
  /\ UNCHANGED <<modeVars, drafts, written, base, burst, segmented, com, streaming, closed,
                 lock, animVars, plateVars, pressVars, chat, live, hist>>

(* finish() removes the Stop plate after it gave the lock back. *)
RemoveControl ==
  /\ tpc = "cleanup"
  /\ kpc' = IF kpc = "send" THEN "cut" ELSE IF kpc = "off" THEN "off" ELSE "done"
  /\ controlId' = FALSE
  /\ plate' = (plate /\ ~controlId)
  /\ hist' = hist \cup CutPlate
  /\ tpc' = "after"
  /\ UNCHANGED <<modeVars, drafts, written, base, burst, segmented, com, bufVars, lock, animVars,
                 pressVars, chat, live>>

(* Logging, the notes after the answer and the outbox; rec.streamer is     *)
(* cleared last.                                                           *)
WorkerDone ==
  /\ tpc = "after"
  /\ tpc' = "over"
  /\ UNCHANGED <<modeVars, drafts, written, base, burst, segmented, com, bufVars, lock, animVars,
                 plateVars, pressVars, chat, live, hist>>

(* asyncio.Lock is first come, first served, and the animator sleeps       *)
(* between two frames: it does not overtake the turn.                      *)
TurnWaits == tpc \in {"finish", "remainder"}

(* reset() or aclose() cancels the worker.  While it reads events the      *)
(* streamer is cancelled with it; in finish() it is left as it is.         *)
TurnCancelled ==
  /\ tpc \notin {"after", "over"} /\ (TurnWaits => ~CanTake)
  /\ tpc' = "over"
  /\ IF tpc \in {"finish", "cleanup"} \/ (tpc = "commit" /\ com.why = "final")
     THEN /\ hist' = hist \cup {"cutFinish"}
          /\ lock' = IF lock = "turn" THEN "free" ELSE lock
          /\ UNCHANGED <<closed, streaming, apc, kpc, controlId, plate>>
     ELSE /\ hist' = hist \cup {"cancelled"} \cup CutPlate
          /\ closed' = TRUE /\ streaming' = FALSE
          /\ apc' = "off" /\ lock' = "free"
          /\ kpc' = IF kpc = "send" THEN "cut" ELSE IF kpc = "off" THEN "off" ELSE "done"
          /\ controlId' = FALSE
          /\ plate' = (plate /\ ~controlId)
  /\ UNCHANGED <<modeVars, drafts, written, base, burst, segmented, com, full, frame,
                 pressVars, chat, live>>

-----------------------------------------------------------------------------
(* The animator: _animate_loop(), _tick() and the frames *)

(* Mutant: the flags are not looked at again with the lock. *)
TickUnchecked ==
  /\ apc = "sleep" \/ (closed /\ streams /\ apc = "off" /\ tpc = "after")
  /\ lock = "free" /\ ~TurnWaits
  /\ apc' = "send" /\ lock' = "anim"
  /\ frame' = [id |-> draftId, text |-> full]
  /\ UNCHANGED <<modeVars, drafts, turnVars, bufVars, plateVars, pressVars, chat, live, hist>>

(* A frame may repeat the one before, which keeps the draft from expiring. *)
Tick ==
  /\ apc = "sleep" /\ lock = "free" /\ ~TurnWaits
  /\ streaming /\ ~closed
  /\ apc' = "send" /\ lock' = "anim"
  /\ frame' = [id |-> draftId, text |-> full]
  /\ UNCHANGED <<modeVars, drafts, turnVars, bufVars, plateVars, pressVars, chat, live, hist>>

(* The frame is shown, or skipped when Telegram asks to slow down.  A      *)
(* frame of a draft the user has ended opens that draft again.             *)
FrameSent ==
  /\ apc = "send"
  /\ apc' = "sleep" /\ lock' = "free"
  /\ \/ live' = frame
     \/ UNCHANGED live
  /\ frame' = NoDraft
  /\ UNCHANGED <<modeVars, drafts, turnVars, streaming, closed, full, plateVars, pressVars, chat, hist>>

-----------------------------------------------------------------------------
(* The Stop plate: _delayed_control() *)

ControlWakes ==
  /\ kpc = "delay" /\ lock = "free"
  /\ kpc' = IF closed \/ ~streaming THEN "done" ELSE "send"
  /\ UNCHANGED <<modeVars, drafts, turnVars, bufVars, lock, animVars, controlId, plate, pressVars,
                 chat, live, hist>>

ControlSent ==
  /\ kpc = "send"
  /\ \/ kpc' = "check" /\ controlId' = TRUE /\ plate' = TRUE
     \/ kpc' = "done" /\ UNCHANGED <<controlId, plate>>
  /\ UNCHANGED <<modeVars, drafts, turnVars, bufVars, lock, animVars, pressVars, chat, live, hist>>

(* The turn may have ended during the send. *)
ControlCheck ==
  /\ kpc = "check" /\ lock = "free"
  /\ kpc' = "done"
  /\ IF closed \/ ~streaming
     THEN controlId' = FALSE /\ plate' = FALSE
     ELSE UNCHANGED <<controlId, plate>>
  /\ UNCHANGED <<modeVars, drafts, turnVars, bufVars, lock, animVars, pressVars, chat, live, hist>>

(* The send of a cancelled task may have reached Telegram. *)
ControlArrives ==
  /\ kpc = "cut"
  /\ kpc' = "done" /\ plate' \in BOOLEAN
  /\ UNCHANGED <<modeVars, drafts, turnVars, bufVars, lock, animVars, controlId, pressVars, chat,
                 live, hist>>

-----------------------------------------------------------------------------
(* The button of the draft *)

(* on_push(): the client has ended the draft, the reply goes on in another *)
(* one.                                                                    *)
Push ==
  /\ drafts /\ streaming /\ ~closed
  /\ live.id = draftId /\ draftId <= MaxPushes
  /\ draftId' = draftId + 1
  /\ live' = NoDraft
  /\ press' = "waiting"
  /\ UNCHANGED <<modeVars, drafts, turnVars, streaming, closed, full, lock, animVars, plateVars,
                 interrupted, chat, hist>>

(* The message Telegram held comes through. *)
HeldMessage ==
  /\ press = "waiting"
  /\ press' = "settled"
  /\ UNCHANGED <<modeVars, drafts, turnVars, bufVars, lock, animVars, plateVars, draftId, interrupted,
                 chat, live, hist>>

(* No message came within a second: the press was meant as a stop.         *)
(* _stop_unless_pushed() looks for its streamer, which stays in the record *)
(* until the worker is done with the prompt.                               *)
StopUnlessPushed ==
  /\ press = "waiting"
  /\ press' = "settled"
  /\ interrupted' = (tpc # "over")
  /\ hist' = hist \cup (IF tpc = "after" THEN {"latePress"} ELSE {})
  /\ UNCHANGED <<modeVars, drafts, turnVars, bufVars, lock, animVars, plateVars, draftId, chat, live>>

-----------------------------------------------------------------------------

Events ==
  \/ StartQuiet \/ Start \/ TextDelta
  \/ \E tool \in BOOLEAN : Interruption(tool)
  \/ \E gotResult \in BOOLEAN : EndOfTurn(gotResult)

Commits == FinishLock \/ CommitRich \/ CommitInterleaved \/ CommitPiece \/ BeginNextSegment \/ UpdateRemainder
Ending == RemoveControl \/ WorkerDone

Animator == Tick \/ FrameSent
Control == ControlWakes \/ ControlSent \/ ControlCheck \/ ControlArrives
Button == Push \/ HeldMessage \/ StopUnlessPushed

StreamNext == Events \/ Commits \/ Ending \/ TurnCancelled \/ Animator \/ Control \/ Button

StreamSpec == StreamInit /\ [][StreamNext]_streamVars

(* Telegram answers every call in time, the loop runs what is ready, and a *)
(* turn ends: SessionManager and TurnStream say why.                       *)
StreamFairness ==
  /\ WF_streamVars(StartQuiet \/ Start) /\ SF_streamVars(\E gotResult \in BOOLEAN : EndOfTurn(gotResult))
  /\ SF_streamVars(FinishLock) /\ SF_streamVars(UpdateRemainder)
  /\ WF_streamVars(CommitRich \/ CommitInterleaved \/ CommitPiece \/ BeginNextSegment)
  /\ WF_streamVars(Ending) /\ WF_streamVars(FrameSent)
  /\ SF_streamVars(ControlWakes) /\ WF_streamVars(ControlSent) /\ SF_streamVars(ControlCheck)
  /\ WF_streamVars(ControlArrives)

FairStreamSpec == StreamSpec /\ StreamFairness

-----------------------------------------------------------------------------

Finished == tpc \in {"after", "over"} /\ hist \cap {"cancelled", "cutFinish"} = {}

(* Everything the model wrote is in the chat when the reply is complete,   *)
(* in order and once, however text, tool calls, code blocks and thinking   *)
(* alternate and whichever path of _commit() each part took.  Exceptions   *)
(* are a message that Telegram refused on every path, and one that was     *)
(* delivered although its send failed, which is then sent again.  Without  *)
(* streaming a reply is the text of the result alone.                      *)
Covered(p) == \E i \in DOMAIN chat : chat[i].text.from < p /\ p <= chat[i].text.to
AnswerDelivered ==
  /\ Finished /\ "refused" \notin hist =>
       \A p \in (IF streams THEN 0 ELSE burst) + 1..written : Covered(p)
  /\ "doubted" \notin hist =>
       \A i, j \in DOMAIN chat : i < j => chat[i].text.to <= chat[j].text.from

(* Nothing of the preview outlives the answer: no frame of the animator is *)
(* shown after the final message, and no placeholder stays.                *)
NoPreviewAfterAnswer ==
  Finished /\ com.why = "final" /\ "refused" \notin hist => live = NoDraft

(* The Stop plate is gone when its turn is over.  It stays on the screen   *)
(* only if its task was cancelled while it sent the plate, or the turn     *)
(* while it committed the answer.                                          *)
PlateRemoved ==
  tpc = "over" /\ kpc \in {"off", "done"} /\ hist \cap {"cutPlate", "cutFinish"} = {} => ~plate

(* Nothing of a turn's progress stays on the screen behind its answer.     *)
ScreenCleared == NoPreviewAfterAnswer /\ PlateRemoved

(* A reply is always completed or cancelled, whatever Telegram refuses and *)
(* whoever holds the lock, and the animator stops with it, unless the turn *)
(* was cancelled in finish().                                              *)
ReplyEnds == <>[](tpc = "over" /\ ((lock = "free" /\ apc = "off") \/ "cutFinish" \in hist))
=============================================================================
