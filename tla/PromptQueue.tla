---------------------------- MODULE PromptQueue ----------------------------
(***************************************************************************)
(* What a user may expect of the prompts of one thread, with no record, no *)
(* lock and no worker in sight (app/core/sessions.py keeps this promise    *)
(* with all three): prompts that are accepted wait in one line, of at most *)
(* Capacity, and are taken from it one at a time in the order in which     *)
(* they came; none is taken twice and none vanishes from the line, though  *)
(* a stop or a reset may clear the whole of it.  A message that joins the  *)
(* turn under way overtakes nobody, and one is refused only when the line  *)
(* is full.  When the bot shuts down the line no longer moves.             *)
(***************************************************************************)
EXTENDS Naturals, Sequences

CONSTANTS
  Prompts,   \* messages that are sent to the thread
  Capacity   \* how many may wait

VARIABLES
  waiting,   \* prompts that were accepted, in order
  inHand,    \* the prompt that is being answered, if there is one
  settled,   \* prompts that are over: answered, joined, refused or dropped
  shut       \* the bot is shutting down

vars == <<waiting, inHand, settled, shut>>

InLine == {waiting[i] : i \in DOMAIN waiting}

TypeOK ==
  /\ waiting \in Seq(Prompts) /\ inHand \subseteq Prompts /\ settled \subseteq Prompts
  /\ shut \in BOOLEAN

Init == waiting = <<>> /\ inHand = {} /\ settled = {} /\ shut = FALSE

New(p) == p \notin InLine \cup inHand \cup settled

Accept(p) ==
  /\ New(p)
  /\ Len(waiting) < Capacity \/ shut
  /\ waiting' = Append(waiting, p)
  /\ UNCHANGED <<inHand, settled, shut>>

Join(p) ==
  /\ New(p)
  /\ waiting = <<>>
  /\ settled' = settled \cup {p}
  /\ UNCHANGED <<waiting, inHand, shut>>

Refuse(p) ==
  /\ New(p)
  /\ Len(waiting) >= Capacity
  /\ settled' = settled \cup {p}
  /\ UNCHANGED <<waiting, inHand, shut>>

Take ==
  /\ ~shut
  /\ waiting # <<>>
  /\ inHand = {}
  /\ inHand' = {Head(waiting)}
  /\ waiting' = Tail(waiting)
  /\ UNCHANGED <<settled, shut>>

Finish ==
  /\ inHand # {}
  /\ inHand' = {}
  /\ settled' = settled \cup inHand
  /\ UNCHANGED <<waiting, shut>>

Clear ==
  /\ waiting' = <<>>
  /\ settled' = settled \cup InLine
  /\ UNCHANGED <<inHand, shut>>

Shut ==
  /\ shut' = TRUE
  /\ UNCHANGED <<waiting, inHand, settled>>

Next ==
  \/ \E p \in Prompts : Accept(p) \/ Join(p) \/ Refuse(p)
  \/ Take \/ Finish \/ Clear \/ Shut

Spec == Init /\ [][Next]_vars

=============================================================================
