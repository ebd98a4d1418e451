---------------------------- MODULE MCThreads ----------------------------
(***************************************************************************)
(* Threads and sessions for TLC: the clients and shells of the threads,    *)
(* the registry of a user's sessions, and the inbox with its albums, voice *)
(* notes and limits.  The three share no state in the models, so a         *)
(* behaviour follows one of them, and `part` names it.                     *)
(***************************************************************************)
EXTENDS Clients

CONSTANTS
  Msg, Tap, Sweeper, Scheduler, MaxKey, SessionCap, IdleReset, MaxTime, MaxEvents,  \* Registry
  Album, Single, Text, Voice, MaxParts, ShortCap, WeekCap,                          \* Inbox
  MaxSent, MaxAsks, MaxClock, MaxDeletes

VARIABLES
  part,
  rows, row, used, seq, current, seen, keyLock, turns, task, sch, now, left, home, astray,
  over, fired, twice,
  pc, album, prompts, running, pending, takes, asked, usage, thread, clock, ended, got, ran,
  deletes

Reg == INSTANCE Registry WITH Cap <- SessionCap, lock <- keyLock, at <- task
In  == INSTANCE Inbox WITH turns <- running

ASSUME ThreadsAssumption == ClientsAssumption /\ Reg!RegistryAssumption /\ In!InboxAssumption

regVars == <<rows, row, used, seq, current, seen, keyLock, turns, task, sch, now, left, home,
             astray, over, fired, twice>>
inVars  == <<pc, album, prompts, running, pending, takes, asked, usage, thread, clock, ended,
             got, ran, deletes>>
mcvars  == <<part, vars, regVars, inVars>>

(* The registry at rest has one state.                                     *)
MCInit ==
  /\ part \in {"clients", "registry", "inbox"}
  /\ Init /\ Reg!Init /\ In!Init
  /\ part = "registry" \/ (seq = 1 /\ current = 1 /\ now = 0)

MCNext ==
  \/ part = "clients"  /\ Next     /\ UNCHANGED <<part, regVars, inVars>>
  \/ part = "registry" /\ Reg!Next /\ UNCHANGED <<part, vars, inVars>>
  \/ part = "inbox"    /\ In!Next  /\ UNCHANGED <<part, vars, regVars>>

MCSpec == MCInit /\ [][MCNext]_mcvars

---------------------------------------------------------------------------
(* The messages of one burst run in one session.                           *)
BurstStaysTogether == Reg!BurstStaysTogether

(* A user's sessions stay within the cap, outside the named races.         *)
CapHoldsUnlessRaced == Reg!CapHoldsUnlessRaced

(* One occurrence of a schedule fires once.                                *)
OccurrenceFiredOnce == Reg!OccurrenceFiredOnce

(* What the inbox holds back, the item of an album or the argument of a    *)
(* command, is used once (app/telegram/handlers.py).                       *)
HeldOnce == In!HeldOnce

(* No prompt passes the gate when the turns of the window reach its limit. *)
LimitHolds == In!LimitHolds

=============================================================================
