---------------------------- MODULE MCServices ----------------------------
(***************************************************************************)
(* What stands beside the turns, for TLC: the markup of their text, the    *)
(* MAX bridge, the sessions' directories and the calendar.  The four share *)
(* no state in the models, so a behaviour follows one of them, and `part`  *)
(* names it.                                                               *)
(***************************************************************************)
EXTENDS Markup, Integers

CONSTANTS
  MaxUpdates, MaxParts, MaxDrafts,                       \* MaxBridge
  Key, Uid, MaxName, MaxAdmin,                           \* Workdirs
  Half, Week, Hour, Horizon, Changes,                    \* Calendar
  MaxFaults, MaxCrashes, DirCrashes, None

VARIABLES
  part,
  marker, saved, batch, handled, reply, ph, chat, delivered, quiet, left, replayed,
  row, uids, dbSaved, cache, given, dirs, files, bundles, live, phase, todo, at, doing,
  last, purged, cut, room,
  shift, now, spec, asked, next, update, check, updating

Bridge == INSTANCE MaxBridge WITH posted <- delivered
Dirs   == INSTANCE Workdirs WITH MaxCrashes <- DirCrashes, saved <- dbSaved, left <- room
Cal    == INSTANCE Calendar

ASSUME ServicesAssumption == Bridge!MaxAssumption /\ Dirs!WorkdirsAssumption /\ Cal!CalendarAssumption

maxVars  == <<marker, saved, batch, handled, reply, ph, chat, delivered, quiet, left, replayed>>
dirsVars == <<row, uids, dbSaved, cache, given, dirs, files, bundles, live, phase, todo, at,
              doing, last, purged, cut, room>>
calVars  == <<shift, now, spec, asked, next, update, check, updating>>
mcvars   == <<part, vars, maxVars, dirsVars, calVars>>

(* The parts at rest have one state each; the calendar followed has its    *)
(* update at the hour of the schedule, which is made on the first day.     *)
MCInit ==
  /\ part \in {"markup", "max", "dirs", "calendar"}
  /\ Init /\ (part = "markup" \/ mode = "chat")
  /\ Bridge!Init
  /\ Dirs!Init /\ (part = "dirs" \/ \A k \in Key : row[k] = None)
  /\ Cal!Init
  /\ IF part = "calendar" THEN /\ update = spec.time /\ now < 2 * Half
                               /\ shift.by = 0 => shift.at = 0
     ELSE /\ shift = [at |-> 0, by |-> 0] /\ now = 0 /\ update = 0
          /\ spec.kind = "interval" /\ spec.seconds = 1

MCNext ==
  \/ part = "markup"   /\ Next         /\ UNCHANGED <<part, maxVars, dirsVars, calVars>>
  \/ part = "max"      /\ Bridge!Next   /\ UNCHANGED <<part, vars, dirsVars, calVars>>
  \/ part = "dirs"     /\ Dirs!Next    /\ UNCHANGED <<part, vars, maxVars, calVars>>
  \/ part = "calendar" /\ Cal!Next     /\ UNCHANGED <<part, vars, maxVars, dirsVars>>

MCSpec == MCInit /\ [][MCNext]_mcvars

---------------------------------------------------------------------------
(* No update of MAX is lost or handled twice outside a crash, and every    *)
(* part of a reply stays in the chat (app/max/poller.py, bridge.py).       *)
UpdatesKept == Bridge!UpdatesKept

(* No two sessions own one uid (app/storage/db.py).                        *)
UidsDistinct == Dirs!UidsDistinct

(* A session finds the conversation it left, across the migration, and     *)
(* none is lost to a crash, a move or an archive.                          *)
ConversationsKept == Dirs!ConversationsKept

(* Schedules and updates run when they are due, and once                   *)
(* (app/core/schedules.py).                                                *)
RunsWhenDue == Cal!RunsWhenDue

=============================================================================
