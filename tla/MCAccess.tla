------------------------------ MODULE MCAccess ------------------------------
(***************************************************************************)
(* What a turn may do and what is left of the quota, for TLC: access and   *)
(* settings, the tools a client is built with, and the account's usage.    *)
(* The three share no state in the models, so a behaviour follows one of   *)
(* them, and `part` names it.  The guest's messages are interchangeable.   *)
(***************************************************************************)
EXTENDS Settings, TLC

CONSTANTS
  Tools, Notes, NotesCap, MaxChanges, All,                          \* Capabilities
  Turn, Window, Five, Used, MaxReadings, MaxRestarts, MaxPosts       \* Usage

VARIABLES
  part,
  toolMode, toggles, cap, level, perm, notes, built, turn, granted, gone, changes,
  snap, sig, synth, pinMode, pinned, kv, writes, at, text, posts, stale, unsaved, left

Cap == INSTANCE Capabilities WITH MaxEdits <- MaxChanges, mode <- toolMode, client <- built,
                                  edits <- changes
Use == INSTANCE Usage WITH MaxChanges <- MaxReadings, mode <- pinMode

ASSUME AccessAssumption == Cap!CapabilitiesAssumption /\ Use!UsageAssumption

capVars == <<toolMode, toggles, cap, level, perm, notes, built, turn, granted, gone, changes>>
useVars == <<snap, sig, synth, pinMode, pinned, kv, writes, at, text, posts, stale, unsaved, left>>
mcvars  == <<part, vars, capVars, useVars>>

(* The parts at rest have one state each.                                  *)
MCInit ==
  /\ part \in {"settings", "tools", "usage"}
  /\ Init /\ (part = "settings" \/ mem = Empty)
  /\ Cap!Init /\ Use!Init

MCNext ==
  \/ part = "settings" /\ Next     /\ UNCHANGED <<part, capVars, useVars>>
  \/ part = "tools"    /\ Cap!Next /\ UNCHANGED <<part, vars, useVars>>
  \/ part = "usage"    /\ Use!Next /\ UNCHANGED <<part, vars, capVars>>

MCSpec == MCInit /\ [][MCNext]_mcvars

Alike == Permutations(Msg)

---------------------------------------------------------------------------
(* A turn is granted no tool the owner's cap or the session forbids.       *)
ToolsWithinGrant == Cap!ToolsWithinGrant

(* A note that was forgotten is not given to a later client.               *)
ForgottenStays == Cap!ForgottenStays

(* The pinned message and the store show the latest reading of the quota   *)
(* (app/storage/usage.py).                                                 *)
SnapshotShown == Use!SnapshotShown

=============================================================================
