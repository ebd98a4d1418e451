----------------------------- MODULE Allowlist -----------------------------
(***************************************************************************)
(* The allowlist of app/access/allowlist.py: a JSON file, the copy of it   *)
(* in memory and the stamp that tells whether the copy is stale, for one   *)
(* guest, whom the owner addresses by id or by user name.                  *)
(*                                                                         *)
(* Every query and every mutation first reloads a file whose stamp has     *)
(* changed.  Reading an unchanged file again gives the same, so the reload *)
(* is part of View and not a step of its own.  A call of the allowlist has *)
(* no await in it and is one step.  Somebody may edit the file by hand or  *)
(* leave it broken, a save may fail, and the bot may restart.  Left out:   *)
(* rate caps, memory and session counts, which are set the way access and  *)
(* max effort are, the owner's own preferences, and expiry dates.          *)
(***************************************************************************)
EXTENDS Naturals

CONSTANT MaxFaults  \* hand edits, broken files, failed saves and restarts

ASSUME FaultsAssumption == MaxFaults \in Nat

VARIABLES
  file,   \* what the file holds, and whether it parses
  stamp,  \* its modification time, 0 if there is none
  mem,    \* _entries and _pending
  seen,   \* _mtime: the stamp mem was read at, 0 for None
  may,    \* history: the contents that may be in force
  faults  \* faults left

allowVars == <<file, stamp, mem, seen, may, faults>>

Levels == {"chat", "code"}
Access == {"unset", "readonly", "delegated"}

(* A record, its level "none" if the target has no record.  `named` tells  *)
(* whether the record of the id carries the guest's user name.             *)
Record == [level : Levels \cup {"none"}, access : Access, max : BOOLEAN]
Absent == [level |-> "none", access |-> "unset", max |-> FALSE]
Content == [id : Record, name : Record, named : BOOLEAN]
Empty == [id |-> Absent, name |-> Absent, named |-> FALSE]

AllowTypeOK ==
  /\ file \in [ok : BOOLEAN, data : Content] /\ mem \in Content
  /\ stamp \in Nat /\ seen \in Nat /\ may \subseteq Content /\ faults \in Nat

AllowInit ==
  /\ \E c \in Content :
       /\ c.id = Absent /\ ~c.named /\ c.name.access = "unset"
       /\ c.name.level = "none" => c = Empty
       /\ file = [ok |-> TRUE, data |-> c] /\ mem = c /\ may = {c}
  /\ stamp = 1 /\ seen = 1 /\ faults = MaxFaults

-----------------------------------------------------------------------------
(* Loading and saving                                                      *)

(* _load: what does not parse is an empty list.                            *)
OnDisk == IF file.ok THEN file.data ELSE Empty

(* Mutant: the file is read at the start only.                             *)
ViewOnce == mem

(* _reload_if_changed, then the copy.                                      *)
View == IF stamp = seen THEN mem ELSE OnDisk

SeenAfterView == IF stamp = seen THEN seen ELSE IF file.ok THEN stamp ELSE 0

Fault == faults > 0 /\ faults' = faults - 1

(* _save: the new copy replaces the file, or the write raises and the copy *)
(* stays changed.                                                          *)
Save(new) ==
  /\ mem' = new
  /\ \/ file' = [ok |-> TRUE, data |-> new] /\ stamp' = stamp + 1 /\ seen' = stamp + 1
        /\ UNCHANGED faults
     \/ Fault /\ seen' = SeenAfterView /\ UNCHANGED <<file, stamp>>

(* A mutation: nothing is saved when it finds nothing to change.           *)
Mutate(op) ==
  IF op[View] = View THEN UNCHANGED allowVars
  ELSE /\ Save(op[View])
       /\ may' = {op[c] : c \in may} \cup (IF stamp' = stamp THEN may ELSE {})

-----------------------------------------------------------------------------
(* Queries                                                                 *)

(* _find by id and user name.                                              *)
Found == IF View.id # Absent THEN View.id ELSE View.name
IsAllowed == Found # Absent

-----------------------------------------------------------------------------
(* Mutations, as functions of the contents                                 *)

(* pin: a record of the user name moves to the id, a known id gets the     *)
(* name.                                                                   *)
Pin ==
  [c \in Content |->
     IF c.id # Absent THEN [c EXCEPT !.named = TRUE]
     ELSE IF c.name # Absent THEN [id |-> c.name, name |-> Absent, named |-> TRUE]
     ELSE c]

(* add: a new record, or the level of the one there is; a grant by name    *)
(* does not look for the name among the pinned ones.                       *)
Add(target, level) ==
  [c \in Content |-> [c EXCEPT ![target] = [@ EXCEPT !.level = level]]]

(* _record_for_target: by name, a pending record before a pinned one.      *)
Key(c, target) ==
  IF target = "name" /\ c.name = Absent /\ c.named THEN "id" ELSE target

(* set_level, set_access_exception, set_allow_max_effort.                  *)
Change(target, field, value) ==
  [c \in Content |->
     IF c[Key(c, target)] = Absent THEN c
     ELSE [c EXCEPT ![Key(c, target)] = [@ EXCEPT ![field] = value]]]

(* remove: by name, the pending record and every entry with that name.     *)
Remove(target) ==
  [c \in Content |->
     IF target = "id" THEN [c EXCEPT !.id = Absent, !.named = FALSE]
     ELSE IF c.named THEN Empty
     ELSE [c EXCEPT !.name = Absent]]

(* The owner's commands and the buttons of a user's card.                  *)
OwnerEdits ==
  \E target \in {"id", "name"} :
    \/ \E level \in Levels :
         Mutate(Add(target, level)) \/ Mutate(Change(target, "level", level))
    \/ \E access \in Access : Mutate(Change(target, "access", access))
    \/ \E on \in BOOLEAN : Mutate(Change(target, "max", on))
    \/ Mutate(Remove(target))

-----------------------------------------------------------------------------
(* The world                                                               *)

(* The file is edited by hand: a record taken out, or one with code.       *)
HandEdit ==
  /\ Fault /\ stamp' = stamp + 1
  /\ \E c \in {Empty, [Empty EXCEPT !.id = [Absent EXCEPT !.level = "code"]]} :
       file' = [ok |-> TRUE, data |-> c] /\ may' = {c}
  /\ UNCHANGED <<mem, seen>>

Break ==
  /\ Fault /\ stamp' = stamp + 1
  /\ file' = [ok |-> FALSE, data |-> Empty] /\ may' = {Empty}
  /\ UNCHANGED <<mem, seen>>

Reload ==
  /\ Fault /\ mem' = OnDisk /\ seen' = IF file.ok THEN stamp ELSE 0
  /\ UNCHANGED <<file, stamp, may>>

-----------------------------------------------------------------------------
(* What the bot acknowledged is in force, and will be after a restart: no  *)
(* change of the owner's or of a pin is lost to a stale copy, an edit by   *)
(* hand, a failed save (which may or may not count) or a restart, and a    *)
(* broken file grants nothing ("Never fails open").                        *)
RightsKept == View \in may /\ OnDisk \in may
=============================================================================
