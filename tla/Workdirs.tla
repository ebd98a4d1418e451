------------------------------ MODULE Workdirs ------------------------------
(***************************************************************************)
(* What a session keeps on the host: its directory, named by its ULID or,  *)
(* if it is an old one, by the legacy sid; the transcript in it, found by  *)
(* the directory's name once more; the uid its jail runs as; the bundle    *)
(* it becomes when the session is deleted.  The start of the bot (bot.py)  *)
(* renames the directories of old sessions, row by row, in one transaction *)
(* (migrate_sessions_to_ulid, migrate_workdirs_to_ulid in storage/db.py).  *)
(* A session's names are numbers: 0 the legacy one, 1, 2... its ULIDs.     *)
(***************************************************************************)
EXTENDS Naturals, FiniteSets

CONSTANTS Key,       \* sessions
          Uid,       \* the host uids of jails
          MaxName,   \* bound: ULIDs and conversations of a session
          MaxCrashes, MaxFaults, MaxAdmin, \* bounds: restarts, failing calls, deletions and secrets
          None

(* Of the constants; the MC module assumes it, TLC evaluates it.            *)
WorkdirsAssumption ==
    /\ Uid # {} /\ None \notin Uid \cup Key \cup [sid : Nat, cwd : Nat, conv : Nat]
    /\ {MaxName, MaxCrashes, MaxFaults, MaxAdmin} \subseteq Nat

VARIABLES
    row,     \* of each session: None, or its sid (0: NULL), the name in its cwd, its conversation
    uids,    \* session_uid: who has which uid
    saved,   \* row and uids as of the last commit
    cache,   \* _SID_BY_THREAD, 0 where it has nothing
    given,   \* the ULIDs made for each session
    dirs,    \* the directories of each session
    files,   \* its transcripts: the directory, the name it is encoded under, the conversation
    bundles, \* its conversations in the archive
    live,    \* its running client: the directory, the uid, and whether the registry holds it
    phase,   \* of the start: "backfill", "migrate", or "up"
    todo,    \* rows the migration has not come to
    at,      \* the row whose directory is renamed and whose transcript is not, or None
    doing,   \* of a deletion: "off", "reset", "gone"
    last,    \* history: how many conversations each session began
    purged,  \* history: its conversations that left the archive
    cut,     \* history: sessions separated from their directory, see ConversationFound
    left     \* what is left of each bound

db   == <<row, uids, saved>>
disk == <<dirs, files, bundles>>
past == <<last, purged, cut>>
vars == <<db, disk, cache, given, live, phase, todo, at, doing, past, left>>

Legacy == 0
Spend(what) == left[what] > 0 /\ left' = [left EXCEPT ![what] = @ - 1]
Commit == saved' = [row |-> row', uids |-> uids']

Init ==
    /\ row \in [Key -> {None} \cup [sid : {0}, cwd : {Legacy}, conv : {0, 1}]]
    /\ last = [k \in Key |-> IF row[k] = None THEN 0 ELSE row[k].conv]
    /\ dirs = [k \in Key |-> IF last[k] = 1 THEN {Legacy} ELSE {}]
    /\ files = [k \in Key |-> IF last[k] = 1 THEN {[dir |-> Legacy, enc |-> Legacy, conv |-> 1]} ELSE {}]
    /\ uids = {} /\ saved = [row |-> row, uids |-> uids]
    /\ cache = [k \in Key |-> Legacy] /\ given = [k \in Key |-> 0]
    /\ bundles = [k \in Key |-> {}] /\ purged = bundles
    /\ live = [k \in Key |-> None] /\ doing = [k \in Key |-> "off"]
    /\ phase = "backfill" /\ todo = {} /\ at = None /\ cut = {}
    /\ left = [crash |-> MaxCrashes, fault |-> MaxFaults, admin |-> MaxAdmin]

---------------------------------------------------------------------------
(* The start.                                                              *)

(* migrate_sessions_to_ulid, committed at once, and load_sid_cache.        *)
Backfill ==
    LET bare == {k \in Key : row[k] # None /\ row[k].sid = 0}
    IN /\ phase = "backfill" /\ \A k \in bare : given[k] < MaxName
       /\ given' = [k \in Key |-> IF k \in bare THEN given[k] + 1 ELSE given[k]]
       /\ row' = [k \in Key |-> IF k \in bare THEN [row[k] EXCEPT !.sid = given'[k]] ELSE row[k]]
       /\ cache' = [k \in Key |-> IF row[k] = None THEN Legacy ELSE row'[k].sid]
       /\ UNCHANGED uids /\ Commit
       /\ phase' = "migrate" /\ todo' = {k \in Key : row[k] # None}
       /\ UNCHANGED <<disk, live, at, doing, past, left>>

Turn(k) == phase = "migrate" /\ at = None /\ k \in todo
Stray(k) == row[k].cwd # row[k].sid
Renames(k) == Legacy \in dirs[k] /\ row[k].sid \notin dirs[k]
Separated(k, where) == IF row[k].cwd \in where THEN cut \cup {k} ELSE cut

Skip(k) ==
    /\ Turn(k) /\ ~Stray(k) /\ todo' = todo \ {k}
    /\ UNCHANGED <<db, disk, cache, given, live, phase, at, doing, past, left>>

Move(k) ==
    /\ Turn(k) /\ Stray(k) /\ Renames(k) /\ at' = k
    /\ dirs' = [dirs EXCEPT ![k] = (@ \ {Legacy}) \cup {row[k].sid}]
    /\ files' = [files EXCEPT ![k] = {IF f.dir = Legacy THEN [f EXCEPT !.dir = row[k].sid] ELSE f : f \in @}]
    /\ cut' = Separated(k, dirs[k] \ {Legacy})
    /\ UNCHANGED <<db, bundles, cache, given, live, phase, todo, doing, last, purged, left>>

(* The uid and the cwd follow, in the transaction.                         *)
Rekey(k) ==
    /\ uids' = {IF u.key = k /\ u.name = Legacy THEN [u EXCEPT !.name = row[k].sid] ELSE u : u \in uids}
    /\ row' = [row EXCEPT ![k].cwd = row[k].sid] /\ UNCHANGED saved
    /\ todo' = todo \ {k} /\ at' = None

(* Mutant: the transcript keeps the name of the old directory.             *)
EncodeForgets(k) ==
    /\ phase = "migrate" /\ at = k /\ Rekey(k)
    /\ UNCHANGED <<disk, cache, given, live, phase, doing, past, left>>

Encode(k) ==
    /\ phase = "migrate" /\ at = k /\ Rekey(k)
    /\ LET sid == row[k].sid
           taken == \E f \in files[k] : f.dir = sid /\ f.enc = sid
       IN files' = [files EXCEPT ![k] = {IF f.dir = sid /\ f.enc = Legacy /\ ~taken
                                         THEN [f EXCEPT !.enc = sid] ELSE f : f \in @}]
    /\ UNCHANGED <<dirs, bundles, cache, given, live, phase, doing, past, left>>

(* Nothing to rename: there is no directory yet, a crash came after the    *)
(* rename, or the ULID has a directory too, which then counts.             *)
Realign(k) ==
    /\ Turn(k) /\ Stray(k) /\ ~Renames(k) /\ Rekey(k)
    /\ cut' = Separated(k, dirs[k])
    /\ UNCHANGED <<disk, cache, given, live, phase, doing, last, purged, left>>

(* An OSError leaves the row as it is.                                     *)
RenameFails(k) ==
    /\ Spend("fault") /\ phase = "migrate" /\ todo' = todo \ {k} /\ at' = None
    /\ \/ at = k /\ cut' = cut \cup {k}
       \/ Turn(k) /\ Stray(k) /\ Renames(k) /\ UNCHANGED cut
    /\ UNCHANGED <<db, disk, cache, given, live, phase, doing, last, purged>>

Started ==
    /\ phase = "migrate" /\ todo = {} /\ phase' = "up"
    /\ UNCHANGED <<row, uids>> /\ Commit
    /\ UNCHANGED <<disk, cache, given, live, todo, at, doing, past, left>>

(* What was not committed is gone, what was renamed is not.                *)
Crash ==
    /\ Spend("crash") /\ row' = saved.row /\ uids' = saved.uids /\ UNCHANGED saved
    /\ live' = [k \in Key |-> None] /\ doing' = [k \in Key |-> "off"]
    /\ cache' = [k \in Key |-> Legacy] /\ phase' = "backfill" /\ todo' = {} /\ at' = None
    /\ cut' = cut \cup ({at} \cap Key)
    /\ UNCHANGED <<disk, given, last, purged>>

---------------------------------------------------------------------------
(* The running bot.                                                        *)

Up == phase = "up" /\ UNCHANGED <<phase, todo, at>>

(* allocate_dm_session.                                                    *)
Create(k) ==
    /\ Up /\ row[k] = None /\ given[k] = 0 /\ last[k] = 0
    /\ given' = [given EXCEPT ![k] = 1] /\ cache' = [cache EXCEPT ![k] = 1]
    /\ row' = [row EXCEPT ![k] = [sid |-> 1, cwd |-> 1, conv |-> 0]]
    /\ UNCHANGED uids /\ Commit
    /\ UNCHANGED <<disk, live, doing, past, left>>

(* Mutant: the preferred uid is recorded without a look at the others.     *)
ClaimPreferred(k, u) ==
    LET name == row[k].cwd
        mine == {v \in uids : v.key = k /\ v.name = name}
    IN /\ IF mine # {} THEN \E v \in mine : u = v.uid ELSE u \in Uid
       /\ uids' = uids \cup {[key |-> k, name |-> name, uid |-> u]} /\ UNCHANGED left
       /\ live' = [live EXCEPT ![k] = [name |-> name, uid |-> u, sure |-> TRUE]]

(* claim_session_uid, from _claim_host_uid: the recorded uid, else the     *)
(* first that is free, else any.  When the registry fails, any.            *)
Claim(k, u) ==
    LET name == row[k].cwd
        mine == {v \in uids : v.key = k /\ v.name = name}
        free == Uid \ {v.uid : v \in uids}
        take(sure) == live' = [live EXCEPT ![k] = [name |-> name, uid |-> u, sure |-> sure]]
    IN \/ /\ \E v \in mine : u = v.uid
          /\ take(TRUE) /\ UNCHANGED <<uids, left>>
       \/ /\ mine = {} /\ u \in free
          /\ take(TRUE) /\ uids' = uids \cup {[key |-> k, name |-> name, uid |-> u]} /\ UNCHANGED left
       \/ /\ mine = {} /\ free = {}
          /\ take(FALSE) /\ UNCHANGED <<uids, left>>
       \/ Spend("fault") /\ take(FALSE) /\ UNCHANGED uids

(* _ensure_client: the directory is made, the uid claimed, and the         *)
(* conversation resumed; one that is not found is begun anew.              *)
Launch(k, u) ==
    /\ Up /\ row[k] # None /\ live[k] = None /\ Claim(k, u)
    /\ LET name == row[k].cwd
           found == [dir |-> name, enc |-> name, conv |-> row[k].conv] \in files[k]
           conv == IF found THEN row[k].conv ELSE last[k] + 1
       IN /\ conv <= MaxName /\ last' = [last EXCEPT ![k] = IF found THEN @ ELSE conv]
          /\ row' = [row EXCEPT ![k].conv = conv] /\ Commit
          /\ dirs' = [dirs EXCEPT ![k] = @ \cup {name}]
          /\ files' = [files EXCEPT ![k] = @ \cup {[dir |-> name, enc |-> name, conv |-> conv]}]
    /\ UNCHANGED <<bundles, cache, given, doing, purged, cut>>

Close(k) ==
    /\ Up /\ live[k] # None /\ live' = [live EXCEPT ![k] = None]
    /\ UNCHANGED <<db, disk, cache, given, doing, past, left>>

(* _write_secrets: a file beside the workdir.                              *)
WriteSecrets(k) ==
    /\ Up /\ row[k] # None /\ Spend("admin")
    /\ dirs' = [dirs EXCEPT ![k] = @ \cup {cache[k]}]
    /\ UNCHANGED <<db, files, bundles, cache, given, live, doing, past>>

(* dispose_dm_session and the button: reset, the row, the archive.         *)
Reset(k) ==
    /\ Up /\ row[k] # None /\ doing[k] = "off" /\ Spend("admin")
    /\ live' = [live EXCEPT ![k] = None] /\ doing' = [doing EXCEPT ![k] = "reset"]
    /\ UNCHANGED <<db, disk, cache, given, past>>

DeleteRow(k) ==
    /\ Up /\ doing[k] = "reset" /\ doing' = [doing EXCEPT ![k] = "gone"]
    /\ row' = [row EXCEPT ![k] = None]
    /\ uids' = {v \in uids : v.key # k \/ v.name # cache[k]} /\ Commit
    /\ live' = IF live[k] = None THEN live ELSE [live EXCEPT ![k].sure = FALSE]
    /\ UNCHANGED <<disk, cache, given, past, left>>

(* A message that had come meanwhile finds no row: ensure_thread.          *)
Resurrect(k) ==
    /\ Up /\ row[k] = None /\ given[k] > 0 /\ Spend("admin")
    /\ row' = [row EXCEPT ![k] = [sid |-> 0, cwd |-> cache[k], conv |-> 0]]
    /\ UNCHANGED uids /\ Commit
    /\ UNCHANGED <<disk, cache, given, live, doing, past>>

Bundled(k) == {f.conv : f \in {g \in files[k] : g.dir = cache[k]}}

(* archive_session: a bundle that cannot be written leaves the directory.  *)
Archive(k) ==
    /\ Up /\ doing[k] = "gone" /\ doing' = [doing EXCEPT ![k] = "off"]
    /\ \/ /\ bundles' = [bundles EXCEPT ![k] = @ \cup Bundled(k)]
          /\ dirs' = [dirs EXCEPT ![k] = @ \ {cache[k]}]
          /\ files' = [files EXCEPT ![k] = {f \in @ : f.dir # cache[k]}]
          /\ cut' = IF row[k] # None THEN cut \cup {k} ELSE cut
          /\ UNCHANGED left
       \/ Spend("fault") /\ UNCHANGED <<disk, cut>>
    /\ UNCHANGED <<db, cache, given, live, last, purged>>

(* purge_expired.                                                          *)
Expire(k) ==
    /\ Up /\ \E c \in bundles[k] : /\ bundles' = [bundles EXCEPT ![k] = @ \ {c}]
                                   /\ purged' = [purged EXCEPT ![k] = @ \cup {c}]
    /\ UNCHANGED <<db, dirs, files, cache, given, live, doing, last, cut, left>>

Next ==
    \/ Backfill \/ Started \/ Crash
    \/ \E k \in Key : \/ Skip(k) \/ Move(k) \/ Encode(k) \/ Realign(k) \/ RenameFails(k)
                      \/ Create(k) \/ Close(k) \/ WriteSecrets(k) \/ Reset(k) \/ DeleteRow(k)
                      \/ Resurrect(k) \/ Archive(k) \/ Expire(k)
                      \/ \E u \in Uid : Launch(k, u)

---------------------------------------------------------------------------
(* Two jails never run as one host user, unless the registry was full or   *)
(* failed, or a session was deleted under a client that a message started  *)
(* after the reset (claim_session_uid, _uid_collisions).                   *)
UidsDistinct ==
    \A j, k \in Key : /\ j # k /\ live[j] # None /\ live[k] # None
                      /\ live[j].sure /\ live[k].sure
                      => live[j].uid # live[k].uid

(* Once the bot is up, the conversation a row names is where its cwd says: *)
(* no restart, retried rename or lost transaction separates them.  Only    *)
(* these do: a crash or an error between the two renames; a second         *)
(* directory of the session, under the new name or kept by a row that a    *)
(* message brought back; an archive made after it was brought back.        *)
ConversationFound ==
    phase = "up" => \A k \in Key \ cut : row[k] # None /\ row[k].conv # 0 =>
        [dir |-> row[k].cwd, enc |-> row[k].cwd, conv |-> row[k].conv] \in files[k]

(* No conversation is lost: until its bundle expires it is in a directory  *)
(* or in the archive, whatever fails (archive_session).                    *)
NothingLost ==
    \A k \in Key : \A c \in 1 .. last[k] :
        c \in purged[k] \cup bundles[k] \/ \E f \in files[k] : f.conv = c

(* No conversation is lost, and each is where the next turn looks for it.  *)
ConversationsKept == ConversationFound /\ NothingLost


=============================================================================
