---------------------------- MODULE Credentials ----------------------------
(***************************************************************************)
(* The host's Claude login: the credentials file, the loop that renews the *)
(* access token before it expires (app/core/token_refresh.py), and the     *)
(* broker that reads the file for every request of a sandboxed session     *)
(* (deploy/cred-broker.py).                                                *)
(*                                                                         *)
(* The loop and the broker are processes of their own and meet in the file *)
(* only, which each writer replaces in one step.  A sweep that is not      *)
(* answered within its deadline leaves its thread behind, blocked in a DNS *)
(* lookup that may end at any later time or never, and goes on with a new  *)
(* one.  Tokens are numbers; expiresAt is whether the token is within the  *)
(* skew.  The token endpoint and the owner are external: the endpoint      *)
(* trades the refresh token of a login for an access token and, if it      *)
(* rotates, a new refresh token; the owner may log in again at any time.   *)
(***************************************************************************)
EXTENDS Naturals, FiniteSets

CONSTANTS
  Worker,      \* threads of the one-thread pools, 1 the first pool's
  Req,         \* requests that reach the broker
  MaxExpiries, \* times an access token comes within the skew
  MaxLogins,   \* logins of the owner after the first
  MaxFaults,   \* lookups that block, requests that fail, writes that fail, files broken
  MaxFails     \* failed sweeps in a row that are counted; fewer than ALERT_REPEAT_SWEEPS

ASSUME CredentialsAssumption ==
  /\ IsFiniteSet(Worker) /\ Worker # {} /\ Worker = 1..Cardinality(Worker)
  /\ MaxFails \in 3..12
  /\ {MaxExpiries, MaxLogins, MaxFaults} \subseteq Nat

Login == 0..MaxLogins
AlertAfterFails == 2

VARIABLES
  file,     \* claudeAiOauth: access and refresh token, of which login; or unreadable
  mtime,    \* of the file
  live,     \* the refresh token the endpoint takes for each login
  rotates,  \* whether it rotates them
  expiring, \* access tokens within the skew
  minted,   \* tokens minted so far
  loop,     \* refresh_loop: where it is, status, fails, alerted
  pool,     \* the thread of the present executor
  wk,       \* each thread: where it is, the blob it read, the tokens it was given
  cache,    \* _Creds: _mtime and _token
  req,      \* each request: where it is, mtime seen, tokens the file held meanwhile
  left,     \* what is left of each bound
  broken    \* history: logins lost for a named reason

auth == <<live, rotates, minted>>
broker == <<cache, req>>
vars == <<file, mtime, auth, expiring, loop, pool, wk, broker, left, broken>>

Blob == [ok : BOOLEAN, acc : Nat, ref : Nat, login : Login]
Loop == [pc : {"sleep", "asked", "judge"},
         status : {"startup", "ok", "healthy", "skip", "fail"},
         fails : 0..MaxFails, alerted : BOOLEAN]
Work == [pc : {"off", "read", "post", "stuck", "write", "done"}, blob : Blob,
         acc : Nat, ref : Nat, status : {"ok", "skip", "fail"}]
Request == [pc : {"new", "stat", "open", "sent", "refused"}, m : Nat, seen : SUBSET Nat,
            got : Nat]
Left == [expiry : Nat, login : 0..MaxLogins, fault : Nat]
NoBlob == [ok |-> FALSE, acc |-> 0, ref |-> 0, login |-> 0]
NoWork == [pc |-> "off", blob |-> NoBlob, acc |-> 0, ref |-> 0, status |-> "ok"]
NoReq == [pc |-> "new", m |-> 0, seen |-> {}, got |-> 0]

Init ==
  /\ file = [ok |-> TRUE, acc |-> 1, ref |-> 2, login |-> 0] /\ mtime = 1
  /\ live = [l \in Login |-> IF l = 0 THEN 2 ELSE 0] /\ rotates \in BOOLEAN
  /\ expiring \in SUBSET {1} /\ minted = 2
  /\ loop = [pc |-> "sleep", status |-> "startup", fails |-> 0, alerted |-> FALSE]
  /\ pool = 1 /\ wk = [w \in Worker |-> NoWork]
  /\ cache = [mtime |-> 0, token |-> 0] /\ req = [r \in Req |-> NoReq]
  /\ left = [expiry |-> MaxExpiries, login |-> MaxLogins, fault |-> MaxFaults]
  /\ broken = {}

TypeOK ==
  /\ file \in Blob /\ mtime \in Nat /\ live \in [Login -> Nat] /\ rotates \in BOOLEAN
  /\ minted \in Nat /\ expiring \subseteq 1..minted
  /\ loop \in Loop /\ pool \in Worker /\ wk \in [Worker -> Work]
  /\ req \in [Req -> Request] /\ cache \in [mtime : Nat, token : Nat]
  /\ left \in Left /\ broken \subseteq Login

Newest == MaxLogins - left.login
Fault == left.fault > 0 /\ left' = [left EXCEPT !.fault = @ - 1]
Works(w, s) == wk' = [wk EXCEPT ![w] = s]
Done(w, st) == Works(w, [NoWork EXCEPT !.pc = "done", !.status = st])

(* The file is replaced; requests under way may get either content.        *)
Put(b) ==
  /\ file' = b /\ mtime' = mtime + 1
  /\ req' = [r \in Req |-> IF req[r].pc \in {"stat", "open"} /\ b.ok
                           THEN [req[r] EXCEPT !.seen = @ \cup {b.acc}] ELSE req[r]]

-----------------------------------------------------------------------------
(* refresh_loop and maybe_refresh                                          *)

Expiring(b) == b.acc \in expiring

Sweep ==
  /\ loop.pc = "sleep"
  /\ IF ~file.ok THEN loop' = [loop EXCEPT !.pc = "judge", !.status = "skip"] /\ UNCHANGED wk
     ELSE IF ~Expiring(file)
          THEN loop' = [loop EXCEPT !.pc = "judge", !.status = "healthy"] /\ UNCHANGED wk
     ELSE /\ loop' = [loop EXCEPT !.pc = "asked"]
          /\ IF wk[pool].pc = "off" THEN Works(pool, [NoWork EXCEPT !.pc = "read"])
                                    ELSE UNCHANGED wk
  /\ UNCHANGED <<file, mtime, auth, expiring, pool, broker, left, broken>>

Answered ==
  /\ loop.pc = "asked" /\ wk[pool].pc = "done"
  /\ loop' = [loop EXCEPT !.pc = "judge", !.status = wk[pool].status]
  /\ Works(pool, NoWork)
  /\ UNCHANGED <<file, mtime, auth, expiring, pool, broker, left, broken>>

(* Mutant: the pool outlives the thread that blocks it.                    *)
TimesOutKeepsPool ==
  /\ loop.pc = "asked" /\ wk[pool].pc = "stuck"
  /\ loop' = [loop EXCEPT !.pc = "judge", !.status = "fail"]
  /\ UNCHANGED <<file, mtime, auth, expiring, pool, wk, broker, left, broken>>

(* The deadline is past every timeout of the request: only a lookup that   *)
(* blocks reaches it.                                                      *)
TimesOut ==
  /\ loop.pc = "asked" /\ wk[pool].pc = "stuck"
  /\ pool < Cardinality(Worker) /\ pool' = pool + 1
  /\ loop' = [loop EXCEPT !.pc = "judge", !.status = "fail"]
  /\ UNCHANGED <<file, mtime, auth, expiring, wk, broker, left, broken>>

(* The streak and the owner's alert: at once for a login that cannot be    *)
(* used at all, else at the second failure; all clear on recovery.         *)
Judge ==
  LET failed == loop.status \in {"skip", "fail"}
      n == IF ~failed THEN 0 ELSE IF loop.fails < MaxFails THEN loop.fails + 1 ELSE MaxFails
      threshold == IF loop.status = "skip" THEN 1 ELSE AlertAfterFails IN
  /\ loop.pc = "judge"
  /\ loop' = [pc |-> "sleep", status |-> loop.status, fails |-> n,
              alerted |-> IF failed THEN loop.alerted \/ n = threshold ELSE FALSE]
  /\ UNCHANGED <<file, mtime, auth, expiring, pool, wk, broker, left, broken>>

-----------------------------------------------------------------------------
(* refresh_now_sync, in a thread                                           *)

Read(w) ==
  /\ wk[w].pc = "read"
  /\ IF file.ok THEN Works(w, [wk[w] EXCEPT !.pc = "post", !.blob = file])
                ELSE Done(w, "skip")
  /\ UNCHANGED <<file, mtime, auth, expiring, loop, pool, broker, left, broken>>

Blocks(w) ==
  /\ wk[w].pc = "post" /\ Fault
  /\ Works(w, [wk[w] EXCEPT !.pc = "stuck"])
  /\ UNCHANGED <<file, mtime, auth, expiring, loop, pool, broker, broken>>

Unblocks(w) ==
  /\ wk[w].pc = "stuck"
  /\ Works(w, [wk[w] EXCEPT !.pc = "post"])
  /\ UNCHANGED <<file, mtime, auth, expiring, loop, pool, broker, left, broken>>

(* The endpoint refuses a refresh token that was traded already.           *)
Refused(w) ==
  /\ wk[w].pc = "post" /\ wk[w].blob.ref # live[wk[w].blob.login]
  /\ Done(w, "fail")
  /\ UNCHANGED <<file, mtime, auth, expiring, loop, pool, broker, left, broken>>

Unreachable(w) ==
  /\ wk[w].pc = "post" /\ Fault /\ Done(w, "fail")
  /\ UNCHANGED <<file, mtime, auth, expiring, loop, pool, broker, broken>>

Mint(l) ==
  /\ minted' = minted + IF rotates THEN 2 ELSE 1
  /\ live' = IF rotates THEN [live EXCEPT ![l] = minted + 2] ELSE live
  /\ UNCHANGED rotates

Granted(w) ==
  LET l == wk[w].blob.login IN
  /\ wk[w].pc = "post" /\ wk[w].blob.ref = live[l]
  /\ Mint(l)
  /\ Works(w, [wk[w] EXCEPT !.pc = "write", !.acc = minted + 1, !.ref = live'[l]])
  /\ UNCHANGED <<file, mtime, expiring, loop, pool, broker, left, broken>>

(* The answer is lost on its way: a rotated token is lost with it.         *)
AnswerLost(w) ==
  LET l == wk[w].blob.login IN
  /\ wk[w].pc = "post" /\ wk[w].blob.ref = live[l] /\ Fault
  /\ Mint(l) /\ Done(w, "fail")
  /\ broken' = IF rotates THEN broken \cup {l} ELSE broken
  /\ UNCHANGED <<file, mtime, expiring, loop, pool, broker>>

(* Mutant: the refresh token of the answer is not merged.                  *)
WriteForgets(w) ==
  /\ wk[w].pc = "write"
  /\ Put([wk[w].blob EXCEPT !.acc = wk[w].acc])
  /\ Done(w, "ok")
  /\ broken' = IF wk[w].blob.login # file.login THEN broken \cup {file.login} ELSE broken
  /\ UNCHANGED <<auth, expiring, loop, pool, cache, left>>

(* The whole blob read before the request is written back: a login made    *)
(* meanwhile is overwritten.                                               *)
Write(w) ==
  /\ wk[w].pc = "write"
  /\ Put([wk[w].blob EXCEPT !.acc = wk[w].acc, !.ref = wk[w].ref])
  /\ Done(w, "ok")
  /\ broken' = IF wk[w].blob.login # file.login THEN broken \cup {file.login} ELSE broken
  /\ UNCHANGED <<auth, expiring, loop, pool, cache, left>>

WriteFails(w) ==
  /\ wk[w].pc = "write" /\ Fault /\ Done(w, "fail")
  /\ broken' = IF rotates THEN broken \cup {wk[w].blob.login} ELSE broken
  /\ UNCHANGED <<file, mtime, auth, expiring, loop, pool, broker>>

(* A thread left behind ends unheard.                                      *)
EndsUnheard(w) ==
  /\ wk[w].pc = "done" /\ w # pool
  /\ Works(w, NoWork)
  /\ UNCHANGED <<file, mtime, auth, expiring, loop, pool, broker, left, broken>>

-----------------------------------------------------------------------------
(* The broker: _Creds.token() under its lock, then the request             *)

Reading == \E r \in Req : req[r].pc \in {"stat", "open"}

Stat(r) ==
  /\ req[r].pc = "new" /\ ~Reading
  /\ req' = [req EXCEPT ![r] = [@ EXCEPT !.pc = "stat", !.m = mtime,
                                         !.seen = IF file.ok THEN {file.acc} ELSE {}]]
  /\ UNCHANGED <<file, mtime, auth, expiring, loop, pool, wk, cache, left, broken>>

Cached(r) ==
  /\ req[r].pc = "stat" /\ req[r].m = cache.mtime /\ cache.token # 0
  /\ req' = [req EXCEPT ![r] = [@ EXCEPT !.pc = "sent", !.got = cache.token]]
  /\ UNCHANGED <<file, mtime, auth, expiring, loop, pool, wk, cache, left, broken>>

(* Mutant: the file's time is taken after it is read.                      *)
OpenThenStat(r) ==
  \/ /\ req[r].pc = "stat" /\ (req[r].m # cache.mtime \/ cache.token = 0) /\ file.ok
     /\ req' = [req EXCEPT ![r].pc = "open", ![r].got = file.acc]
     /\ UNCHANGED <<file, mtime, auth, expiring, loop, pool, wk, cache, left, broken>>
  \/ /\ req[r].pc = "open"
     /\ cache' = [mtime |-> mtime, token |-> req[r].got]
     /\ req' = [req EXCEPT ![r].pc = "sent"]
     /\ UNCHANGED <<file, mtime, auth, expiring, loop, pool, wk, left, broken>>

Open(r) ==
  /\ req[r].pc = "stat" /\ (req[r].m # cache.mtime \/ cache.token = 0)
  /\ IF file.ok
     THEN /\ cache' = [mtime |-> req[r].m, token |-> file.acc]
          /\ req' = [req EXCEPT ![r] = [@ EXCEPT !.pc = "sent", !.got = file.acc]]
     ELSE req' = [req EXCEPT ![r].pc = "refused"] /\ UNCHANGED cache
  /\ UNCHANGED <<file, mtime, auth, expiring, loop, pool, wk, left, broken>>

(* The connection closes and another request may come.                     *)
Close(r) ==
  /\ req[r].pc \in {"sent", "refused"}
  /\ req' = [req EXCEPT ![r] = NoReq]
  /\ UNCHANGED <<file, mtime, auth, expiring, loop, pool, wk, cache, left, broken>>

-----------------------------------------------------------------------------
(* Time and the owner                                                      *)

Expire ==
  /\ file.ok /\ ~Expiring(file)
  /\ left.expiry > 0 /\ left' = [left EXCEPT !.expiry = @ - 1]
  /\ expiring' = expiring \cup {file.acc}
  /\ UNCHANGED <<file, mtime, auth, loop, pool, wk, broker, broken>>

LogIn ==
  /\ left.login > 0 /\ left' = [left EXCEPT !.login = @ - 1]
  /\ Put([ok |-> TRUE, acc |-> minted + 1, ref |-> minted + 2, login |-> Newest + 1])
  /\ live' = [live EXCEPT ![Newest + 1] = minted + 2] /\ minted' = minted + 2
  /\ UNCHANGED <<rotates, expiring, loop, pool, wk, cache, broken>>

(* The file is damaged or logged out of.                                   *)
Damage ==
  /\ file.ok /\ Fault
  /\ Put([file EXCEPT !.ok = FALSE])
  /\ broken' = broken \cup {file.login}
  /\ UNCHANGED <<auth, expiring, loop, pool, wk, cache>>

WorkerStep(w) == Read(w) \/ Refused(w) \/ Granted(w) \/ Write(w) \/ EndsUnheard(w)
LoopStep == Sweep \/ Answered \/ TimesOut \/ Judge

Next ==
  \/ LoopStep
  \/ \E w \in Worker : WorkerStep(w) \/ Blocks(w) \/ Unblocks(w) \/ Unreachable(w)
                       \/ AnswerLost(w) \/ WriteFails(w)
  \/ \E r \in Req : Stat(r) \/ Cached(r) \/ Open(r) \/ Close(r)
  \/ Expire \/ LogIn \/ Damage

Spec == Init /\ [][Next]_vars

(* The loop is awaited on the event loop and its threads run; a blocked    *)
(* lookup need never end.                                                  *)
FairSpec == Spec /\ WF_vars(LoopStep) /\ \A w \in Worker : WF_vars(WorkerStep(w))

-----------------------------------------------------------------------------
(* The newest login is never lost: its refresh token is in the file or     *)
(* with a thread about to write it, however many threads were left behind  *)
(* by timed-out sweeps, unless the answer or the write failed, the file    *)
(* was damaged, or the owner logged in while a refresh was under way       *)
(* (refresh_now_sync).                                                     *)
NewestLoginKept ==
  \/ Newest \in broken
  \/ file.ok /\ file.login = Newest /\ file.ref = live[Newest]
  \/ \E w \in Worker : wk[w].pc = "write" /\ wk[w].blob.login = Newest
                       /\ wk[w].ref = live[Newest]

(* The broker never sends a stale token: what a request gets was in the    *)
(* file at some time between its check of the file and its answer, though  *)
(* the check and the read are two steps and the answer is cached           *)
(* (_Creds.token).                                                         *)
BrokerCurrent == \A r \in Req : req[r].pc = "sent" => req[r].got \in req[r].seen

(* A token about to expire is renewed as long as the login works, though   *)
(* lookups may block for ever (refresh_loop replaces its pool).            *)
Expires(l) == file.ok /\ file.login = l /\ Expiring(file) /\ l \notin broken
TokenRenewed == \A l \in Login : Expires(l) ~> ~Expires(l)

=============================================================================
