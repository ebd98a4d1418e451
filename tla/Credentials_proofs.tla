------------------------- MODULE Credentials_proofs -------------------------
(***************************************************************************)
(* What Credentials checks on two threads and one request, proved for any  *)
(* number of threads, requests, logins, expiries and faults.               *)
(***************************************************************************)
EXTENDS Credentials, FiniteSetTheorems, TLAPS

(* Access tokens were minted. *)
AccMinted ==
  /\ file.acc \in 1..minted
  /\ \A w \in Worker : wk[w].pc = "write" => wk[w].acc \in 1..minted

TypeInv == TypeOK /\ AccMinted

-----------------------------------------------------------------------------
(* The broker                                                              *)

(* _Creds.token() runs under its lock. *)
OneReader ==
  \A r, s \in Req : req[r].pc = "stat" /\ req[s].pc = "stat" => r = s

(* What the cache holds under the file's present time is the file's token. *)
CacheTrue ==
  /\ cache.mtime <= mtime
  /\ cache.mtime = mtime /\ cache.token # 0 => file.ok /\ cache.token = file.acc

(* A request that checked the file has in `seen` what the file holds, and  *)
(* what the cache holds if its check found the cache's time.               *)
SeenTrue ==
  \A r \in Req : req[r].pc = "stat" =>
    /\ req[r].m <= mtime
    /\ file.ok => file.acc \in req[r].seen
    /\ req[r].m = cache.mtime /\ cache.token # 0 => cache.token \in req[r].seen

BrokerInv == OneReader /\ CacheTrue /\ SeenTrue /\ BrokerCurrent

-----------------------------------------------------------------------------
(* The refresh tokens                                                      *)

(* A thread that has a blob read it from a file that was whole. *)
BlobRead == \A w \in Worker : wk[w].pc \in {"post", "stuck", "write"} => wk[w].blob.ok

(* A thread that was given tokens holds the one the endpoint takes. *)
WriterHasLive ==
  \A w \in Worker : wk[w].pc = "write" => wk[w].ref = live[wk[w].blob.login]

(* No login is ahead of the owner's, no refresh token ahead of the         *)
(* endpoint's.                                                             *)
NothingAhead ==
  /\ file.login <= Newest /\ file.ref <= minted
  /\ \A l \in Login : live[l] <= minted
  /\ \A w \in Worker : wk[w].blob.login <= Newest /\ wk[w].blob.ref <= minted

(* Where tokens rotate, nobody but the thread that got it has the new one. *)
WriterAlone ==
  rotates => \A w \in Worker : wk[w].pc = "write" =>
    /\ file.login = wk[w].blob.login => file.ref # wk[w].ref
    /\ \A v \in Worker : wk[v].pc \in {"post", "stuck"} /\ wk[v].blob.login = wk[w].blob.login
                           => wk[v].blob.ref # wk[w].ref
    /\ \A v \in Worker \ {w} : wk[v].pc = "write" => wk[v].blob.login # wk[w].blob.login

(* Where they do not, the file has the newest login all the time. *)
FileHasNewest ==
  ~rotates => Newest \in broken \/ (file.ok /\ file.login = Newest /\ file.ref = live[Newest])

LoginInv ==
  /\ BlobRead
  /\ WriterHasLive
  /\ NothingAhead
  /\ WriterAlone
  /\ FileHasNewest
  /\ NewestLoginKept

USE DEF auth, broker, Works, Done

-----------------------------------------------------------------------------
(* Types                                                                   *)

(* The threads are numbered from one. *)
LEMMA Threads == Cardinality(Worker) \in Nat \ {0} /\ Worker = 1..Cardinality(Worker)
<1>1. Cardinality(Worker) \in Nat BY FS_CardinalityType, CredentialsAssumption
<1> QED BY <1>1, CredentialsAssumption

(* A thread, a request, a blob before its first step. *)
LEMMA Blanks == NoBlob \in Blob /\ NoWork \in Work /\ NoReq \in Request
<1>1. NoBlob \in Blob BY CredentialsAssumption DEF NoBlob, Blob, Login
<1>2. NoWork \in Work BY <1>1 DEF NoWork, Work
<1> QED BY <1>1, <1>2 DEF NoReq, Request

(* A host that has just started. *)
LEMMA InitType == Init => TypeInv
<1> SUFFICES ASSUME Init PROVE TypeInv OBVIOUS
<1>1. file \in Blob /\ mtime \in Nat /\ live \in [Login -> Nat] /\ rotates \in BOOLEAN
      /\ minted \in Nat /\ expiring \subseteq 1..minted /\ broken \subseteq Login
  BY CredentialsAssumption DEF Init, Blob, Login
<1>2. loop \in Loop /\ pool \in Worker /\ left \in Left
  BY Threads, CredentialsAssumption DEF Init, Loop, Left
<1>3. wk \in [Worker -> Work] /\ req \in [Req -> Request] /\ cache \in [mtime : Nat, token : Nat]
  BY Blanks DEF Init
<1>4. AccMinted BY Blanks DEF Init, AccMinted, NoWork
<1> QED BY <1>1, <1>2, <1>3, <1>4 DEF TypeInv, TypeOK

(* A thread goes on, the file and the tokens stay. *)
LEMMA WorksType ==
  ASSUME TypeInv, NEW w \in Worker, NEW s \in Work, Works(w, s),
         s.pc = "write" => s.acc \in 1..minted,
         loop' \in Loop, pool' \in Worker, left' \in Left, broken' \subseteq Login,
         UNCHANGED <<file, mtime, auth, expiring, broker>>
  PROVE  TypeInv'
<1>1. TypeOK' BY DEF TypeInv, TypeOK
<1>2. AccMinted' BY DEF TypeInv, TypeOK, AccMinted
<1> QED BY <1>1, <1>2 DEF TypeInv

(* Everything but the loop stays. *)
LEMMA LoopsType ==
  ASSUME TypeInv, loop' \in Loop, pool' \in Worker,
         UNCHANGED <<file, mtime, auth, expiring, wk, broker, left, broken>>
  PROVE  TypeInv'
BY DEF TypeInv, TypeOK, AccMinted

(* Every step of the loop that renews the token. *)
LEMMA LoopType ==
  ASSUME TypeInv, LoopStep
  PROVE  TypeInv'
<1>0. loop \in Loop /\ pool \in Worker /\ wk \in [Worker -> Work] /\ left \in Left
      /\ broken \subseteq Login
  BY DEF TypeInv, TypeOK
<1>1. CASE Sweep
  <2>1. loop' \in Loop BY <1>0, <1>1 DEF Sweep, Loop
  <2>2. CASE UNCHANGED wk BY <2>1, <2>2, <1>0, <1>1, LoopsType DEF Sweep
  <2>3. CASE Works(pool, [NoWork EXCEPT !.pc = "read"])
    <3>1. [NoWork EXCEPT !.pc = "read"] \in Work /\ [NoWork EXCEPT !.pc = "read"].pc = "read"
      BY Blanks DEF NoWork, Work
    <3> QED BY <3>1, <2>1, <2>3, <1>0, <1>1, WorksType DEF Sweep
  <2> QED BY <2>2, <2>3, <1>1 DEF Sweep
<1>2. CASE Answered
  <2>1. loop' \in Loop BY <1>0, <1>2 DEF Answered, Loop, Work
  <2> QED BY <2>1, <1>0, <1>2, Blanks, WorksType DEF Answered, NoWork
<1>3. CASE TimesOut
  <2>1. loop' \in Loop BY <1>0, <1>3 DEF TimesOut, Loop
  <2>2. pool' \in Worker BY <1>0, <1>3, Threads DEF TimesOut
  <2> QED BY <2>1, <2>2, <1>3, LoopsType DEF TimesOut
<1>4. CASE Judge
  <2> DEFINE failed == loop.status \in {"skip", "fail"}
             n == IF ~failed THEN 0 ELSE IF loop.fails < MaxFails THEN loop.fails + 1 ELSE MaxFails
             threshold == IF loop.status = "skip" THEN 1 ELSE AlertAfterFails
             a == IF failed THEN loop.alerted \/ n = threshold ELSE FALSE
  <2>0. loop' = [pc |-> "sleep", status |-> loop.status, fails |-> n, alerted |-> a]
    BY <1>4, Zenon DEF Judge
  <2>a. loop.alerted \in BOOLEAN /\ loop.fails \in 0..MaxFails
        /\ loop.status \in {"startup", "ok", "healthy", "skip", "fail"}
    BY <1>0 DEF Loop
  <2>b. a \in BOOLEAN BY <2>a, Zenon
  <2>c. n \in 0..MaxFails BY <2>a, CredentialsAssumption
  <2> HIDE DEF n, a
  <2>1. loop' \in Loop BY <2>0, <2>a, <2>b, <2>c DEF Loop
  <2> QED BY <2>1, <1>0, <1>4, LoopsType DEF Judge
<1> QED BY <1>1, <1>2, <1>3, <1>4 DEF LoopStep

(* Another blob in the place of the file. *)
LEMMA PutType ==
  ASSUME TypeOK, NEW b \in Blob, Put(b)
  PROVE  file' \in Blob /\ mtime' \in Nat /\ req' \in [Req -> Request]
<1>1. b.acc \in Nat BY DEF Blob
<1>2. file' \in Blob /\ mtime' \in Nat BY DEF Put, TypeOK
<1>3. ASSUME NEW r \in Req PROVE [req[r] EXCEPT !.seen = @ \cup {b.acc}] \in Request
  BY <1>1 DEF TypeOK, Request
<1> QED BY <1>2, <1>3 DEF Put, TypeOK

(* Every step of a thread. *)
LEMMA WorkerType ==
  ASSUME TypeInv, NEW w \in Worker,
         WorkerStep(w) \/ Blocks(w) \/ Unblocks(w) \/ Unreachable(w) \/ AnswerLost(w)
         \/ WriteFails(w)
  PROVE  TypeInv'
<1>0. file \in Blob /\ loop \in Loop /\ pool \in Worker /\ wk \in [Worker -> Work] /\ left \in Left
      /\ broken \subseteq Login /\ wk[w] \in Work
  BY DEF TypeInv, TypeOK
<1>a. Fault => left' \in Left BY <1>0 DEF Fault, Left
<1>b. \A st \in {"ok", "skip", "fail"} :
        /\ [NoWork EXCEPT !.pc = "done", !.status = st] \in Work
        /\ [NoWork EXCEPT !.pc = "done", !.status = st].pc = "done"
  BY Blanks DEF NoWork, Work
<1>c. wk[w].blob \in Blob /\ wk[w].blob.login \in Login BY <1>0 DEF Work, Blob
<1>1. CASE Read(w)
  <2>1. [wk[w] EXCEPT !.pc = "post", !.blob = file] \in Work
        /\ [wk[w] EXCEPT !.pc = "post", !.blob = file].pc = "post"
    BY <1>0 DEF Work
  <2> QED BY <2>1, <1>0, <1>b, <1>1, WorksType DEF Read
<1>2. CASE Refused(w) BY <1>0, <1>b, <1>2, WorksType DEF Refused
<1>3. CASE Granted(w)
  <2> DEFINE s == [wk[w] EXCEPT !.pc = "write", !.acc = minted + 1,
                                !.ref = live'[wk[w].blob.login]]
  <2>1. minted' \in Nat /\ minted' > minted /\ live' \in [Login -> Nat] /\ rotates' \in BOOLEAN
    BY <1>3, <1>c DEF Granted, Mint, TypeInv, TypeOK
  <2>a. live'[wk[w].blob.login] \in Nat /\ minted + 1 \in Nat
    BY <2>1, <1>c DEF TypeInv, TypeOK
  <2>2. s \in Work /\ s.acc = minted + 1 BY <2>a, <1>0 DEF Work
  <2> HIDE DEF s
  <2>3. Works(w, s) BY <1>3 DEF Granted, s
  <2>4. UNCHANGED <<file, mtime, expiring, loop, pool, broker, left, broken>>
    BY <1>3 DEF Granted
  <2>5. TypeOK' BY <2>1, <2>2, <2>3, <2>4 DEF TypeInv, TypeOK
  <2>6. AccMinted' BY <2>1, <2>2, <2>3, <2>4 DEF TypeInv, TypeOK, AccMinted, Blob
  <2> QED BY <2>5, <2>6 DEF TypeInv
<1>4. CASE Write(w)
  <2> DEFINE b == [wk[w].blob EXCEPT !.acc = wk[w].acc, !.ref = wk[w].ref]
             s == [NoWork EXCEPT !.pc = "done", !.status = "ok"]
  <2>1. b \in Blob /\ b.acc = wk[w].acc BY <1>0, <1>c DEF Work, Blob
  <2>2. s \in Work /\ s.pc = "done" BY <1>b
  <2>3. Put(b) /\ Works(w, s) /\ wk[w].pc = "write" BY <1>4 DEF Write
  <2>4. UNCHANGED <<auth, expiring, loop, pool, cache, left>> /\ broken' \subseteq Login
    BY <1>4, <1>0 DEF Write, Blob
  <2> HIDE DEF b, s
  <2>5. file' = b BY <2>3 DEF Put
  <2>6. TypeOK' BY <2>1, <2>2, <2>3, <2>4, PutType DEF TypeInv, TypeOK
  <2>7. AccMinted' BY <2>1, <2>2, <2>3, <2>4, <2>5 DEF TypeInv, TypeOK, AccMinted
  <2> QED BY <2>6, <2>7 DEF TypeInv
<1>5. CASE EndsUnheard(w) BY <1>0, <1>5, Blanks, WorksType DEF EndsUnheard, NoWork
<1>6. CASE Blocks(w)
  <2>1. [wk[w] EXCEPT !.pc = "stuck"] \in Work /\ [wk[w] EXCEPT !.pc = "stuck"].pc = "stuck"
    BY <1>0 DEF Work
  <2> QED BY <2>1, <1>0, <1>a, <1>6, WorksType DEF Blocks
<1>7. CASE Unblocks(w)
  <2>1. [wk[w] EXCEPT !.pc = "post"] \in Work /\ [wk[w] EXCEPT !.pc = "post"].pc = "post"
    BY <1>0 DEF Work
  <2> QED BY <2>1, <1>0, <1>7, WorksType DEF Unblocks
<1>8. CASE Unreachable(w) BY <1>0, <1>a, <1>b, <1>8, WorksType DEF Unreachable
<1>9. CASE AnswerLost(w)
  <2> DEFINE s == [NoWork EXCEPT !.pc = "done", !.status = "fail"]
  <2>1. minted' \in Nat /\ minted' > minted /\ live' \in [Login -> Nat] /\ rotates' \in BOOLEAN
    BY <1>9, <1>c DEF AnswerLost, Mint, TypeInv, TypeOK
  <2>2. s \in Work /\ s.pc = "done" BY <1>b
  <2>3. Works(w, s) /\ left' \in Left /\ broken' \subseteq Login
    BY <1>9, <1>0, <1>a, <1>c DEF AnswerLost
  <2>4. UNCHANGED <<file, mtime, expiring, loop, pool, broker>> BY <1>9 DEF AnswerLost
  <2> HIDE DEF s
  <2>5. TypeOK' BY <2>1, <2>2, <2>3, <2>4 DEF TypeInv, TypeOK
  <2>6. AccMinted' BY <2>1, <2>2, <2>3, <2>4 DEF TypeInv, TypeOK, AccMinted, Blob
  <2> QED BY <2>5, <2>6 DEF TypeInv
<1>10. CASE WriteFails(w)
  <2>1. broken' \subseteq Login BY <1>0, <1>c, <1>10 DEF WriteFails
  <2> QED BY <2>1, <1>0, <1>a, <1>b, <1>10, WorksType DEF WriteFails
<1> QED BY <1>1, <1>2, <1>3, <1>4, <1>5, <1>6, <1>7, <1>8, <1>9, <1>10 DEF WorkerStep

(* Every step of a request. *)
LEMMA RequestType ==
  ASSUME TypeInv, NEW r \in Req, Stat(r) \/ Cached(r) \/ Open(r) \/ Close(r)
  PROVE  TypeInv'
<1>0. file.acc \in Nat /\ req[r] \in Request /\ req \in [Req -> Request]
      /\ cache.token \in Nat /\ cache \in [mtime : Nat, token : Nat] /\ mtime \in Nat
  BY DEF TypeInv, TypeOK, Blob
<1>1. req' \in [Req -> Request] /\ cache' \in [mtime : Nat, token : Nat]
  <2>1. CASE Stat(r) BY <1>0, <2>1 DEF Stat, Request
  <2>2. CASE Cached(r) BY <1>0, <2>2 DEF Cached, Request
  <2>3. CASE Open(r)
    <3>1. [req[r] EXCEPT !.pc = "sent", !.got = file.acc] \in Request
          /\ [req[r] EXCEPT !.pc = "refused"] \in Request
          /\ [mtime |-> req[r].m, token |-> file.acc] \in [mtime : Nat, token : Nat]
      BY <1>0 DEF Request
    <3> QED BY <3>1, <1>0, <2>3 DEF Open
  <2>4. CASE Close(r) BY <1>0, <2>4, Blanks DEF Close
  <2> QED BY <2>1, <2>2, <2>3, <2>4
<1>2. UNCHANGED <<file, mtime, auth, expiring, loop, pool, wk, left, broken>>
  BY DEF Stat, Cached, Open, Close
<1> QED BY <1>1, <1>2 DEF TypeInv, TypeOK, AccMinted

(* Time and the owner. *)
LEMMA OwnerType ==
  ASSUME TypeInv, Expire \/ LogIn \/ Damage
  PROVE  TypeInv'
<1>0. file \in Blob /\ file.acc \in 1..minted /\ file.login \in Login /\ left \in Left
      /\ minted \in Nat /\ live \in [Login -> Nat] /\ broken \subseteq Login
  BY DEF TypeInv, TypeOK, AccMinted, Blob
<1>1. CASE Expire
  <2>1. left' \in Left /\ expiring' \subseteq 1..minted
    BY <1>0, <1>1 DEF Expire, Left, TypeInv, TypeOK
  <2> QED BY <2>1, <1>1 DEF Expire, TypeInv, TypeOK, AccMinted
<1>2. CASE LogIn
  <2> DEFINE b == [ok |-> TRUE, acc |-> minted + 1, ref |-> minted + 2, login |-> Newest + 1]
  <2>0. MaxLogins \in Nat /\ left.login \in 1..MaxLogins
    BY <1>0, <1>2, CredentialsAssumption DEF LogIn, Left
  <2>a. left' = [left EXCEPT !.login = @ - 1] BY <1>2 DEF LogIn
  <2>b. left' \in Left BY <2>0, <2>a, <1>0 DEF Left
  <2>1. left' \in Left /\ Newest + 1 \in Login BY <2>0, <2>b DEF Newest, Login
  <2>2. b \in Blob /\ b.acc = minted + 1 BY <2>1, <1>0 DEF Blob
  <2>3. Put(b) /\ UNCHANGED <<rotates, expiring, loop, pool, wk, cache, broken>>
        /\ minted' = minted + 2 /\ live' = [live EXCEPT ![Newest + 1] = minted + 2]
    BY <1>2 DEF LogIn
  <2> HIDE DEF b
  <2>4. file' = b BY <2>3 DEF Put
  <2>5. TypeOK' BY <2>1, <2>2, <2>3, <1>0, PutType DEF TypeInv, TypeOK
  <2>6. AccMinted' BY <2>2, <2>3, <2>4, <1>0 DEF TypeInv, AccMinted
  <2> QED BY <2>5, <2>6 DEF TypeInv
<1>3. CASE Damage
  <2> DEFINE b == [file EXCEPT !.ok = FALSE]
  <2>1. b \in Blob /\ b.acc = file.acc BY <1>0 DEF Blob
  <2>2. left' \in Left /\ broken' \subseteq Login BY <1>0, <1>3 DEF Damage, Fault, Left
  <2>3. Put(b) /\ UNCHANGED <<auth, expiring, loop, pool, wk, cache>> BY <1>3 DEF Damage
  <2> HIDE DEF b
  <2>4. file' = b BY <2>3 DEF Put
  <2>5. TypeOK' BY <2>1, <2>2, <2>3, <1>0, PutType DEF TypeInv, TypeOK
  <2>6. AccMinted' BY <2>1, <2>3, <2>4, <1>0 DEF TypeInv, AccMinted
  <2> QED BY <2>5, <2>6 DEF TypeInv
<1> QED BY <1>1, <1>2, <1>3

(* Every step. *)
LEMMA StepType == TypeInv /\ [Next]_vars => TypeInv'
<1> SUFFICES ASSUME TypeInv, [Next]_vars PROVE TypeInv' OBVIOUS
<1>1. CASE Next BY <1>1, LoopType, WorkerType, RequestType, OwnerType DEF Next
<1>2. CASE UNCHANGED vars BY <1>2 DEF vars, TypeInv, TypeOK, AccMinted
<1> QED BY <1>1, <1>2

(* Every variable keeps its type: the streak of failures, the threads and  *)
(* the tokens stay within what the code keeps (refresh_loop).              *)
THEOREM TypeCorrect == Spec => []TypeOK
<1>1. TypeInv => TypeOK BY DEF TypeInv
<1> QED BY <1>1, InitType, StepType, PTL DEF Spec

-----------------------------------------------------------------------------
(* The broker                                                              *)

(* Nothing was read and nothing is cached. *)
LEMMA InitBroker == Init => BrokerInv
BY DEF Init, BrokerInv, OneReader, CacheTrue, SeenTrue, BrokerCurrent, NoReq

(* Another blob in the place of the file: requests that may still read it  *)
(* will have it in `seen`, and the cache is out of date.                   *)
LEMMA PutBroker ==
  ASSUME TypeInv, BrokerInv, NEW b \in Blob, Put(b), UNCHANGED cache
  PROVE  BrokerInv'
<1> USE DEF BrokerInv
<1>0. mtime \in Nat /\ mtime' = mtime + 1 /\ file' = b /\ cache.mtime \in Nat
      /\ req \in [Req -> Request]
  BY DEF TypeInv, TypeOK, Put
<1>1. \A r \in Req :
        /\ req'[r].pc = req[r].pc /\ req'[r].m = req[r].m /\ req'[r].got = req[r].got
        /\ req[r].seen \subseteq req'[r].seen
        /\ req[r].pc = "stat" /\ b.ok => b.acc \in req'[r].seen
        /\ req[r].m \in Nat
  BY <1>0 DEF Put, Request
<1>2. OneReader' BY <1>1 DEF OneReader
<1>3. CacheTrue' BY <1>0 DEF CacheTrue
<1>4. SeenTrue' BY <1>0, <1>1 DEF SeenTrue
<1>5. BrokerCurrent' BY <1>1 DEF BrokerCurrent
<1> QED BY <1>2, <1>3, <1>4, <1>5

(* Every step of a request. *)
LEMMA RequestBroker ==
  ASSUME TypeInv, BrokerInv, NEW r \in Req, Stat(r) \/ Cached(r) \/ Open(r) \/ Close(r)
  PROVE  BrokerInv'
<1> USE DEF BrokerInv
<1>0. mtime \in Nat /\ cache.mtime \in Nat /\ req \in [Req -> Request] /\ UNCHANGED <<file, mtime>>
  BY DEF TypeInv, TypeOK, Stat, Cached, Open, Close
<1>1. CASE Stat(r)
  <2>1. UNCHANGED cache /\ \A s \in Req : req[s].pc # "stat" BY <1>1 DEF Stat, Reading
  <2>2. req' = [req EXCEPT ![r] = [@ EXCEPT !.pc = "stat", !.m = mtime,
                                            !.seen = IF file.ok THEN {file.acc} ELSE {}]]
    BY <1>1 DEF Stat
  <2>3. OneReader' BY <2>1, <2>2, <1>0 DEF OneReader, Request
  <2>4. CacheTrue' BY <2>1, <1>0 DEF CacheTrue
  <2>5. SeenTrue' BY <2>1, <2>2, <1>0 DEF SeenTrue, CacheTrue, Request
  <2>6. BrokerCurrent' BY <2>1, <2>2, <1>0 DEF BrokerCurrent, Request
  <2> QED BY <2>3, <2>4, <2>5, <2>6
<1>2. CASE Cached(r)
  <2>1. UNCHANGED cache /\ req[r].pc = "stat" /\ req[r].m = cache.mtime /\ cache.token # 0
        /\ req' = [req EXCEPT ![r] = [@ EXCEPT !.pc = "sent", !.got = cache.token]]
    BY <1>2 DEF Cached
  <2>2. OneReader' BY <2>1, <1>0 DEF OneReader, Request
  <2>3. CacheTrue' BY <2>1, <1>0 DEF CacheTrue
  <2>4. SeenTrue' BY <2>1, <1>0 DEF SeenTrue, Request
  <2>5. BrokerCurrent' BY <2>1, <1>0 DEF BrokerCurrent, SeenTrue, Request
  <2> QED BY <2>2, <2>3, <2>4, <2>5
<1>3. CASE Open(r)
  <2>1. req[r].pc = "stat" /\ req[r].m \in Nat /\ req[r].m <= mtime
        /\ \A s \in Req \ {r} : req[s].pc # "stat"
    BY <1>3, <1>0 DEF Open, SeenTrue, OneReader, Request
  <2>2. CASE file.ok
    <3>1. cache' = [mtime |-> req[r].m, token |-> file.acc]
          /\ req' = [req EXCEPT ![r] = [@ EXCEPT !.pc = "sent", !.got = file.acc]]
      BY <1>3, <2>2 DEF Open
    <3>2. file.acc \in req[r].seen BY <2>1, <2>2 DEF SeenTrue
    <3>3. OneReader' /\ SeenTrue' BY <3>1, <2>1, <1>0 DEF OneReader, SeenTrue, Request
    <3>4. CacheTrue' BY <3>1, <2>1, <2>2, <1>0 DEF CacheTrue
    <3>5. BrokerCurrent' BY <3>1, <3>2, <1>0 DEF BrokerCurrent, Request
    <3> QED BY <3>3, <3>4, <3>5
  <2>3. CASE ~file.ok
    <3>1. UNCHANGED cache /\ req' = [req EXCEPT ![r] = [@ EXCEPT !.pc = "refused"]]
      BY <1>3, <2>3 DEF Open
    <3>2. OneReader' /\ SeenTrue' BY <3>1, <2>1, <1>0 DEF OneReader, SeenTrue, Request
    <3>3. CacheTrue' BY <3>1, <1>0 DEF CacheTrue
    <3>4. BrokerCurrent' BY <3>1, <1>0 DEF BrokerCurrent, Request
    <3> QED BY <3>2, <3>3, <3>4
  <2> QED BY <2>2, <2>3
<1>4. CASE Close(r)
  <2>1. UNCHANGED cache /\ req' = [req EXCEPT ![r] = NoReq] BY <1>4 DEF Close
  <2>2. OneReader' BY <2>1, <1>0 DEF OneReader, NoReq
  <2>3. CacheTrue' BY <2>1, <1>0 DEF CacheTrue
  <2>4. SeenTrue' BY <2>1, <1>0 DEF SeenTrue, NoReq
  <2>5. BrokerCurrent' BY <2>1, <1>0 DEF BrokerCurrent, NoReq
  <2> QED BY <2>2, <2>3, <2>4, <2>5
<1> QED BY <1>1, <1>2, <1>3, <1>4

(* Every step: it replaces the file, is one of a request, or touches       *)
(* neither file, cache nor requests.                                       *)
LEMMA StepBroker == TypeInv /\ BrokerInv /\ [Next]_vars => BrokerInv'
<1> SUFFICES ASSUME TypeInv, BrokerInv, [Next]_vars PROVE BrokerInv' OBVIOUS
<1>0. file \in Blob /\ wk \in [Worker -> Work] /\ minted \in Nat /\ left \in Left
  BY DEF TypeInv, TypeOK
<1>1. CASE UNCHANGED <<file, mtime, broker>>
  BY <1>1 DEF BrokerInv, OneReader, CacheTrue, SeenTrue, BrokerCurrent
<1>2. CASE \E b \in Blob : Put(b) /\ UNCHANGED cache BY <1>2, PutBroker
<1>3. CASE LoopStep BY <1>3, <1>1 DEF LoopStep, Sweep, Answered, TimesOut, Judge
<1>4. ASSUME NEW w \in Worker,
             WorkerStep(w) \/ Blocks(w) \/ Unblocks(w) \/ Unreachable(w) \/ AnswerLost(w)
             \/ WriteFails(w)
      PROVE  BrokerInv'
  <2>1. CASE Write(w)
    <3>1. [wk[w].blob EXCEPT !.acc = wk[w].acc, !.ref = wk[w].ref] \in Blob
      BY <1>0 DEF Work, Blob
    <3> QED BY <3>1, <2>1, <1>2 DEF Write
  <2>2. CASE ~Write(w)
    BY <2>2, <1>4, <1>1 DEF WorkerStep, Read, Refused, Granted, EndsUnheard, Blocks, Unblocks,
           Unreachable, AnswerLost, WriteFails
  <2> QED BY <2>1, <2>2
<1>5. CASE Expire BY <1>5, <1>1 DEF Expire
<1>6. CASE LogIn
  <2>1. left.login \in 1..MaxLogins /\ MaxLogins \in Nat
    BY <1>6, <1>0, CredentialsAssumption DEF LogIn, Left
  <2>2. Newest + 1 \in Login BY <2>1 DEF Newest, Login
  <2>3. [ok |-> TRUE, acc |-> minted + 1, ref |-> minted + 2, login |-> Newest + 1] \in Blob
    BY <2>2, <1>0 DEF Blob
  <2> QED BY <2>3, <1>6, <1>2 DEF LogIn
<1>7. CASE Damage
  <2>1. [file EXCEPT !.ok = FALSE] \in Blob BY <1>0 DEF Blob
  <2> QED BY <2>1, <1>7, <1>2 DEF Damage
<1>8. CASE UNCHANGED vars BY <1>8, <1>1 DEF vars
<1> QED BY <1>3, <1>4, <1>5, <1>6, <1>7, <1>8, RequestBroker DEF Next

(* The broker never sends a stale token: what a request gets was in the    *)
(* file at some time between its check of the file and its answer          *)
(* (_Creds.token), for any number of requests, writers and faults.         *)
THEOREM BrokerNeverStale == Spec => []BrokerCurrent
<1>1. BrokerInv => BrokerCurrent BY DEF BrokerInv
<1> QED BY <1>1, InitType, StepType, InitBroker, StepBroker, PTL DEF Spec

-----------------------------------------------------------------------------
(* The refresh tokens                                                      *)

(* One login, one file, no thread. *)
LEMMA InitLogin == Init => LoginInv
<1> SUFFICES ASSUME Init PROVE LoginInv OBVIOUS
<1>1. file = [ok |-> TRUE, acc |-> 1, ref |-> 2, login |-> 0] /\ minted = 2 /\ Newest = 0
      /\ live = [l \in Login |-> IF l = 0 THEN 2 ELSE 0] /\ 0 \in Login
      /\ \A w \in Worker : wk[w].pc = "off" /\ wk[w].blob.login = 0 /\ wk[w].blob.ref = 0
  BY CredentialsAssumption DEF Init, NoWork, NoBlob, Newest, Login
<1> QED BY <1>1 DEF LoginInv, BlobRead, WriterHasLive, NothingAhead, WriterAlone, FileHasNewest,
              NewestLoginKept

(* The types the steps below rely on. *)
LEMMA LoginTypes ==
  ASSUME TypeInv
  PROVE  /\ minted \in Nat /\ live \in [Login -> Nat] /\ rotates \in BOOLEAN
         /\ Newest \in Login /\ Login \subseteq Nat /\ 0 <= Newest /\ 0 <= minted
         /\ file \in Blob /\ file.login \in Login /\ file.ref \in Nat
         /\ wk \in [Worker -> Work]
         /\ \A w \in Worker : /\ wk[w] \in Work /\ wk[w].ref \in Nat /\ wk[w].blob \in Blob
                              /\ wk[w].blob.login \in Login /\ wk[w].blob.ref \in Nat
<1>1. left.login \in 0..MaxLogins /\ MaxLogins \in Nat
  BY CredentialsAssumption DEF TypeInv, TypeOK, Left
<1>2. Newest \in Login /\ Login \subseteq Nat /\ 0 <= Newest BY <1>1 DEF Newest, Login
<1> QED BY <1>2 DEF TypeInv, TypeOK, Blob, Work

(* Everything but the threads stays, and no thread begins or ends a write. *)
LEMMA QuietLogin ==
  ASSUME TypeInv, LoginInv, NEW w \in Worker, NEW s \in Work, Works(w, s),
         wk[w].pc # "write", s.pc # "write",
         s.pc \in {"post", "stuck"} =>
           \/ file.ok /\ s.blob = file
           \/ wk[w].pc \in {"post", "stuck"} /\ s.blob = wk[w].blob,
         s.blob.login <= Newest, s.blob.ref <= minted,
         UNCHANGED <<file, auth>>, Newest' = Newest, broken \subseteq broken'
  PROVE  LoginInv'
<1> USE LoginTypes DEF LoginInv
<1>0. wk' = [wk EXCEPT ![w] = s] OBVIOUS
<1>1. BlobRead' BY <1>0 DEF BlobRead
<1>2. WriterHasLive' BY <1>0 DEF WriterHasLive
<1>3. NothingAhead' BY <1>0 DEF NothingAhead
<1>4. WriterAlone' BY <1>0 DEF WriterAlone
<1>5. FileHasNewest' BY DEF FileHasNewest
<1>6. NewestLoginKept' BY <1>0 DEF NewestLoginKept
<1> QED BY <1>1, <1>2, <1>3, <1>4, <1>5, <1>6

(* The endpoint trades the live token of a login for a new one; where      *)
(* tokens rotate no other thread has it, so none is about to write it.     *)
LEMMA MintLogin ==
  ASSUME TypeInv, LoginInv, NEW w \in Worker, wk[w].pc = "post",
         wk[w].blob.ref = live[wk[w].blob.login], Mint(wk[w].blob.login)
  PROVE  /\ rotates' = rotates /\ minted' \in Nat /\ minted' >= minted
         /\ \A l \in Login : live'[l] <= minted'
         /\ ~rotates => live' = live
         /\ rotates =>
              /\ live'[wk[w].blob.login] = minted + 2 /\ minted' = minted + 2
              /\ \A l \in Login : l # wk[w].blob.login => live'[l] = live[l]
              /\ \A v \in Worker : wk[v].pc = "write" => wk[v].blob.login # wk[w].blob.login
<1> USE LoginTypes DEF LoginInv
<1>1. rotates' = rotates /\ minted' \in Nat /\ minted' >= minted BY DEF Mint
<1>2. ~rotates => live' = live BY DEF Mint
<1>3. rotates => /\ live' = [live EXCEPT ![wk[w].blob.login] = minted + 2]
                 /\ minted' = minted + 2
  BY DEF Mint
<1>4. \A l \in Login : live'[l] <= minted' BY <1>1, <1>2, <1>3 DEF NothingAhead
<1>5. rotates => \A v \in Worker : wk[v].pc = "write" => wk[v].blob.login # wk[w].blob.login
  BY DEF WriterAlone, WriterHasLive
<1> QED BY <1>1, <1>2, <1>3, <1>4, <1>5

(* The endpoint answers. *)
LEMMA GrantedLogin ==
  ASSUME TypeInv, LoginInv, NEW w \in Worker, Granted(w)
  PROVE  LoginInv'
<1> USE LoginTypes DEF LoginInv
<1> DEFINE l == wk[w].blob.login
<1>1. wk[w].pc = "post" /\ wk[w].blob.ref = live[l] /\ Mint(l)
      /\ UNCHANGED <<file, mtime, expiring, loop, pool, broker, left, broken>> /\ Newest' = Newest
  BY DEF Granted, Newest
<1>2. wk' = [wk EXCEPT ![w] = [@ EXCEPT !.pc = "write", !.acc = minted + 1, !.ref = live'[l]]]
  BY DEF Granted
<1>3. /\ wk'[w].pc = "write" /\ wk'[w].ref = live'[l] /\ wk'[w].blob = wk[w].blob
      /\ \A v \in Worker \ {w} : wk'[v] = wk[v]
  BY <1>2 DEF Work
<1>4. /\ rotates' = rotates /\ minted' \in Nat /\ minted' >= minted
      /\ \A k \in Login : live'[k] <= minted'
      /\ ~rotates => live' = live
      /\ rotates =>
           /\ live'[l] = minted + 2 /\ \A k \in Login : k # l => live'[k] = live[k]
           /\ \A v \in Worker : wk[v].pc = "write" => wk[v].blob.login # l
  BY <1>1, MintLogin
<1>5. BlobRead' BY <1>1, <1>3 DEF BlobRead
<1>6. WriterHasLive'
  <2>1. SUFFICES ASSUME NEW v \in Worker, wk'[v].pc = "write"
                 PROVE  wk'[v].ref = live'[wk'[v].blob.login]
    BY DEF WriterHasLive
  <2>2. CASE v = w BY <2>2, <1>3
  <2>3. CASE v # w BY <2>1, <2>3, <1>3, <1>4 DEF WriterHasLive
  <2> QED BY <2>2, <2>3
<1>7. NothingAhead'
  <2>1. file'.login <= Newest' /\ file'.ref <= minted' BY <1>1, <1>4 DEF NothingAhead
  <2>2. \A v \in Worker : wk'[v].blob = wk[v].blob BY <1>3
  <2> QED BY <2>1, <2>2, <1>1, <1>4 DEF NothingAhead
<1>8. WriterAlone'
  <2>1. SUFFICES ASSUME rotates, NEW v \in Worker, wk'[v].pc = "write"
                 PROVE  /\ file.login = wk'[v].blob.login => file.ref # wk'[v].ref
                        /\ \A u \in Worker : wk'[u].pc \in {"post", "stuck"}
                             /\ wk'[u].blob.login = wk'[v].blob.login => wk'[u].blob.ref # wk'[v].ref
                        /\ \A u \in Worker \ {v} : wk'[u].pc = "write"
                                                   => wk'[u].blob.login # wk'[v].blob.login
    BY <1>1, <1>4 DEF WriterAlone
  <2>2. CASE v = w BY <2>1, <2>2, <1>1, <1>3, <1>4 DEF NothingAhead
  <2>3. CASE v # w BY <2>1, <2>3, <1>3, <1>4 DEF WriterAlone
  <2> QED BY <2>2, <2>3
<1>9. FileHasNewest' BY <1>1, <1>4 DEF FileHasNewest
<1>10. NewestLoginKept'
  <2>1. CASE Newest \in broken BY <2>1, <1>1 DEF NewestLoginKept
  <2>2. CASE l = Newest BY <2>2, <1>1, <1>3 DEF NewestLoginKept
  <2>3. CASE ~rotates BY <2>3, <1>1, <1>4 DEF NewestLoginKept, FileHasNewest
  <2>4. CASE rotates /\ l # Newest
    <3>1. live'[Newest] = live[Newest] BY <2>4, <1>4
    <3> QED BY <3>1, <1>1, <1>3 DEF NewestLoginKept
  <2> QED BY <2>1, <2>2, <2>3, <2>4
<1> QED BY <1>5, <1>6, <1>7, <1>8, <1>9, <1>10

(* The answer is lost: so is a rotated token. *)
LEMMA AnswerLostLogin ==
  ASSUME TypeInv, LoginInv, NEW w \in Worker, AnswerLost(w)
  PROVE  LoginInv'
<1> USE LoginTypes DEF LoginInv
<1> DEFINE l == wk[w].blob.login
<1>1. wk[w].pc = "post" /\ wk[w].blob.ref = live[l] /\ Mint(l) /\ UNCHANGED file
      /\ broken' = IF rotates THEN broken \cup {l} ELSE broken
  BY DEF AnswerLost
<1>2. Newest' = Newest BY DEF AnswerLost, Fault, Newest, TypeInv, TypeOK, Left
<1>3. /\ wk'[w].pc = "done" /\ wk'[w].blob = NoBlob /\ \A v \in Worker \ {w} : wk'[v] = wk[v]
  BY DEF AnswerLost, NoWork
<1>4. /\ rotates' = rotates /\ minted' \in Nat /\ minted' >= minted
      /\ \A k \in Login : live'[k] <= minted'
      /\ ~rotates => live' = live
      /\ rotates =>
           /\ \A k \in Login : k # l => live'[k] = live[k]
           /\ \A v \in Worker : wk[v].pc = "write" => wk[v].blob.login # l
  BY <1>1, MintLogin
<1>5. BlobRead' BY <1>3 DEF BlobRead
<1>6. WriterHasLive' BY <1>3, <1>4 DEF WriterHasLive
<1>7. NothingAhead' BY <1>1, <1>2, <1>3, <1>4 DEF NothingAhead, NoBlob
<1>8. WriterAlone' BY <1>1, <1>3, <1>4 DEF WriterAlone
<1>9. FileHasNewest' BY <1>1, <1>2, <1>4 DEF FileHasNewest
<1>10. NewestLoginKept'
  <2>1. CASE Newest \in broken BY <2>1, <1>1, <1>2 DEF NewestLoginKept
  <2>2. CASE ~rotates BY <2>2, <1>1, <1>2, <1>4 DEF NewestLoginKept, FileHasNewest
  <2>3. CASE rotates /\ l = Newest BY <2>3, <1>1, <1>2 DEF NewestLoginKept
  <2>4. CASE rotates /\ l # Newest
    <3>1. live'[Newest] = live[Newest] BY <2>4, <1>4
    <3> QED BY <3>1, <2>4, <1>1, <1>2, <1>3 DEF NewestLoginKept
  <2> QED BY <2>1, <2>2, <2>3, <2>4
<1> QED BY <1>5, <1>6, <1>7, <1>8, <1>9, <1>10

(* The new tokens replace the file, with the blob they were traded for.    *)
LEMMA WriteLogin ==
  ASSUME TypeInv, LoginInv, NEW w \in Worker, Write(w)
  PROVE  LoginInv'
<1> USE LoginTypes DEF LoginInv
<1> DEFINE l == wk[w].blob.login
<1>1. wk[w].pc = "write" /\ wk[w].blob.ok /\ wk[w].ref = live[l]
      /\ UNCHANGED <<auth, expiring, loop, pool, cache, left>> /\ Newest' = Newest
      /\ broken' = IF l # file.login THEN broken \cup {file.login} ELSE broken
  BY DEF Write, Newest, BlobRead, WriterHasLive
<1>2. file' = [wk[w].blob EXCEPT !.acc = wk[w].acc, !.ref = wk[w].ref] BY DEF Write, Put
<1>3. file'.ok /\ file'.login = l /\ file'.ref = live[l] BY <1>1, <1>2 DEF Blob
<1>4. /\ wk'[w].pc = "done" /\ wk'[w].blob = NoBlob /\ \A v \in Worker \ {w} : wk'[v] = wk[v]
  BY DEF Write, NoWork
<1>5. BlobRead' BY <1>4 DEF BlobRead
<1>6. WriterHasLive' BY <1>1, <1>4 DEF WriterHasLive
<1>7. NothingAhead' BY <1>1, <1>3, <1>4 DEF NothingAhead, NoBlob
<1>8. WriterAlone' BY <1>1, <1>3, <1>4 DEF WriterAlone
<1>9. FileHasNewest' BY <1>1, <1>3 DEF FileHasNewest
<1>10. NewestLoginKept'
  <2>1. CASE l = Newest BY <2>1, <1>1, <1>3 DEF NewestLoginKept
  <2>2. CASE l # Newest
    <3>1. CASE Newest \in broken \/ file.login = Newest
      BY <3>1, <2>2, <1>1 DEF NewestLoginKept
    <3>2. CASE ~(Newest \in broken \/ file.login = Newest)
      BY <3>2, <2>2, <1>1, <1>4 DEF NewestLoginKept
    <3> QED BY <3>1, <3>2
  <2> QED BY <2>1, <2>2
<1> QED BY <1>5, <1>6, <1>7, <1>8, <1>9, <1>10

(* The file cannot be written: a rotated token is lost. *)
LEMMA WriteFailsLogin ==
  ASSUME TypeInv, LoginInv, NEW w \in Worker, WriteFails(w)
  PROVE  LoginInv'
<1> USE LoginTypes DEF LoginInv
<1>1. wk[w].pc = "write" /\ UNCHANGED <<file, auth>>
      /\ broken' = IF rotates THEN broken \cup {wk[w].blob.login} ELSE broken
  BY DEF WriteFails
<1>2. Newest' = Newest BY DEF WriteFails, Fault, Newest, TypeInv, TypeOK, Left
<1>3. /\ wk'[w].pc = "done" /\ wk'[w].blob = NoBlob /\ \A v \in Worker \ {w} : wk'[v] = wk[v]
  BY DEF WriteFails, NoWork
<1>4. BlobRead' BY <1>3 DEF BlobRead
<1>5. WriterHasLive' BY <1>1, <1>3 DEF WriterHasLive
<1>6. NothingAhead' BY <1>1, <1>2, <1>3 DEF NothingAhead, NoBlob
<1>7. WriterAlone' BY <1>1, <1>3 DEF WriterAlone
<1>8. FileHasNewest' BY <1>1, <1>2 DEF FileHasNewest
<1>9. NewestLoginKept' BY <1>1, <1>2, <1>3 DEF NewestLoginKept, FileHasNewest
<1> QED BY <1>4, <1>5, <1>6, <1>7, <1>8, <1>9

(* The owner logs in again. *)
LEMMA LogInLogin ==
  ASSUME TypeInv, LoginInv, LogIn
  PROVE  LoginInv'
<1> USE LoginTypes DEF LoginInv
<1>0. left.login \in 1..MaxLogins /\ MaxLogins \in Nat /\ left' = [left EXCEPT !.login = @ - 1]
      /\ left \in Left
  BY CredentialsAssumption DEF LogIn, Left, TypeInv, TypeOK
<1>1. Newest' = Newest + 1 BY <1>0 DEF Newest, Left
<1>2. Newest + 1 \in Login /\ Newest \in Nat BY <1>0 DEF Newest, Login
<1>3. live' = [live EXCEPT ![Newest + 1] = minted + 2] /\ minted' = minted + 2
      /\ UNCHANGED <<rotates, wk, broken>>
      /\ file' = [ok |-> TRUE, acc |-> minted + 1, ref |-> minted + 2, login |-> Newest + 1]
  BY DEF LogIn, Put
<1>4. \A w \in Worker : wk[w].blob.login <= Newest /\ live'[wk[w].blob.login] = live[wk[w].blob.login]
  BY <1>2, <1>3 DEF NothingAhead
<1>5. BlobRead' BY <1>3 DEF BlobRead
<1>6. WriterHasLive' BY <1>3, <1>4 DEF WriterHasLive
<1>7. NothingAhead' BY <1>1, <1>2, <1>3 DEF NothingAhead
<1>8. WriterAlone' BY <1>2, <1>3, <1>4 DEF WriterAlone
<1>9. FileHasNewest' /\ NewestLoginKept' BY <1>1, <1>2, <1>3 DEF FileHasNewest, NewestLoginKept
<1> QED BY <1>5, <1>6, <1>7, <1>8, <1>9

(* The file breaks. *)
LEMMA DamageLogin ==
  ASSUME TypeInv, LoginInv, Damage
  PROVE  LoginInv'
<1> USE LoginTypes DEF LoginInv
<1>1. file' = [file EXCEPT !.ok = FALSE] /\ broken' = broken \cup {file.login}
      /\ UNCHANGED <<auth, wk>>
  BY DEF Damage, Put
<1>2. file'.login = file.login /\ file'.ref = file.ref BY <1>1 DEF Blob
<1>3. Newest' = Newest BY DEF Damage, Fault, Newest, TypeInv, TypeOK, Left
<1>4. BlobRead' /\ WriterHasLive' BY <1>1 DEF BlobRead, WriterHasLive
<1>5. NothingAhead' BY <1>1, <1>2, <1>3 DEF NothingAhead
<1>6. WriterAlone' BY <1>1, <1>2 DEF WriterAlone
<1>7. FileHasNewest' /\ NewestLoginKept' BY <1>1, <1>3 DEF FileHasNewest, NewestLoginKept
<1> QED BY <1>4, <1>5, <1>6, <1>7

(* Nothing the login depends on changes. *)
LEMMA StillLogin ==
  ASSUME LoginInv, UNCHANGED <<file, auth, wk, broken>>, Newest' = Newest
  PROVE  LoginInv'
BY DEF LoginInv, BlobRead, WriterHasLive, NothingAhead, WriterAlone, FileHasNewest,
       NewestLoginKept

(* The other steps of a thread. *)
LEMMA WorkerLogin ==
  ASSUME TypeInv, LoginInv, NEW w \in Worker,
         Read(w) \/ Refused(w) \/ Unreachable(w) \/ Blocks(w) \/ Unblocks(w) \/ EndsUnheard(w)
  PROVE  LoginInv'
<1> USE LoginTypes, Blanks
<1>0. /\ UNCHANGED <<file, auth, broken>>
      /\ wk[w].pc # "write"
  BY DEF Read, Refused, Unreachable, Blocks, Unblocks, EndsUnheard
<1>1. Newest' = Newest
  BY DEF Read, Refused, Unreachable, Blocks, Unblocks, EndsUnheard, Fault, Newest, TypeInv,
         TypeOK, Left
<1>2. /\ file.login <= Newest /\ file.ref <= minted
      /\ wk[w].blob.login <= Newest /\ wk[w].blob.ref <= minted
  BY DEF LoginInv, NothingAhead
<1>3. ASSUME NEW st \in {"ok", "skip", "fail"}, Done(w, st) PROVE LoginInv'
  <2> DEFINE s == [NoWork EXCEPT !.pc = "done", !.status = st]
  <2>1. s \in Work /\ s.pc = "done" /\ s.blob.login = 0 /\ s.blob.ref = 0
    BY DEF NoWork, NoBlob, Work
  <2>2. Works(w, s) BY <1>3
  <2> HIDE DEF s
  <2> QED BY <2>1, <2>2, <1>0, <1>1, QuietLogin
<1>4. CASE Read(w)
  <2> DEFINE s == [wk[w] EXCEPT !.pc = "post", !.blob = file]
  <2>1. s \in Work /\ s.pc = "post" /\ s.blob = file BY DEF Work
  <2>2. CASE file.ok
    <3>1. Works(w, s) BY <1>4, <2>2 DEF Read
    <3> HIDE DEF s
    <3> QED BY <3>1, <2>1, <2>2, <1>0, <1>1, <1>2, QuietLogin
  <2>3. CASE ~file.ok BY <2>3, <1>3, <1>4 DEF Read
  <2> QED BY <2>2, <2>3
<1>5. CASE Refused(w) \/ Unreachable(w) BY <1>3, <1>5 DEF Refused, Unreachable
<1>6. CASE Blocks(w) \/ Unblocks(w)
  <2>1. PICK p \in {"post", "stuck"} : Works(w, [wk[w] EXCEPT !.pc = p])
    BY <1>6 DEF Blocks, Unblocks
  <2> DEFINE s == [wk[w] EXCEPT !.pc = p]
  <2>2. s \in Work /\ s.pc = p /\ s.blob = wk[w].blob /\ wk[w].pc \in {"post", "stuck"}
    BY <1>6 DEF Work, Blocks, Unblocks
  <2> HIDE DEF s
  <2> QED BY <2>1, <2>2, <1>0, <1>1, <1>2, QuietLogin DEF s
<1>7. CASE EndsUnheard(w)
  <2>1. NoWork.pc = "off" /\ NoWork.blob.login = 0 /\ NoWork.blob.ref = 0 BY DEF NoWork, NoBlob
  <2> QED BY <2>1, <1>0, <1>1, <1>7, QuietLogin DEF EndsUnheard
<1> QED BY <1>4, <1>5, <1>6, <1>7

(* Every step of the loop that renews the token. *)
LEMMA LoopLogin ==
  ASSUME TypeInv, LoginInv, LoopStep
  PROVE  LoginInv'
<1> USE LoginTypes, Blanks
<1>1. UNCHANGED <<file, auth, broken, left>> /\ Newest' = Newest /\ pool \in Worker
  BY DEF LoopStep, Sweep, Answered, TimesOut, Judge, Newest, TypeInv, TypeOK
<1>2. CASE UNCHANGED wk BY <1>1, <1>2, StillLogin
<1>3. CASE Sweep /\ ~UNCHANGED wk
  <2> DEFINE s == [NoWork EXCEPT !.pc = "read"]
  <2>1. s \in Work /\ s.pc = "read" /\ s.blob.login = 0 /\ s.blob.ref = 0
    BY DEF NoWork, NoBlob, Work
  <2>2. wk[pool].pc # "write" /\ Works(pool, s) BY <1>3 DEF Sweep
  <2> HIDE DEF s
  <2> QED BY <2>1, <2>2, <1>1, QuietLogin
<1>4. CASE Answered
  <2>1. NoWork.pc = "off" /\ NoWork.blob.login = 0 /\ NoWork.blob.ref = 0 BY DEF NoWork, NoBlob
  <2>2. wk[pool].pc # "write" /\ Works(pool, NoWork) BY <1>4 DEF Answered
  <2> QED BY <2>1, <2>2, <1>1, QuietLogin
<1> QED BY <1>2, <1>3, <1>4 DEF LoopStep, TimesOut, Judge

(* Every step. *)
LEMMA StepLogin == TypeInv /\ LoginInv /\ [Next]_vars => LoginInv'
<1> SUFFICES ASSUME TypeInv, LoginInv, [Next]_vars PROVE LoginInv' OBVIOUS
<1>1. CASE LoopStep BY <1>1, LoopLogin
<1>2. ASSUME NEW w \in Worker,
             WorkerStep(w) \/ Blocks(w) \/ Unblocks(w) \/ Unreachable(w) \/ AnswerLost(w)
             \/ WriteFails(w)
      PROVE  LoginInv'
  BY <1>2, GrantedLogin, AnswerLostLogin, WriteLogin, WriteFailsLogin, WorkerLogin DEF WorkerStep
<1>3. ASSUME NEW r \in Req, Stat(r) \/ Cached(r) \/ Open(r) \/ Close(r) PROVE LoginInv'
  <2>1. UNCHANGED <<file, auth, wk, broken>> /\ Newest' = Newest
    BY <1>3 DEF Stat, Cached, Open, Close, Newest
  <2> QED BY <2>1, StillLogin
<1>4. CASE Expire
  <2>1. UNCHANGED <<file, auth, wk, broken>> /\ Newest' = Newest
    BY <1>4 DEF Expire, Newest, TypeInv, TypeOK, Left
  <2> QED BY <2>1, StillLogin
<1>5. CASE LogIn \/ Damage BY <1>5, LogInLogin, DamageLogin
<1>6. CASE UNCHANGED vars BY <1>6, StillLogin DEF vars, Newest
<1> QED BY <1>1, <1>2, <1>3, <1>4, <1>5, <1>6 DEF Next

(* The newest login is never lost, however many threads were left behind   *)
(* by timed-out sweeps, but for the reasons `broken` names                 *)
(* (refresh_now_sync, refresh_loop).                                       *)
THEOREM NewestKept == Spec => []NewestLoginKept
<1>1. LoginInv => NewestLoginKept BY DEF LoginInv
<1> QED BY <1>1, InitType, StepType, InitLogin, StepLogin, PTL DEF Spec

=============================================================================
