------------------------------ MODULE EngineProofs ------------------------------
(***************************************************************************)
(* Proofs about Engine, for any number of requests, logins and records.    *)
(* What VaultProofs says of the vault holds under the engine too: each of  *)
(* its steps is a step of Vault, or leaves the vault alone.                *)
(***************************************************************************)
EXTENDS Engine, VaultProofs

Pcs == {"new", "arrived", "open", "lookup", "asked", "commit", "persist", "rollback", "seal",
        "done"}

(* What Standing gives.                                                    *)
Standings == UNION {[S -> BOOLEAN] : S \in SUBSET Nat}

Requests == [pc : Pcs, kind : {"release", "store", "generate"}, o : Origins \cup {NewReq.o},
             u : Usernames \cup {NoHint}, key : Nat, found : {"None", "Live", "Archived"},
             gate : Nat, password : Nat, sealed : Nat, did : {"None"} \cup Stored,
             seen : Standings, moved : BOOLEAN]

Results == {"none", "Released"} \cup Stored \cup Errors

Statuses == {"new", "waiting"} \cup A!Decisions

EngineTypes ==
  /\ req \in [Reqs -> Requests] /\ result \in [Reqs -> Results]
  /\ status \in [Reqs -> Statuses] /\ session \in Sessions /\ nextKey \in Nat \ {0}

(* Only a release goes without a username, and it writes nothing.          *)
Writing == {"commit", "persist", "rollback"}

WellFormed == \A r \in Reqs : req[r].pc # "new" =>
                /\ req[r].o \in Origins
                /\ req[r].kind # "release" => req[r].u \in Usernames
                /\ req[r].pc \in Writing => req[r].kind # "release"

(* The user's Approve comes before the first effect, and stays.            *)
AfterConsent == Writing \cup {"seal"}

Consented ==
  \A r \in Reqs :
    req[r].pc \in AfterConsent \/ result[r] \in {"Released"} \cup Stored \/ Writes(r)
      => status[r] = "Approve"

(* The request's commit is where the request is.                           *)
InCommit == \A r \in Reqs : commit[r].pc = IF req[r].pc = "persist" THEN "mutated"
                                           ELSE IF req[r].pc = "rollback" THEN "failed" ELSE "idle"

EInv == EngineTypes /\ WellFormed /\ Consented /\ InCommit
-----------------------------------------------------------------------------
LEMMA RequestFields ==
  ASSUME NEW x \in Requests
  PROVE  /\ x.pc \in Pcs /\ x.kind \in {"release", "store", "generate"}
         /\ x.o \in Origins \cup {NewReq.o} /\ x.u \in Usernames \cup {NoHint} /\ x.key \in Nat
         /\ x.found \in {"None", "Live", "Archived"} /\ x.password \in Nat
         /\ x.did \in {"None"} \cup Stored
BY DEF Requests

LEMMA StoreActionIsStored == \A f : StoreAction(f) \in Stored
BY DEF StoreAction, Stored

LEMMA NewReqIs ==
  /\ NewReq \in Requests /\ NewReq.pc = "new" /\ NewReq.kind = "release" /\ NewReq.password = 0
<1>1. PICK c : c = CHOOSE o \in Origins : TRUE OBVIOUS
<1>2. PICK none : none = [i \in {} |-> FALSE] OBVIOUS
<1>3. none \in Standings
  <2>1. none \in [{} -> BOOLEAN] /\ {} \in SUBSET Nat BY <1>2
  <2> QED BY <2>1 DEF Standings
<1>4. NewReq = [pc |-> "new", kind |-> "release", o |-> c,
                u |-> NoHint, key |-> NoKey, found |-> "None", gate |-> NoKey,
                password |-> 0, sealed |-> NoKey, did |-> "None", seen |-> none,
                moved |-> FALSE]
  BY <1>1, <1>2 DEF NewReq
<1>5. PICK x : x = NewReq OBVIOUS
<1>6. x.o = c BY <1>4, <1>5
<1>7. x \in Requests BY <1>3, <1>4, <1>5, <1>6 DEF Requests, Pcs, NoKey
<1> QED BY <1>4, <1>5, <1>7

LEMMA EngineInitEInv == EngineInit => EInv /\ IInv /\ OwedKept
<1> SUFFICES ASSUME EngineInit PROVE EInv /\ IInv /\ OwedKept OBVIOUS
<1>1. /\ req = [r \in Reqs |-> NewReq] /\ result = [r \in Reqs |-> "none"]
      /\ session = NewSession /\ nextKey = 1 /\ status = [r \in Reqs |-> "new"]
  BY DEF EngineInit, A!ApproverInit, NoKey
<1>2. NewSession \in Sessions BY DEF NewSession, Sessions, SessionStates, NoKey
<1>3. EngineTypes BY <1>1, <1>2, NewReqIs DEF EngineTypes, Results, Statuses
<1>4. WellFormed BY <1>1, NewReqIs DEF WellFormed
<1>5. Consented BY <1>1, NewReqIs DEF Consented, AfterConsent, Writing, Writes, Stored
<1>6. InCommit
  <2>1. commit = [e \in Reqs |-> NoCommit] BY EngineAssumption DEF EngineInit
  <2>2. NoCommit.pc = "idle" BY DEF NoCommit
  <2>3. \A r \in Reqs : commit[r].pc = "idle" /\ req[r].pc = "new" BY <1>1, <2>1, <2>2, NewReqIs
  <2> QED BY <2>3 DEF InCommit
<1>7. /\ disk = records /\ fresh = 5 /\ crashes = 0 /\ batch = NoBatch /\ raced = FALSE
      /\ commit = [e \in Committers |-> NoCommit] /\ backup = <<>>
      /\ staged = [import |-> <<>>, restore |-> <<>>] /\ owed = [i \in {} |-> 0]
      /\ records \in StartVaults
  BY DEF EngineInit
<1>8. Sound(records, 5)
  <2>1. ASSUME NEW n \in 1..2, NEW o \in Origins, NEW u \in Usernames, NEW a \in BOOLEAN,
               NEW s, s = Saved(n, o, u, a)
        PROVE  /\ s \in CredentialRecord /\ s.id = 2 * n - 1 /\ s.password = 2 * n
    <3>1. PICK i \in Nat : i = 2 * n - 1 OBVIOUS
    <3>2. PICK p \in Nat : p = 2 * n OBVIOUS
    <3>3. s = [id |-> i, origin |-> o, username |-> u, password |-> p, archived |-> a, color |-> 0]
      BY <2>1, <3>1, <3>2 DEF Saved
    <3>4. s.id = i /\ s.password = p BY <3>3
    <3>5. s \in CredentialRecord BY <3>3 DEF CredentialRecord
    <3> QED BY <3>1, <3>2, <3>4, <3>5
  <2> DEFINE S(n) == {Saved(n, o, u, a) : o \in Origins, u \in Usernames, a \in BOOLEAN}
  <2>2. \A x \in S(1) : x \in CredentialRecord /\ x.id = 1 /\ x.password = 2
    <3> SUFFICES ASSUME NEW o \in Origins, NEW u \in Usernames, NEW a \in BOOLEAN,
                        NEW x, x = Saved(1, o, u, a)
                 PROVE  x \in CredentialRecord /\ x.id = 1 /\ x.password = 2
      OBVIOUS
    <3>1. 1 \in 1..2 OBVIOUS
    <3>2. x \in CredentialRecord /\ x.id = 2 * 1 - 1 /\ x.password = 2 * 1 BY <2>1, <3>1
    <3> QED BY <3>2
  <2>3. \A x \in S(2) : x \in CredentialRecord /\ x.id = 3 /\ x.password = 4
    <3> SUFFICES ASSUME NEW o \in Origins, NEW u \in Usernames, NEW a \in BOOLEAN,
                        NEW x, x = Saved(2, o, u, a)
                 PROVE  x \in CredentialRecord /\ x.id = 3 /\ x.password = 4
      OBVIOUS
    <3>1. 2 \in 1..2 OBVIOUS
    <3>2. x \in CredentialRecord /\ x.id = 2 * 2 - 1 /\ x.password = 2 * 2 BY <2>1, <3>1
    <3> QED BY <3>2
  <2>4. \/ records = <<>>
        \/ \E x \in S(1) : records = <<x>>
        \/ \E x \in S(1), y \in S(2) : records = <<x, y>>
    BY <1>7 DEF StartVaults
  <2> HIDE DEF S
  <2>5. CASE records = <<>> BY <2>5, EmptyIsSound
  <2>6. CASE \E x \in S(1) : records = <<x>>
    <3>1. PICK x \in S(1) : records = <<x>> BY <2>6
    <3>2. DOMAIN records = {1} /\ records[1] = x BY <3>1
    <3>3. records \in Seq(CredentialRecord) BY <2>2, <3>1
    <3> QED BY <2>2, <3>2, <3>3 DEF Sound
  <2>7. CASE \E x \in S(1), y \in S(2) : records = <<x, y>>
    <3>1. PICK x \in S(1), y \in S(2) : records = <<x, y>> BY <2>7
    <3>2. DOMAIN records = {1, 2} /\ records[1] = x /\ records[2] = y BY <3>1
    <3>3. records \in Seq(CredentialRecord) BY <2>2, <2>3, <3>1
    <3> QED BY <2>2, <2>3, <3>2, <3>3 DEF Sound
  <2> QED BY <2>4, <2>5, <2>6, <2>7
<1>9. \A e \in Committers : commit[e].pc = "idle" /\ commit[e].snap = <<>>
  BY <1>7, NothingUnderWay
<1>10. staged.import = <<>> /\ staged.restore = <<>> BY <1>7
<1>11. Types
  <2>1. staged \in [import : Seq(ImportRow), restore : Vaults] BY <1>7, NothingUnderWay
  <2>2. commit \in [Committers -> Commits] BY <1>7, NothingUnderWay
  <2>3. batch \in Batches /\ batch.items \in IF batch.kind = "import" THEN Seq(ImportRow) ELSE Vaults
    BY <1>7, NothingUnderWay
  <2>4. fresh = 5 /\ crashes = 0 /\ raced \in BOOLEAN BY <1>7
  <2> QED BY <2>1, <2>2, <2>3, <2>4 DEF Types
<1>12. Drawn BY <1>7, <1>8, <1>9, <1>10, NothingUnderWay DEF Drawn, DrawnBefore
<1>13. Unlocked /\ Base = records BY <1>7, NothingUnderWay DEF Unlocked, Base
<1>14. BatchGoesOn BY <1>13 DEF BatchGoesOn
<1>15. InStep
  <2>1. records \in Seq(CredentialRecord) BY <1>8 DEF Sound
  <2> QED BY <1>7, <1>13, <2>1, KeepsItself DEF InStep
<1>16. OwedKept
  <2>1. DOMAIN owed = {} BY <1>7
  <2> QED BY <1>9, <2>1 DEF OwedKept, OwedIn, WrittenIn
<1> QED BY <1>3, <1>4, <1>5, <1>6, <1>11, <1>12, <1>14, <1>15, <1>16 DEF EInv, IInv

LEMMA PcMoves ==
  ASSUME NEW x \in Requests, NEW p \in Pcs, NEW y, y = [x EXCEPT !.pc = p]
  PROVE  /\ y \in Requests /\ y.pc = p /\ y.kind = x.kind /\ y.o = x.o /\ y.u = x.u
         /\ y.key = x.key /\ y.found = x.found /\ y.password = x.password /\ y.did = x.did
         /\ y.seen = x.seen /\ y.moved = x.moved
BY DEF Requests

LEMMA SessionMoves ==
  ASSUME NEW s \in Sessions, NEW k \in Nat, NEW n \in Nat
  PROVE  /\ AcceptUnparsable(s) \in Sessions /\ ~IsActive(AcceptUnparsable(s))
         /\ AcceptLowOrder(s) \in Sessions /\ ~IsActive(AcceptLowOrder(s))
         /\ AcceptOk(s, k, 0) \in Sessions /\ AcceptOk(s, k, 0).key = k
         /\ Expire(s) \in Sessions /\ ~IsActive(Expire(s))
         /\ AcceptNonce(s, n, 0) \in Sessions /\ AcceptNonce(s, n, 0).key = s.key
         /\ IsActive(AcceptNonce(s, n, 0)) <=> IsActive(s)
BY DEF Sessions, SessionStates, AcceptUnparsable, AcceptLowOrder, AcceptOk, Expire, AcceptNonce,
       NoKey, IsActive

(* A step of request r: it is x from now on, and what is its result.       *)
LEMMA Moved ==
  ASSUME EInv, NEW r \in Reqs, NEW x \in Requests, req' = [req EXCEPT ![r] = x],
         NEW what \in Results, result' = [result EXCEPT ![r] = what],
         status' \in [Reqs -> Statuses],
         \A q \in Reqs : status[q] = "Approve" => status'[q] = "Approve",
         session' \in Sessions, nextKey' = nextKey,
         x.pc # "new", x.o \in Origins, x.kind # "release" => x.u \in Usernames,
         x.pc \in Writing => x.kind # "release",
         ~(/\ x.pc \notin AfterConsent
           /\ what \notin {"Released"} \cup Stored
           /\ x.kind # "release" => x.password = 0) => status'[r] = "Approve",
         \A q \in Reqs : q # r => commit'[q].pc = commit[q].pc,
         commit'[r].pc = IF x.pc = "persist" THEN "mutated"
                         ELSE IF x.pc = "rollback" THEN "failed" ELSE "idle"
  PROVE  EInv'
<1>1. EngineTypes /\ WellFormed /\ Consented /\ InCommit BY DEF EInv
<1>2. req \in [Reqs -> Requests] /\ result \in [Reqs -> Results] BY <1>1 DEF EngineTypes
<1>3. /\ req' \in [Reqs -> Requests] /\ result' \in [Reqs -> Results]
      /\ req'[r] = x /\ result'[r] = what
      /\ \A q \in Reqs : q # r => req'[q] = req[q] /\ result'[q] = result[q]
  BY <1>2
<1>4. EngineTypes' BY <1>1, <1>3 DEF EngineTypes
<1>5. WellFormed' BY <1>1, <1>3 DEF WellFormed
<1>6. Consented'
  <2> SUFFICES ASSUME NEW q \in Reqs,
                      \/ req'[q].pc \in AfterConsent
                      \/ result'[q] \in {"Released"} \cup Stored
                      \/ req'[q].kind # "release" /\ req'[q].password # 0
               PROVE  status'[q] = "Approve"
    BY DEF Consented, Writes
  <2>1. CASE q = r BY <1>3, <2>1
  <2>2. CASE q # r BY <1>1, <1>3, <2>2 DEF Consented, Writes
  <2> QED BY <2>1, <2>2
<1>7. InCommit' BY <1>1, <1>3 DEF InCommit
<1> QED BY <1>4, <1>5, <1>6, <1>7 DEF EInv

(* A step of nobody's request.                                             *)
LEMMA Aside ==
  ASSUME EInv, UNCHANGED <<req, result>>, status' \in [Reqs -> Statuses],
         \A q \in Reqs : status[q] = "Approve" => status'[q] = "Approve",
         session' \in Sessions, nextKey' \in Nat \ {0},
         \A q \in Reqs : commit'[q].pc = commit[q].pc
  PROVE  EInv'
<1>1. EngineTypes /\ WellFormed /\ Consented /\ InCommit BY DEF EInv
<1>2. EngineTypes' BY <1>1 DEF EngineTypes
<1>3. WellFormed' BY <1>1 DEF WellFormed
<1>4. Consented' BY <1>1 DEF Consented, Writes
<1>5. InCommit' BY <1>1 DEF InCommit
<1> QED BY <1>2, <1>3, <1>4, <1>5 DEF EInv

LEMMA Answered ==
  ASSUME EInv, NEW r \in Reqs, req[r].pc \notin {"new", "persist", "rollback"},
         NEW what \in Errors, Respond(r, what), UNCHANGED <<vars, status, nextKey>>,
         session' \in Sessions
  PROVE  EInv'
<1>1. EngineTypes /\ WellFormed /\ Consented /\ InCommit BY DEF EInv
<1>2. PICK s \in Requests : s = req[r] BY <1>1 DEF EngineTypes
<1>3. PICK x : x = [s EXCEPT !.pc = "done"] OBVIOUS
<1>4. "done" \in Pcs BY DEF Pcs
<1>5. /\ x \in Requests /\ x.pc = "done" /\ x.kind = s.kind /\ x.o = s.o /\ x.u = s.u
      /\ x.password = s.password
  BY <1>3, <1>4, PcMoves
<1>6. req' = [req EXCEPT ![r] = x] /\ result' = [result EXCEPT ![r] = what]
  BY <1>2, <1>3 DEF Respond
<1>7. what \in Results /\ what \notin {"Released"} \cup Stored BY DEF Results, Errors, Stored
<1>8. status' \in [Reqs -> Statuses] /\ status' = status /\ commit' = commit /\ nextKey' = nextKey
  BY <1>1 DEF EngineTypes, vars
<1>9. x.o \in Origins /\ (x.kind # "release" => x.u \in Usernames)
  BY <1>1, <1>2, <1>5 DEF WellFormed
<1>10. x.kind # "release" /\ x.password # 0 => status'[r] = "Approve"
  BY <1>1, <1>2, <1>5, <1>8 DEF Consented, Writes
<1>11. commit'[r].pc = "idle" BY <1>1, <1>8 DEF InCommit
<1>12. x.pc \notin AfterConsent /\ x.pc \notin Writing BY <1>5 DEF AfterConsent, Writing
<1> QED BY <1>5, <1>6, <1>7, <1>8, <1>9, <1>10, <1>11, <1>12, Moved

LEMMA Went ==
  ASSUME EInv, NEW r \in Reqs, req[r].pc \notin {"new", "persist", "rollback"},
         NEW p \in Pcs \ {"new", "persist", "rollback"}, Goto(r, p),
         UNCHANGED <<vars, status, nextKey, session>>,
         p \in AfterConsent => status[r] = "Approve", p \in Writing => req[r].kind # "release"
  PROVE  EInv'
<1>1. EngineTypes /\ WellFormed /\ Consented /\ InCommit BY DEF EInv
<1>2. PICK s \in Requests : s = req[r] BY <1>1 DEF EngineTypes
<1>3. PICK x : x = [s EXCEPT !.pc = p] OBVIOUS
<1>4. /\ x \in Requests /\ x.pc = p /\ x.kind = s.kind /\ x.o = s.o /\ x.u = s.u
      /\ x.password = s.password
  BY <1>3, PcMoves
<1>5. result \in [Reqs -> Results] BY <1>1 DEF EngineTypes
<1>6. PICK what \in Results : what = result[r] BY <1>5
<1>7. req' = [req EXCEPT ![r] = x] /\ result' = [result EXCEPT ![r] = what]
  BY <1>2, <1>3, <1>5, <1>6 DEF Goto
<1>8. /\ status' \in [Reqs -> Statuses] /\ status' = status /\ commit' = commit
      /\ nextKey' = nextKey /\ session' \in Sessions
  BY <1>1 DEF EngineTypes, vars
<1>9. x.o \in Origins /\ (x.kind # "release" => x.u \in Usernames)
  BY <1>1, <1>2, <1>4 DEF WellFormed
<1>10. ~(/\ x.pc \notin AfterConsent
         /\ what \notin {"Released"} \cup Stored
         /\ x.kind # "release" => x.password = 0) => status'[r] = "Approve"
  BY <1>1, <1>2, <1>4, <1>6, <1>8 DEF Consented, Writes
<1>11. commit'[r].pc = "idle" BY <1>1, <1>8 DEF InCommit
<1>12. x.pc \in Writing => x.kind # "release" BY <1>2, <1>4
<1> QED BY <1>4, <1>7, <1>8, <1>9, <1>10, <1>11, <1>12, Moved

LEMMA DecidesKeep ==
  ASSUME EInv, NEW r \in Reqs, NEW d \in A!Decisions, A!Answer(r, d),
         UNCHANGED <<vars, session, nextKey, req, result>>
  PROVE  EInv'
<1>1. EngineTypes BY DEF EInv
<1>2. status \in [Reqs -> Statuses] /\ session \in Sessions /\ nextKey \in Nat \ {0}
  BY <1>1 DEF EngineTypes
<1>3. status[r] = "waiting" /\ status' = [status EXCEPT ![r] = d] BY DEF A!Answer
<1>4. status' \in [Reqs -> Statuses] BY <1>2, <1>3 DEF Statuses
<1>5. \A q \in Reqs : status[q] = "Approve" => status'[q] = "Approve" BY <1>2, <1>3
<1>6. commit' = commit BY DEF vars
<1> QED BY <1>2, <1>4, <1>5, <1>6, Aside

LEMMA SessionStepsKeep ==
  ASSUME EInv, EstablishSession \/ List
  PROVE  EInv'
<1>1. EngineTypes BY DEF EInv
<1>2. status \in [Reqs -> Statuses] /\ session \in Sessions /\ nextKey \in Nat \ {0}
  BY <1>1 DEF EngineTypes
<1>3. UNCHANGED <<req, result, status>> /\ commit' = commit BY DEF EstablishSession, List, vars
<1>4. nextKey' \in Nat \ {0}
  <2>1. nextKey' \in {nextKey, nextKey + 1} BY DEF EstablishSession, List
  <2> QED BY <1>2, <2>1
<1>5. session' \in Sessions
  <2>1. session' \in {AcceptUnparsable(session), AcceptLowOrder(session),
                      AcceptOk(session, nextKey, 0), Expire(session)}
    BY DEF EstablishSession, List
  <2>2. nextKey \in Nat /\ 0 \in Nat BY <1>2
  <2> QED BY <1>2, <2>1, <2>2, SessionMoves
<1> QED BY <1>2, <1>3, <1>4, <1>5, Aside

(* The user's edits are UI callbacks of Vault and move no request.         *)
LEMMA UserStepKeeps ==
  ASSUME EInv, IInv, UserStep
  PROVE  EInv' /\ IInv' /\ DiskKept /\ OwedStep
<1>1. UNCHANGED <<session, nextKey, req, result, status>> BY DEF UserStep, engineVars
<1>2. (\/ \E o \in Origins, u \in Usernames : SaveNew(o, u, 0)
       \/ \E id \in Ids(records), u \in Usernames : EditSave(id, u, 0, FALSE)
       \/ \E id \in Ids(records), a \in BOOLEAN : Archive(id, a))
      \/ \E id \in Ids(records) : DeleteForever(id)
  BY DEF UserStep
<1>3. 0 \in Nat /\ FALSE \in BOOLEAN /\ Types BY DEF IInv
<1>4. IInv' /\ DiskKept /\ OwedStep
  BY <1>2, <1>3, SaveNewKeeps, EditSaveKeeps, ArchiveKeeps, DeleteForeverKeeps
<1>5. \A q \in Committers : commit'[q].pc = commit[q].pc
  <2>1. CASE \E id \in Ids(records) : DeleteForever(id)
    <3>1. PICK id : DeleteForever(id) BY <2>1
    <3>2. CASE commit' = commit BY <3>2
    <3>3. CASE owed' = Forget(id) /\ commit' = ForgetCommits(id)
      <4>1. Forgets({id}) BY <1>3, <3>3, ForgetsOne
      <4> QED BY <4>1 DEF Forgets
    <3> QED BY <3>1, <3>2, <3>3 DEF DeleteForever
  <2>2. CASE commit' = commit BY <2>2
  <2> QED BY <1>2, <2>1, <2>2 DEF SaveNew, EditSave, Archive
<1>6. EngineTypes BY DEF EInv
<1>7. EInv' BY <1>1, <1>5, <1>6, EngineAssumption, Aside DEF EngineTypes
<1> QED BY <1>4, <1>7

LEMMA ArriveKeeps ==
  ASSUME EInv, NEW r \in Reqs, NEW kind \in {"release", "store", "generate"}, NEW o \in Origins,
         NEW u \in Usernames \cup {NoHint}, NEW k \in 1..MaxKeys, Arrive(r, kind, o, u, k)
  PROVE  EInv'
<1>1. EngineTypes /\ Consented /\ InCommit BY DEF EInv
<1>2. /\ req[r].pc = "new" /\ (u = NoHint => kind = "release")
      /\ UNCHANGED <<vars, session, nextKey, result, status>>
  BY DEF Arrive
<1>3. PICK n \in Requests : n = NewReq BY NewReqIs
<1>4. PICK x : x = [n EXCEPT !.pc = "arrived", !.kind = kind, !.o = o, !.u = u, !.key = k] OBVIOUS
<1>5. req' = [req EXCEPT ![r] = x] BY <1>3, <1>4 DEF Arrive
<1>6. n.password = 0 BY <1>3, NewReqIs
<1>7. k \in Nat BY EngineAssumption
<1>8. x \in Requests /\ x.pc = "arrived" /\ x.kind = kind /\ x.o = o /\ x.u = u /\ x.password = 0
  BY <1>4, <1>6, <1>7 DEF Requests, Pcs
<1>9. result \in [Reqs -> Results] /\ status \in [Reqs -> Statuses] BY <1>1 DEF EngineTypes
<1>10. PICK what \in Results : what = result[r] BY <1>9
<1>11. result' = [result EXCEPT ![r] = what] BY <1>2, <1>9, <1>10
<1>12. /\ status' = status /\ commit' = commit /\ nextKey' = nextKey /\ session' \in Sessions
  BY <1>1, <1>2 DEF EngineTypes, vars
<1>13. what \in {"Released"} \cup Stored => status'[r] = "Approve"
  BY <1>1, <1>10, <1>12 DEF Consented
<1>14. commit'[r].pc = "idle" /\ x.pc \notin AfterConsent /\ x.pc \notin Writing
  BY <1>1, <1>2, <1>8, <1>12 DEF InCommit, AfterConsent, Writing
<1>15. x.kind # "release" => x.u \in Usernames BY <1>2, <1>8
<1>16. status' \in [Reqs -> Statuses] BY <1>9, <1>12
<1> QED BY <1>5, <1>8, <1>11, <1>12, <1>13, <1>14, <1>15, <1>16, Moved

LEMMA GateKeeps ==
  ASSUME EInv, NEW r \in Reqs, NEW n \in {session.last_nonce, session.last_nonce + 1}, Gate(r, n)
  PROVE  EInv'
<1>1. EngineTypes /\ WellFormed /\ Consented /\ InCommit BY DEF EInv
<1>2. /\ req[r].pc = "arrived" /\ UNCHANGED <<vars, nextKey, status>> BY DEF Gate
<1>3. session \in Sessions /\ req \in [Reqs -> Requests] /\ nextKey \in Nat BY <1>1 DEF EngineTypes
<1>4. n \in Nat /\ 0 \in Nat
  <2>1. session.last_nonce \in Nat BY <1>3 DEF Sessions
  <2> QED BY <2>1
<1>5. session' \in Sessions
  <2>1. session' \in {session, Expire(session), AcceptNonce(session, n, 0)} BY DEF Gate
  <2> QED BY <1>3, <1>4, <2>1, SessionMoves
<1>6. \/ \E what \in Errors : Respond(r, what)
      \/ /\ req' = [req EXCEPT ![r].gate = session.key,
                      ![r].pc = IF req[r].kind = "store" THEN "open" ELSE "lookup"]
         /\ UNCHANGED result
  <2>1. {"SessionExpired", "NonceReused", "BadPolicy"} \subseteq Errors BY DEF Errors
  <2> QED BY <2>1 DEF Gate
<1>7. CASE \E what \in Errors : Respond(r, what) BY <1>2, <1>5, <1>7, Answered
<1>8. CASE /\ req' = [req EXCEPT ![r].gate = session.key,
                        ![r].pc = IF req[r].kind = "store" THEN "open" ELSE "lookup"]
           /\ UNCHANGED result
  <2>1. PICK s \in Requests : s = req[r] BY <1>3
  <2>2. PICK p \in {"open", "lookup"} : p = IF s.kind = "store" THEN "open" ELSE "lookup" OBVIOUS
  <2>3. PICK g \in Nat : g = session.key BY <1>3 DEF Sessions
  <2>4. PICK x : x = [s EXCEPT !.gate = g, !.pc = p] OBVIOUS
  <2>5. x \in Requests /\ x.pc = p /\ x.kind = s.kind /\ x.o = s.o /\ x.u = s.u
        /\ x.password = s.password
    BY <2>4 DEF Requests, Pcs
  <2>6. req' = [req EXCEPT ![r] = x] BY <1>3, <1>8, <2>1, <2>2, <2>3, <2>4
  <2>7. result \in [Reqs -> Results] /\ status \in [Reqs -> Statuses] BY <1>1 DEF EngineTypes
  <2>8. PICK what \in Results : what = result[r] BY <2>7
  <2>9. result' = [result EXCEPT ![r] = what] BY <1>8, <2>7, <2>8
  <2>10. status' = status /\ commit' = commit /\ nextKey' = nextKey BY <1>2 DEF vars
  <2>11. ~(what \notin {"Released"} \cup Stored /\ (x.kind # "release" => x.password = 0))
           => status'[r] = "Approve"
    BY <1>1, <2>1, <2>5, <2>8, <2>10 DEF Consented, Writes
  <2>12. /\ commit'[r].pc = "idle" /\ x.pc \notin {"new", "persist", "rollback"}
         /\ x.pc \notin AfterConsent /\ x.pc \notin Writing
    BY <1>1, <1>2, <2>5, <2>10 DEF InCommit, AfterConsent, Writing
  <2>13. x.o \in Origins /\ (x.kind # "release" => x.u \in Usernames)
    BY <1>1, <1>2, <2>1, <2>5 DEF WellFormed
  <2>14. status' \in [Reqs -> Statuses] BY <2>7, <2>10
  <2> QED BY <1>5, <2>5, <2>6, <2>9, <2>10, <2>11, <2>12, <2>13, <2>14, Moved
<1> QED BY <1>6, <1>7, <1>8

LEMMA OpenPasswordKeeps ==
  ASSUME EInv, NEW r \in Reqs, OpenPassword(r)
  PROVE  EInv'
<1>1. req[r].pc = "open" /\ UNCHANGED <<vars, session, nextKey, status>> BY DEF OpenPassword
<1>2. session' \in Sessions BY <1>1 DEF EInv, EngineTypes
<1>3. Goto(r, "lookup") \/ \E what \in Errors : Respond(r, what)
  <2>1. {"InvalidRequest", "Internal", "SessionExpired"} \subseteq Errors BY DEF Errors
  <2> QED BY <2>1 DEF OpenPassword
<1>4. /\ "lookup" \in Pcs \ {"new", "persist", "rollback"} /\ "lookup" \notin AfterConsent
      /\ "lookup" \notin Writing
  BY DEF Pcs, AfterConsent, Writing
<1> QED BY <1>1, <1>2, <1>3, <1>4, Answered, Went

LEMMA ResumeKeeps ==
  ASSUME EInv, NEW r \in Reqs, Resume(r)
  PROVE  EInv'
<1>1. req[r].pc = "asked" /\ UNCHANGED <<vars, session, nextKey, status>> BY DEF Resume
<1>2. session' \in Sessions BY <1>1 DEF EInv, EngineTypes
<1>3. \/ \E what \in Errors : Respond(r, what)
      \/ /\ status[r] = "Approve"
         /\ \E p \in {"seal", "commit"} : Goto(r, p) /\ (p = "commit" => req[r].kind # "release")
  <2>1. {"UserRejected", "Timeout"} \subseteq Errors BY DEF Errors
  <2> QED BY <2>1 DEF Resume
<1>4. /\ {"seal", "commit"} \subseteq Pcs \ {"new", "persist", "rollback"} /\ "seal" \notin Writing
  BY DEF Pcs, Writing
<1> QED BY <1>1, <1>2, <1>3, <1>4, Answered, Went

LEMMA InvalidKeeps == ASSUME EInv, NEW r \in Reqs, Invalid(r) PROVE EInv'
<1>1. /\ req[r].pc = "arrived" /\ UNCHANGED <<vars, session, nextKey, status>>
      /\ Respond(r, "InvalidRequest")
  BY DEF Invalid
<1>2. session' \in Sessions /\ "InvalidRequest" \in Errors BY <1>1 DEF EInv, EngineTypes, Errors
<1> QED BY <1>1, <1>2, Answered

(* An approval is asked for: from now on the request may have any found,   *)
(* and a release the login's username and password.                        *)
LEMMA Asked ==
  ASSUME EInv, NEW r \in Reqs, req[r].pc = "lookup", A!Ask(r),
         UNCHANGED <<vars, session, nextKey, result>>,
         NEW x \in Requests, req' = [req EXCEPT ![r] = x], x.pc = "asked",
         x.kind = req[r].kind, x.o = req[r].o, x.kind # "release" => x.u = req[r].u,
         x.kind # "release" => x.password = req[r].password
  PROVE  EInv'
<1>1. EngineTypes /\ WellFormed /\ Consented /\ InCommit BY DEF EInv
<1>2. /\ req \in [Reqs -> Requests] /\ result \in [Reqs -> Results]
      /\ status \in [Reqs -> Statuses] /\ session \in Sessions
  BY <1>1 DEF EngineTypes
<1>3. status[r] = "new" /\ status' = [status EXCEPT ![r] = "waiting"] BY DEF A!Ask
<1>4. status' \in [Reqs -> Statuses] BY <1>2, <1>3 DEF Statuses
<1>5. \A q \in Reqs : status[q] = "Approve" => status'[q] = "Approve" BY <1>2, <1>3
<1>6. PICK what \in Results : what = result[r] BY <1>2
<1>7. result' = [result EXCEPT ![r] = what] BY <1>2, <1>6
<1>8. commit' = commit /\ nextKey' = nextKey /\ session' \in Sessions BY <1>2 DEF vars
<1>9. x.pc \notin AfterConsent /\ x.pc \notin Writing BY DEF AfterConsent, Writing
<1>10. what \notin {"Released"} \cup Stored /\ (x.kind # "release" => x.password = 0)
  BY <1>1, <1>3, <1>6 DEF Consented, Writes
<1>11. commit'[r].pc = "idle" BY <1>1, <1>8 DEF InCommit
<1>12. x.o \in Origins /\ (x.kind # "release" => x.u \in Usernames) BY <1>1 DEF WellFormed
<1> QED BY <1>4, <1>5, <1>7, <1>8, <1>9, <1>10, <1>11, <1>12, Moved

LEMMA LookupKeeps == ASSUME EInv, IInv, NEW r \in Reqs, Lookup(r) PROVE EInv'
<1> DEFINE live == LivePositions(records, req[r].o)
           i == IF req[r].u # NoHint THEN PosOfLive(records, req[r].o, req[r].u) ELSE First(live)
<1>1. req[r].pc = "lookup" /\ req[r].kind = "release" /\ UNCHANGED <<vars, session, nextKey>>
  BY DEF Lookup
<1>2. records \in Seq(CredentialRecord) BY DEF IInv, Drawn, DrawnBefore, Sound
<1>3. i # 0 => i \in DOMAIN records
  <2>1. live \in SUBSET DOMAIN records BY DEF LivePositions
  <2>2. First(live) # 0 => First(live) \in DOMAIN records BY <1>2, <2>1, FirstOfPositions
  <2> DEFINE S == {j \in DOMAIN records : /\ records[j].origin = req[r].o
                                          /\ records[j].username = req[r].u
                                          /\ ~records[j].archived}
  <2>3. S \in SUBSET DOMAIN records /\ PosOfLive(records, req[r].o, req[r].u) = First(S)
    BY DEF PosOfLive
  <2> HIDE DEF S
  <2>4. First(S) # 0 => First(S) \in DOMAIN records BY <1>2, <2>3, FirstOfPositions
  <2> QED BY <2>2, <2>3, <2>4
<1>4. \/ (\E what \in Errors : Respond(r, what)) /\ UNCHANGED status
      \/ /\ i # 0 /\ A!Ask(r) /\ UNCHANGED result
         /\ req' = [req EXCEPT ![r].pc = "asked", ![r].u = records[i].username,
                               ![r].password = records[i].password]
  <2>1. {"UnknownOrigin", "MultipleMatches"} \subseteq Errors BY DEF Errors
  <2> QED BY <2>1 DEF Lookup
<1> HIDE DEF i
<1>5. CASE (\E what \in Errors : Respond(r, what)) /\ UNCHANGED status
  <2>1. session' \in Sessions BY <1>1 DEF EInv, EngineTypes
  <2> QED BY <1>1, <1>5, <2>1, Answered
<1>6. CASE /\ i # 0 /\ A!Ask(r) /\ UNCHANGED result
           /\ req' = [req EXCEPT ![r].pc = "asked", ![r].u = records[i].username,
                                 ![r].password = records[i].password]
  <2>1. req \in [Reqs -> Requests] BY DEF EInv, EngineTypes
  <2>2. PICK s \in Requests : s = req[r] BY <2>1
  <2>3. records[i].username \in Usernames /\ records[i].password \in Nat BY <1>2, <1>3, <1>6, Fields
  <2>4. PICK u \in Usernames : u = records[i].username BY <2>3
  <2>5. PICK p \in Nat : p = records[i].password BY <2>3
  <2>6. PICK x : x = [s EXCEPT !.pc = "asked", !.u = u, !.password = p] OBVIOUS
  <2>7. x \in Requests /\ x.pc = "asked" /\ x.kind = s.kind /\ x.o = s.o
    BY <2>6 DEF Requests, Pcs
  <2>8. req' = [req EXCEPT ![r] = x] BY <1>6, <2>1, <2>2, <2>4, <2>5, <2>6
  <2> QED BY <1>1, <1>6, <2>2, <2>7, <2>8, Asked
<1> QED BY <1>4, <1>5, <1>6

LEMMA StandingIs ==
  ASSUME NEW recs \in Seq(CredentialRecord), NEW o, NEW u
  PROVE  Standing(recs, o, u) \in Standings
<1> DEFINE S == {i \in DOMAIN recs : recs[i].origin = o /\ recs[i].username = u}
<1>1. S \in SUBSET Nat /\ S \subseteq DOMAIN recs OBVIOUS
<1>2. \A i \in S : recs[i].archived \in BOOLEAN BY Fields
<1>3. Standing(recs, o, u) = [i \in S |-> recs[i].archived] BY DEF Standing
<1> HIDE DEF S
<1>4. Standing(recs, o, u) \in [S -> BOOLEAN] BY <1>2, <1>3
<1> QED BY <1>1, <1>4 DEF Standings

LEMMA ProbeAndAskMoves ==
  ASSUME EngineTypes, IInv, NEW r \in Reqs, ProbeAndAsk(r)
  PROVE  \E x \in Requests :
           /\ req' = [req EXCEPT ![r] = x] /\ x.pc = "asked" /\ x.kind = req[r].kind
           /\ x.o = req[r].o /\ x.u = req[r].u /\ x.password = req[r].password
           /\ x.found = Probe(records, x.o, x.u) /\ x.seen = Standing(records, x.o, x.u)
<1>1. req \in [Reqs -> Requests] /\ records \in Seq(CredentialRecord)
  BY DEF EngineTypes, IInv, Drawn, DrawnBefore, Sound
<1>2. PICK s \in Requests : s = req[r] BY <1>1
<1>3. PICK f \in {"None", "Live", "Archived"} : f = Probe(records, s.o, s.u) BY DEF Probe
<1>4. PICK h \in Standings : h = Standing(records, s.o, s.u) BY <1>1, StandingIs
<1>5. PICK x : x = [s EXCEPT !.pc = "asked", !.found = f, !.seen = h] OBVIOUS
<1>6. /\ x \in Requests /\ x.pc = "asked" /\ x.kind = s.kind /\ x.o = s.o /\ x.u = s.u
      /\ x.password = s.password /\ x.found = f /\ x.seen = h
  BY <1>5 DEF Requests, Pcs
<1>7. req' = [req EXCEPT ![r] = x] BY <1>1, <1>2, <1>3, <1>4, <1>5 DEF ProbeAndAsk
<1> QED BY <1>2, <1>3, <1>4, <1>6, <1>7

LEMMA ProbeAndAskKeeps == ASSUME EInv, IInv, NEW r \in Reqs, ProbeAndAsk(r) PROVE EInv'
<1>1. /\ req[r].pc = "lookup" /\ A!Ask(r) /\ UNCHANGED <<vars, session, nextKey, result>>
  BY DEF ProbeAndAsk
<1>2. EngineTypes BY DEF EInv
<1>3. PICK x \in Requests :
           /\ req' = [req EXCEPT ![r] = x] /\ x.pc = "asked" /\ x.kind = req[r].kind
           /\ x.o = req[r].o /\ x.u = req[r].u /\ x.password = req[r].password
  BY <1>2, ProbeAndAskMoves
<1> QED BY <1>1, <1>3, Asked

(* Upsert does to the vault what the probe of it says.                     *)
LEMMA EffectOfUpsert ==
  ASSUME NEW recs \in Seq(CredentialRecord), NEW o, NEW u, NEW p, NEW id
  PROVE  Effect(recs, Upsert(recs, o, u, p, id)) = StoreAction(Probe(recs, o, u))
<1> DEFINE i == PosOfLogin(recs, o, u)
<1>1. PICK new : new = Upsert(recs, o, u, p, id) OBVIOUS
<1>2. i # 0 => i \in DOMAIN recs BY PosOfLoginFinds
<1>3. Len(recs) \in Nat OBVIOUS
<1>4. CASE i = 0
  <2>1. PICK r : new = Append(recs, r) BY <1>1, <1>4 DEF Upsert
  <2>2. Len(new) = Len(recs) + 1
    <3>1. recs \in Seq(CredentialRecord \cup {r}) /\ r \in CredentialRecord \cup {r} OBVIOUS
    <3> QED BY <2>1, <3>1
  <2>3. Len(new) > Len(recs) BY <1>3, <2>2
  <2>4. Effect(recs, new) = "Saved" BY <2>3 DEF Effect
  <2>5. StoreAction(Probe(recs, o, u)) = "Saved" BY <1>4 DEF Probe, StoreAction
  <2> QED BY <1>1, <2>4, <2>5
<1>5. CASE i # 0
  <2>1. PICK k \in DOMAIN recs : k = i BY <1>2, <1>5
  <2>2. new = [recs EXCEPT ![k] = [@ EXCEPT !.password = p, !.archived = FALSE]]
    BY <1>1, <1>5, <2>1 DEF Upsert
  <2>3. PICK s \in CredentialRecord : s = recs[k] BY <2>1
  <2>4. PICK r : r = [s EXCEPT !.password = p, !.archived = FALSE] OBVIOUS
  <2>5. r.archived = FALSE BY <2>4 DEF CredentialRecord
  <2>6. new = [recs EXCEPT ![k] = r] BY <2>2, <2>3, <2>4
  <2>7. /\ DOMAIN new = DOMAIN recs /\ new[k] = r
        /\ \A j \in DOMAIN recs : j # k => new[j] = recs[j]
    BY <2>6
  <2>8. Len(new) = Len(recs)
    <3>1. new \in Seq(CredentialRecord \cup {r}) BY <2>6
    <3> QED BY <2>7, <3>1
  <2>9. ~(Len(new) > Len(recs)) BY <1>3, <2>8
  <2>10. (\E j \in DOMAIN recs : recs[j].archived /\ ~new[j].archived) <=> recs[k].archived
    BY <2>5, <2>7
  <2>11. CASE recs[k].archived
    <3>1. Effect(recs, new) = "RestoredAndUpdated" BY <2>9, <2>10, <2>11 DEF Effect
    <3>2. Probe(recs, o, u) = "Archived" BY <1>5, <2>1, <2>11 DEF Probe
    <3>3. StoreAction("Archived") = "RestoredAndUpdated" BY DEF StoreAction
    <3> QED BY <1>1, <3>1, <3>2, <3>3
  <2>12. CASE ~recs[k].archived
    <3>1. Effect(recs, new) = "Updated" BY <2>9, <2>10, <2>12 DEF Effect
    <3>2. Probe(recs, o, u) = "Live" BY <1>5, <2>1, <2>12 DEF Probe
    <3>3. StoreAction("Live") = "Updated" BY DEF StoreAction
    <3> QED BY <1>1, <3>1, <3>2, <3>3
  <2> QED BY <2>11, <2>12
<1> QED BY <1>4, <1>5

LEMMA MutateMoves ==
  ASSUME EInv, IInv, NEW r \in Reqs, Mutate(r)
  PROVE  /\ r \in Committers /\ req[r].o \in Origins /\ req[r].u \in Usernames
         /\ \E x \in Requests :
              /\ req' = [req EXCEPT ![r] = x] /\ x.pc = "persist" /\ x.kind = req[r].kind
              /\ x.o = req[r].o /\ x.u = req[r].u /\ x.found = req[r].found
              /\ x.password = commit'[r].password
              /\ x.did = StoreAction(Probe(records, x.o, x.u))
              /\ ~x.moved => Standing(records, x.o, x.u) = req[r].seen
<1>1. EngineTypes /\ WellFormed BY DEF EInv
<1>2. req \in [Reqs -> Requests] BY <1>1 DEF EngineTypes
<1>3. PICK s \in Requests : s = req[r] BY <1>2
<1>4. s.pc = "commit" /\ CommitMutate(r, s.o, s.u) BY <1>3 DEF Mutate
<1>5. r \in Committers /\ s.o \in Origins /\ s.u \in Usernames
  BY <1>1, <1>3, <1>4, EngineAssumption DEF WellFormed, Writing
<1>6. commit' \in [Committers -> Commits] BY <1>4, <1>5, CommitMutateWrites
<1>7. commit'[r].password \in Nat
  <2>1. \A c \in Commits : c.password \in Nat BY DEF Commits
  <2> QED BY <1>5, <1>6, <2>1
<1>8. PICK p \in Nat : p = commit'[r].password BY <1>7
<1>9. PICK d \in Stored : d = StoreAction(Probe(records, s.o, s.u)) BY StoreActionIsStored
<1>10. Effect(records, records') = d
  <2>1. records \in Seq(CredentialRecord) BY DEF IInv, Drawn, DrawnBefore, Sound
  <2>2. PICK f, g : records' = Upsert(records, s.o, s.u, f, g) BY <1>4 DEF CommitMutate
  <2> QED BY <1>9, <2>1, <2>2, EffectOfUpsert
<1>11. PICK n \in Standings : n = NewReq.seen
  <2>1. \A y \in Requests : y.seen \in Standings BY DEF Requests
  <2> QED BY <2>1, NewReqIs
<1>12. PICK m \in BOOLEAN : m = (Standing(records, s.o, s.u) # s.seen) OBVIOUS
<1>13. PICK x : x = [s EXCEPT !.pc = "persist", !.password = p, !.did = d, !.seen = n, !.moved = m]
  OBVIOUS
<1>14. /\ x \in Requests /\ x.pc = "persist" /\ x.kind = s.kind /\ x.o = s.o /\ x.u = s.u
       /\ x.found = s.found /\ x.password = p /\ x.did = d /\ x.moved = m
  BY <1>13 DEF Requests, Pcs
<1>15. req' = [req EXCEPT ![r] = x]
  BY <1>2, <1>3, <1>8, <1>10, <1>11, <1>12, <1>13 DEF Mutate
<1>16. ~m => Standing(records, s.o, s.u) = s.seen BY <1>12
<1> QED BY <1>3, <1>5, <1>8, <1>9, <1>14, <1>15, <1>16

LEMMA MutateKeeps ==
  ASSUME EInv, IInv, NEW r \in Reqs, Mutate(r)
  PROVE  EInv' /\ IInv' /\ DiskKept /\ OwedStep
<1>1. EngineTypes /\ WellFormed /\ Consented /\ InCommit BY DEF EInv
<1>2. /\ req[r].pc = "commit" /\ CommitMutate(r, req[r].o, req[r].u)
      /\ UNCHANGED <<session, nextKey, result, status>>
  BY DEF Mutate
<1>3. r \in Committers /\ req[r].o \in Origins /\ req[r].u \in Usernames BY MutateMoves
<1>4. PICK x \in Requests :
              /\ req' = [req EXCEPT ![r] = x] /\ x.pc = "persist" /\ x.kind = req[r].kind
              /\ x.o = req[r].o /\ x.u = req[r].u
  BY MutateMoves
<1>5. commit'[r].pc = "mutated" /\ \A q \in Reqs : q # r => commit'[q].pc = commit[q].pc
  BY <1>2, <1>3, EngineAssumption, CommitMutateWrites
<1>6. status[r] = "Approve" /\ x.kind # "release" BY <1>1, <1>2, <1>4
  DEF Consented, AfterConsent, Writing, WellFormed
<1>7. result \in [Reqs -> Results] /\ status \in [Reqs -> Statuses] /\ session \in Sessions
  BY <1>1 DEF EngineTypes
<1>8. PICK what \in Results : what = result[r] BY <1>7
<1>9. result' = [result EXCEPT ![r] = what] BY <1>2, <1>7, <1>8
<1>10. EInv' BY <1>2, <1>3, <1>4, <1>5, <1>6, <1>7, <1>9, Moved
<1>11. IInv' /\ OwedStep BY <1>2, <1>3, CommitMutateKeeps
<1>12. disk' = disk BY <1>2 DEF CommitMutate
<1> QED BY <1>10, <1>11, <1>12, DiskAlone

(* A request that only moves on, in the terms of Moved.                    *)
LEMMA EndsAs ==
  ASSUME EInv, NEW r \in Reqs, NEW p \in Pcs, req' = [req EXCEPT ![r].pc = p]
  PROVE  \E x \in Requests :
           /\ req' = [req EXCEPT ![r] = x] /\ x.pc = p /\ x.kind = req[r].kind
           /\ x.o = req[r].o /\ x.u = req[r].u /\ x.found = req[r].found
           /\ x.password = req[r].password /\ x.did = req[r].did
           /\ x.seen = req[r].seen /\ x.moved = req[r].moved
<1>1. req \in [Reqs -> Requests] BY DEF EInv, EngineTypes
<1>2. PICK s \in Requests : s = req[r] BY <1>1
<1>3. PICK x : x = [s EXCEPT !.pc = p] OBVIOUS
<1>4. /\ x \in Requests /\ x.pc = p /\ x.kind = s.kind /\ x.o = s.o /\ x.u = s.u
      /\ x.found = s.found /\ x.password = s.password /\ x.did = s.did
      /\ x.seen = s.seen /\ x.moved = s.moved
  BY <1>3, PcMoves
<1>5. req' = [req EXCEPT ![r] = x] BY <1>1, <1>2, <1>3
<1> QED BY <1>2, <1>4, <1>5

(* The end of a commit, or of a request that was approved.                 *)
LEMMA ApprovedMoves ==
  ASSUME EInv, NEW r \in Reqs, req[r].pc \in AfterConsent, NEW p \in {"rollback", "seal", "done"},
         NEW what \in Results, req' = [req EXCEPT ![r].pc = p],
         result' = [result EXCEPT ![r] = what] \/ (result' = result /\ what = result[r]),
         UNCHANGED <<session, nextKey, status>>, req[r].kind = "release" => p # "rollback",
         \A q \in Reqs : q # r => commit'[q].pc = commit[q].pc,
         commit'[r].pc = IF p = "rollback" THEN "failed" ELSE "idle"
  PROVE  EInv'
<1>1. EngineTypes /\ WellFormed /\ Consented /\ InCommit BY DEF EInv
<1>2. p \in Pcs BY DEF Pcs
<1>3. result' = [result EXCEPT ![r] = what] BY <1>1 DEF EngineTypes
<1>4. PICK x \in Requests :
        /\ req' = [req EXCEPT ![r] = x] /\ x.pc = p /\ x.kind = req[r].kind
        /\ x.o = req[r].o /\ x.u = req[r].u /\ x.found = req[r].found
        /\ x.password = req[r].password /\ x.did = req[r].did
        /\ x.seen = req[r].seen /\ x.moved = req[r].moved
  BY <1>2, EndsAs, Zenon
<1>5. req[r].pc # "new" BY DEF AfterConsent, Writing
<1>6. status[r] = "Approve" /\ x.o \in Origins /\ (x.kind # "release" => x.u \in Usernames)
  BY <1>1, <1>4, <1>5 DEF Consented, WellFormed
<1>7. x.pc \in Writing => x.kind # "release" BY <1>4 DEF Writing
<1>8. status \in [Reqs -> Statuses] /\ session \in Sessions BY <1>1 DEF EngineTypes
<1> QED BY <1>3, <1>4, <1>6, <1>7, <1>8, Moved

LEMMA PersistKeeps ==
  ASSUME EInv, IInv, NEW r \in Reqs, Persist(r)
  PROVE  EInv' /\ IInv' /\ DiskKept /\ OwedStep
<1>1. WellFormed /\ EngineTypes /\ Types BY DEF EInv, IInv
<1>2. /\ req[r].pc = "persist" /\ CommitPersist(r) /\ UNCHANGED <<session, nextKey, status>>
      /\ r \in Committers
  BY EngineAssumption DEF Persist
<1>3. /\ \A q \in Reqs : q # r => commit'[q].pc = commit[q].pc
      /\ commit'[r].pc \in {"idle", "failed"}
  BY <1>1, <1>2, EngineAssumption, CommitPersistEnds
<1>4. req[r].pc \in AfterConsent /\ req[r].kind # "release"
  BY <1>1, <1>2 DEF WellFormed, AfterConsent, Writing
<1>5. StoreAction(req[r].found) \in Results BY StoreActionIsStored DEF Results
<1>6. result[r] \in Results BY <1>1 DEF EngineTypes
<1>7. CASE commit'[r].pc = "failed"
  <2>1. Goto(r, "rollback") BY <1>7 DEF Persist
  <2>2. req' = [req EXCEPT ![r].pc = "rollback"] /\ result' = result BY <2>1 DEF Goto
  <2> QED BY <1>2, <1>3, <1>4, <1>6, <1>7, <2>2, ApprovedMoves, CommitPersistKeeps
<1>8. CASE commit'[r].pc = "idle" /\ req[r].kind = "store"
  <2>1. Respond(r, StoreAction(req[r].found)) BY <1>8 DEF Persist
  <2>2. /\ req' = [req EXCEPT ![r].pc = "done"]
        /\ result' = [result EXCEPT ![r] = StoreAction(req[r].found)]
    BY <2>1 DEF Respond
  <2> QED BY <1>2, <1>3, <1>4, <1>5, <1>8, <2>2, ApprovedMoves, CommitPersistKeeps
<1>9. CASE commit'[r].pc = "idle" /\ req[r].kind # "store"
  <2>1. Goto(r, "seal") BY <1>9 DEF Persist
  <2>2. req' = [req EXCEPT ![r].pc = "seal"] /\ result' = result BY <2>1 DEF Goto
  <2> QED BY <1>2, <1>3, <1>4, <1>6, <1>9, <2>2, ApprovedMoves, CommitPersistKeeps
<1> QED BY <1>3, <1>7, <1>8, <1>9

LEMMA RollbackKeeps ==
  ASSUME EInv, IInv, NEW r \in Reqs, Rollback(r)
  PROVE  EInv' /\ IInv' /\ DiskKept /\ OwedStep
<1>1. /\ req[r].pc = "rollback" /\ CommitRollback(r) /\ UNCHANGED <<session, nextKey, status>>
      /\ r \in Committers /\ Respond(r, "Internal")
  BY EngineAssumption DEF Rollback
<1>2. commit' = [commit EXCEPT ![r] = NoCommit] /\ disk' = disk BY <1>1 DEF CommitRollback
<1>3. commit \in [Committers -> Commits] BY DEF IInv, Types
<1>4. commit'[r].pc = "idle" /\ \A q \in Reqs : q # r => commit'[q].pc = commit[q].pc
  BY <1>1, <1>2, <1>3, EngineAssumption, NothingUnderWay
<1>5. req' = [req EXCEPT ![r].pc = "done"] /\ result' = [result EXCEPT ![r] = "Internal"]
  BY <1>1 DEF Respond
<1>6. "Internal" \in Results /\ req[r].pc \in AfterConsent
  BY <1>1 DEF Results, Errors, AfterConsent, Writing
<1>7. EInv' BY <1>1, <1>4, <1>5, <1>6, ApprovedMoves
<1>8. IInv' /\ OwedStep BY <1>1, CommitRollbackKeeps
<1> QED BY <1>2, <1>7, <1>8, DiskAlone

LEMMA SealKeeps == ASSUME EInv, NEW r \in Reqs, Seal(r) PROVE EInv'
<1>1. EngineTypes /\ WellFormed /\ Consented /\ InCommit BY DEF EInv
<1>2. req[r].pc = "seal" /\ UNCHANGED <<vars, session, nextKey, status>> BY DEF Seal
<1>3. commit' = commit /\ commit[r].pc = "idle" BY <1>1, <1>2 DEF vars, InCommit
<1>4. req[r].pc \in AfterConsent BY <1>2 DEF AfterConsent
<1>5. CASE ~CanSeal(session)
  <2>1. Respond(r, "SessionExpired") BY <1>5 DEF Seal
  <2>2. req' = [req EXCEPT ![r].pc = "done"] /\ result' = [result EXCEPT ![r] = "SessionExpired"]
    BY <2>1 DEF Respond
  <2>3. "SessionExpired" \in Results BY DEF Results, Errors
  <2> QED BY <1>2, <1>3, <1>4, <2>2, <2>3, ApprovedMoves
<1>6. CASE CanSeal(session)
  <2>1. req \in [Reqs -> Requests] /\ session \in Sessions BY <1>1 DEF EngineTypes
  <2>2. PICK s \in Requests : s = req[r] BY <2>1
  <2>3. PICK g \in Nat : g = session.key BY <2>1 DEF Sessions
  <2>4. PICK x : x = [s EXCEPT !.pc = "done", !.sealed = g] OBVIOUS
  <2>5. /\ x \in Requests /\ x.pc = "done" /\ x.kind = s.kind /\ x.o = s.o /\ x.u = s.u
        /\ x.password = s.password
    BY <2>4 DEF Requests, Pcs
  <2>6. req' = [req EXCEPT ![r] = x] BY <1>6, <2>1, <2>2, <2>3, <2>4 DEF Seal
  <2>7. PICK what \in Results :
          what = IF req[r].kind = "release" THEN "Released" ELSE StoreAction(req[r].found)
    BY StoreActionIsStored DEF Results
  <2>8. result' = [result EXCEPT ![r] = what] BY <1>6, <2>7 DEF Seal
  <2>9. status[r] = "Approve" /\ x.o \in Origins /\ (x.kind # "release" => x.u \in Usernames)
    BY <1>1, <1>2, <1>4, <2>2, <2>5 DEF Consented, WellFormed
  <2>10. x.pc \notin Writing BY <2>5 DEF Writing
  <2>11. status \in [Reqs -> Statuses] BY <1>1 DEF EngineTypes
  <2> QED BY <1>2, <1>3, <2>1, <2>5, <2>6, <2>8, <2>9, <2>10, <2>11, Moved
<1> QED BY <1>5, <1>6

LEMMA EngineStutter ==
  ASSUME EInv, IInv, UNCHANGED vars
  PROVE  IInv' /\ DiskKept /\ OwedStep
<1>1. disk' = disk BY DEF vars
<1> QED BY <1>1, StutterKeeps, DiskAlone

LEMMA EngineStepKeeps ==
  ASSUME EInv, IInv, NEW r \in Reqs, EngineStep(r)
  PROVE  EInv' /\ IInv' /\ DiskKept /\ OwedStep
<1>1. CASE Mutate(r) \/ Persist(r) \/ Rollback(r)
  BY <1>1, MutateKeeps, PersistKeeps, RollbackKeeps
<1>2. CASE Invalid(r) \/ OpenPassword(r) \/ Lookup(r) \/ ProbeAndAsk(r) \/ Resume(r) \/ Seal(r)
  <2>1. UNCHANGED vars
    BY <1>2 DEF Invalid, OpenPassword, Lookup, ProbeAndAsk, Resume, Seal
  <2>2. EInv'
    BY <1>2, InvalidKeeps, OpenPasswordKeeps, LookupKeeps, ProbeAndAskKeeps, ResumeKeeps, SealKeeps
  <2> QED BY <2>1, <2>2, EngineStutter
<1>3. ASSUME NEW n \in {session.last_nonce, session.last_nonce + 1}, Gate(r, n)
      PROVE  EInv' /\ IInv' /\ DiskKept /\ OwedStep
  <2>1. UNCHANGED vars BY <1>3 DEF Gate
  <2>2. EInv' BY <1>3, GateKeeps
  <2> QED BY <2>1, <2>2, EngineStutter
<1> QED BY <1>1, <1>2, <1>3 DEF EngineStep

LEMMA EngineNextKeeps == EInv /\ IInv /\ [EngineNext]_allVars => EInv' /\ IInv' /\ DiskKept /\ OwedStep
<1> SUFFICES ASSUME EInv, IInv, [EngineNext]_allVars PROVE EInv' /\ IInv' /\ DiskKept /\ OwedStep
  OBVIOUS
<1>1. CASE EstablishSession \/ List
  <2>1. UNCHANGED vars BY <1>1 DEF EstablishSession, List
  <2>2. EInv' BY <1>1, SessionStepsKeep
  <2> QED BY <2>1, <2>2, EngineStutter
<1>2. ASSUME NEW q \in Reqs, Decide(q) \/ (A!Answer(q, "Reject") /\ Cancel)
      PROVE  EInv' /\ IInv' /\ DiskKept /\ OwedStep
  <2>1. UNCHANGED <<vars, session, nextKey, req, result>> BY <1>2 DEF Decide, Cancel
  <2>2. \E d \in A!Decisions : A!Answer(q, d) BY <1>2 DEF Decide, A!Decisions
  <2>3. EInv' BY <2>1, <2>2, DecidesKeep
  <2>4. UNCHANGED vars BY <2>1
  <2> QED BY <2>3, <2>4, EngineStutter
<1>3. CASE Cancel
  <2>1. PICK q \in Reqs : A!Answer(q, "Reject") BY <1>3 DEF Cancel
  <2> QED BY <1>2, <1>3, <2>1
<1>4. CASE UserStep BY <1>4, UserStepKeeps
<1>5. ASSUME NEW r \in Reqs, EngineStep(r) PROVE EInv' /\ IInv' /\ DiskKept /\ OwedStep
  BY <1>5, EngineStepKeeps
<1>6. ASSUME NEW r \in Reqs, NEW kind \in {"release", "store", "generate"}, NEW o \in Origins,
             NEW u \in Usernames \cup {NoHint}, NEW k \in 1..MaxKeys, Arrive(r, kind, o, u, k)
      PROVE  EInv' /\ IInv' /\ DiskKept /\ OwedStep
  <2>1. UNCHANGED vars BY <1>6 DEF Arrive
  <2>2. EInv' BY <1>6, ArriveKeeps
  <2> QED BY <2>1, <2>2, EngineStutter
<1>7. CASE UNCHANGED allVars
  <2>1. UNCHANGED vars /\ UNCHANGED <<session, nextKey, req, result, status>>
    BY <1>7 DEF allVars, engineVars
  <2>2. EngineTypes /\ commit' = commit BY <2>1 DEF EInv, vars
  <2>3. EInv' BY <2>1, <2>2, Aside DEF EngineTypes
  <2> QED BY <2>1, <2>3, EngineStutter
<1> QED BY <1>1, <1>2, <1>3, <1>4, <1>5, <1>6, <1>7 DEF EngineNext

LEMMA EngineInvariant == EngineSpec => [](EInv /\ IInv)
<1>1. EInv /\ IInv /\ [EngineNext]_allVars => EInv' /\ IInv' BY EngineNextKeeps
<1> QED BY <1>1, EngineInitEInv, PTL DEF EngineSpec
-----------------------------------------------------------------------------
(* Nothing is released and nothing stored without the user's Approve for   *)
(* that very request, for any number of requests at once, on any           *)
(* transport, whatever handshakes, edits and cancels come in between       *)
(* (handle_release, handle_store, handle_generate).                        *)
THEOREM ConsentComesFirst == EngineSpec => []NothingWithoutConsent
<1>1. EInv => NothingWithoutConsent BY DEF EInv, Consented, NothingWithoutConsent
<1> QED BY <1>1, EngineInvariant, PTL

(* Under the engine, with the user editing meanwhile, ids stay distinct,   *)
(* and memory and disk drift apart only by a racing rollback.              *)
THEOREM EngineKeepsVault == EngineSpec => [](TypeOK /\ UniqueIds /\ DriftOnlyByRace)
<1>1. IInv => TypeOK /\ UniqueIds /\ DriftOnlyByRace
  BY IInvTypes, IInvUnique, IInvDrift
<1> QED BY <1>1, EngineInvariant, PTL
-----------------------------------------------------------------------------
(***************************************************************************)
(* WebUSB: one request at a time.  With that alone, the user editing at    *)
(* will, commits never overlap.                                            *)
(***************************************************************************)
Flying(r) == req[r].pc \notin {"new", "done"}

OneFlight == \A q, r \in Reqs : Flying(q) /\ Flying(r) => q = r

LEMMA StepMovesOne ==
  ASSUME EInv, NEW r \in Reqs, EngineStep(r)
  PROVE  Flying(r) /\ \A q \in Reqs \ {r} : req'[q] = req[q]
<1>1. req \in [Reqs -> Requests] BY DEF EInv, EngineTypes
<1>2. CASE Invalid(r) \/ OpenPassword(r) \/ Resume(r) \/ Persist(r) \/ Rollback(r)
  <2>1. Flying(r) BY <1>2 DEF Flying, Invalid, OpenPassword, Resume, Persist, Rollback
  <2>2. \E p : req' = [req EXCEPT ![r].pc = p]
    BY <1>2 DEF Invalid, OpenPassword, Resume, Persist, Rollback, Respond, Goto
  <2> QED BY <1>1, <2>1, <2>2
<1>3. CASE Lookup(r)
  <2>1. Flying(r) BY <1>3 DEF Flying, Lookup
  <2> DEFINE live == LivePositions(records, req[r].o)
             i == IF req[r].u # NoHint THEN PosOfLive(records, req[r].o, req[r].u)
                  ELSE First(live)
  <2>2. \/ req' = [req EXCEPT ![r].pc = "done"]
        \/ req' = [req EXCEPT ![r].pc = "asked", ![r].u = records[i].username,
                              ![r].password = records[i].password]
    BY <1>3 DEF Lookup, Respond
  <2> HIDE DEF i
  <2> QED BY <1>1, <2>1, <2>2
<1>4. CASE ProbeAndAsk(r)
  <2>1. PICK f, h : req' = [req EXCEPT ![r].pc = "asked", ![r].found = f, ![r].seen = h]
    BY <1>4 DEF ProbeAndAsk
  <2> QED BY <1>1, <1>4, <2>1 DEF Flying, ProbeAndAsk
<1>5. CASE Mutate(r)
  <2>1. PICK p, d, h, m : req' = [req EXCEPT ![r].pc = "persist", ![r].password = p,
                                             ![r].did = d, ![r].seen = h, ![r].moved = m]
    BY <1>5 DEF Mutate
  <2> QED BY <1>1, <1>5, <2>1 DEF Flying, Mutate
<1>6. CASE Seal(r)
  <2>1. \/ req' = [req EXCEPT ![r].pc = "done"]
        \/ \E k : req' = [req EXCEPT ![r].pc = "done", ![r].sealed = k]
    BY <1>6 DEF Seal, Respond
  <2> QED BY <1>1, <1>6, <2>1 DEF Flying, Seal
<1>7. ASSUME NEW n \in {session.last_nonce, session.last_nonce + 1}, Gate(r, n)
      PROVE  Flying(r) /\ \A q \in Reqs \ {r} : req'[q] = req[q]
  <2>1. \/ req' = [req EXCEPT ![r].pc = "done"]
        \/ \E k, p : req' = [req EXCEPT ![r].gate = k, ![r].pc = p]
    BY <1>7 DEF Gate, Respond
  <2> QED BY <1>1, <1>7, <2>1 DEF Flying, Gate
<1> QED BY <1>2, <1>3, <1>4, <1>5, <1>6, <1>7 DEF EngineStep

LEMMA OneFlightKept ==
  ASSUME SingleFlight, EInv, OneFlight, [EngineNext]_allVars
  PROVE  OneFlight'
<1>1. req \in [Reqs -> Requests] BY DEF EInv, EngineTypes
<1>2. ASSUME NEW r \in Reqs, Flying(r) \/ \A q \in Reqs : ~Flying(q),
             \A q \in Reqs \ {r} : req'[q] = req[q]
      PROVE  OneFlight'
  BY <1>2 DEF OneFlight, Flying
<1>3. CASE req' = req BY <1>3 DEF OneFlight, Flying
<1>4. ASSUME NEW r \in Reqs, EngineStep(r) PROVE OneFlight' BY <1>2, <1>4, StepMovesOne
<1>5. ASSUME NEW r \in Reqs, NEW kind, NEW o, NEW u, NEW k, Arrive(r, kind, o, u, k)
      PROVE  OneFlight'
  <2>1. TransportFree /\ \E x : req' = [req EXCEPT ![r] = x] BY <1>5 DEF Arrive
  <2>2. \A q \in Reqs : ~Flying(q) BY <2>1 DEF TransportFree, Flying
  <2>3. \A q \in Reqs \ {r} : req'[q] = req[q] BY <1>1, <2>1
  <2> QED BY <1>2, <2>2, <2>3
<1>6. CASE EstablishSession \/ List \/ Cancel \/ UserStep
  <2>1. req' = req BY <1>6 DEF EstablishSession, List, Cancel, UserStep, engineVars
  <2> QED BY <1>3, <2>1
<1>7. ASSUME NEW r \in Reqs, Decide(r) PROVE OneFlight'
  <2>1. req' = req BY <1>7 DEF Decide
  <2> QED BY <1>3, <2>1
<1>8. CASE UNCHANGED allVars
  <2>1. req' = req BY <1>8 DEF allVars, engineVars
  <2> QED BY <1>3, <2>1
<1> QED BY <1>4, <1>5, <1>6, <1>7, <1>8 DEF EngineNext

LEMMA OneFlightAlone == EInv /\ OneFlight => Alone
BY EngineAssumption DEF EInv, InCommit, OneFlight, Flying, Alone

LEMMA FlightInit == EngineInit => OneFlight
BY NewReqIs DEF EngineInit, OneFlight, Flying

(* Over WebUSB what the host was told is saved is on the disk, with that   *)
(* password or a later one, until the user deletes it, also while the user *)
(* edits the vault on the device and writes to the disk fail (engine.rs:   *)
(* "Persistence MUST succeed before we tell the host").                    *)
THEOREM SavedIsDurableOverUsb ==
  ASSUME SingleFlight
  PROVE  EngineSpec => []OwedIsDurable
<1> DEFINE Inv == EInv /\ IInv /\ OneFlight /\ OwedKept
<1>1. EngineInit => Inv BY EngineInitEInv, FlightInit
<1>2. Inv /\ [EngineNext]_allVars => Inv'
  <2> SUFFICES ASSUME Inv, [EngineNext]_allVars PROVE Inv' OBVIOUS
  <2>1. EInv' /\ IInv' /\ OwedStep BY EngineNextKeeps
  <2>2. OneFlight' BY OneFlightKept
  <2>3. Alone BY OneFlightAlone
  <2>4. Alone' BY <2>1, <2>2, EngineAssumption
                 DEF EInv, InCommit, OneFlight, Flying, Alone
  <2> QED BY <2>1, <2>2, <2>3, <2>4 DEF OwedStep
<1>3. Inv => OwedIsDurable BY DEF OwedKept, OwedIn, Has, OwedIsDurable
<1> HIDE DEF Inv
<1> QED BY <1>1, <1>2, <1>3, PTL DEF EngineSpec
-----------------------------------------------------------------------------
(***************************************************************************)
(* What a request says it did.  Nothing is assumed here of the transport   *)
(* or of the user: any number of requests and edits may come in between.   *)
(***************************************************************************)
Late == {"persist", "rollback", "seal", "done"}

(* A request x with the result what: its finding is what the probe of some *)
(* vault gave in which the login stood as seen; what was done to the vault *)
(* is the action that goes with it, if the login still stood so.           *)
Foreseen(x, what) ==
  /\ x.kind # "release" /\ x.pc \in {"asked", "commit"}
       => \E v \in Vaults : x.seen = Standing(v, x.o, x.u) /\ x.found = Probe(v, x.o, x.u)
  /\ x.kind # "release" /\ x.pc \in {"persist", "rollback", "seal"} /\ ~x.moved
       => x.did = StoreAction(x.found)
  /\ what \in Stored /\ ~x.moved => what = x.did

(* A password that was written was drawn before n, and is not in the       *)
(* snapshot taken before it; after an error it is in neither vault.        *)
Clean(x, what, snap, mem, dsk, race, n) ==
  /\ x.kind # "release" /\ x.password # 0 =>
       /\ x.pc \in Late /\ x.password < n
       /\ what \in Errors \ {"SessionExpired"} /\ ~race
            => ~Holds(mem, x.password) /\ ~Holds(dsk, x.password)
  /\ x.pc \in {"persist", "rollback"} => ~Holds(snap, x.password)

GInv == \A r \in Reqs : /\ req[r].pc # "done" => result[r] = "none"
                        /\ Foreseen(req[r], result[r])
                        /\ Clean(req[r], result[r], commit[r].snap, records, disk, raced, fresh)

(* No password that was drawn and is in neither vault comes back, but by a *)
(* racing rollback.                                                        *)
NothingComesBack ==
  /\ fresh \in Nat /\ fresh' \in Nat /\ fresh <= fresh' /\ (raced => raced')
  /\ \A p \in Nat : p < fresh /\ ~raced' /\ ~Holds(records, p) /\ ~Holds(disk, p)
                      => ~Holds(records', p) /\ ~Holds(disk', p)

LEMMA CleanStays ==
  ASSUME NothingComesBack, NEW x \in Requests, NEW what, NEW snap,
         Clean(x, what, snap, records, disk, raced, fresh)
  PROVE  Clean(x, what, snap, records', disk', raced', fresh')
<1>1. x.password \in Nat BY RequestFields
<1> QED BY <1>1 DEF Clean, NothingComesBack

LEMMA GStep ==
  ASSUME EInv, GInv, NothingComesBack, NEW r \in Reqs, NEW x \in Requests,
         req' = [req EXCEPT ![r] = x], NEW what, result' = [result EXCEPT ![r] = what],
         x.pc # "done" => what = "none", Foreseen(x, what),
         Clean(x, what, commit'[r].snap, records', disk', raced', fresh'),
         \A q \in Reqs : q # r => commit'[q].snap = commit[q].snap
  PROVE  GInv'
<1>1. req \in [Reqs -> Requests] /\ result \in [Reqs -> Results] BY DEF EInv, EngineTypes
<1>2. /\ req'[r] = x /\ result'[r] = what
      /\ \A q \in Reqs \ {r} : req'[q] = req[q] /\ result'[q] = result[q]
  BY <1>1
<1> SUFFICES ASSUME NEW q \in Reqs
             PROVE  /\ req'[q].pc # "done" => result'[q] = "none"
                    /\ Foreseen(req'[q], result'[q])
                    /\ Clean(req'[q], result'[q], commit'[q].snap, records', disk', raced', fresh')
  BY DEF GInv
<1>3. CASE q = r BY <1>2, <1>3
<1>4. CASE q # r
  <2>1. /\ req[q].pc # "done" => result[q] = "none" /\ Foreseen(req[q], result[q])
        /\ Clean(req[q], result[q], commit[q].snap, records, disk, raced, fresh)
    BY DEF GInv
  <2>2. Foreseen(req[q], result[q]) BY DEF GInv
  <2>3. req[q] \in Requests BY <1>1
  <2>4. Clean(req[q], result[q], commit[q].snap, records', disk', raced', fresh')
    BY <2>1, <2>3, CleanStays
  <2> QED BY <1>2, <1>4, <2>1, <2>2, <2>4
<1> QED BY <1>3, <1>4

(* A step of nobody's request.                                             *)
LEMMA GAside ==
  ASSUME EInv, GInv, NothingComesBack, UNCHANGED <<req, result>>,
         \A q \in Reqs : commit'[q].snap = commit[q].snap
  PROVE  GInv'
<1>1. req \in [Reqs -> Requests] BY DEF EInv, EngineTypes
<1> SUFFICES ASSUME NEW q \in Reqs
             PROVE  /\ req'[q].pc # "done" => result'[q] = "none"
                    /\ Foreseen(req'[q], result'[q])
                    /\ Clean(req'[q], result'[q], commit'[q].snap, records', disk', raced', fresh')
  BY DEF GInv
<1>2. (req[q].pc # "done" => result[q] = "none") /\ Foreseen(req[q], result[q]) BY DEF GInv
<1>3. Clean(req[q], result[q], commit[q].snap, records, disk, raced, fresh) BY DEF GInv
<1>4. Clean(req[q], result[q], commit[q].snap, records', disk', raced', fresh')
  BY <1>1, <1>3, CleanStays
<1> QED BY <1>2, <1>4

LEMMA VaultAlone == ASSUME IInv, UNCHANGED vars PROVE NothingComesBack
<1>1. records' = records /\ disk' = disk /\ fresh' = fresh /\ raced' = raced BY DEF vars
<1>2. fresh \in Nat BY DEF IInv, Types
<1> QED BY <1>1, <1>2 DEF NothingComesBack

(* A request that has not written, and does not now.                       *)
LEMMA GEarly ==
  ASSUME EInv, IInv, GInv, UNCHANGED vars, NEW r \in Reqs, NEW x \in Requests,
         req' = [req EXCEPT ![r] = x], NEW what, result' = [result EXCEPT ![r] = what],
         x.pc # "done" => what = "none", Foreseen(x, what),
         x.kind # "release" => x.password = 0, x.pc \notin {"persist", "rollback"}
  PROVE  GInv'
<1>1. Clean(x, what, commit'[r].snap, records', disk', raced', fresh') BY DEF Clean
<1>2. commit' = commit BY DEF vars
<1>3. NothingComesBack BY VaultAlone
<1> QED BY <1>1, <1>2, <1>3, GStep

LEMMA NotWritten ==
  ASSUME GInv, NEW r \in Reqs, req[r].pc \notin Late
  PROVE  (req[r].kind # "release" => req[r].password = 0) /\ result[r] = "none"
BY DEF GInv, Clean, Late

LEMMA NotYetAnswered == "none" \notin Stored /\ "none" \notin Errors
BY DEF Stored, Errors

LEMMA GAnswered ==
  ASSUME EInv, IInv, GInv, NEW r \in Reqs, req[r].pc \in {"arrived", "open", "lookup", "asked"},
         NEW what \in Errors, Respond(r, what), UNCHANGED vars
  PROVE  GInv'
<1>1. "done" \in Pcs BY DEF Pcs
<1>2. req' = [req EXCEPT ![r].pc = "done"] /\ result' = [result EXCEPT ![r] = what] BY DEF Respond
<1>3. PICK x \in Requests :
        /\ req' = [req EXCEPT ![r] = x] /\ x.pc = "done" /\ x.kind = req[r].kind
        /\ x.o = req[r].o /\ x.u = req[r].u /\ x.found = req[r].found
        /\ x.password = req[r].password /\ x.did = req[r].did
        /\ x.seen = req[r].seen /\ x.moved = req[r].moved
  BY <1>1, <1>2, EndsAs, Zenon
<1>4. req[r].pc \notin Late BY DEF Late
<1>5. x.kind # "release" => x.password = 0 BY <1>3, <1>4, NotWritten
<1>6. what \notin Stored BY DEF Errors, Stored
<1>7. Foreseen(x, what) BY <1>3, <1>6 DEF Foreseen
<1>8. x.pc \notin {"persist", "rollback"} BY <1>3
<1> QED BY <1>2, <1>3, <1>5, <1>7, <1>8, GEarly

LEMMA GWent ==
  ASSUME EInv, IInv, GInv, NEW r \in Reqs, NEW p \in {"lookup", "commit", "seal"}, Goto(r, p),
         req[r].pc = IF p = "lookup" THEN "open" ELSE "asked",
         p = "seal" => req[r].kind = "release", UNCHANGED vars
  PROVE  GInv'
<1>1. p \in Pcs BY DEF Pcs
<1>2. req' = [req EXCEPT ![r].pc = p] /\ result' = result BY DEF Goto
<1>3. PICK x \in Requests :
        /\ req' = [req EXCEPT ![r] = x] /\ x.pc = p /\ x.kind = req[r].kind
        /\ x.o = req[r].o /\ x.u = req[r].u /\ x.found = req[r].found
        /\ x.password = req[r].password /\ x.did = req[r].did
        /\ x.seen = req[r].seen /\ x.moved = req[r].moved
  BY <1>1, <1>2, EndsAs, Zenon
<1>4. req[r].pc \notin Late BY DEF Late
<1>5. PICK what : what = result[r] OBVIOUS
<1>6. (x.kind # "release" => x.password = 0) /\ what = "none" BY <1>3, <1>4, <1>5, NotWritten
<1>7. result' = [result EXCEPT ![r] = what] BY <1>2, <1>5 DEF EInv, EngineTypes
<1>8. Foreseen(x, what)
  <2>1. Foreseen(req[r], result[r]) BY DEF GInv
  <2>2. what \notin Stored BY <1>6, NotYetAnswered
  <2>3. x.kind # "release" /\ x.pc \in {"asked", "commit"}
          => \E v \in Vaults : x.seen = Standing(v, x.o, x.u) /\ x.found = Probe(v, x.o, x.u)
    BY <1>3, <2>1 DEF Foreseen
  <2>4. ~(x.kind # "release" /\ x.pc \in {"persist", "rollback", "seal"}) BY <1>3
  <2> QED BY <2>2, <2>3, <2>4 DEF Foreseen
<1>9. x.pc \notin {"persist", "rollback"} BY <1>3
<1> QED BY <1>3, <1>6, <1>7, <1>8, <1>9, GEarly

LEMMA GArrive ==
  ASSUME EInv, IInv, GInv, NEW r \in Reqs, NEW kind \in {"release", "store", "generate"},
         NEW o \in Origins, NEW u \in Usernames \cup {NoHint}, NEW k \in 1..MaxKeys,
         Arrive(r, kind, o, u, k)
  PROVE  GInv'
<1>1. req[r].pc = "new" /\ UNCHANGED vars /\ result' = result BY DEF Arrive
<1>2. PICK n \in Requests : n = NewReq BY NewReqIs
<1>3. PICK x : x = [n EXCEPT !.pc = "arrived", !.kind = kind, !.o = o, !.u = u, !.key = k] OBVIOUS
<1>4. req' = [req EXCEPT ![r] = x] BY <1>2, <1>3 DEF Arrive
<1>5. n.password = 0 BY <1>2, NewReqIs
<1>6. k \in Nat BY EngineAssumption
<1>7. x \in Requests /\ x.pc = "arrived" /\ x.password = 0 BY <1>3, <1>5, <1>6 DEF Requests, Pcs
<1>8. req[r].pc \notin Late BY <1>1 DEF Late
<1>9. PICK what : what = result[r] OBVIOUS
<1>10. what = "none" BY <1>8, <1>9, NotWritten
<1>11. result' = [result EXCEPT ![r] = what] BY <1>1, <1>9 DEF EInv, EngineTypes
<1>12. what \notin Stored BY <1>10, NotYetAnswered
<1>13. Foreseen(x, what) BY <1>7, <1>12 DEF Foreseen
<1>14. x.pc \notin {"persist", "rollback"} BY <1>7
<1> QED BY <1>1, <1>4, <1>7, <1>10, <1>11, <1>13, <1>14, GEarly

LEMMA GGate ==
  ASSUME EInv, IInv, GInv, NEW r \in Reqs, NEW n, Gate(r, n)
  PROVE  GInv'
<1>1. req[r].pc = "arrived" /\ UNCHANGED vars BY DEF Gate
<1>2. req \in [Reqs -> Requests] /\ session \in Sessions BY DEF EInv, EngineTypes
<1>3. \/ \E what \in Errors : Respond(r, what)
      \/ /\ req' = [req EXCEPT ![r].gate = session.key,
                      ![r].pc = IF req[r].kind = "store" THEN "open" ELSE "lookup"]
         /\ UNCHANGED result
  <2>1. {"SessionExpired", "NonceReused", "BadPolicy"} \subseteq Errors BY DEF Errors
  <2> QED BY <2>1 DEF Gate
<1>4. CASE \E what \in Errors : Respond(r, what) BY <1>1, <1>4, GAnswered
<1>5. CASE /\ req' = [req EXCEPT ![r].gate = session.key,
                        ![r].pc = IF req[r].kind = "store" THEN "open" ELSE "lookup"]
           /\ UNCHANGED result
  <2>1. PICK s \in Requests : s = req[r] BY <1>2
  <2>2. PICK p \in {"open", "lookup"} : p = IF s.kind = "store" THEN "open" ELSE "lookup" OBVIOUS
  <2>3. PICK g \in Nat : g = session.key BY <1>2 DEF Sessions
  <2>4. PICK x : x = [s EXCEPT !.gate = g, !.pc = p] OBVIOUS
  <2>5. x \in Requests /\ x.pc = p /\ x.kind = s.kind /\ x.password = s.password
    BY <2>4 DEF Requests, Pcs
  <2>6. req' = [req EXCEPT ![r] = x] BY <1>2, <1>5, <2>1, <2>2, <2>3, <2>4
  <2>7. PICK what : what = result[r] OBVIOUS
  <2>8. req[r].pc \notin Late BY <1>1 DEF Late
  <2>9. (x.kind # "release" => x.password = 0) /\ what = "none"
    BY <2>1, <2>5, <2>7, <2>8, NotWritten
  <2>10. result' = [result EXCEPT ![r] = what] BY <1>5, <2>7 DEF EInv, EngineTypes
  <2>11. what \notin Stored BY <2>9, NotYetAnswered
  <2>12. Foreseen(x, what) BY <2>5, <2>11 DEF Foreseen
  <2>13. x.pc \notin {"persist", "rollback"} BY <2>5
  <2> QED BY <1>1, <2>5, <2>6, <2>9, <2>10, <2>12, <2>13, GEarly
<1> QED BY <1>3, <1>4, <1>5

LEMMA GWaits ==
  ASSUME EInv, IInv, GInv, NEW r \in Reqs, Invalid(r) \/ OpenPassword(r) \/ Resume(r)
  PROVE  GInv'
<1>1. UNCHANGED vars BY DEF Invalid, OpenPassword, Resume
<1>2. {"InvalidRequest", "Internal", "SessionExpired", "UserRejected", "Timeout"} \subseteq Errors
  BY DEF Errors
<1>3. CASE Invalid(r) BY <1>1, <1>2, <1>3, GAnswered DEF Invalid
<1>4. CASE OpenPassword(r)
  <2>1. req[r].pc = "open" BY <1>4 DEF OpenPassword
  <2>2. Goto(r, "lookup") \/ \E what \in Errors : Respond(r, what) BY <1>2, <1>4 DEF OpenPassword
  <2>3. CASE Goto(r, "lookup") BY <1>1, <2>1, <2>3, GWent
  <2>4. CASE \E what \in Errors : Respond(r, what) BY <1>1, <2>1, <2>4, GAnswered
  <2> QED BY <2>2, <2>3, <2>4
<1>5. CASE Resume(r)
  <2>1. req[r].pc = "asked" BY <1>5 DEF Resume
  <2>2. \/ \E what \in Errors : Respond(r, what)
        \/ \E p \in {"seal", "commit"} : Goto(r, p) /\ (p = "seal" => req[r].kind = "release")
    BY <1>2, <1>5 DEF Resume
  <2>3. CASE \E what \in Errors : Respond(r, what) BY <1>1, <2>1, <2>3, GAnswered
  <2>4. CASE \E p \in {"seal", "commit"} : Goto(r, p) /\ (p = "seal" => req[r].kind = "release")
    BY <1>1, <2>1, <2>4, GWent
  <2> QED BY <2>2, <2>3, <2>4
<1> QED BY <1>3, <1>4, <1>5

LEMMA GLookup == ASSUME EInv, IInv, GInv, NEW r \in Reqs, Lookup(r) PROVE GInv'
<1> DEFINE live == LivePositions(records, req[r].o)
           i == IF req[r].u # NoHint THEN PosOfLive(records, req[r].o, req[r].u) ELSE First(live)
<1>1. req[r].pc = "lookup" /\ req[r].kind = "release" /\ UNCHANGED vars BY DEF Lookup
<1>2. \/ \E what \in Errors : Respond(r, what)
      \/ /\ UNCHANGED result
         /\ req' = [req EXCEPT ![r].pc = "asked", ![r].u = records[i].username,
                               ![r].password = records[i].password]
  <2>1. {"UnknownOrigin", "MultipleMatches"} \subseteq Errors BY DEF Errors
  <2> QED BY <2>1 DEF Lookup
<1> HIDE DEF i
<1>3. CASE \E what \in Errors : Respond(r, what) BY <1>1, <1>3, GAnswered
<1>4. CASE /\ UNCHANGED result
           /\ req' = [req EXCEPT ![r].pc = "asked", ![r].u = records[i].username,
                                 ![r].password = records[i].password]
  <2>1. req \in [Reqs -> Requests] BY DEF EInv, EngineTypes
  <2>2. PICK s \in Requests : s = req[r] BY <2>1
  <2>3. PICK u : u = records[i].username OBVIOUS
  <2>4. PICK p : p = records[i].password OBVIOUS
  <2>5. PICK x : x = [s EXCEPT !.pc = "asked", !.u = u, !.password = p] OBVIOUS
  <2>6. x.pc = "asked" /\ x.kind = s.kind BY <2>5 DEF Requests
  <2>7. req' = [req EXCEPT ![r] = x] BY <1>4, <2>1, <2>2, <2>3, <2>4, <2>5
  <2>8. x \in Requests
    <3>1. EInv' BY LookupKeeps
    <3>2. req' \in [Reqs -> Requests] BY <3>1 DEF EInv, EngineTypes
    <3>3. req'[r] = x BY <2>1, <2>7
    <3> QED BY <3>2, <3>3
  <2>9. PICK what : what = result[r] OBVIOUS
  <2>10. req[r].pc \notin Late BY <1>1 DEF Late
  <2>11. what = "none" BY <2>9, <2>10, NotWritten
  <2>12. result' = [result EXCEPT ![r] = what] BY <1>4, <2>9 DEF EInv, EngineTypes
  <2>13. x.kind = "release" BY <1>1, <2>2, <2>6
  <2>14. what \notin Stored BY <2>11, NotYetAnswered
  <2>15. Foreseen(x, what) BY <2>13, <2>14 DEF Foreseen
  <2>16. x.pc \notin {"persist", "rollback"} BY <2>6
  <2> QED BY <1>1, <2>7, <2>8, <2>11, <2>12, <2>13, <2>15, <2>16, GEarly
<1> QED BY <1>2, <1>3, <1>4

LEMMA GProbe == ASSUME EInv, IInv, GInv, NEW r \in Reqs, ProbeAndAsk(r) PROVE GInv'
<1>1. req[r].pc = "lookup" /\ UNCHANGED vars /\ result' = result BY DEF ProbeAndAsk
<1>2. EngineTypes /\ records \in Vaults BY DEF EInv, IInv, Drawn, DrawnBefore, Sound, Vaults
<1>3. PICK x \in Requests :
           /\ req' = [req EXCEPT ![r] = x] /\ x.pc = "asked" /\ x.kind = req[r].kind
           /\ x.o = req[r].o /\ x.u = req[r].u /\ x.password = req[r].password
           /\ x.found = Probe(records, x.o, x.u) /\ x.seen = Standing(records, x.o, x.u)
  BY <1>2, ProbeAndAskMoves, Zenon
<1>4. PICK what : what = result[r] OBVIOUS
<1>5. req[r].pc \notin Late BY <1>1 DEF Late
<1>6. (x.kind # "release" => x.password = 0) /\ what = "none" BY <1>3, <1>4, <1>5, NotWritten
<1>7. result' = [result EXCEPT ![r] = what] BY <1>1, <1>4 DEF EInv, EngineTypes
<1>8. Foreseen(x, what)
  <2>1. what \notin Stored BY <1>6, NotYetAnswered
  <2>2. \E v \in Vaults : x.seen = Standing(v, x.o, x.u) /\ x.found = Probe(v, x.o, x.u)
    BY <1>2, <1>3
  <2>3. x.pc \notin {"persist", "rollback", "seal"} BY <1>3
  <2> QED BY <2>1, <2>2, <2>3 DEF Foreseen
<1>9. x.pc \notin {"persist", "rollback"} BY <1>3
<1> QED BY <1>1, <1>3, <1>6, <1>7, <1>8, <1>9, GEarly

LEMMA GSeal == ASSUME EInv, IInv, GInv, NEW r \in Reqs, Seal(r) PROVE GInv'
<1>1. req[r].pc = "seal" /\ UNCHANGED vars BY DEF Seal
<1>2. req \in [Reqs -> Requests] /\ session \in Sessions BY DEF EInv, EngineTypes
<1>3. /\ Foreseen(req[r], result[r])
      /\ Clean(req[r], result[r], commit[r].snap, records, disk, raced, fresh)
  BY DEF GInv
<1>4. PICK s \in Requests : s = req[r] BY <1>2
<1>5. PICK g \in Nat : g = IF CanSeal(session) THEN session.key ELSE s.sealed
  BY <1>2 DEF Sessions, Requests
<1>6. PICK x : x = [s EXCEPT !.pc = "done", !.sealed = g] OBVIOUS
<1>7. /\ x \in Requests /\ x.pc = "done" /\ x.kind = s.kind
      /\ x.password = s.password /\ x.did = s.did /\ x.found = s.found /\ x.moved = s.moved
  BY <1>6 DEF Requests, Pcs
<1>8. PICK what : what = IF ~CanSeal(session) THEN "SessionExpired"
                         ELSE IF s.kind = "release" THEN "Released" ELSE StoreAction(s.found)
  OBVIOUS
<1>9. req' = [req EXCEPT ![r] = x] /\ result' = [result EXCEPT ![r] = what]
  <2>1. CASE CanSeal(session)
    BY <1>2, <1>4, <1>5, <1>6, <1>8, <2>1 DEF Seal
  <2>2. CASE ~CanSeal(session)
    <3>1. req' = [req EXCEPT ![r].pc = "done"] /\ result' = [result EXCEPT ![r] = what]
      BY <1>8, <2>2 DEF Seal, Respond
    <3>2. x = [s EXCEPT !.pc = "done"] BY <1>5, <1>6, <2>2 DEF Requests
    <3> QED BY <1>2, <1>4, <3>1, <3>2
  <2> QED BY <2>1, <2>2
<1>10. what \notin Errors \ {"SessionExpired"}
  <2>1. StoreAction(s.found) \notin Errors BY StoreActionIsStored DEF Errors, Stored
  <2> QED BY <1>8, <2>1 DEF Errors
<1>11. what \in Stored => s.kind # "release" /\ what = StoreAction(s.found)
  BY <1>8 DEF Stored
<1>12. Foreseen(x, what)
  <2>1. s.kind # "release" /\ ~s.moved => s.did = StoreAction(s.found)
    BY <1>1, <1>3, <1>4 DEF Foreseen
  <2> QED BY <1>7, <1>11, <2>1 DEF Foreseen
<1>13. commit' = commit /\ records' = records /\ disk' = disk /\ raced' = raced /\ fresh' = fresh
  BY <1>1 DEF vars
<1>14. Clean(x, what, commit'[r].snap, records', disk', raced', fresh')
  <2>1. s.kind # "release" /\ s.password # 0 => s.password < fresh BY <1>3, <1>4 DEF Clean
  <2> QED BY <1>7, <1>10, <1>13, <2>1 DEF Clean, Late
<1>15. NothingComesBack BY <1>1, VaultAlone
<1> QED BY <1>7, <1>9, <1>12, <1>13, <1>14, <1>15, GStep

(* The probe depends on the records of the login alone.                    *)
LEMMA StandingDecides ==
  ASSUME NEW v \in Seq(CredentialRecord), NEW w \in Seq(CredentialRecord), NEW o, NEW u,
         Standing(v, o, u) = Standing(w, o, u)
  PROVE  Probe(v, o, u) = Probe(w, o, u)
<1> DEFINE S(x) == {i \in DOMAIN x : x[i].origin = o /\ x[i].username = u}
<1>1. Standing(v, o, u) = [i \in S(v) |-> v[i].archived] BY DEF Standing
<1>2. Standing(w, o, u) = [i \in S(w) |-> w[i].archived] BY DEF Standing
<1>3. PosOfLogin(v, o, u) = First(S(v)) /\ PosOfLogin(w, o, u) = First(S(w)) BY DEF PosOfLogin
<1>4. S(v) \in SUBSET DOMAIN v OBVIOUS
<1> HIDE DEF S
<1>5. S(v) = S(w) /\ \A i \in S(v) : v[i].archived = w[i].archived BY <1>1, <1>2
<1>6. PICK k : k = First(S(v)) OBVIOUS
<1>7. k # 0 => k \in S(v) BY <1>4, <1>6, FirstOfPositions
<1>8. PosOfLogin(v, o, u) = k /\ PosOfLogin(w, o, u) = k BY <1>3, <1>5, <1>6
<1>9. CASE k = 0 BY <1>8, <1>9 DEF Probe
<1>10. CASE k # 0
  <2>1. v[k].archived = w[k].archived BY <1>5, <1>7, <1>10
  <2> QED BY <1>8, <1>10, <2>1 DEF Probe
<1> QED BY <1>9, <1>10

LEMMA MutateAddsOne ==
  ASSUME IInv, NEW e \in Committers, NEW o \in Origins, NEW u \in Usernames, CommitMutate(e, o, u),
         NEW p \in Nat, p < fresh, ~Holds(records, p)
  PROVE  ~Holds(records', p)
<1>1. fresh \in Nat /\ records \in Seq(CredentialRecord)
  BY DEF IInv, Types, Drawn, DrawnBefore, Sound
<1>2. records' = Upsert(records, o, u, fresh, fresh + 1) BY DEF CommitMutate
<1>3. PICK f \in Nat : f = fresh BY <1>1
<1>4. PICK d \in Nat : d = f + 1 OBVIOUS
<1>5. PICK new : new = Upsert(records, o, u, f, d) OBVIOUS
<1>6. records' = new BY <1>2, <1>3, <1>4, <1>5
<1>7. ASSUME NEW k \in DOMAIN new, new[k].password = p PROVE FALSE
  <2>1. new[k].password # f BY <1>3, <1>7
  <2>2. \E i \in DOMAIN records : records[i].password = new[k].password
    BY <1>1, <1>5, <2>1, UpsertPasswords
  <2> QED BY <1>7, <2>2 DEF Holds
<1> QED BY <1>6, <1>7 DEF Holds

(* A password that is still to be drawn is in no vault.                    *)
LEMMA FreshIsNew ==
  ASSUME NEW n \in Nat, NEW v, Sound(v, n)
  PROVE  ~Holds(v, n)
<1>1. \A i \in DOMAIN v : v[i].password \in Nat /\ v[i].password < n BY Fields DEF Sound
<1> QED BY <1>1 DEF Holds

LEMMA GMutate == ASSUME EInv, IInv, GInv, NEW r \in Reqs, Mutate(r) PROVE GInv'
<1>1. req[r].pc = "commit" /\ CommitMutate(r, req[r].o, req[r].u) /\ result' = result
  BY DEF Mutate
<1>2. r \in Committers /\ req[r].o \in Origins /\ req[r].u \in Usernames BY MutateMoves
<1>3. PICK o \in Origins : o = req[r].o BY <1>2
<1>4. PICK u \in Usernames : u = req[r].u BY <1>2
<1>5. CommitMutate(r, o, u) BY <1>1, <1>3, <1>4
<1>6. /\ fresh \in Nat /\ fresh' \in Nat /\ fresh < fresh'
      /\ \A d \in Committers : d # r => commit'[d] = commit[d]
      /\ commit'[r].snap = records /\ commit'[r].password = fresh
  BY <1>2, <1>5, CommitMutateWrites
<1>7. \E y \in Requests :
         /\ req' = [req EXCEPT ![r] = y] /\ y.pc = "persist" /\ y.kind = req[r].kind
         /\ y.o = req[r].o /\ y.u = req[r].u /\ y.found = req[r].found
         /\ y.password = commit'[r].password
         /\ y.did = StoreAction(Probe(records, y.o, y.u))
         /\ ~y.moved => Standing(records, y.o, y.u) = req[r].seen
  BY MutateMoves, Zenon
<1>8. PICK x \in Requests :
         /\ req' = [req EXCEPT ![r] = x] /\ x.pc = "persist" /\ x.kind = req[r].kind
         /\ x.o = req[r].o /\ x.u = req[r].u /\ x.found = req[r].found
         /\ x.password = commit'[r].password
         /\ x.did = StoreAction(Probe(records, x.o, x.u))
         /\ ~x.moved => Standing(records, x.o, x.u) = req[r].seen
  BY <1>7, Zenon
<1>9. req[r].kind # "release" BY <1>1 DEF EInv, WellFormed, Writing
<1>10. PICK what : what = result[r] OBVIOUS
<1>11. req[r].pc \notin Late BY <1>1 DEF Late
<1>12. what = "none" BY <1>10, <1>11, NotWritten
<1>13. result' = [result EXCEPT ![r] = what] BY <1>1, <1>10 DEF EInv, EngineTypes
<1>14. ~x.moved => x.did = StoreAction(x.found)
  <2> SUFFICES ASSUME ~x.moved PROVE x.did = StoreAction(x.found) OBVIOUS
  <2>1. Foreseen(req[r], result[r]) BY DEF GInv
  <2>2. PICK v \in Vaults : /\ req[r].seen = Standing(v, req[r].o, req[r].u)
                            /\ req[r].found = Probe(v, req[r].o, req[r].u)
    BY <1>1, <1>9, <2>1 DEF Foreseen
  <2>3. records \in Seq(CredentialRecord) /\ v \in Seq(CredentialRecord)
    BY DEF IInv, Drawn, DrawnBefore, Sound, Vaults
  <2>4. Standing(records, o, u) = Standing(v, o, u) BY <1>3, <1>4, <1>8, <2>2
  <2>5. Probe(records, o, u) = Probe(v, o, u) BY <2>3, <2>4, StandingDecides
  <2> QED BY <1>3, <1>4, <1>8, <2>2, <2>5
<1>15. what \notin Stored /\ what \notin Errors BY <1>12, NotYetAnswered
<1>16. Foreseen(x, what) BY <1>8, <1>14, <1>15 DEF Foreseen
<1>17. ~Holds(commit'[r].snap, x.password)
  <2>1. Sound(records, fresh) BY DEF IInv, Drawn, DrawnBefore
  <2> QED BY <1>6, <1>8, <2>1, FreshIsNew
<1>18. Clean(x, what, commit'[r].snap, records', disk', raced', fresh')
  BY <1>6, <1>8, <1>15, <1>17 DEF Clean, Late
<1>19. NothingComesBack
  <2>1. disk' = disk /\ raced' = raced BY <1>5 DEF CommitMutate
  <2>2. \A p \in Nat : p < fresh /\ ~Holds(records, p) => ~Holds(records', p)
    BY <1>2, <1>5, MutateAddsOne
  <2> QED BY <1>6, <2>1, <2>2 DEF NothingComesBack
<1>20. \A q \in Reqs : q # r => commit'[q].snap = commit[q].snap BY <1>6, EngineAssumption
<1> QED BY <1>8, <1>12, <1>13, <1>16, <1>18, <1>19, <1>20, GStep

LEMMA GPersist == ASSUME EInv, IInv, GInv, NEW r \in Reqs, Persist(r) PROVE GInv'
<1>1. req[r].pc = "persist" /\ CommitPersist(r) /\ r \in Committers
  BY EngineAssumption DEF Persist
<1>2. Types /\ EngineTypes /\ WellFormed BY DEF IInv, EInv
<1>3. /\ \A d \in Committers : d # r => commit'[d] = commit[d]
      /\ commit'[r].pc \in {"idle", "failed"}
      /\ commit'[r].pc = "idle" => disk' = records
      /\ commit'[r].pc = "failed" => commit'[r].snap = commit[r].snap /\ disk' = disk
  BY <1>1, <1>2, CommitPersistEnds
<1>4. records' = records /\ fresh' = fresh /\ fresh \in Nat /\ raced' = raced
  BY <1>1, <1>2 DEF CommitPersist, Types
<1>5. req[r].kind # "release" BY <1>1, <1>2 DEF WellFormed, Writing
<1>6. /\ result[r] = "none" /\ Foreseen(req[r], result[r])
      /\ Clean(req[r], result[r], commit[r].snap, records, disk, raced, fresh)
  BY <1>1 DEF GInv
<1>7. \E p \in {"rollback", "seal", "done"} :
        /\ req' = [req EXCEPT ![r].pc = p]
        /\ p = "rollback" => commit'[r].pc = "failed"
        /\ p # "done" => result' = result
        /\ p = "done" => result' = [result EXCEPT ![r] = StoreAction(req[r].found)]
  BY DEF Persist, Goto, Respond
<1>8. PICK p \in {"rollback", "seal", "done"} :
        /\ req' = [req EXCEPT ![r].pc = p]
        /\ p = "rollback" => commit'[r].pc = "failed"
        /\ p # "done" => result' = result
        /\ p = "done" => result' = [result EXCEPT ![r] = StoreAction(req[r].found)]
  BY <1>7
<1>9. p \in Pcs BY DEF Pcs
<1>10. PICK x \in Requests :
        /\ req' = [req EXCEPT ![r] = x] /\ x.pc = p /\ x.kind = req[r].kind
        /\ x.o = req[r].o /\ x.u = req[r].u /\ x.found = req[r].found
        /\ x.password = req[r].password /\ x.did = req[r].did
        /\ x.seen = req[r].seen /\ x.moved = req[r].moved
  BY <1>8, <1>9, EndsAs, Zenon
<1>11. PICK what : what = IF p = "done" THEN StoreAction(req[r].found) ELSE "none" OBVIOUS
<1>12. result' = [result EXCEPT ![r] = what] BY <1>2, <1>6, <1>8, <1>11 DEF EngineTypes
<1>13. what \notin Errors
  <2>1. \A s \in Stored : s \notin Errors BY DEF Errors, Stored
  <2> QED BY <1>11, <2>1, StoreActionIsStored, NotYetAnswered
<1>14. ~x.moved => x.did = StoreAction(x.found) BY <1>1, <1>5, <1>6, <1>10 DEF Foreseen
<1>15. Foreseen(x, what)
  <2>1. what \in Stored => what = StoreAction(x.found) BY <1>10, <1>11, NotYetAnswered
  <2>2. x.pc \notin {"asked", "commit"} BY <1>10
  <2> QED BY <1>14, <2>1, <2>2 DEF Foreseen
<1>16. Clean(x, what, commit'[r].snap, records', disk', raced', fresh')
  <2>1. x.password # 0 => x.password < fresh' BY <1>4, <1>5, <1>6, <1>10 DEF Clean
  <2>2. ~Holds(commit[r].snap, x.password) BY <1>1, <1>6, <1>10 DEF Clean
  <2>3. x.pc = "rollback" => ~Holds(commit'[r].snap, x.password) BY <1>3, <1>8, <1>10, <2>2
  <2> QED BY <1>10, <1>13, <2>1, <2>3 DEF Clean, Late
<1>17. NothingComesBack BY <1>3, <1>4 DEF NothingComesBack
<1>18. \A q \in Reqs : q # r => commit'[q].snap = commit[q].snap BY <1>3, EngineAssumption
<1>19. x.pc # "done" => what = "none" BY <1>10, <1>11
<1> QED BY <1>10, <1>12, <1>15, <1>16, <1>17, <1>18, <1>19, GStep

LEMMA GRollback == ASSUME EInv, IInv, GInv, NEW r \in Reqs, Rollback(r) PROVE GInv'
<1>1. /\ req[r].pc = "rollback" /\ CommitRollback(r) /\ r \in Committers /\ Respond(r, "Internal")
  BY EngineAssumption DEF Rollback
<1>2. Types /\ EngineTypes /\ WellFormed BY DEF IInv, EInv
<1>3. /\ records' = commit[r].snap /\ disk' = disk /\ fresh' = fresh
      /\ commit' = [commit EXCEPT ![r] = NoCommit]
      /\ (raced => raced') /\ (~raced' => commit[r].snap = disk)
  BY <1>1 DEF CommitRollback
<1>4. commit \in [Committers -> Commits] /\ fresh \in Nat BY <1>2 DEF Types
<1>5. req' = [req EXCEPT ![r].pc = "done"] /\ result' = [result EXCEPT ![r] = "Internal"]
  BY <1>1 DEF Respond
<1>6. "done" \in Pcs BY DEF Pcs
<1>7. PICK x \in Requests :
        /\ req' = [req EXCEPT ![r] = x] /\ x.pc = "done" /\ x.kind = req[r].kind
        /\ x.o = req[r].o /\ x.u = req[r].u /\ x.found = req[r].found
        /\ x.password = req[r].password /\ x.did = req[r].did
        /\ x.seen = req[r].seen /\ x.moved = req[r].moved
  BY <1>5, <1>6, EndsAs, Zenon
<1>8. Clean(req[r], result[r], commit[r].snap, records, disk, raced, fresh) BY DEF GInv
<1>9. ~raced' => ~Holds(records', x.password) /\ ~Holds(disk', x.password)
  BY <1>1, <1>3, <1>7, <1>8 DEF Clean
<1>10. Clean(x, "Internal", commit'[r].snap, records', disk', raced', fresh')
  <2>1. x.kind # "release" /\ x.password # 0 => x.password < fresh' BY <1>3, <1>7, <1>8 DEF Clean
  <2> QED BY <1>7, <1>9, <2>1 DEF Clean, Late
<1>11. "Internal" \notin Stored BY DEF Stored
<1>12. Foreseen(x, "Internal") BY <1>7, <1>11 DEF Foreseen
<1>13. NothingComesBack BY <1>3, <1>4 DEF NothingComesBack
<1>14. \A q \in Reqs : q # r => commit'[q].snap = commit[q].snap BY <1>3, <1>4, EngineAssumption
<1> QED BY <1>5, <1>7, <1>10, <1>12, <1>13, <1>14, GStep

(* The user's edits bring in no password but newly typed ones.             *)
LEMMA CallbackDraws ==
  ASSUME IInv, fresh' \in Nat, fresh <= fresh', raced' = raced, NEW new, PersistOrRollback(new),
         \A k \in DOMAIN new : \/ new[k].password \in Nat /\ new[k].password >= fresh
                               \/ \E i \in DOMAIN records : records[i].password = new[k].password
  PROVE  NothingComesBack
<1>1. fresh \in Nat BY DEF IInv, Types
<1>2. \/ records' = new /\ disk' = new
      \/ records' = records /\ disk' = disk
  BY DEF PersistOrRollback
<1>3. ASSUME NEW p \in Nat, p < fresh, ~Holds(records, p) PROVE ~Holds(new, p)
  BY <1>1, <1>3 DEF Holds
<1> QED BY <1>1, <1>2, <1>3 DEF NothingComesBack

LEMMA UserDraws == ASSUME IInv, UserStep PROVE NothingComesBack
<1>1. records \in Seq(CredentialRecord) /\ fresh \in Nat
  BY DEF IInv, Types, Drawn, DrawnBefore, Sound
<1>2. ASSUME NEW o \in Origins, NEW u \in Usernames, SaveNew(o, u, 0) PROVE NothingComesBack
  <2>1. fresh' = fresh + 2 /\ raced' = raced BY <1>2 DEF SaveNew, Draw
  <2>2. fresh + 1 \in Nat BY <1>1
  <2>3. PICK q : q = NewRecord(records, fresh, o, u, fresh + 1) OBVIOUS
  <2>4. q \in CredentialRecord /\ q.password = fresh + 1 BY <1>1, <2>2, <2>3, NewRecordIs
  <2>5. PICK s : s = [q EXCEPT !.color = 0] OBVIOUS
  <2>6. s \in CredentialRecord /\ s.password = fresh + 1 BY <2>4, <2>5 DEF CredentialRecord
  <2>7. PICK new : new = Append(records, s) OBVIOUS
  <2>8. PersistOrRollback(new) BY <1>2, <2>3, <2>5, <2>7 DEF SaveNew
  <2>9. /\ DOMAIN new = 1..(Len(records) + 1) /\ new[Len(records) + 1] = s
        /\ \A k \in DOMAIN records : new[k] = records[k]
    BY <1>1, <2>6, <2>7
  <2>10. \A k \in DOMAIN new : k = Len(records) + 1 \/ k \in DOMAIN records BY <1>1, <2>9
  <2>11. \A k \in DOMAIN new : \/ new[k].password \in Nat /\ new[k].password >= fresh
                               \/ \E i \in DOMAIN records : records[i].password = new[k].password
    BY <1>1, <2>6, <2>9, <2>10
  <2> QED BY <1>1, <2>1, <2>8, <2>11, CallbackDraws
<1>3. ASSUME NEW i \in DOMAIN records, NEW s, NEW new, new = [records EXCEPT ![i] = s],
             s.password \in Nat,
             s.password = records[i].password \/ s.password >= fresh,
             PersistOrRollback(new), fresh' \in Nat, fresh <= fresh', raced' = raced
      PROVE  NothingComesBack
  <2>1. DOMAIN new = DOMAIN records /\ new[i] = s /\ \A k \in DOMAIN records \ {i} : new[k] = records[k]
    BY <1>1, <1>3
  <2>2. \A k \in DOMAIN new : \/ new[k].password \in Nat /\ new[k].password >= fresh
                              \/ \E j \in DOMAIN records : records[j].password = new[k].password
    BY <1>3, <2>1
  <2> QED BY <1>3, <2>2, CallbackDraws
<1>4. ASSUME NEW id, NEW u \in Usernames, EditSave(id, u, 0, FALSE) PROVE NothingComesBack
  <2>1. PICK i : i = PosOfId(records, id) OBVIOUS
  <2>2. i \in DOMAIN records BY <1>1, <1>4, <2>1, PosOfIdFinds DEF EditSave
  <2>3. fresh' = fresh + 1 /\ raced' = raced BY <1>4 DEF EditSave, Draw
  <2>4. PICK q \in CredentialRecord : q = records[i] BY <1>1, <2>2
  <2>5. PICK f \in Nat : f = fresh BY <1>1
  <2>6. PICK s : s = [q EXCEPT !.username = u, !.password = f, !.color = 0] OBVIOUS
  <2>7. s.password = f BY <2>6 DEF CredentialRecord
  <2>8. PICK new : new = [records EXCEPT ![i] = s] OBVIOUS
  <2>9. PersistOrRollback(new)
    <3>1. PersistOrRollback(Edit(records, i, u, f, 0)) BY <1>4, <2>1, <2>5 DEF EditSave
    <3>2. Edit(records, i, u, f, 0) = new BY <2>4, <2>6, <2>8 DEF Edit
    <3> QED BY <3>1, <3>2
  <2>10. fresh' \in Nat /\ fresh <= fresh' /\ s.password \in Nat /\ s.password >= fresh
    BY <1>1, <2>3, <2>5, <2>7
  <2> QED BY <1>3, <2>2, <2>3, <2>8, <2>9, <2>10
<1>5. ASSUME NEW id, NEW a \in BOOLEAN, Archive(id, a) PROVE NothingComesBack
  <2>1. fresh' = fresh /\ raced' = raced /\ PersistOrRollback(SetArchived(records, id, a))
    BY <1>5 DEF Archive
  <2>2. PICK i : i = PosOfId(records, id) OBVIOUS
  <2>3. CASE i = 0
    <3>1. SetArchived(records, id, a) = records BY <2>2, <2>3 DEF SetArchived
    <3>2. fresh' \in Nat /\ fresh <= fresh' BY <1>1, <2>1
    <3>3. \A k \in DOMAIN records : \E j \in DOMAIN records : records[j].password = records[k].password
      OBVIOUS
    <3>4. PersistOrRollback(records) BY <2>1, <3>1
    <3> QED BY <2>1, <3>2, <3>3, <3>4, CallbackDraws
  <2>4. CASE i # 0
    <3>1. i \in DOMAIN records BY <1>1, <2>2, <2>4, PosOfIdFinds
    <3>2. PICK q \in CredentialRecord : q = records[i] BY <1>1, <3>1
    <3>3. PICK s : s = [q EXCEPT !.archived = a] OBVIOUS
    <3>4. s.password = q.password /\ q.password \in Nat BY <3>3 DEF CredentialRecord
    <3>5. PICK new : new = [records EXCEPT ![i] = s] OBVIOUS
    <3>6. SetArchived(records, id, a) = new BY <2>2, <2>4, <3>2, <3>3, <3>5 DEF SetArchived
    <3>7. PersistOrRollback(new) /\ fresh' \in Nat /\ fresh <= fresh' BY <1>1, <2>1, <3>6
    <3> QED BY <1>3, <2>1, <3>1, <3>2, <3>4, <3>5, <3>7
  <2> QED BY <2>3, <2>4
<1>6. ASSUME NEW id, DeleteForever(id) PROVE NothingComesBack
  <2>1. PICK i : i = PosOfId(records, id) OBVIOUS
  <2>2. i \in DOMAIN records BY <1>1, <1>6, <2>1, PosOfIdFinds DEF DeleteForever, MayDelete
  <2>3. PICK new : new = RemovePos(records, i) OBVIOUS
  <2>4. PersistOrRollback(new) /\ fresh' = fresh /\ raced' = raced
    BY <1>6, <2>1, <2>3 DEF DeleteForever
  <2>5. /\ DOMAIN new = 1..(Len(records) - 1)
        /\ \A k \in DOMAIN new : new[k] = IF k < i THEN records[k] ELSE records[k + 1]
    BY <2>3 DEF RemovePos
  <2>6. \A k \in DOMAIN new : k \in DOMAIN records /\ k + 1 \in DOMAIN records BY <1>1, <2>5
  <2>7. \A k \in DOMAIN new : \E j \in DOMAIN records : records[j].password = new[k].password
    BY <2>5, <2>6
  <2>8. fresh' \in Nat /\ fresh <= fresh' BY <1>1, <2>4
  <2> QED BY <2>4, <2>7, <2>8, CallbackDraws
<1> QED BY <1>2, <1>4, <1>5, <1>6 DEF UserStep

LEMMA GUser == ASSUME EInv, IInv, GInv, UserStep PROVE GInv'
<1>1. UNCHANGED <<req, result>> BY DEF UserStep, engineVars
<1>2. NothingComesBack BY UserDraws
<1>3. \A q \in Reqs : commit'[q].snap = commit[q].snap
  <2>1. CASE \E id \in Ids(records) : DeleteForever(id)
    <3>1. PICK id : DeleteForever(id) BY <2>1
    <3>2. CASE commit' = commit BY <3>2
    <3>3. CASE owed' = Forget(id) /\ commit' = ForgetCommits(id)
      <4>1. Forgets({id}) BY <3>3, ForgetsOne DEF IInv
      <4> QED BY <4>1, EngineAssumption DEF Forgets
    <3> QED BY <3>1, <3>2, <3>3 DEF DeleteForever
  <2>2. CASE commit' = commit BY <2>2
  <2> QED BY <2>1, <2>2 DEF UserStep, SaveNew, EditSave, Archive
<1> QED BY <1>1, <1>2, <1>3, GAside

LEMMA GInit == EngineInit => GInv
<1> SUFFICES ASSUME EngineInit PROVE GInv OBVIOUS
<1>1. req = [r \in Reqs |-> NewReq] /\ result = [r \in Reqs |-> "none"] BY DEF EngineInit
<1>2. \A r \in Reqs : req[r].pc = "new" /\ req[r].kind = "release" /\ result[r] = "none"
  BY <1>1, NewReqIs
<1>3. \A r \in Reqs : Foreseen(req[r], result[r]) BY <1>2, NotYetAnswered DEF Foreseen
<1>4. \A r \in Reqs : Clean(req[r], result[r], commit[r].snap, records, disk, raced, fresh)
  BY <1>2 DEF Clean
<1> QED BY <1>2, <1>3, <1>4 DEF GInv

LEMMA GKept == ASSUME EInv, IInv, GInv, [EngineNext]_allVars PROVE GInv'
<1>1. CASE UserStep BY <1>1, GUser
<1>2. ASSUME UNCHANGED vars, UNCHANGED <<req, result>> PROVE GInv'
  <2>1. commit' = commit BY <1>2 DEF vars
  <2> QED BY <1>2, <2>1, VaultAlone, GAside
<1>3. CASE EstablishSession \/ List \/ Cancel BY <1>2, <1>3 DEF EstablishSession, List, Cancel
<1>4. ASSUME NEW r \in Reqs, Decide(r) PROVE GInv' BY <1>2, <1>4 DEF Decide
<1>5. ASSUME NEW r \in Reqs, EngineStep(r) PROVE GInv'
  BY <1>5, GWaits, GLookup, GProbe, GMutate, GPersist, GRollback, GSeal, GGate DEF EngineStep
<1>6. ASSUME NEW r \in Reqs, NEW kind \in {"release", "store", "generate"}, NEW o \in Origins,
             NEW u \in Usernames \cup {NoHint}, NEW k \in 1..MaxKeys, Arrive(r, kind, o, u, k)
      PROVE  GInv'
  BY <1>6, GArrive
<1>7. CASE UNCHANGED allVars BY <1>2, <1>7 DEF allVars, engineVars
<1> QED BY <1>1, <1>3, <1>4, <1>5, <1>6, <1>7 DEF EngineNext

LEMMA GInvariant == EngineSpec => []GInv
<1> DEFINE Inv == EInv /\ IInv /\ GInv
<1>1. EngineInit => Inv BY EngineInitEInv, GInit
<1>2. Inv /\ [EngineNext]_allVars => Inv'
  <2> SUFFICES ASSUME Inv, [EngineNext]_allVars PROVE Inv' OBVIOUS
  <2>1. EInv' /\ IInv' BY EngineNextKeeps
  <2>2. GInv' BY GKept
  <2> QED BY <2>1, <2>2
<1>3. Inv => GInv OBVIOUS
<1> HIDE DEF Inv
<1> QED BY <1>1, <1>2, <1>3, PTL DEF EngineSpec

(* The action reported to the host is what the upsert did to the vault,    *)
(* with any number of requests and of records of the login, whatever the   *)
(* user edits, unless the login's own records changed while the approval   *)
(* was pending (handle_store, handle_generate).                            *)
THEOREM ReportIsTrue == EngineSpec => []ReportedIsDone
<1>1. GInv => ReportedIsDone BY DEF GInv, Foreseen, ReportedIsDone
<1> QED BY <1>1, GInvariant, PTL

(* A request that failed left no trace in the vault, in memory or on disk, *)
(* with any number of requests at once on any transport, unless a rollback *)
(* put back a snapshot older than the disk, or the session ended between   *)
(* the commit of a generate and its answer (commit_store_mutation).        *)
THEOREM FailedIsUndone == EngineSpec => []ErrorHasNoEffect
<1>1. GInv => ErrorHasNoEffect BY DEF GInv, Clean, ErrorHasNoEffect, Writes, NoTrace
<1> QED BY <1>1, GInvariant, PTL
-----------------------------------------------------------------------------
(***************************************************************************)
(* WebUSB: the session a request was let in under is there when its answer *)
(* is sealed, and if the user does not edit meanwhile no rollback puts     *)
(* back a snapshot older than the disk.  Both exceptions of                *)
(* ErrorHasNoEffect are gone.                                              *)
(***************************************************************************)
Gated == {"open", "lookup", "asked", "commit", "persist", "rollback", "seal"}

(* A session that was good at the gate is good at the seal.                *)
SessionKept == /\ IsActive(session) => session.key # NoKey
               /\ \A r \in Reqs : req[r].pc \in Gated => IsActive(session)

(* So no request learns after its commit that there is no session.         *)
ExpiredUnwritten == \A r \in Reqs : result[r] = "SessionExpired" => ~Writes(r)

(* A snapshot that may be put back is what is on the disk.                 *)
Calm == ~raced /\ \A r \in Reqs : commit[r].pc # "idle" => commit[r].snap = disk

(* A request that failed left no trace.                                    *)
Undone == \A r \in Reqs : result[r] \in Errors /\ Writes(r) => NoTrace(r)

(* What a step other than the gate does to r's place and its password, and *)
(* that it tells of an expired session only before anything is written.    *)
LEMMA StepKeepsGate ==
  ASSUME EInv, GInv, SessionKept, NEW r \in Reqs,
         \/ Invalid(r) \/ OpenPassword(r) \/ Lookup(r) \/ ProbeAndAsk(r)
         \/ Resume(r) \/ Mutate(r) \/ Persist(r) \/ Rollback(r) \/ Seal(r)
  PROVE  /\ session' = session
         /\ req'[r].pc \in Gated => req[r].pc \in Gated
         /\ result'[r] = "SessionExpired" => ~Writes(r)'
<1>1. req \in [Reqs -> Requests] /\ result \in [Reqs -> Results] BY DEF EInv, EngineTypes
<1>2. session' = session
  BY DEF Invalid, OpenPassword, Lookup, ProbeAndAsk, Resume, Mutate, Persist, Rollback, Seal
<1>3. req[r].pc # "done" => result[r] = "none" BY DEF GInv
<1>4. CASE Invalid(r)
  BY <1>1, <1>2, <1>4 DEF Invalid, Respond, Gated
<1>5. CASE OpenPassword(r)
  <2>1. req[r].pc = "open" /\ \E p : req' = [req EXCEPT ![r].pc = p]
    BY <1>5 DEF OpenPassword, Respond, Goto
  <2>2. req'[r].kind = req[r].kind /\ req'[r].password = req[r].password BY <1>1, <2>1 DEF Requests
  <2>3. req[r].pc \notin Late /\ req[r].pc \in Gated BY <2>1 DEF Late, Gated
  <2>4. ~Writes(r)' BY <2>2, <2>3, NotWritten DEF Writes
  <2> QED BY <1>2, <2>3, <2>4
<1>6. CASE Lookup(r)
  <2>1. req[r].pc = "lookup" BY <1>6 DEF Lookup
  <2>2. result' = result \/ \E w \in {"UnknownOrigin", "MultipleMatches"} : Respond(r, w)
    BY <1>6 DEF Lookup
  <2>3. result'[r] # "SessionExpired" BY <1>1, <1>3, <2>1, <2>2 DEF Respond
  <2> QED BY <1>2, <2>1, <2>3 DEF Gated
<1>7. CASE ProbeAndAsk(r) BY <1>2, <1>3, <1>7 DEF ProbeAndAsk, Gated
<1>8. CASE Resume(r)
  <2>1. req[r].pc = "asked" BY <1>8 DEF Resume
  <2>2. result' = result \/ \E w \in {"UserRejected", "Timeout"} : Respond(r, w)
    BY <1>8 DEF Resume, Goto
  <2>3. result'[r] # "SessionExpired" BY <1>1, <1>3, <2>1, <2>2 DEF Respond
  <2> QED BY <1>2, <2>1, <2>3 DEF Gated
<1>9. CASE Mutate(r) BY <1>2, <1>3, <1>9 DEF Mutate, Gated
<1>10. CASE Persist(r)
  <2>1. req[r].pc = "persist" BY <1>10 DEF Persist
  <2>2. result' = result \/ Respond(r, StoreAction(req[r].found)) BY <1>10 DEF Persist, Goto
  <2>3. StoreAction(req[r].found) # "SessionExpired" BY StoreActionIsStored DEF Stored
  <2>4. result'[r] # "SessionExpired" BY <1>1, <1>3, <2>1, <2>2, <2>3 DEF Respond
  <2> QED BY <1>2, <2>1, <2>4 DEF Gated
<1>11. CASE Rollback(r)
  <2>1. req[r].pc = "rollback" /\ Respond(r, "Internal") BY <1>11 DEF Rollback
  <2>2. result'[r] = "Internal" BY <1>1, <2>1 DEF Respond
  <2> QED BY <1>2, <2>1, <2>2 DEF Gated
<1>12. CASE Seal(r)
  <2>1. req[r].pc = "seal" /\ req[r].pc \in Gated BY <1>12 DEF Seal, Gated
  <2>2. CanSeal(session) BY <2>1 DEF SessionKept, CanSeal
  <2>3. result' = [result EXCEPT ![r] = IF req[r].kind = "release" THEN "Released"
                                        ELSE StoreAction(req[r].found)]
    BY <1>12, <2>2 DEF Seal
  <2>4. StoreAction(req[r].found) # "SessionExpired" BY StoreActionIsStored DEF Stored
  <2>5. result'[r] # "SessionExpired" BY <1>1, <2>3, <2>4
  <2> QED BY <1>2, <2>1, <2>5
<1> QED BY <1>4, <1>5, <1>6, <1>7, <1>8, <1>9, <1>10, <1>11, <1>12

LEMMA GateOpens ==
  ASSUME EInv, GInv, SessionKept, NEW r \in Reqs,
         NEW n \in {session.last_nonce, session.last_nonce + 1}, Gate(r, n)
  PROVE  /\ IsActive(session') => session'.key # NoKey
         /\ req'[r].pc \in Gated => IsActive(session')
         /\ result'[r] = "SessionExpired" => ~Writes(r)'
<1>1. req \in [Reqs -> Requests] /\ session \in Sessions BY DEF EInv, EngineTypes
<1>2. n \in Nat /\ 0 \in Nat
  <2>1. session.last_nonce \in Nat BY <1>1 DEF Sessions
  <2> QED BY <2>1
<1>3. IsActive(session') => session'.key # NoKey
  <2>1. session' \in {session, Expire(session), AcceptNonce(session, n, 0)} BY DEF Gate
  <2>2. IsActive(session) => session.key # NoKey BY DEF SessionKept
  <2> QED BY <1>1, <1>2, <2>1, <2>2, SessionMoves
<1>4. req[r].pc = "arrived" BY DEF Gate
<1>5. /\ req'[r].kind = req[r].kind /\ req'[r].password = req[r].password
      /\ req'[r].pc \in Gated => /\ AcceptNonceVerdict(session, n) = "Ok"
                                 /\ session' = AcceptNonce(session, n, 0)
  <2>1. CASE \E w : Respond(r, w)
    <3>1. req' = [req EXCEPT ![r].pc = "done"] BY <2>1 DEF Respond
    <3>2. req'[r].pc = "done" BY <1>1, <3>1 DEF Requests
    <3> QED BY <1>1, <3>1, <3>2 DEF Requests, Gated
  <2>2. CASE /\ AcceptNonceVerdict(session, n) = "Ok" /\ session' = AcceptNonce(session, n, 0)
             /\ \E k, p : req' = [req EXCEPT ![r].gate = k, ![r].pc = p]
    BY <1>1, <2>2 DEF Requests
  <2> QED BY <2>1, <2>2 DEF Gate
<1>6. req'[r].pc \in Gated => IsActive(session')
  <2> SUFFICES ASSUME req'[r].pc \in Gated PROVE IsActive(session') OBVIOUS
  <2>1. AcceptNonceVerdict(session, n) = "Ok" /\ session' = AcceptNonce(session, n, 0) BY <1>5
  <2>2. IsActive(session)
    <3> SUFFICES ASSUME ~IsActive(session) PROVE FALSE OBVIOUS
    <3>1. AcceptNonceVerdict(session, n) # "Ok" BY DEF AcceptNonceVerdict
    <3> QED BY <2>1, <3>1
  <2> QED BY <1>1, <1>2, <2>1, <2>2, SessionMoves
<1>7. ~Writes(r)'
  <2>1. req[r].pc \notin Late BY <1>4 DEF Late
  <2> QED BY <1>5, <2>1, NotWritten DEF Writes
<1> QED BY <1>3, <1>6, <1>7

SInv == OneFlight /\ SessionKept /\ ExpiredUnwritten

LEMMA SessionStays ==
  ASSUME SingleFlight, EInv, GInv, SInv, [EngineNext]_allVars
  PROVE  SessionKept' /\ ExpiredUnwritten'
<1>1. OneFlight /\ SessionKept /\ ExpiredUnwritten BY DEF SInv
<1>2. req \in [Reqs -> Requests] /\ result \in [Reqs -> Results] /\ session \in Sessions
  BY DEF EInv, EngineTypes
<1>3. CASE UNCHANGED <<req, result, session>>
  BY <1>1, <1>3 DEF SessionKept, ExpiredUnwritten, Writes
<1>4. CASE EstablishSession \/ List
  <2>1. TransportFree /\ UNCHANGED <<req, result>> BY <1>4 DEF EstablishSession, List
  <2>2. \A q \in Reqs : req[q].pc \notin Gated BY <2>1 DEF TransportFree, Gated
  <2>3. nextKey \in Nat /\ nextKey # NoKey /\ 0 \in Nat BY DEF EInv, EngineTypes, NoKey
  <2>4. IsActive(session') => session'.key # NoKey
    <3>1. session' \in {AcceptUnparsable(session), AcceptLowOrder(session),
                        AcceptOk(session, nextKey, 0), Expire(session)}
      BY <1>4 DEF EstablishSession, List
    <3> QED BY <1>2, <2>3, <3>1, SessionMoves
  <2>5. SessionKept' BY <2>1, <2>2, <2>4 DEF SessionKept
  <2>6. ExpiredUnwritten' BY <1>1, <2>1 DEF ExpiredUnwritten, Writes
  <2> QED BY <2>5, <2>6
<1>5. ASSUME NEW r \in Reqs, EngineStep(r) PROVE SessionKept' /\ ExpiredUnwritten'
  <2>1. \A q \in Reqs \ {r} : req'[q] = req[q] /\ req[q].pc \notin Gated
    BY <1>1, <1>5, StepMovesOne DEF OneFlight, Flying, Gated
  <2>2. \A q \in Reqs \ {r} : result'[q] = result[q]
    <3>1. result' = result \/ \E w : result' = [result EXCEPT ![r] = w]
      BY <1>5 DEF EngineStep, Invalid, OpenPassword, Lookup, ProbeAndAsk, Resume, Mutate, Persist,
                  Rollback, Seal, Gate, Respond, Goto
    <3> QED BY <1>2, <3>1
  <2>3. /\ IsActive(session') => session'.key # NoKey
        /\ req'[r].pc \in Gated => IsActive(session')
        /\ result'[r] = "SessionExpired" => ~Writes(r)'
    <3>1. CASE \E n \in {session.last_nonce, session.last_nonce + 1} : Gate(r, n)
      BY <1>1, <3>1, GateOpens
    <3>2. CASE \/ Invalid(r) \/ OpenPassword(r) \/ Lookup(r) \/ ProbeAndAsk(r)
               \/ Resume(r) \/ Mutate(r) \/ Persist(r) \/ Rollback(r) \/ Seal(r)
      <4>1. /\ session' = session
            /\ req'[r].pc \in Gated => req[r].pc \in Gated
            /\ result'[r] = "SessionExpired" => ~Writes(r)'
        BY <1>1, <3>2, StepKeepsGate
      <4> QED BY <1>1, <4>1 DEF SessionKept
    <3> QED BY <1>5, <3>1, <3>2 DEF EngineStep
  <2>4. SessionKept' BY <2>1, <2>3 DEF SessionKept
  <2>5. ExpiredUnwritten'
    <3> SUFFICES ASSUME NEW q \in Reqs, result'[q] = "SessionExpired" PROVE ~Writes(q)'
      BY DEF ExpiredUnwritten
    <3>1. CASE q = r BY <2>3, <3>1
    <3>2. CASE q # r BY <1>1, <2>1, <2>2, <3>2 DEF ExpiredUnwritten, Writes
    <3> QED BY <3>1, <3>2
  <2> QED BY <2>4, <2>5
<1>6. ASSUME NEW r \in Reqs, NEW kind, NEW o, NEW u, NEW k, Arrive(r, kind, o, u, k)
      PROVE  SessionKept' /\ ExpiredUnwritten'
  <2>1. req[r].pc = "new" /\ UNCHANGED <<session, result>> BY <1>6 DEF Arrive
  <2>2. PICK x : x = [NewReq EXCEPT !.pc = "arrived", !.kind = kind, !.o = o, !.u = u, !.key = k]
    OBVIOUS
  <2>3. req' = [req EXCEPT ![r] = x] BY <1>6, <2>2 DEF Arrive
  <2>4. x.pc = "arrived"
    <3>1. PICK n \in Requests : n = NewReq BY NewReqIs
    <3> QED BY <2>2, <3>1 DEF Requests
  <2>5. req'[r] = x /\ \A q \in Reqs \ {r} : req'[q] = req[q] BY <1>2, <2>3
  <2>6. SessionKept' BY <1>1, <2>1, <2>4, <2>5 DEF SessionKept, Gated
  <2>7. result[r] = "none" BY <2>1 DEF GInv
  <2>8. ExpiredUnwritten' BY <1>1, <2>1, <2>5, <2>7 DEF ExpiredUnwritten, Writes
  <2> QED BY <2>6, <2>8
<1>7. CASE Cancel \/ UserStep \/ UNCHANGED allVars
  BY <1>3, <1>7 DEF Cancel, UserStep, engineVars, allVars
<1>8. ASSUME NEW r \in Reqs, Decide(r) PROVE SessionKept' /\ ExpiredUnwritten'
  BY <1>3, <1>8 DEF Decide
<1> QED BY <1>4, <1>5, <1>6, <1>7, <1>8 DEF EngineNext

LEMMA SessionAtFirst == EngineInit => SInv
<1> SUFFICES ASSUME EngineInit PROVE SInv OBVIOUS
<1>1. /\ req = [r \in Reqs |-> NewReq] /\ result = [r \in Reqs |-> "none"]
      /\ session = NewSession
  BY DEF EngineInit
<1>2. \A r \in Reqs : req[r].pc = "new" /\ result[r] = "none" BY <1>1, NewReqIs
<1>3. ~IsActive(session) BY <1>1 DEF NewSession, IsActive
<1>4. OneFlight BY FlightInit
<1> QED BY <1>2, <1>3, <1>4 DEF SInv, SessionKept, Gated, ExpiredUnwritten

(* Over WebUSB generate and store are atomic towards the host also while   *)
(* the user edits: an error, of the persist or of the seal, comes with no  *)
(* trace of the write, unless a rollback put back a snapshot older than    *)
(* the disk (engine.rs handle_generate, "atomic generate+store").          *)
THEOREM AtomicOverUsb ==
  ASSUME SingleFlight
  PROVE  EngineSpec => [](~raced => Undone)
<1> DEFINE Inv == EInv /\ IInv /\ GInv /\ SInv
<1>1. EngineInit => Inv BY EngineInitEInv, GInit, SessionAtFirst
<1>2. Inv /\ [EngineNext]_allVars => Inv'
  <2> SUFFICES ASSUME Inv, [EngineNext]_allVars PROVE Inv' OBVIOUS
  <2>1. EInv' /\ IInv' BY EngineNextKeeps
  <2>2. GInv' BY GKept
  <2>3. OneFlight' BY OneFlightKept DEF SInv
  <2>4. SessionKept' /\ ExpiredUnwritten' BY SessionStays
  <2> QED BY <2>1, <2>2, <2>3, <2>4 DEF SInv
<1>3. Inv => (~raced => Undone)
  BY DEF GInv, Clean, SInv, ExpiredUnwritten, Undone, Writes, NoTrace
<1> HIDE DEF Inv
<1> QED BY <1>1, <1>2, <1>3, PTL DEF EngineSpec

LEMMA CalmStays ==
  ASSUME ~UserEdits, EInv, IInv, OneFlight, Calm, [EngineNext]_allVars
  PROVE  Calm'
<1>1. CASE UNCHANGED vars BY <1>1 DEF Calm, vars
<1>2. commit \in [Committers -> Commits] /\ Types BY DEF IInv, Types
<1>3. ASSUME NEW r \in Reqs, req[r].pc \in Writing
      PROVE  \A q \in Reqs \ {r} : commit[q].pc = "idle"
  BY <1>3 DEF OneFlight, Flying, Writing, EInv, InCommit
<1>4. ASSUME NEW r \in Reqs, Mutate(r) PROVE Calm'
  <2>1. req[r].pc = "commit" /\ CommitMutate(r, req[r].o, req[r].u) BY <1>4 DEF Mutate
  <2>2. r \in Committers /\ req[r].o \in Origins /\ req[r].u \in Usernames BY <1>4, MutateMoves
  <2>3. /\ commit'[r].snap = records
        /\ \A d \in Committers : d # r => commit'[d] = commit[d]
    BY <2>1, <2>2, CommitMutateWrites
  <2>4. disk' = disk /\ raced' = raced /\ Unlocked BY <2>1 DEF CommitMutate
  <2>5. \A q \in Reqs \ {r} : commit[q].pc = "idle" BY <1>3, <2>1 DEF Writing
  <2>6. commit[r].pc = "idle" BY <2>1 DEF CommitMutate
  <2>7. records = disk BY <2>4, <2>5, <2>6, EngineAssumption DEF IInv, InStep, Base, Calm
  <2> QED BY <2>3, <2>4, <2>5, <2>7, EngineAssumption DEF Calm
<1>5. ASSUME NEW r \in Reqs, Persist(r) PROVE Calm'
  <2>1. req[r].pc = "persist" /\ CommitPersist(r) /\ r \in Committers
    BY <1>5, EngineAssumption DEF Persist
  <2>2. /\ \A d \in Committers : d # r => commit'[d] = commit[d]
        /\ commit'[r].pc \in {"idle", "failed"}
        /\ commit'[r].pc = "failed" => commit'[r].snap = commit[r].snap /\ disk' = disk
    BY <1>2, <2>1, CommitPersistEnds
  <2>3. raced' = raced /\ commit[r].pc = "mutated" BY <2>1 DEF CommitPersist
  <2>4. \A q \in Reqs \ {r} : commit[q].pc = "idle" BY <1>3, <2>1 DEF Writing
  <2> QED BY <2>2, <2>3, <2>4, EngineAssumption DEF Calm
<1>6. ASSUME NEW r \in Reqs, Rollback(r) PROVE Calm'
  <2>1. req[r].pc = "rollback" /\ CommitRollback(r) /\ r \in Committers
    BY <1>6, EngineAssumption DEF Rollback
  <2>2. /\ commit[r].pc = "failed" /\ raced' = (raced \/ commit[r].snap # disk)
        /\ commit' = [commit EXCEPT ![r] = NoCommit] /\ disk' = disk
    BY <2>1 DEF CommitRollback
  <2>3. commit[r].snap = disk /\ ~raced' BY <2>2 DEF Calm
  <2>4. \A q \in Reqs : commit'[q].pc = "idle"
    <3>1. \A q \in Reqs \ {r} : commit[q].pc = "idle" BY <1>3, <2>1 DEF Writing
    <3> QED BY <1>2, <2>1, <2>2, <3>1, EngineAssumption DEF NoCommit
  <2> QED BY <2>3, <2>4 DEF Calm
<1>7. CASE UserStep BY <1>7 DEF UserStep
<1>8. CASE EstablishSession \/ List \/ Cancel BY <1>1, <1>8 DEF EstablishSession, List, Cancel
<1>9. ASSUME NEW r \in Reqs, Decide(r) PROVE Calm' BY <1>1, <1>9 DEF Decide
<1>10. ASSUME NEW r \in Reqs, NEW kind, NEW o, NEW u, NEW k, Arrive(r, kind, o, u, k) PROVE Calm'
  BY <1>1, <1>10 DEF Arrive
<1>11. ASSUME NEW r \in Reqs, EngineStep(r) PROVE Calm'
  <2>1. CASE Mutate(r) \/ Persist(r) \/ Rollback(r) BY <1>4, <1>5, <1>6, <2>1
  <2>2. CASE UNCHANGED vars BY <1>1, <2>2
  <2>3. \/ Mutate(r) \/ Persist(r) \/ Rollback(r) \/ UNCHANGED vars
    BY <1>11 DEF EngineStep, Invalid, OpenPassword, Lookup, ProbeAndAsk, Resume, Seal, Gate
  <2> QED BY <2>1, <2>2, <2>3
<1>12. CASE UNCHANGED allVars BY <1>1, <1>12 DEF allVars
<1> QED BY <1>7, <1>8, <1>9, <1>10, <1>11, <1>12 DEF EngineNext

(* ... and with nobody at the device's other screens the exception is gone *)
(* too: over WebUSB no request that failed has left a trace, in memory or  *)
(* on disk (engine.rs commit_store_mutation).                              *)
THEOREM ErrorsLeaveNoTrace ==
  ASSUME SingleFlight, ~UserEdits
  PROVE  EngineSpec => []Undone
<1> DEFINE Inv == EInv /\ IInv /\ OneFlight /\ Calm
<1>1. EngineInit => Inv
  <2> SUFFICES ASSUME EngineInit PROVE Inv OBVIOUS
  <2>1. Calm BY EngineAssumption DEF EngineInit, Calm, NoCommit
  <2> QED BY <2>1, EngineInitEInv, FlightInit
<1>2. Inv /\ [EngineNext]_allVars => Inv'
  <2> SUFFICES ASSUME Inv, [EngineNext]_allVars PROVE Inv' OBVIOUS
  <2>1. EInv' /\ IInv' BY EngineNextKeeps
  <2> QED BY <2>1, OneFlightKept, CalmStays
<1>3. Inv => ~raced BY DEF Calm
<1>4. EngineSpec => [](~raced => Undone) BY AtomicOverUsb
<1> HIDE DEF Inv
<1> QED BY <1>1, <1>2, <1>3, <1>4, PTL DEF EngineSpec
=============================================================================
