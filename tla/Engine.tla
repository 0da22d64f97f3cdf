------------------------------- MODULE Engine -------------------------------
(***************************************************************************)
(* The protocol dispatcher of vaults-bridge-core/src/engine.rs over the    *)
(* session, the approver and the vault: release_credential,                *)
(* store_credential and generate_password from the gate to the response,   *)
(* with every point where a lock is released or a decision is awaited a    *)
(* step boundary, next to the user who edits the vault on the device.      *)
(* Here the approver is its trait (module Approver); SlintApprover is      *)
(* shown to implement it.  Commits and the user's edits are Vault's own.   *)
(***************************************************************************)
EXTENDS Vault, Session

LOCAL INSTANCE TLC

CONSTANTS Reqs,         \* requests, each handled once; they are the committers
          NoHint,       \* a release without username_hint
          SingleFlight, \* TRUE: WebUSB; FALSE: a task per WebSocket connection
          UserEdits,    \* whether the user edits the vault meanwhile
          MaxKeys       \* bound on successful handshakes

ASSUME EngineAssumption ==
  /\ Committers = Reqs
  /\ NoHint \notin Usernames
  /\ {SingleFlight, UserEdits} \subseteq BOOLEAN
  /\ MaxKeys \in Nat

VARIABLES session, nextKey,
          req,     \* each request: its pc, parameters and what it found
          result,  \* the response: "none", an error, or what was done
          status   \* the approver's

engineVars == <<session, nextKey, req, result, status>>
allVars == <<vars, engineVars>>

A == INSTANCE Approver

(* In a request: login (o, u); key the payload is sealed under; found the  *)
(* probe's or the lookup's finding; gate the session key the nonce was     *)
(* accepted under; password what it released or wrote (0: nothing yet);    *)
(* sealed the key of the answer.  History, for the properties: seen the    *)
(* login's records at the probe, did what the commit did to the vault,     *)
(* moved whether those records had changed by then.                        *)
NewReq == [pc |-> "new", kind |-> "release", o |-> CHOOSE o \in Origins : TRUE,
           u |-> NoHint, key |-> NoKey, found |-> "None", gate |-> NoKey,
           password |-> 0, sealed |-> NoKey, did |-> "None", seen |-> [i \in {} |-> FALSE],
           moved |-> FALSE]

(* The vaults a session may start on: none, one or two saved logins (the   *)
(* same login twice too), each live or archived.                           *)
Saved(n, o, u, a) == [id |-> 2 * n - 1, origin |-> o, username |-> u,
                      password |-> 2 * n, archived |-> a, color |-> 0]

StartVaults ==
  LET S(n) == {Saved(n, o, u, a) : o \in Origins, u \in Usernames, a \in BOOLEAN}
  IN {<<>>} \cup {<<x>> : x \in S(1)} \cup {<<x, y>> : x \in S(1), y \in S(2)}

EngineInit == /\ records \in StartVaults /\ disk = records
              /\ commit = [e \in Committers |-> NoCommit]
              /\ batch = NoBatch /\ staged = [import |-> <<>>, restore |-> <<>>]
              /\ backup = <<>> /\ fresh = 5 /\ crashes = 0 /\ owed = [i \in {} |-> 0]
              /\ raced = FALSE
              /\ session = NewSession /\ nextKey = NoKey + 1
              /\ req = [r \in Reqs |-> NewReq]
              /\ result = [r \in Reqs |-> "none"]
              /\ A!ApproverInit

TransportFree == SingleFlight => \A q \in Reqs : req[q].pc \in {"new", "done"}

Respond(r, what) == /\ req' = [req EXCEPT ![r].pc = "done"]
                    /\ result' = [result EXCEPT ![r] = what]

Goto(r, next) == /\ req' = [req EXCEPT ![r].pc = next]
                 /\ UNCHANGED result

(* establish_session (also by another client while a request waits).       *)
EstablishSession ==
  /\ TransportFree
  /\ \/ session' = AcceptUnparsable(session) /\ UNCHANGED nextKey
     \/ session' = AcceptLowOrder(session) /\ UNCHANGED nextKey
     \/ /\ nextKey <= MaxKeys
        /\ session' = AcceptOk(session, nextKey, 0) /\ nextKey' = nextKey + 1
  /\ UNCHANGED <<vars, req, result, status>>

(* Whether the idle time has passed is left open, except that it cannot    *)
(* pass while a gated request waits: the gate restarted the timer, and an  *)
(* approval window (60 s) is far shorter than idle_ms (15 min).            *)
MayBeIdle == /\ IsActive(session)
             /\ \A q \in Reqs : req[q].pc \in {"new", "arrived", "done"}

(* list_origins, list_credentials: gate_active_session, then a read.       *)
List == /\ TransportFree /\ MayBeIdle
        /\ session' = Expire(session)
        /\ UNCHANGED <<vars, nextKey, req, result, status>>

(* cancel: whatever approval is pending is rejected.                       *)
Cancel == /\ TransportFree
          /\ \E q \in Reqs : A!Answer(q, "Reject")
          /\ UNCHANGED <<vars, session, nextKey, req, result>>

(* A request arrives.  Its origin or a field may be invalid.               *)
Arrive(r, kind, o, u, k) ==
  /\ req[r].pc = "new" /\ TransportFree
  /\ u = NoHint => kind = "release"
  /\ req' = [req EXCEPT ![r] = [NewReq EXCEPT !.pc = "arrived", !.kind = kind,
                                              !.o = o, !.u = u, !.key = k]]
  /\ UNCHANGED <<vars, session, nextKey, result, status>>

Invalid(r) == /\ req[r].pc = "arrived"
              /\ Respond(r, "InvalidRequest")
              /\ UNCHANGED <<vars, session, nextKey, status>>

(* gate_session; generate then checks its policy.                          *)
Gate(r, nonce) ==
  /\ req[r].pc = "arrived"
  /\ \/ /\ MayBeIdle
        /\ session' = Expire(session)
        /\ Respond(r, "SessionExpired")
     \/ /\ AcceptNonceVerdict(session, nonce) # "Ok"
        /\ Respond(r, IF IsActive(session) THEN "NonceReused" ELSE "SessionExpired")
        /\ UNCHANGED session
     \/ /\ AcceptNonceVerdict(session, nonce) = "Ok"
        /\ session' = AcceptNonce(session, nonce, 0)
        /\ \/ /\ req' = [req EXCEPT ![r].gate = session.key,
                           ![r].pc = IF req[r].kind = "store" THEN "open" ELSE "lookup"]
              /\ UNCHANGED result
           \/ req[r].kind = "generate" /\ Respond(r, "BadPolicy")
  /\ UNCHANGED <<vars, nextKey, status>>

(* handle_store: the sealed password is opened before anyone is asked.     *)
OpenPassword(r) ==
  /\ req[r].pc = "open"
  /\ IF CanOpen(session, req[r].key)
     THEN Goto(r, "lookup") \/ Respond(r, "InvalidRequest")
     ELSE Respond(r, IF IsActive(session) THEN "Internal" ELSE "SessionExpired")
  /\ UNCHANGED <<vars, session, nextKey, status>>

(* handle_release: the lookup under the store lock, then the approval is   *)
(* requested; the password found now is the one sealed later.              *)
Lookup(r) ==
  LET live == LivePositions(records, req[r].o)
      i == IF req[r].u # NoHint THEN PosOfLive(records, req[r].o, req[r].u) ELSE First(live)
  IN /\ req[r].pc = "lookup" /\ req[r].kind = "release" /\ Unlocked
     /\ IF i = 0
        THEN Respond(r, "UnknownOrigin") /\ UNCHANGED status
        ELSE IF req[r].u = NoHint /\ live # {i}
        THEN Respond(r, "MultipleMatches") /\ UNCHANGED status
        ELSE /\ req' = [req EXCEPT ![r].pc = "asked", ![r].u = records[i].username,
                                   ![r].password = records[i].password]
             /\ A!Ask(r) /\ UNCHANGED result
     /\ UNCHANGED <<vars, session, nextKey>>

(* The records of a login: where they are and which are archived.          *)
Standing(recs, o, u) ==
  [i \in {i \in DOMAIN recs : recs[i].origin = o /\ recs[i].username = u} |-> recs[i].archived]

(* Mutant: the probe does not see archived records.                        *)
ProbeAndAskLiveOnly(r) ==
  /\ req[r].pc = "lookup" /\ req[r].kind # "release" /\ Unlocked
  /\ req' = [req EXCEPT ![r].pc = "asked", ![r].seen = Standing(records, req[r].o, req[r].u),
       ![r].found = IF PosOfLive(records, req[r].o, req[r].u) = 0 THEN "None" ELSE "Live"]
  /\ A!Ask(r)
  /\ UNCHANGED <<vars, session, nextKey, result>>

(* handle_store, handle_generate: probe, then request the approval.        *)
ProbeAndAsk(r) ==
  /\ req[r].pc = "lookup" /\ req[r].kind # "release" /\ Unlocked
  /\ req' = [req EXCEPT ![r].pc = "asked", ![r].found = Probe(records, req[r].o, req[r].u),
                        ![r].seen = Standing(records, req[r].o, req[r].u)]
  /\ A!Ask(r)
  /\ UNCHANGED <<vars, session, nextKey, result>>

(* The approver answers (user, timeout, replacement by another request).   *)
Decide(r) == /\ \E d \in A!Decisions : A!Answer(r, d)
             /\ UNCHANGED <<vars, session, nextKey, req, result>>

(* Mutant: only Reject is checked, Timeout falls through.                  *)
ResumeOnTimeout(r) ==
  /\ req[r].pc = "asked"
  /\ \/ status[r] = "Reject" /\ Respond(r, "UserRejected")
     \/ status[r] \in {"Approve", "Timeout"}
          /\ Goto(r, IF req[r].kind = "release" THEN "seal" ELSE "commit")
  /\ UNCHANGED <<vars, session, nextKey, status>>

Resume(r) ==
  /\ req[r].pc = "asked"
  /\ \/ status[r] = "Reject" /\ Respond(r, "UserRejected")
     \/ status[r] = "Timeout" /\ Respond(r, "Timeout")
     \/ status[r] = "Approve"
          /\ Goto(r, IF req[r].kind = "release" THEN "seal" ELSE "commit")
  /\ UNCHANGED <<vars, session, nextKey, status>>

(* The store_action that goes with what the probe found.                   *)
StoreAction(found) == IF found = "None" THEN "Saved"
                      ELSE IF found = "Live" THEN "Updated" ELSE "RestoredAndUpdated"

(* What a mutation did, told from the vault before and after it.           *)
Effect(before, after) ==
  IF Len(after) > Len(before) THEN "Saved"
  ELSE IF \E i \in DOMAIN before : before[i].archived /\ ~after[i].archived
  THEN "RestoredAndUpdated" ELSE "Updated"

Mutate(r) ==
  /\ req[r].pc = "commit"
  /\ CommitMutate(r, req[r].o, req[r].u)
  /\ req' = [req EXCEPT ![r].pc = "persist", ![r].password = commit'[r].password,
                        ![r].did = Effect(records, records'), ![r].seen = NewReq.seen,
                        ![r].moved = Standing(records, req[r].o, req[r].u) # req[r].seen]
  /\ UNCHANGED <<session, nextKey, result, status>>

Persist(r) ==
  /\ req[r].pc = "persist"
  /\ CommitPersist(r)
  /\ IF commit'[r].pc = "failed" THEN Goto(r, "rollback")
     ELSE IF req[r].kind = "store" THEN Respond(r, StoreAction(req[r].found))
     ELSE Goto(r, "seal")
  /\ UNCHANGED <<session, nextKey, status>>

(* Mutant: "persist failed" is answered without restore_snapshot.          *)
RollbackForgotten(r) == /\ req[r].pc = "rollback"
                        /\ commit' = [commit EXCEPT ![r] = NoCommit]
                        /\ Respond(r, "Internal")
                        /\ UNCHANGED <<records, disk, batch, staged, backup, fresh, crashes,
                                       owed, raced, session, nextKey, status>>

Rollback(r) == /\ req[r].pc = "rollback"
               /\ CommitRollback(r)
               /\ Respond(r, "Internal")
               /\ UNCHANGED <<session, nextKey, status>>

(* The answer is sealed under whatever session there is by now.            *)
Seal(r) ==
  /\ req[r].pc = "seal"
  /\ IF CanSeal(session)
     THEN /\ req' = [req EXCEPT ![r].pc = "done", ![r].sealed = session.key]
          /\ result' = [result EXCEPT ![r] = IF req[r].kind = "release" THEN "Released"
                                             ELSE StoreAction(req[r].found)]
     ELSE Respond(r, "SessionExpired")
  /\ UNCHANGED <<vars, session, nextKey, status>>

(* The user's edits on the device: Vault's UI callbacks.  The bound leaves *)
(* a commit the id and the password it may still need.                     *)
RoomForEdit == CanDraw(4)

UserStep ==
  /\ UserEdits
  /\ \/ RoomForEdit /\ \E o \in Origins, u \in Usernames : SaveNew(o, u, 0)
     \/ RoomForEdit /\ \E id \in Ids(records), u \in Usernames : EditSave(id, u, 0, FALSE)
     \/ \E id \in Ids(records) : DeleteForever(id) \/ \E a \in BOOLEAN : Archive(id, a)
  /\ UNCHANGED engineVars

EngineStep(r) == \/ Invalid(r) \/ OpenPassword(r) \/ Lookup(r) \/ ProbeAndAsk(r)
                 \/ Resume(r) \/ Mutate(r) \/ Persist(r) \/ Rollback(r) \/ Seal(r)
                 \/ \E n \in {session.last_nonce, session.last_nonce + 1} : Gate(r, n)

EngineNext ==
  \/ EstablishSession \/ List \/ Cancel \/ UserStep
  \/ \E r \in Reqs : \/ EngineStep(r) \/ Decide(r)
                     \/ \E kind \in {"release", "store", "generate"}, o \in Origins,
                           u \in Usernames \cup {NoHint}, k \in 1..MaxKeys :
                          Arrive(r, kind, o, u, k)

EngineSpec == EngineInit /\ [][EngineNext]_allVars

(* For TLC: usernames are only compared with one another.                  *)
UsernameSymmetry == Permutations(Usernames)
-----------------------------------------------------------------------------
Errors == {"InvalidRequest", "SessionExpired", "NonceReused", "BadPolicy", "Internal",
           "UnknownOrigin", "MultipleMatches", "UserRejected", "Timeout"}
Stored == {"Saved", "Updated", "RestoredAndUpdated"}

(* A password is in a set of records.                                      *)
Holds(recs, p) == \E i \in DOMAIN recs : recs[i].password = p

Writes(r) == req[r].kind # "release" /\ req[r].password # 0

(* Without the user's Approve for this very request nothing is released    *)
(* and nothing is stored (engine.rs handle_release, handle_store,          *)
(* handle_generate: Reject and Timeout both return before any effect).     *)
NothingWithoutConsent ==
  \A r \in Reqs : result[r] \in {"Released"} \cup Stored \/ Writes(r)
                    => status[r] = "Approve"

NoTrace(r) == ~Holds(records, req[r].password) /\ ~Holds(disk, req[r].password)

(* A request that was answered with an error left no trace in the vault,   *)
(* neither in memory nor on disk (engine.rs commit_store_mutation;         *)
(* message.rs: "atomic generate+store"), whatever the user edits           *)
(* meanwhile.  Two cases are left out: a rollback that put back a snapshot *)
(* older than the disk, and a generate whose session ended after its       *)
(* commit and before the seal.                                             *)
ErrorHasNoEffect ==
  \A r \in Reqs : result[r] \in Errors \ {"SessionExpired"} /\ Writes(r) /\ ~raced
                    => NoTrace(r)

(* The action reported to the host, which is also the one on the approval  *)
(* card, is what the upsert did to the vault (message.rs                   *)
(* StoreCredentialResult: "What the device actually did"), with any number *)
(* of records of the login, live or archived, unless the user or another   *)
(* request changed those very records while the approval was pending.      *)
ReportedIsDone ==
  \A r \in Reqs : result[r] \in Stored /\ ~req[r].moved => result[r] = req[r].did
=============================================================================
