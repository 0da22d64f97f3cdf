------------------------- MODULE DeviceSessionProofs -------------------------
(***************************************************************************)
(* Proofs about DeviceSession, for any set of tasks, either transport, any *)
(* idle time and any behaviour of the clocks.                              *)
(***************************************************************************)
EXTENDS DeviceSession, TLAPS

(* Why no nonce repeats: the nonces accepted under the current key are at  *)
(* most last_nonce, and a key that is still to come is not in the log.     *)
LogBelow == \A i \in DOMAIN log :
              /\ log[i][1] # NoKey /\ log[i][1] < nextKey
              /\ log[i][1] = session.key => log[i][2] <= session.last_nonce

(* The key in use was derived by a handshake that is over.                 *)
KeyOld == session.key < nextKey

ReplayInv == TypeOK /\ LogBelow /\ KeyOld /\ NoReplay

(* A step that adds nothing to the log, and keeps the session's key and    *)
(* nonce counter, drops the key or takes a brand-new one, preserves the    *)
(* invariant.                                                              *)
LEMMA KeptLog ==
  ASSUME ReplayInv, log' = log, TypeOK',
         \/ /\ session'.key = session.key /\ nextKey' = nextKey
            /\ session'.last_nonce = session.last_nonce
         \/ session'.key = NoKey /\ nextKey' = nextKey
         \/ session'.key = nextKey /\ nextKey' = nextKey + 1
  PROVE  ReplayInv'
<1>1. log \in Seq(Nat \X Nat) /\ nextKey \in Nat \ {0} /\ session.key < nextKey
  BY DEF ReplayInv, TypeOK, KeyOld
<1>2. \A i \in DOMAIN log : log[i][1] \in Nat /\ log[i][2] \in Nat
  BY <1>1
<1>3. KeyOld'
  BY <1>1 DEF KeyOld, NoKey
<1>4. LogBelow'
  BY <1>1, <1>2 DEF ReplayInv, LogBelow, NoKey
<1>5. NoReplay'
  BY DEF ReplayInv, NoReplay
<1> QED BY <1>3, <1>4, <1>5 DEF ReplayInv

(* What the session operations do to the type, the key, the nonce counter  *)
(* and the state.                                                          *)
LEMMA AcceptFacts ==
  ASSUME NEW s \in Sessions
  PROVE  /\ AcceptUnparsable(s) \in Sessions /\ AcceptUnparsable(s).key = s.key
         /\ AcceptUnparsable(s).last_nonce = s.last_nonce
         /\ AcceptUnparsable(s).state = "Handshaking"
         /\ AcceptLowOrder(s) \in Sessions /\ AcceptLowOrder(s).key = s.key
         /\ AcceptLowOrder(s).last_nonce = s.last_nonce
         /\ AcceptLowOrder(s).state = "Idle"
BY DEF Sessions, SessionStates, AcceptUnparsable, AcceptLowOrder

LEMMA ExpireFacts ==
  ASSUME NEW s \in Sessions
  PROVE  /\ Expire(s) \in Sessions /\ Expire(s).key = NoKey
         /\ Expire(s).state = "Expired"
BY DEF Sessions, SessionStates, Expire, NoKey

LEMMA InitReplay == Init => ReplayInv
BY DEF Init, ReplayInv, TypeOK, LogBelow, KeyOld, NoReplay, NewSession, Sessions,
       SessionStates, NoTask, TaskStates, NoKey

(* The tasks' part of the type invariant, once for all actions.            *)
LEMMA TaskTypes ==
  ASSUME TypeOK, NEW c \in Tasks
  PROVE  /\ task[c] \in TaskStates
         /\ [task EXCEPT ![c].pc = "idle"] \in [Tasks -> TaskStates]
         /\ [task EXCEPT ![c].pc = "opened"] \in [Tasks -> TaskStates]
<1>1. task \in [Tasks -> TaskStates] /\ task[c] \in TaskStates
  BY DEF TypeOK
<1>2. /\ [task[c] EXCEPT !.pc = "idle"] \in TaskStates
      /\ [task[c] EXCEPT !.pc = "opened"] \in TaskStates
  BY <1>1 DEF TaskStates
<1> QED BY <1>1, <1>2

LEMMA NextReplay == ReplayInv /\ [Next]_vars => ReplayInv'
<1> SUFFICES ASSUME ReplayInv, [Next]_vars PROVE ReplayInv'
  OBVIOUS
<1> USE SessionAssumption
<1>t. TypeOK BY DEF ReplayInv
<1>1. ASSUME NEW c \in Tasks, Arrive(c) PROVE ReplayInv'
  <2>1. TypeOK'
    BY <1>1, <1>t DEF Arrive, TypeOK, TaskStates, NoTask, NoKey
  <2> QED BY <1>1, <2>1, KeptLog DEF Arrive
<1>2. ASSUME NEW c \in Tasks, EstablishSession(c) PROVE ReplayInv'
  <2>1. session \in Sessions /\ nextKey \in Nat \ {0} /\ now \in Nat
    BY <1>t DEF TypeOK
  <2>2. task[c].stamp \in Nat /\ task' \in [Tasks -> TaskStates]
    BY <1>2, <1>t, TaskTypes DEF EstablishSession, Done, TaskStates
  <2>3. CASE session' = AcceptUnparsable(session) /\ UNCHANGED <<nextKey, lastUse>>
    <3>1. TypeOK'
      BY <1>2, <1>t, <2>1, <2>2, <2>3, AcceptFacts DEF EstablishSession, TypeOK
    <3> QED BY <1>2, <2>1, <2>3, <3>1, AcceptFacts, KeptLog DEF EstablishSession
  <2>4. CASE session' = AcceptLowOrder(session) /\ UNCHANGED <<nextKey, lastUse>>
    <3>1. TypeOK'
      BY <1>2, <1>t, <2>1, <2>2, <2>4, AcceptFacts DEF EstablishSession, TypeOK
    <3> QED BY <1>2, <2>1, <2>4, <3>1, AcceptFacts, KeptLog DEF EstablishSession
  <2>5. CASE /\ session' = AcceptOk(session, nextKey, task[c].stamp)
             /\ nextKey' = nextKey + 1 /\ lastUse' = now
    <3>1. session' \in Sessions /\ session'.key = nextKey /\ session'.state = "Active"
      BY <2>1, <2>2, <2>5 DEF AcceptOk, Sessions, SessionStates
    <3>2. TypeOK'
      BY <1>2, <1>t, <2>1, <2>2, <2>5, <3>1 DEF EstablishSession, TypeOK, NoKey
    <3> QED BY <1>2, <2>5, <3>1, <3>2, KeptLog DEF EstablishSession
  <2> QED BY <1>2, <2>3, <2>4, <2>5 DEF EstablishSession
<1>3. ASSUME NEW c \in Tasks, NEW n \in 0..MaxNonce, GateSession(c, n) PROVE ReplayInv'
  <2>1. session \in Sessions /\ now \in Nat /\ log \in Seq(Nat \X Nat) /\ n \in Nat
    BY <1>t DEF TypeOK
  <2>2. task[c].stamp \in Nat
    BY <1>t, TaskTypes DEF TaskStates
  <2>3. CASE IdleTooLong(session, task[c].stamp, IdleMs)
    <3>1. session' = Expire(session) /\ Done(c) /\ UNCHANGED <<log, lastUse>>
      BY <1>3, <2>3 DEF GateSession
    <3>2. TypeOK'
      BY <1>3, <1>t, <2>1, <3>1, ExpireFacts, TaskTypes DEF GateSession, TypeOK, Done
    <3> QED BY <1>3, <2>1, <3>1, <3>2, ExpireFacts, KeptLog DEF GateSession
  <2>4. CASE /\ ~IdleTooLong(session, task[c].stamp, IdleMs)
             /\ AcceptNonceVerdict(session, n) # "Ok"
    <3>1. Done(c) /\ UNCHANGED <<session, log, lastUse>>
      BY <1>3, <2>4 DEF GateSession
    <3>2. TypeOK'
      BY <1>3, <1>t, <3>1, TaskTypes DEF GateSession, TypeOK, Done
    <3> QED BY <1>3, <3>1, <3>2, KeptLog DEF GateSession
  <2>5. CASE /\ ~IdleTooLong(session, task[c].stamp, IdleMs)
             /\ AcceptNonceVerdict(session, n) = "Ok"
    <3>1. /\ session' = AcceptNonce(session, n, task[c].stamp)
          /\ task' = [task EXCEPT ![c].pc = "gated", ![c].key = session.key]
          /\ log' = Append(log, <<session.key, n>>)
          /\ lastUse' = now /\ nextKey' = nextKey
          /\ UNCHANGED <<now, wall, adjusts>>
      BY <1>3, <2>5 DEF GateSession
    <3>2. session.state = "Active" /\ n > session.last_nonce
      BY <2>1, <2>5 DEF AcceptNonceVerdict, IsActive, Sessions
    <3>3. session.key \in Nat /\ session.key # NoKey /\ session.last_nonce \in Nat
      BY <1>t, <2>1, <3>2 DEF TypeOK, Sessions
    <3>4. /\ session' \in Sessions /\ session'.key = session.key
          /\ session'.last_nonce = n /\ session'.state = "Active"
      BY <2>1, <2>2, <3>1, <3>2 DEF AcceptNonce, Sessions, SessionStates
    <3>5. log' \in Seq(Nat \X Nat)
      BY <2>1, <3>1, <3>3
    <3>6. task' \in [Tasks -> TaskStates]
      <4>1. task \in [Tasks -> TaskStates] /\ task[c] \in TaskStates
        BY <1>t, TaskTypes DEF TypeOK
      <4>2. [task[c] EXCEPT !.pc = "gated", !.key = session.key] \in TaskStates
        BY <4>1, <3>3 DEF TaskStates
      <4>3. task' = [task EXCEPT ![c] = [task[c] EXCEPT !.pc = "gated", !.key = session.key]]
        BY <3>1
      <4> QED BY <4>1, <4>2, <4>3
    <3>7. TypeOK'
      BY <1>t, <3>1, <3>3, <3>4, <3>5, <3>6 DEF TypeOK
    <3>8. /\ DOMAIN log' = 1..(Len(log) + 1) /\ DOMAIN log = 1..Len(log)
          /\ Len(log) \in Nat
          /\ log'[Len(log) + 1] = <<session.key, n>>
          /\ \A i \in DOMAIN log : log'[i] = log[i] /\ log[i] \in Nat \X Nat
      BY <2>1, <3>1, <3>3
    <3>9. KeyOld' /\ session.key < nextKey
      BY <3>1, <3>4 DEF ReplayInv, KeyOld
    <3>10. LogBelow'
      <4> SUFFICES ASSUME NEW i \in DOMAIN log'
                   PROVE  /\ log'[i][1] # NoKey /\ log'[i][1] < nextKey'
                          /\ log'[i][1] = session'.key => log'[i][2] <= session'.last_nonce
        BY DEF LogBelow
      <4>1. CASE i = Len(log) + 1
        BY <4>1, <3>1, <3>3, <3>4, <3>8, <3>9
      <4>2. CASE i \in DOMAIN log
        <5>1. /\ log[i][1] # NoKey /\ log[i][1] < nextKey
              /\ log[i][1] = session.key => log[i][2] <= session.last_nonce
          BY <4>2 DEF ReplayInv, LogBelow
        <5>2. log'[i] = log[i] /\ log[i][2] \in Nat
          BY <4>2, <3>8
        <5>3. log[i][1] = session.key => log[i][2] <= n
          BY <5>1, <5>2, <2>1, <3>2, <3>3
        <5>4. session'.key = session.key /\ session'.last_nonce = n /\ nextKey' = nextKey
          BY <3>1, <3>4
        <5> QED BY <5>1, <5>2, <5>3, <5>4
      <4> QED BY <4>1, <4>2, <3>8
    <3>11. NoReplay'
      <4>1. \A i \in DOMAIN log : log[i] # <<session.key, n>>
        BY <2>1, <3>2, <3>3, <3>8 DEF ReplayInv, LogBelow
      <4> QED BY <4>1, <3>8 DEF ReplayInv, NoReplay
    <3> QED BY <3>7, <3>9, <3>10, <3>11 DEF ReplayInv
  <2> QED BY <2>3, <2>4, <2>5
<1>4. ASSUME NEW c \in Tasks, GateActiveSession(c) PROVE ReplayInv'
  <2>1. session \in Sessions BY <1>t DEF TypeOK
  <2>2. session' = Expire(session) \/ session' = session
    BY <1>4 DEF GateActiveSession
  <2>3. TypeOK'
    BY <1>4, <1>t, <2>1, <2>2, ExpireFacts, TaskTypes DEF GateActiveSession, TypeOK, Done
  <2> QED BY <1>4, <2>1, <2>2, <2>3, ExpireFacts, KeptLog DEF GateActiveSession
<1>5. ASSUME NEW c \in Tasks, NEW k \in 1..MaxKeys, OpenPayload(c, k) PROVE ReplayInv'
  <2>1. session \in Sessions /\ now \in Nat /\ task[c].stamp \in Nat
    BY <1>t, TaskTypes DEF TypeOK, TaskStates
  <2>2. \/ session' = Touch(session, task[c].stamp) /\ lastUse' = now
        \/ UNCHANGED <<session, lastUse>>
    BY <1>5 DEF OpenPayload
  <2>3. /\ session' \in Sessions /\ session'.key = session.key
        /\ session'.last_nonce = session.last_nonce /\ session'.state = session.state
    BY <2>1, <2>2 DEF Touch, Sessions, SessionStates
  <2>4. task' = [task EXCEPT ![c].pc = "opened"] \/ task' = [task EXCEPT ![c].pc = "idle"]
    BY <1>5 DEF OpenPayload, Done
  <2>5. task' \in [Tasks -> TaskStates]
    BY <1>t, <2>4, TaskTypes
  <2>6. UNCHANGED <<nextKey, now, wall, adjusts, log>>
    BY <1>5 DEF OpenPayload
  <2>7. TypeOK'
    BY <1>t, <2>1, <2>2, <2>3, <2>5, <2>6 DEF TypeOK
  <2> QED BY <2>3, <2>6, <2>7, KeptLog
<1>6. ASSUME NEW c \in Tasks, Leave(c) PROVE ReplayInv'
  <2>1. TypeOK' BY <1>6, <1>t, TaskTypes DEF Leave, Done, TypeOK
  <2> QED BY <1>6, <2>1, KeptLog DEF Leave
<1>7. ASSUME NEW c \in Tasks, SealAnswer(c) PROVE ReplayInv'
  <2>1. /\ session \in Sessions /\ now \in Nat /\ task[c].stamp \in Nat
        /\ session.key \in Nat
    BY <1>t, TaskTypes DEF TypeOK, TaskStates, Sessions
  <2>2. \/ session' = Touch(session, task[c].stamp) /\ lastUse' = now
        \/ UNCHANGED <<session, lastUse>>
    BY <1>7 DEF SealAnswer
  <2>3. /\ session' \in Sessions /\ session'.key = session.key
        /\ session'.last_nonce = session.last_nonce /\ session'.state = session.state
    BY <2>1, <2>2 DEF Touch, Sessions, SessionStates
  <2>4. \/ task' = [task EXCEPT ![c].pc = "idle", ![c].sealKey = session.key]
        \/ task' = [task EXCEPT ![c].pc = "idle"]
    BY <1>7 DEF SealAnswer, Done
  <2>5. task' \in [Tasks -> TaskStates]
    <3>1. CASE task' = [task EXCEPT ![c].pc = "idle", ![c].sealKey = session.key]
      BY <1>t, <2>1, <3>1 DEF TypeOK, TaskStates
    <3> QED BY <1>t, <2>4, <3>1, TaskTypes
  <2>6. UNCHANGED <<nextKey, now, wall, adjusts, log>>
    BY <1>7 DEF SealAnswer
  <2>7. TypeOK'
    BY <1>t, <2>1, <2>2, <2>3, <2>5, <2>6 DEF TypeOK
  <2> QED BY <2>3, <2>6, <2>7, KeptLog
<1>8. CASE Tick
  <2>1. TypeOK' BY <1>8, <1>t DEF Tick, TypeOK
  <2> QED BY <1>8, <2>1, KeptLog DEF Tick
<1>9. CASE AdjustClock
  <2>1. TypeOK' BY <1>9, <1>t DEF AdjustClock, TypeOK
  <2> QED BY <1>9, <2>1, KeptLog DEF AdjustClock
<1>10. CASE UNCHANGED vars
  <2>1. TypeOK' BY <1>10, <1>t DEF vars, TypeOK
  <2> QED BY <1>10, <2>1, KeptLog DEF vars
<1> QED BY <1>1, <1>2, <1>3, <1>4, <1>5, <1>6, <1>7, <1>8, <1>9, <1>10 DEF Next

(* The session's variables keep their types, and exactly an active session *)
(* is sure to have a key.                                                  *)
THEOREM SessionTypeOK == Spec => []TypeOK
<1>1. ReplayInv => TypeOK BY DEF ReplayInv
<1> QED BY <1>1, InitReplay, NextReplay, PTL DEF Spec

(* No request nonce is ever accepted twice under one session key, for any  *)
(* number of tasks, requests, handshakes and clock adjustments.            *)
THEOREM SessionNoReplay == Spec => []NoReplay
<1>1. ReplayInv => NoReplay BY DEF ReplayInv
<1> QED BY <1>1, InitReplay, NextReplay, PTL DEF Spec
-----------------------------------------------------------------------------
(* With one dispatcher thread at most one task is past its arrival, so no  *)
(* handshake comes between a task's gate and its seal.  A task that is not *)
(* done has sealed nothing since it arrived.                               *)
OneAtATime == \A c, d \in Tasks : task[c].pc # "idle" /\ task[d].pc # "idle" => c = d

AdmittedKey == \A c \in Tasks : task[c].pc = "gated" => task[c].key = session.key

NotYetSealed == \A c \in Tasks : task[c].pc # "idle" => task[c].sealKey = NoKey

SealInv == TypeOK /\ OneAtATime /\ AdmittedKey /\ NotYetSealed /\ SealedForRequester

(* A step in which the only busy task, if any, becomes idle and keeps its  *)
(* history may do anything to the session.                                 *)
LEMMA DoneSeals ==
  ASSUME SealInv, TypeOK', NEW c \in Tasks, task[c].pc # "idle", Done(c)
  PROVE  SealInv'
<1>1. task \in [Tasks -> TaskStates] BY DEF SealInv, TypeOK
<1>2. /\ task'[c].pc = "idle" /\ task'[c].key = task[c].key
      /\ task'[c].sealKey = task[c].sealKey
      /\ \A d \in Tasks \ {c} : task'[d] = task[d]
  BY <1>1 DEF Done, TaskStates
<1>3. \A d \in Tasks \ {c} : task[d].pc = "idle"
  BY DEF SealInv, OneAtATime
<1>4. \A d \in Tasks : task'[d].pc = "idle"
  BY <1>2, <1>3
<1>5. OneAtATime' /\ AdmittedKey' /\ NotYetSealed'
  BY <1>4 DEF OneAtATime, AdmittedKey, NotYetSealed
<1>6. SealedForRequester'
  BY <1>2 DEF SealInv, SealedForRequester
<1> QED BY <1>5, <1>6 DEF SealInv

(* A step that changes neither the tasks nor the session.                  *)
LEMMA IdleSeals ==
  ASSUME SealInv, TypeOK', task' = task, session' = session
  PROVE  SealInv'
BY DEF SealInv, OneAtATime, AdmittedKey, NotYetSealed, SealedForRequester

LEMMA NextSeals ==
  ASSUME SingleFlight
  PROVE  SealInv /\ TypeOK' /\ [Next]_vars => SealInv'
<1> SUFFICES ASSUME SealInv, TypeOK', [Next]_vars PROVE SealInv'
  OBVIOUS
<1>t. session \in Sessions /\ task \in [Tasks -> TaskStates]
  BY DEF SealInv, TypeOK
<1>1. ASSUME NEW c \in Tasks, Arrive(c) PROVE SealInv'
  <2>1. \A d \in Tasks : task[d].pc = "idle"
    BY <1>1 DEF Arrive, Free
  <2>2. /\ task'[c].sealKey = NoKey /\ task'[c].pc = "arrived"
        /\ \A d \in Tasks \ {c} : task'[d] = task[d]
    BY <1>1, <1>t DEF Arrive, NoTask
  <2> QED BY <2>1, <2>2 DEF SealInv, OneAtATime, AdmittedKey, NotYetSealed,
                            SealedForRequester
<1>2. ASSUME NEW c \in Tasks, EstablishSession(c) PROVE SealInv'
  BY <1>2, DoneSeals DEF EstablishSession
<1>3. ASSUME NEW c \in Tasks, NEW n \in 0..MaxNonce, GateSession(c, n) PROVE SealInv'
  <2>1. CASE Done(c)
    BY <1>3, <2>1, DoneSeals DEF GateSession
  <2>2. CASE /\ session' = AcceptNonce(session, n, task[c].stamp)
             /\ task' = [task EXCEPT ![c].pc = "gated", ![c].key = session.key]
    <3>1. session'.key = session.key
      BY <1>t, <2>2 DEF AcceptNonce, Sessions
    <3>2. /\ task'[c].pc = "gated" /\ task'[c].key = session.key
          /\ task'[c].sealKey = task[c].sealKey
          /\ \A d \in Tasks \ {c} : task'[d] = task[d]
      BY <1>t, <2>2 DEF TaskStates
    <3>3. task[c].pc = "arrived" /\ task[c].sealKey = NoKey
      BY <1>3 DEF GateSession, SealInv, NotYetSealed
    <3>4. OneAtATime' /\ AdmittedKey' /\ NotYetSealed' /\ SealedForRequester'
      BY <3>1, <3>2, <3>3 DEF SealInv, OneAtATime, AdmittedKey, NotYetSealed,
                              SealedForRequester
    <3> QED BY <3>4 DEF SealInv
  <2> QED BY <1>3, <2>1, <2>2 DEF GateSession
<1>4. ASSUME NEW c \in Tasks, GateActiveSession(c) PROVE SealInv'
  BY <1>4, DoneSeals DEF GateActiveSession
<1>5. ASSUME NEW c \in Tasks, NEW k \in 1..MaxKeys, OpenPayload(c, k) PROVE SealInv'
  <2>1. CASE Done(c)
    BY <1>5, <2>1, DoneSeals DEF OpenPayload
  <2>2. CASE task' = [task EXCEPT ![c].pc = "opened"]
    <3>1. session'.key = session.key
      BY <1>5, <1>t DEF OpenPayload, Touch, Sessions
    <3>2. /\ task'[c].pc = "opened" /\ task'[c].key = task[c].key
          /\ task'[c].sealKey = task[c].sealKey
          /\ \A d \in Tasks \ {c} : task'[d] = task[d]
      BY <1>t, <2>2 DEF TaskStates
    <3>3. task[c].pc = "gated"
      BY <1>5 DEF OpenPayload
    <3>4. OneAtATime' /\ AdmittedKey' /\ NotYetSealed' /\ SealedForRequester'
      BY <3>1, <3>2, <3>3 DEF SealInv, OneAtATime, AdmittedKey, NotYetSealed,
                              SealedForRequester
    <3> QED BY <3>4 DEF SealInv
  <2> QED BY <1>5, <2>1, <2>2 DEF OpenPayload
<1>6. ASSUME NEW c \in Tasks, Leave(c) PROVE SealInv'
  BY <1>6, DoneSeals DEF Leave
<1>7. ASSUME NEW c \in Tasks, SealAnswer(c) PROVE SealInv'
  <2>1. CASE Done(c)
    BY <1>7, <2>1, DoneSeals DEF SealAnswer
  <2>2. CASE task' = [task EXCEPT ![c].pc = "idle", ![c].sealKey = session.key]
    <3>1. session'.key = session.key
      BY <1>7, <1>t DEF SealAnswer, Touch, Sessions
    <3>2. /\ task'[c].pc = "idle" /\ task'[c].key = task[c].key
          /\ task'[c].sealKey = session.key
          /\ \A d \in Tasks \ {c} : task'[d] = task[d]
      BY <1>t, <2>2 DEF TaskStates
    <3>3. task[c].pc = "gated" /\ task[c].key = session.key
      BY <1>7 DEF SealAnswer, SealInv, AdmittedKey
    <3>4. OneAtATime' /\ AdmittedKey' /\ NotYetSealed' /\ SealedForRequester'
      BY <3>1, <3>2, <3>3 DEF SealInv, OneAtATime, AdmittedKey, NotYetSealed,
                              SealedForRequester
    <3> QED BY <3>4 DEF SealInv
  <2> QED BY <1>7, <2>1, <2>2 DEF SealAnswer
<1>8. CASE Tick
  BY <1>8, IdleSeals DEF Tick
<1>9. CASE AdjustClock
  BY <1>9, IdleSeals DEF AdjustClock
<1>10. CASE UNCHANGED vars
  BY <1>10, IdleSeals DEF vars
<1> QED BY <1>1, <1>2, <1>3, <1>4, <1>5, <1>6, <1>7, <1>8, <1>9, <1>10 DEF Next

(* On the single-flight WebUSB transport a password is sealed only under   *)
(* the key its request was admitted with, however long the approval takes. *)
THEOREM SealedForItsRequester ==
  ASSUME SingleFlight
  PROVE  Spec => []SealedForRequester
<1>1. Init => SealInv
  BY InitReplay DEF Init, ReplayInv, SealInv, OneAtATime, AdmittedKey, NotYetSealed,
                    SealedForRequester, NoTask
<1>2. SealInv => SealedForRequester BY DEF SealInv
<1> QED BY <1>1, <1>2, SessionTypeOK, NextSeals, PTL DEF Spec
-----------------------------------------------------------------------------
(* While nobody has set the clock, stamps are real arrival times, and the  *)
(* idle timer never runs ahead of the last real use.                       *)
ClockInv == /\ TypeOK
            /\ wall = now
            /\ \A c \in Tasks : task[c].stamp = task[c].at /\ task[c].at <= now
            /\ session.last_activity_ms <= lastUse /\ lastUse <= now

SteadyClock == adjusts = 0 => ClockInv

(* A task's stamp and arrival time change only when it arrives.            *)
LEMMA StampsKept ==
  ASSUME ClockInv, NEW c \in Tasks,
         \/ task' = [task EXCEPT ![c].pc = "idle"]
         \/ task' = [task EXCEPT ![c].pc = "opened"]
         \/ task' = [task EXCEPT ![c].pc = "gated", ![c].key = session.key]
         \/ task' = [task EXCEPT ![c].pc = "idle", ![c].sealKey = session.key]
  PROVE  \A d \in Tasks : task'[d].stamp = task[d].stamp /\ task'[d].at = task[d].at
<1> SUFFICES ASSUME NEW d \in Tasks
             PROVE  task'[d].stamp = task[d].stamp /\ task'[d].at = task[d].at
  OBVIOUS
<1>1. task \in [Tasks -> TaskStates] BY DEF ClockInv, TypeOK
<1> QED BY <1>1 DEF TaskStates

(* A request step that keeps the clocks and leaves the idle timer alone or *)
(* sets it, and the history of the last use with it, from the stamp.       *)
LEMMA UseKeepsClock ==
  ASSUME ClockInv, TypeOK', NEW c \in Tasks, UNCHANGED <<now, wall>>,
         \A d \in Tasks : task'[d].stamp = task[d].stamp /\ task'[d].at = task[d].at,
         \/ /\ session'.last_activity_ms = session.last_activity_ms
            /\ lastUse' = lastUse
         \/ session'.last_activity_ms = task[c].stamp /\ lastUse' = now
  PROVE  ClockInv'
<1>1. task[c].stamp <= now /\ now \in Nat
  BY DEF ClockInv, TypeOK
<1> QED BY <1>1 DEF ClockInv

LEMMA NextClock ==
  ASSUME ClockInv, TypeOK', [Next]_vars, adjusts' = 0
  PROVE  ClockInv'
<1>t. /\ session \in Sessions /\ task \in [Tasks -> TaskStates]
      /\ now \in Nat /\ adjusts \in Nat
  BY DEF ClockInv, TypeOK
<1>1. ASSUME NEW c \in Tasks, Arrive(c) PROVE ClockInv'
  <2>1. /\ task'[c].stamp = wall /\ task'[c].at = now
        /\ \A d \in Tasks \ {c} : task'[d] = task[d]
    BY <1>1, <1>t DEF Arrive, NoTask
  <2> QED BY <1>1, <1>t, <2>1 DEF ClockInv, Arrive
<1>2. ASSUME NEW c \in Tasks, EstablishSession(c) PROVE ClockInv'
  <2>1. \/ /\ session'.last_activity_ms = session.last_activity_ms
           /\ lastUse' = lastUse
        \/ session'.last_activity_ms = task[c].stamp /\ lastUse' = now
    BY <1>2, <1>t DEF EstablishSession, AcceptUnparsable, AcceptLowOrder, AcceptOk,
                      Sessions
  <2>2. \A d \in Tasks : task'[d].stamp = task[d].stamp /\ task'[d].at = task[d].at
    BY <1>2, StampsKept DEF EstablishSession, Done
  <2> QED BY <1>2, <2>1, <2>2, UseKeepsClock DEF EstablishSession
<1>3. ASSUME NEW c \in Tasks, NEW n \in 0..MaxNonce, GateSession(c, n) PROVE ClockInv'
  <2>1. \/ /\ session'.last_activity_ms = session.last_activity_ms
           /\ lastUse' = lastUse
        \/ session'.last_activity_ms = task[c].stamp /\ lastUse' = now
    BY <1>3, <1>t DEF GateSession, Expire, AcceptNonce, Sessions
  <2>2. \A d \in Tasks : task'[d].stamp = task[d].stamp /\ task'[d].at = task[d].at
    BY <1>3, StampsKept DEF GateSession, Done
  <2> QED BY <1>3, <2>1, <2>2, UseKeepsClock DEF GateSession
<1>4. ASSUME NEW c \in Tasks, GateActiveSession(c) PROVE ClockInv'
  <2>1. session'.last_activity_ms = session.last_activity_ms /\ lastUse' = lastUse
    BY <1>4, <1>t DEF GateActiveSession, Expire, Sessions
  <2>2. \A d \in Tasks : task'[d].stamp = task[d].stamp /\ task'[d].at = task[d].at
    BY <1>4, StampsKept DEF GateActiveSession, Done
  <2> QED BY <1>4, <2>1, <2>2, UseKeepsClock DEF GateActiveSession
<1>5. ASSUME NEW c \in Tasks, NEW k \in 1..MaxKeys, OpenPayload(c, k) PROVE ClockInv'
  <2>1. \/ /\ session'.last_activity_ms = session.last_activity_ms
           /\ lastUse' = lastUse
        \/ session'.last_activity_ms = task[c].stamp /\ lastUse' = now
    BY <1>5, <1>t DEF OpenPayload, Touch, Sessions
  <2>2. \A d \in Tasks : task'[d].stamp = task[d].stamp /\ task'[d].at = task[d].at
    BY <1>5, StampsKept DEF OpenPayload, Done
  <2> QED BY <1>5, <2>1, <2>2, UseKeepsClock DEF OpenPayload
<1>6. ASSUME NEW c \in Tasks, Leave(c) PROVE ClockInv'
  <2>1. \A d \in Tasks : task'[d].stamp = task[d].stamp /\ task'[d].at = task[d].at
    BY <1>6, StampsKept DEF Leave, Done
  <2> QED BY <1>6, <2>1, UseKeepsClock DEF Leave
<1>7. ASSUME NEW c \in Tasks, SealAnswer(c) PROVE ClockInv'
  <2>1. \/ /\ session'.last_activity_ms = session.last_activity_ms
           /\ lastUse' = lastUse
        \/ session'.last_activity_ms = task[c].stamp /\ lastUse' = now
    BY <1>7, <1>t DEF SealAnswer, Touch, Sessions
  <2>2. \A d \in Tasks : task'[d].stamp = task[d].stamp /\ task'[d].at = task[d].at
    BY <1>7, StampsKept DEF SealAnswer, Done
  <2> QED BY <1>7, <2>1, <2>2, UseKeepsClock DEF SealAnswer
<1>8. CASE Tick
  <2>1. lastUse \in Nat /\ \A c \in Tasks : task[c].at \in Nat
    BY DEF ClockInv, TypeOK, TaskStates
  <2> QED BY <1>8, <1>t, <2>1 DEF Tick, ClockInv
<1>9. CASE AdjustClock
  BY <1>9, <1>t DEF AdjustClock
<1>10. CASE UNCHANGED vars
  BY <1>10 DEF vars, ClockInv
<1> QED BY <1>1, <1>2, <1>3, <1>4, <1>5, <1>6, <1>7, <1>8, <1>9, <1>10 DEF Next

(* A nonce that passes the gate belongs to a request that arrived in time. *)
LEMMA GateInTime ==
  ASSUME ClockInv, TypeOK', [Next]_vars, NEW c \in Tasks,
         task[c].pc = "arrived", task'[c].pc = "gated"
  PROVE  task[c].at < lastUse + IdleMs
<1>t. /\ session \in Sessions /\ task \in [Tasks -> TaskStates] /\ IdleMs \in Nat
      /\ lastUse \in Nat
  BY SessionAssumption DEF ClockInv, TypeOK
<1>1. PICK n \in 0..MaxNonce : GateSession(c, n)
  <2>1. ASSUME NEW d \in Tasks, Arrive(d) PROVE FALSE
    BY <2>1, <1>t DEF Arrive, NoTask, TaskStates
  <2>2. ASSUME NEW d \in Tasks, Done(d) PROVE FALSE
    BY <2>2, <1>t DEF Done, TaskStates
  <2>3. ASSUME NEW d \in Tasks, NEW k \in 1..MaxKeys, OpenPayload(d, k) PROVE FALSE
    BY <2>2, <2>3, <1>t DEF OpenPayload, TaskStates
  <2>4. ASSUME NEW d \in Tasks, SealAnswer(d) PROVE FALSE
    BY <2>2, <2>4, <1>t DEF SealAnswer, TaskStates
  <2>5. ASSUME NEW d \in Tasks, NEW n \in 0..MaxNonce, GateSession(d, n) PROVE d = c
    BY <2>2, <2>5, <1>t DEF GateSession, TaskStates
  <2>6. task' # task
    OBVIOUS
  <2>7. \E d \in Tasks : \E n \in 0..MaxNonce : GateSession(d, n)
    BY <2>1, <2>2, <2>3, <2>4, <2>6 DEF Next, vars, EstablishSession,
       GateActiveSession, Leave, Tick, AdjustClock
  <2> QED BY <2>5, <2>7
<1>2. ~IdleTooLong(session, task[c].stamp, IdleMs)
  <2> SUFFICES ASSUME IdleTooLong(session, task[c].stamp, IdleMs) PROVE FALSE
    OBVIOUS
  <2>1. task' = [task EXCEPT ![c].pc = "idle"] BY <1>1 DEF GateSession, Done
  <2> QED BY <1>t, <2>1 DEF TaskStates
<1>3. IsActive(session)
  <2> SUFFICES ASSUME ~IsActive(session) PROVE FALSE
    OBVIOUS
  <2>1. AcceptNonceVerdict(session, n) # "Ok" BY DEF AcceptNonceVerdict
  <2>2. task' = [task EXCEPT ![c].pc = "idle"]
    BY <1>1, <1>2, <2>1 DEF GateSession, Done
  <2> QED BY <1>t, <2>2 DEF TaskStates
<1>4. SaturatingSub(task[c].stamp, session.last_activity_ms) < IdleMs
  <2>1. task[c].stamp \in Nat /\ session.last_activity_ms \in Nat
    BY <1>t DEF TaskStates, Sessions
  <2> QED BY <1>2, <1>3, <1>t, <2>1 DEF IdleTooLong, SaturatingSub
<1>5. /\ task[c].stamp = task[c].at /\ task[c].at \in Nat
      /\ session.last_activity_ms <= lastUse /\ session.last_activity_ms \in Nat
  BY <1>t DEF ClockInv, TaskStates, Sessions
<1> QED BY <1>4, <1>5, <1>t DEF SaturatingSub

(* The clock adjustments are counted, never uncounted.                     *)
LEMMA AdjustsGrow ==
  ASSUME TypeOK, [Next]_vars, adjusts' = 0
  PROVE  adjusts = 0
<1>1. adjusts' = adjusts \/ AdjustClock
  BY DEF Next, vars, Arrive, EstablishSession, GateSession, GateActiveSession,
         OpenPayload, Leave, SealAnswer, Tick
<1>2. AdjustClock => adjusts' # 0
  BY DEF TypeOK, AdjustClock
<1> QED BY <1>1, <1>2

(* As long as nobody has set the wall clock, no nonce of a request that    *)
(* arrived IdleMs or more after the session's last use is accepted, on     *)
(* either transport and for any number of tasks.                           *)
THEOREM SessionIdleBounded == Spec => SteadyIdleBounded
<1>1. Init => SteadyClock
  BY InitReplay DEF Init, ReplayInv, SteadyClock, ClockInv, NewSession, NoTask
<1>2. TypeOK /\ SteadyClock /\ TypeOK' /\ [Next]_vars => SteadyClock'
  BY NextClock, AdjustsGrow DEF SteadyClock
<1>3. TypeOK /\ SteadyClock /\ TypeOK' /\ [Next]_vars =>
        [adjusts = 0 => \A c \in Tasks : InTime(c)]_vars
  BY GateInTime DEF SteadyClock, InTime
<1> QED BY <1>1, <1>2, <1>3, SessionTypeOK, PTL DEF Spec, SteadyIdleBounded
=============================================================================
