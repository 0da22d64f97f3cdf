---------------------------- MODULE DeviceSession ----------------------------
(***************************************************************************)
(* The device's one session, as the request tasks of the transport share   *)
(* it: engine.rs takes the session lock once per gate, open, seal or       *)
(* handshake, and every task carries the time stamp its request arrived    *)
(* with (transport now_ms()) across the approval wait to the final seal.   *)
(* SingleFlight is the WebUSB transport (one dispatcher thread); without   *)
(* it every WebSocket connection is a task of its own.                     *)
(***************************************************************************)
EXTENDS Session, Sequences

CONSTANTS Tasks,        \* request tasks (connections)
          SingleFlight, \* TRUE: one request at a time (webusb.rs)
          IdleMs,       \* EngineConfig.idle_ms, in ticks
          MaxTime,      \* bound on real time and on the wall clock
          MaxNonce,     \* bound on request_nonce
          MaxKeys,      \* bound on successful handshakes
          MaxAdjusts    \* bound on wall-clock adjustments

ASSUME SessionAssumption ==
  /\ SingleFlight \in BOOLEAN
  /\ IdleMs \in Nat \ {0}
  /\ {MaxTime, MaxNonce, MaxKeys, MaxAdjusts} \subseteq Nat

VARIABLES session,  \* Engine.session
          task,     \* what each task is doing, with its stamp
          nextKey,  \* the key the next successful handshake derives
          now,      \* real time
          wall,     \* SystemTime, which the stamps are taken from
          adjusts,  \* wall-clock adjustments so far
          log,      \* history: <<key, nonce>> of every accepted nonce
          lastUse   \* history: real time of the last successful use

vars == <<session, task, nextKey, now, wall, adjusts, log, lastUse>>

(* A task's key is the session key its nonce was accepted under and        *)
(* sealKey the one its last seal used: both only history.                  *)
NoTask == [pc |-> "idle", stamp |-> 0, at |-> 0, key |-> NoKey, sealKey |-> NoKey]

Init == /\ session = NewSession
        /\ task = [c \in Tasks |-> NoTask]
        /\ nextKey = NoKey + 1
        /\ now = 0 /\ wall = 0 /\ adjusts = 0
        /\ log = <<>> /\ lastUse = 0

(* Mutant: a task per line, as the WebSocket transport has per connection. *)
FreeAnyTime(c) == task[c].pc = "idle"

(* The dispatcher takes the next line only when the last one is answered.  *)
Free(c) == /\ task[c].pc = "idle"
           /\ SingleFlight => \A d \in Tasks : task[d].pc = "idle"

(* A request is read and stamped; the task has not taken the lock yet.     *)
Arrive(c) ==
  /\ Free(c)
  /\ task' = [task EXCEPT ![c] = [NoTask EXCEPT !.pc = "arrived", !.stamp = wall,
                                                !.at = now]]
  /\ UNCHANGED <<session, nextKey, now, wall, adjusts, log, lastUse>>

Done(c) == task' = [task EXCEPT ![c].pc = "idle"]

(* dispatch, Method::EstablishSession.                                     *)
EstablishSession(c) ==
  /\ task[c].pc = "arrived"
  /\ Done(c)
  /\ \/ /\ session' = AcceptUnparsable(session)
        /\ UNCHANGED <<nextKey, lastUse>>
     \/ /\ session' = AcceptLowOrder(session)
        /\ UNCHANGED <<nextKey, lastUse>>
     \/ /\ nextKey <= MaxKeys
        /\ session' = AcceptOk(session, nextKey, task[c].stamp)
        /\ nextKey' = nextKey + 1
        /\ lastUse' = now
  /\ UNCHANGED <<now, wall, adjusts, log>>

(* gate_session: idle check, then the nonce, under one lock.               *)
GateSession(c, nonce) ==
  /\ task[c].pc = "arrived"
  /\ IF IdleTooLong(session, task[c].stamp, IdleMs)
     THEN session' = Expire(session) /\ Done(c) /\ UNCHANGED <<log, lastUse>>
     ELSE IF AcceptNonceVerdict(session, nonce) # "Ok"
          THEN Done(c) /\ UNCHANGED <<session, log, lastUse>>
          ELSE /\ session' = AcceptNonce(session, nonce, task[c].stamp)
               /\ task' = [task EXCEPT ![c].pc = "gated", ![c].key = session.key]
               /\ log' = Append(log, <<session.key, nonce>>)
               /\ lastUse' = now
  /\ UNCHANGED <<nextKey, now, wall, adjusts>>

(* gate_active_session (list_origins, list_credentials): the idle timer is *)
(* checked and not touched.                                                *)
GateActiveSession(c) ==
  /\ task[c].pc = "arrived"
  /\ Done(c)
  /\ session' = IF IdleTooLong(session, task[c].stamp, IdleMs)
                THEN Expire(session) ELSE session
  /\ UNCHANGED <<nextKey, now, wall, adjusts, log, lastUse>>

(* handle_store opens the sealed password, which the host sealed under     *)
(* some key k, right after the gate.                                       *)
OpenPayload(c, k) ==
  /\ task[c].pc = "gated"
  /\ IF CanOpen(session, k)
     THEN /\ session' = Touch(session, task[c].stamp)
          /\ lastUse' = now
          /\ task' = [task EXCEPT ![c].pc = "opened"]
     ELSE Done(c) /\ UNCHANGED <<session, lastUse>>
  /\ UNCHANGED <<nextKey, now, wall, adjusts, log>>

(* The approval was refused or timed out, or a store was committed.        *)
Leave(c) == /\ task[c].pc \in {"gated", "opened"}
            /\ Done(c)
            /\ UNCHANGED <<session, nextKey, now, wall, adjusts, log, lastUse>>

(* The approval came: the answer is sealed with the stamp of the arrival.  *)
SealAnswer(c) ==
  /\ task[c].pc = "gated"
  /\ IF CanSeal(session)
     THEN /\ session' = Touch(session, task[c].stamp)
          /\ lastUse' = now
          /\ task' = [task EXCEPT ![c].pc = "idle", ![c].sealKey = session.key]
     ELSE Done(c) /\ UNCHANGED <<session, lastUse>>
  /\ UNCHANGED <<nextKey, now, wall, adjusts, log>>

Tick == /\ now < MaxTime /\ wall < MaxTime
        /\ now' = now + 1 /\ wall' = wall + 1
        /\ UNCHANGED <<session, task, nextKey, adjusts, log, lastUse>>

(* The wall clock is set (time sync, user).                                *)
AdjustClock == /\ adjusts < MaxAdjusts
               /\ adjusts' = adjusts + 1
               /\ \E t \in 0..MaxTime : wall' = t
               /\ UNCHANGED <<session, task, nextKey, now, log, lastUse>>

Next == \/ \E c \in Tasks : \/ Arrive(c)
                            \/ EstablishSession(c)
                            \/ GateActiveSession(c)
                            \/ Leave(c)
                            \/ SealAnswer(c)
                            \/ \E n \in 0..MaxNonce : GateSession(c, n)
                            \/ \E k \in 1..MaxKeys : OpenPayload(c, k)
        \/ Tick
        \/ AdjustClock

Spec == Init /\ [][Next]_vars
-----------------------------------------------------------------------------
TaskStates == [pc : {"idle", "arrived", "gated", "opened"}, stamp : Nat, at : Nat,
               key : Nat, sealKey : Nat]

(* Every variable has its type; an active session has a key and an expired *)
(* one does not (session.rs: expire() takes the key).                      *)
TypeOK == /\ session \in Sessions
          /\ task \in [Tasks -> TaskStates]
          /\ nextKey \in Nat \ {0}
          /\ {now, wall, adjusts, lastUse} \subseteq Nat
          /\ log \in Seq(Nat \X Nat)
          /\ session.state = "Active" => session.key # NoKey
          /\ session.state = "Expired" => session.key = NoKey

(* No nonce is accepted twice under one session key, whatever sequence of  *)
(* handshakes, failed handshakes, expiries and requests the tasks make     *)
(* (session.rs accept_nonce; docs/PROTOCOL.md: "The device rejects         *)
(* duplicates within a session").                                          *)
NoReplay == \A i, j \in DOMAIN log : log[i] = log[j] => i = j

InTime(c) == task[c].pc = "arrived" /\ task'[c].pc = "gated"
               => task[c].at < lastUse + IdleMs

(* A nonce is accepted only if the request arrived less than IdleMs of     *)
(* real time after the session was last used, as long as nobody has set    *)
(* the wall clock, whatever handshakes, seals with old stamps and idle     *)
(* checks come in between (engine.rs gate_session; session.rs check_idle). *)
SteadyIdleBounded == [][adjusts = 0 => \A c \in Tasks : InTime(c)]_vars

(* A password is sealed under the session key the request was admitted     *)
(* with: nobody else's handshake changes the recipient between the gate    *)
(* and the seal (engine.rs handle_release, handle_generate).               *)
SealedForRequester ==
  \A c \in Tasks : task[c].sealKey # NoKey => task[c].sealKey = task[c].key
=============================================================================
