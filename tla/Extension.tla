------------------------------ MODULE Extension ------------------------------
(***************************************************************************)
(* The browser side: the service worker (extension/background.js) with its *)
(* session key, nonce counter and RPC chain, the transport below it        *)
(* (offscreen.js and webusb-transport.js, or the WebSocket), and the       *)
(* device's Session at the other end.  A step of a handler runs from one   *)
(* await to the next; only calls, timers and WebCrypto let others in.      *)
(* fill, release-from-content and generate are one kind ("release": gated, *)
(* answered with a sealed password), the two saves another ("store").      *)
(***************************************************************************)
EXTENDS Session, Sequences

CONSTANTS Tasks,     \* runs of a message handler; also names of their host keys
          Null,
          MaxFaults  \* bound on lost connections and idle periods

(* A call of rpc(): whose it is, the method and its nonce, and the key a   *)
(* password in it is sealed under.                                         *)
Calls == [task : Tasks, method : {"ping", "list", "release", "store", "establish_session"},
          nonce : Nat, key : Nat]

ASSUME ExtensionAssumption ==
  /\ Null \notin Tasks /\ Null \notin Calls
  /\ MaxFaults \in Nat

VARIABLES transportKind, \* set in the options: offscreen.js or the WebSocket
          hostPrivateKey, sessionKey, requestNonce, \* globals of background.js
          chain,     \* calls in rpcChain; the head is the one being made
          pending,   \* the call in the transport's pending map
          task,      \* each handler: where it is, what it was answered
          link,      \* whether the transport has its device open
          toDevice, toHost,
          stale,     \* of each closed WebSocket, the requests the device still reads
          device,    \* the device's Session
          handshakes,
          idle,      \* whether the session's idle time has passed
          faults,
          overlap    \* history: two handlers have been running at once

host == <<hostPrivateKey, sessionKey, requestNonce>>
peer == <<device, handshakes, idle>>
wire == <<link, toDevice, toHost, stale>>
rest == <<faults, overlap, transportKind>>
extVars == <<host, chain, pending, task, wire, peer, rest>>

Kinds == {"ping", "list", "release", "store", "reset"}

NewTask == [pc |-> "new", kind |-> "ping", method |-> "none", key |-> NoKey,
            from |-> Null, answered |-> "none", verdict |-> "none", result |-> "none"]

Usb == transportKind = "webusb"

Init == /\ transportKind \in {"webusb", "ws"}
        /\ hostPrivateKey = Null /\ sessionKey = NoKey /\ requestNonce = 0
        /\ chain = <<>> /\ pending = Null
        /\ task = [t \in Tasks |-> NewTask]
        /\ link = FALSE /\ toDevice = <<>> /\ toHost = <<>> /\ stale = {}
        /\ device = NewSession /\ handshakes = 0 /\ idle = FALSE
        /\ faults = 0 /\ overlap = FALSE

Running(t) == task[t].pc \notin {"new", "done"}
Quiet == \A t \in Tasks : ~Running(t)

(* The key both ends get from a handshake, the device's n-th, if the host  *)
(* uses the private key whose public half it sent; another key otherwise.  *)
SharedKey(priv, pub, n) == IF priv = pub THEN 2 * n ELSE 2 * n + 1

(* rpc(): the call goes to the end of the chain.                           *)
Call(t, method, nonce, key) ==
  /\ chain' = Append(chain, [task |-> t, method |-> method, nonce |-> nonce, key |-> key])
  /\ task' = [task EXCEPT ![t].pc = "waiting", ![t].method = method]

ResetSession == hostPrivateKey' = Null /\ sessionKey' = NoKey /\ requestNonce' = 0

(* The router takes a message.                                             *)
Start(t, kind) ==
  /\ task[t].pc = "new"
  /\ task' = [task EXCEPT ![t].pc = "started", ![t].kind = kind]
  /\ overlap' = (overlap \/ ~Quiet)
  /\ UNCHANGED <<host, chain, pending, wire, peer, faults, transportKind>>

Ping(t) == /\ task[t].pc = "started" /\ task[t].kind = "ping"
           /\ Call(t, "ping", 0, NoKey)
           /\ UNCHANGED <<host, pending, wire, peer, rest>>

(* What a handler does as soon as ensureSession has returned: list calls,  *)
(* release draws a nonce and calls, store first seals.                     *)
Operate(t, key, nonce) ==
  \/ /\ task[t].kind = "list"
     /\ Call(t, "list", 0, NoKey) /\ requestNonce' = nonce
  \/ /\ task[t].kind = "release"
     /\ Call(t, "release", nonce + 1, NoKey) /\ requestNonce' = nonce + 1
  \/ /\ task[t].kind = "store"
     /\ task' = [task EXCEPT ![t].pc = "sealing", ![t].key = key]
     /\ requestNonce' = nonce /\ UNCHANGED chain

(* ensureSession: only the key is looked at, not whether somebody else's   *)
(* handshake is under way.                                                 *)
EnsureSession(t) ==
  /\ task[t].pc = "started" /\ task[t].kind \in {"list", "release", "store"}
  /\ IF sessionKey # NoKey
     THEN Operate(t, sessionKey, requestNonce)
     ELSE /\ task' = [task EXCEPT ![t].pc = "generating"]
          /\ UNCHANGED <<requestNonce, chain>>
  /\ UNCHANGED <<hostPrivateKey, sessionKey, pending, wire, peer, rest>>

GenerateKey(t) ==
  /\ task[t].pc = "generating"
  /\ hostPrivateKey' = t
  /\ task' = [task EXCEPT ![t].pc = "exporting"]
  /\ UNCHANGED <<sessionKey, requestNonce, chain, pending, wire, peer, rest>>

SendPublicKey(t) ==
  /\ task[t].pc = "exporting"
  /\ Call(t, "establish_session", 0, NoKey)
  /\ UNCHANGED <<host, pending, wire, peer, rest>>

Respond(t, result) == task' = [task EXCEPT ![t].pc = "done", ![t].result = result]

Replied(t, method) == /\ task[t].pc = "replied" /\ task[t].verdict = "Ok"
                      /\ task[t].method = method

(* deriveBits reads the global private key, which may be another handler's *)
(* by now, or gone (then it throws).                                       *)
DeriveBits(t) ==
  /\ Replied(t, "establish_session")
  /\ IF hostPrivateKey = Null
     THEN Respond(t, "TypeError")
     ELSE task' = [task EXCEPT ![t].pc = "derived",
                     ![t].key = SharedKey(hostPrivateKey, task[t].from, task[t].key)]
  /\ UNCHANGED <<host, chain, pending, wire, peer, rest>>

(* The end of ensureSession, and on with the handler.                      *)
Established(t) ==
  /\ task[t].pc = "derived"
  /\ sessionKey' = task[t].key
  /\ Operate(t, task[t].key, 0)
  /\ UNCHANGED <<hostPrivateKey, pending, wire, peer, rest>>

(* Mutant: the counter is not advanced.                                    *)
SealedSameNonce(t) ==
  /\ task[t].pc = "sealing"
  /\ Call(t, "store", requestNonce + 1, task[t].key)
  /\ UNCHANGED <<host, pending, wire, peer, rest>>

(* sealPassword has returned; the nonce is drawn as the call is queued.    *)
Sealed(t) ==
  /\ task[t].pc = "sealing"
  /\ Call(t, "store", requestNonce + 1, task[t].key)
  /\ requestNonce' = requestNonce + 1
  /\ UNCHANGED <<hostPrivateKey, sessionKey, pending, wire, peer, rest>>

(* The answer is passed on; a password is opened under the session key     *)
(* there is now.                                                           *)
Finish(t) ==
  /\ \/ /\ \E method \in {"ping", "list", "store"} : Replied(t, method)
        /\ Respond(t, "Ok")
     \/ /\ Replied(t, "release")
        /\ Respond(t, IF sessionKey = task[t].key THEN "Ok" ELSE "Unsealable")
  /\ UNCHANGED <<host, chain, pending, wire, peer, rest>>

(* shouldResetSession, on what is left of an error: offscreen.js passes on *)
(* the message and replaces every code by 99, so code 7 is seen only over  *)
(* WebSocket.                                                              *)
ShouldReset(verdict) ==
  verdict \in IF Usb THEN {"disconnected", "usb"} ELSE {"SessionExpired", "disconnected"}

(* The catch of every handler.                                             *)
Fail(t) ==
  /\ task[t].pc = "replied" /\ task[t].verdict # "Ok"
  /\ Respond(t, task[t].verdict)
  /\ IF ShouldReset(task[t].verdict) THEN ResetSession ELSE UNCHANGED host
  /\ UNCHANGED <<chain, pending, wire, peer, rest>>
-----------------------------------------------------------------------------
(* The head of the chain is settled: its handler (one of tasks) goes on,   *)
(* the next call is made whatever became of this one.                      *)
Settle(tasks, verdict, from, key, answered) ==
  /\ task' = [tasks EXCEPT ![Head(chain).task] =
                [@ EXCEPT !.pc = "replied", !.verdict = verdict, !.from = from,
                          !.key = key, !.answered = answered]]
  /\ chain' = Tail(chain)
  /\ pending' = Null

Reject(tasks, verdict) == Settle(tasks, verdict, Null, NoKey, "none")

(* transport.rpc: connect first if there is no device, then write.  Over   *)
(* USB connect ends with a ping, which a device that is still busy with an *)
(* earlier request does not answer in time.                                *)
MakeCall == /\ chain # <<>> /\ pending = Null
            /\ Usb /\ ~link => toDevice = <<>>
            /\ link' = TRUE
            /\ pending' = Head(chain) /\ toDevice' = Append(toDevice, Head(chain))
            /\ UNCHANGED <<host, chain, task, toHost, stale, peer, rest>>

(* connect gave up: not paired, or no usable interface.  A WebSocket that  *)
(* cannot be opened is closed too, and ws.onclose resets the session.      *)
ConnectFails == /\ chain # <<>> /\ pending = Null /\ ~link
                /\ \E e \in IF Usb THEN {"unpaired", "usb"} ELSE {"unreachable"} : Reject(task, e)
                /\ IF Usb THEN UNCHANGED host ELSE ResetSession
                /\ UNCHANGED <<wire, peer, rest>>

(* Mutant: an answer goes to whoever is waiting.                           *)
ReadLoopAnyId ==
  /\ toHost # <<>> /\ toHost' = Tail(toHost)
  /\ LET m == Head(toHost)
     IN IF pending # Null
        THEN Settle(task, m.verdict, m.task, m.key, m.method)
        ELSE UNCHANGED <<task, chain, pending>>
  /\ UNCHANGED <<host, link, toDevice, stale, peer, rest>>

(* _readLoop, ws.onmessage: an answer that nobody waits for any more is    *)
(* ignored.  Ids are fresh for every call.                                 *)
ReadLoop ==
  /\ toHost # <<>> /\ toHost' = Tail(toHost)
  /\ LET m == Head(toHost)
     IN IF pending # Null /\ pending.task = m.task /\ pending.method = m.method
        THEN Settle(task, m.verdict, m.task, m.key, m.method)
        ELSE UNCHANGED <<task, chain, pending>>
  /\ UNCHANGED <<host, link, toDevice, stale, peer, rest>>

(* Mutant: the timer forgets to take the entry out of the map.             *)
RpcTimeoutKeepsEntry ==
  /\ pending # Null
  /\ task' = [task EXCEPT ![pending.task].pc = "replied", ![pending.task].verdict = "timeout"]
  /\ chain' = Tail(chain)
  /\ UNCHANGED <<host, pending, wire, peer, rest>>

(* Mutant: only the handshake has a timer.                                 *)
RpcTimeoutHandshake == /\ pending # Null /\ pending.method = "establish_session"
                       /\ Reject(task, "timeout")
                       /\ UNCHANGED <<host, wire, peer, rest>>

RpcTimeout == /\ pending # Null
              /\ Reject(task, "timeout")
              /\ UNCHANGED <<host, wire, peer, rest>>

(* _tearDown: the device is closed, the pending call rejected and unread   *)
(* answers are lost.                                                       *)
TearDown(tasks, verdict) ==
  /\ link' = FALSE /\ toHost' = <<>>
  /\ IF pending # Null THEN Reject(tasks, verdict)
     ELSE task' = tasks /\ UNCHANGED <<chain, pending>>

(* Requests the device has not read yet: some of them arrive.  What comes  *)
(* over USB next is read after them; every WebSocket has its own reader.   *)
LeaveUnread ==
  \E n \in 0..Len(toDevice) :
    LET left == SubSeq(toDevice, 1, n)
    IN IF Usb THEN toDevice' = left /\ UNCHANGED stale
       ELSE toDevice' = <<>> /\ stale' = stale \cup ({left} \ {<<>>})

(* The cable is pulled, a transfer fails, the app is closed and opened     *)
(* again, or the socket closes.  ws.onclose resets the session; over USB   *)
(* the worker hears of it only through a pending call.                     *)
Disconnect ==
  /\ link /\ faults < MaxFaults /\ faults' = faults + 1
  /\ \E e \in IF Usb THEN {"disconnected", "transfer"} ELSE {"disconnected"} :
       TearDown(task, e)
  /\ \/ device' = NewSession /\ toDevice' = <<>> /\ stale' = {} /\ idle' = FALSE
     \/ LeaveUnread /\ UNCHANGED <<device, idle>>
  /\ IF Usb THEN UNCHANGED host ELSE ResetSession
  /\ UNCHANGED <<handshakes, overlap, transportKind>>

(* reset-usb-transport (the popup's and the options page's repair), first  *)
(* the session, then the transport.                                        *)
ResetUsb(t) == /\ task[t].pc = "started" /\ task[t].kind = "reset"
               /\ ResetSession
               /\ task' = [task EXCEPT ![t].pc = "resetting"]
               /\ UNCHANGED <<chain, pending, wire, peer, rest>>

ResetUsbDone(t) ==
  LET responded == [task EXCEPT ![t].pc = "done", ![t].result = "Ok"]
  IN /\ task[t].pc = "resetting"
     /\ IF Usb THEN TearDown(responded, "disconnected") /\ LeaveUnread
        ELSE task' = responded /\ UNCHANGED <<chain, pending, wire>>
     /\ UNCHANGED <<host, peer, rest>>

(* The browser recycles an idle service worker; its globals are gone, its  *)
(* WebSocket with them (the USB link belongs to the offscreen page).       *)
RecycleWorker == /\ Quiet /\ ResetSession
                 /\ IF Usb THEN UNCHANGED wire
                    ELSE link' = FALSE /\ toHost' = <<>> /\ LeaveUnread
                 /\ UNCHANGED <<chain, pending, task, peer, rest>>
-----------------------------------------------------------------------------
(* The device: engine.handle, for one request of one connection.           *)
Outcome(s, verdict, key) == [session |-> s, verdict |-> verdict, key |-> key]

Admitted(m) ==
  LET s == AcceptNonce(device, m.nonce, 0)
  IN IF m.method = "store" /\ ~CanOpen(device, m.key)
     THEN {Outcome(s, "Internal", NoKey)}
     ELSE {Outcome(s, "Refused", NoKey), Outcome(s, "Ok", s.key)}

Handled(m) ==
  IF m.method = "ping" THEN {Outcome(device, "Ok", NoKey)}
  ELSE IF m.method = "establish_session"
  THEN {Outcome(AcceptOk(device, SharedKey(m.task, m.task, handshakes + 1), 0), "Ok",
                handshakes + 1)}
  ELSE IF ~IsActive(device) THEN {Outcome(device, "SessionExpired", NoKey)}
  ELSE IF idle THEN {Outcome(Expire(device), "SessionExpired", NoKey)}
  ELSE IF m.method = "list" THEN {Outcome(device, "Ok", NoKey)}
  ELSE IF AcceptNonceVerdict(device, m.nonce) = "Ok" THEN Admitted(m)
  ELSE {Outcome(device, AcceptNonceVerdict(device, m.nonce), NoKey)}

(* What a request with outcome o leaves in the device.                     *)
Serve(m, o) ==
  /\ device' = o.session
  /\ handshakes' = IF m.method = "establish_session" THEN handshakes + 1 ELSE handshakes
  /\ idle' = (idle /\ o.session = device)

(* A response while the host is away is lost.                              *)
Handle ==
  /\ toDevice # <<>> /\ toDevice' = Tail(toDevice)
  /\ LET m == Head(toDevice)
     IN \E o \in Handled(m) :
          /\ Serve(m, o)
          /\ toHost' = IF link THEN Append(toHost, [task |-> m.task, method |-> m.method,
                                                    verdict |-> o.verdict, key |-> o.key])
                       ELSE toHost
  /\ UNCHANGED <<host, chain, pending, task, link, stale, rest>>

(* The task that serves a closed WebSocket is still running and handles    *)
(* what it has read, beside the one of the connection there is now; it     *)
(* ends with its queue, or as soon as a response cannot be sent.           *)
HandleStale ==
  /\ \E q \in stale :
       /\ \E o \in Handled(Head(q)) : Serve(Head(q), o)
       /\ \E more \in {{}, {Tail(q)} \ {<<>>}} : stale' = (stale \ {q}) \cup more
  /\ UNCHANGED <<host, chain, pending, task, link, toDevice, toHost, rest>>

(* Nothing happens for the idle time (approvals are far shorter).          *)
StayIdle == /\ Quiet /\ IsActive(device) /\ ~idle
            /\ faults < MaxFaults /\ faults' = faults + 1
            /\ idle' = TRUE
            /\ UNCHANGED <<host, chain, pending, task, wire, device, handshakes, overlap, transportKind>>

TaskStep(t) == \/ Ping(t) \/ EnsureSession(t) \/ GenerateKey(t) \/ SendPublicKey(t)
               \/ DeriveBits(t) \/ Established(t) \/ Sealed(t) \/ Finish(t) \/ Fail(t)
               \/ ResetUsb(t) \/ ResetUsbDone(t)

Next == \/ \E t \in Tasks : TaskStep(t) \/ \E kind \in Kinds : Start(t, kind)
        \/ MakeCall \/ ConnectFails \/ ReadLoop \/ RpcTimeout
        \/ Disconnect \/ RecycleWorker
        \/ Handle \/ HandleStale \/ StayIdle

(* The event loop runs every handler and every timer; nothing is assumed   *)
(* of the device or the cable.                                             *)
Fairness == /\ \A t \in Tasks : WF_extVars(TaskStep(t))
            /\ WF_extVars(MakeCall \/ ConnectFails)
            /\ WF_extVars(RpcTimeout)

Spec == Init /\ [][Next]_extVars /\ Fairness
-----------------------------------------------------------------------------
TypeOK ==
  /\ hostPrivateKey \in Tasks \cup {Null} /\ {sessionKey, requestNonce} \subseteq Nat
  /\ {chain, toDevice} \cup stale \subseteq Seq(Calls)
  /\ pending # Null => chain # <<>> /\ pending = Head(chain)
  /\ device \in Sessions
  /\ \A t \in Tasks :
       /\ task[t].pc \in {"new", "started", "generating", "exporting", "waiting", "replied",
                          "derived", "sealing", "resetting", "done"}
       /\ task[t].kind \in Kinds
       /\ task[t].pc = "waiting" <=> \E i \in DOMAIN chain : chain[i].task = t

(* What a handler is given is the device's answer to its own call, also    *)
(* when an earlier call timed out, its answer arrives late, or the link    *)
(* went down in between (webusb-transport.js _readLoop, _tearDown).        *)
AnswerIsMine ==
  \A t \in Tasks : task[t].pc = "replied" /\ task[t].answered # "none"
                     => task[t].from = t /\ task[t].answered = task[t].method

(* The device refuses no request of the extension as a replay (background  *)
(* .js: the FIFO keeps nonces in order for "concurrent popup actions").    *)
NoNonceReused == \A t \in Tasks : task[t].result # "NonceReused"

(* Over WebUSB, as long as handlers run one after the other, whatever      *)
(* timeouts, late requests, lost links, restarts and repairs come in       *)
(* between, no nonce is refused, either end can open what the other one    *)
(* sealed, and the worker is never left with a key other than the one of   *)
(* the device's session.  (Over WebSocket neither holds: a socket that     *)
(* closes resets the session under the handler that is running, and a late *)
(* handshake of the closed one replaces the device's key.)                 *)
OneAtATimeWorks ==
  ~overlap /\ Usb =>
    /\ \A t \in Tasks :
         task[t].result \notin {"NonceReused", "Internal", "Unsealable", "TypeError"}
    /\ Quiet /\ sessionKey # NoKey /\ IsActive(device) => sessionKey = device.key

(* A handler that fails because the device's session is over leaves the    *)
(* worker without a key, so that the next one shakes hands again           *)
(* (PROTOCOL.md: "On expiry the device responds session_expired to the     *)
(* next request and the host re-handshakes").                              *)
ExpiredIsForgotten ==
  [][\A t \in Tasks : task[t].result = "none" /\ task'[t].result = "SessionExpired"
                        => sessionKey' = NoKey]_extVars

(* Every handler answers its caller, with a silent device too.             *)
EveryActionResponds == \A t \in Tasks : task[t].pc = "started" ~> task[t].pc = "done"
=============================================================================
