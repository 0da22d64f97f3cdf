---------------------------- MODULE ExtensionProofs ----------------------------
(***************************************************************************)
(* Proofs about Extension, for any number of handlers, of losses of the    *)
(* link and of calls on the wire at once.                                  *)
(***************************************************************************)
EXTENDS Extension, TLAPS, SequenceTheorems

Establish == "establish_session"

Methods == {"ping", "list", "release", "store", "establish_session"}

TaskPcs == {"new", "started", "generating", "exporting", "waiting", "replied", "derived",
            "sealing", "resetting", "done"}

Verdicts == {"none", "Ok", "Refused", "Internal", "SessionExpired", "NotActive", "NonceReused",
             "unpaired", "usb", "unreachable", "timeout", "disconnected", "transfer"}

TaskRecs == [pc : TaskPcs, kind : Kinds, method : Methods \cup {"none"}, key : Nat,
             from : Tasks \cup {Null}, answered : Methods \cup {"none"}, verdict : Verdicts,
             result : Verdicts \cup {"Unsealable", "TypeError"}]

Answers == [task : Tasks, method : Methods, verdict : Verdicts, key : Nat]

HostTypes == /\ hostPrivateKey \in Tasks \cup {Null} /\ sessionKey \in Nat /\ requestNonce \in Nat
             /\ task \in [Tasks -> TaskRecs] /\ chain \in Seq(Calls)

WireTypes == /\ toDevice \in Seq(Calls) /\ toHost \in Seq(Answers)
             /\ device \in Sessions /\ handshakes \in Nat

(* A handler has at most one call in the chain, the one it waits for, and  *)
(* the pending call is the head.                                           *)
Chained ==
  /\ \A i, j \in DOMAIN chain : chain[i].task = chain[j].task => i = j
  /\ \A i \in DOMAIN chain : /\ task[chain[i].task].pc = "waiting"
                             /\ task[chain[i].task].method = chain[i].method
  /\ \A t \in Tasks : task[t].pc = "waiting" => \E i \in DOMAIN chain : chain[i].task = t
  /\ pending # Null => chain # <<>> /\ pending = Head(chain)

XInv == HostTypes /\ WireTypes /\ Chained /\ AnswerIsMine

(* Only closed WebSockets leave a reader of their own behind.              *)
Leftovers == /\ stale \subseteq Seq(Calls) \ {<<>>}
             /\ Usb => stale = {}
-----------------------------------------------------------------------------
LEMMA TaskFields ==
  ASSUME NEW x \in TaskRecs
  PROVE  /\ x.pc \in TaskPcs /\ x.kind \in Kinds /\ x.method \in Methods \cup {"none"}
         /\ x.key \in Nat /\ x.from \in Tasks \cup {Null} /\ x.verdict \in Verdicts
         /\ x.answered \in Methods \cup {"none"}
         /\ x.result \in Verdicts \cup {"Unsealable", "TypeError"}
BY DEF TaskRecs

LEMMA CallFields ==
  ASSUME NEW c \in Calls
  PROVE  /\ c.task \in Tasks /\ c.method \in Methods /\ c.nonce \in Nat /\ c.key \in Nat
BY DEF Calls, Methods

LEMMA AnswerFields ==
  ASSUME NEW m \in Answers
  PROVE  /\ m.task \in Tasks /\ m.method \in Methods /\ m.verdict \in Verdicts /\ m.key \in Nat
BY DEF Answers

LEMMA XInvTypes == XInv /\ Leftovers => TypeOK
<1> SUFFICES ASSUME XInv, Leftovers PROVE TypeOK OBVIOUS
<1>1. HostTypes /\ WireTypes /\ Chained BY DEF XInv
<1>2. ASSUME NEW t \in Tasks
      PROVE  /\ task[t].pc \in {"new", "started", "generating", "exporting", "waiting", "replied",
                                "derived", "sealing", "resetting", "done"}
             /\ task[t].kind \in Kinds
             /\ task[t].pc = "waiting" <=> \E i \in DOMAIN chain : chain[i].task = t
  <2>1. task[t] \in TaskRecs BY <1>1 DEF HostTypes
  <2>2. task[t].pc \in TaskPcs /\ task[t].kind \in Kinds BY <2>1, TaskFields
  <2>3. task[t].pc = "waiting" <=> \E i \in DOMAIN chain : chain[i].task = t BY <1>1 DEF Chained
  <2> QED BY <2>2, <2>3 DEF TaskPcs
<1>3. /\ hostPrivateKey \in Tasks \cup {Null} /\ {sessionKey, requestNonce} \subseteq Nat
      /\ {chain, toDevice} \cup stale \subseteq Seq(Calls) /\ device \in Sessions
  BY <1>1 DEF HostTypes, WireTypes, Leftovers
<1>4. pending # Null => chain # <<>> /\ pending = Head(chain) BY <1>1 DEF Chained
<1> QED BY <1>2, <1>3, <1>4 DEF TypeOK

LEMMA InitXInv == Init => XInv
<1> SUFFICES ASSUME Init PROVE XInv OBVIOUS
<1>1. NewTask \in TaskRecs /\ NewTask.pc = "new"
  BY DEF NewTask, TaskRecs, TaskPcs, Kinds, Methods, Verdicts, NoKey
<1>2. NewSession \in Sessions BY DEF NewSession, Sessions, SessionStates, NoKey
<1>3. HostTypes BY <1>1 DEF Init, HostTypes, NoKey
<1>4. WireTypes BY <1>2 DEF Init, WireTypes
<1>5. Chained BY <1>1 DEF Init, Chained
<1>6. AnswerIsMine BY <1>1 DEF Init, AnswerIsMine
<1> QED BY <1>3, <1>4, <1>5, <1>6 DEF XInv

(* Only t's record changes: to pc p, kind k, key q and result w.           *)
Goes(t, p, k, q, w) ==
  /\ task' \in [Tasks -> TaskRecs] /\ \A u \in Tasks : u # t => task'[u] = task[u]
  /\ task'[t].pc = p /\ task'[t].kind = k /\ task'[t].key = q /\ task'[t].result = w
  /\ task'[t].method = task[t].method /\ task'[t].verdict = task[t].verdict
  /\ task'[t].from = task[t].from /\ task'[t].answered = task[t].answered

LEMMA GoesByPc ==
  ASSUME HostTypes, NEW t \in Tasks, NEW p \in TaskPcs, task' = [task EXCEPT ![t].pc = p]
  PROVE  Goes(t, p, task[t].kind, task[t].key, task[t].result)
<1>1. task \in [Tasks -> TaskRecs] BY DEF HostTypes
<1>2. PICK s \in TaskRecs : s = task[t] BY <1>1
<1>3. PICK x : x = [s EXCEPT !.pc = p] OBVIOUS
<1>4. /\ x \in TaskRecs /\ x.pc = p /\ x.kind = s.kind /\ x.key = s.key /\ x.result = s.result
      /\ x.method = s.method /\ x.verdict = s.verdict /\ x.from = s.from /\ x.answered = s.answered
  BY <1>3 DEF TaskRecs
<1>5. task' = [task EXCEPT ![t] = x] BY <1>1, <1>2, <1>3
<1>6. /\ task' \in [Tasks -> TaskRecs] /\ task'[t] = x
      /\ \A u \in Tasks : u # t => task'[u] = task[u]
  BY <1>1, <1>4, <1>5
<1> QED BY <1>2, <1>4, <1>6 DEF Goes

LEMMA GoesByKind ==
  ASSUME HostTypes, NEW t \in Tasks, NEW p \in TaskPcs, NEW k \in Kinds,
         task' = [task EXCEPT ![t].pc = p, ![t].kind = k]
  PROVE  Goes(t, p, k, task[t].key, task[t].result)
<1>1. task \in [Tasks -> TaskRecs] BY DEF HostTypes
<1>2. PICK s \in TaskRecs : s = task[t] BY <1>1
<1>3. PICK x : x = [s EXCEPT !.pc = p, !.kind = k] OBVIOUS
<1>4. /\ x \in TaskRecs /\ x.pc = p /\ x.kind = k /\ x.key = s.key /\ x.result = s.result
      /\ x.method = s.method /\ x.verdict = s.verdict /\ x.from = s.from /\ x.answered = s.answered
  BY <1>3 DEF TaskRecs
<1>5. task' = [task EXCEPT ![t] = x] BY <1>1, <1>2, <1>3
<1>6. /\ task' \in [Tasks -> TaskRecs] /\ task'[t] = x
      /\ \A u \in Tasks : u # t => task'[u] = task[u]
  BY <1>1, <1>4, <1>5
<1> QED BY <1>2, <1>4, <1>6 DEF Goes

LEMMA GoesByKey ==
  ASSUME HostTypes, NEW t \in Tasks, NEW p \in TaskPcs, NEW q \in Nat,
         task' = [task EXCEPT ![t].pc = p, ![t].key = q]
  PROVE  Goes(t, p, task[t].kind, q, task[t].result)
<1>1. task \in [Tasks -> TaskRecs] BY DEF HostTypes
<1>2. PICK s \in TaskRecs : s = task[t] BY <1>1
<1>3. PICK x : x = [s EXCEPT !.pc = p, !.key = q] OBVIOUS
<1>4. /\ x \in TaskRecs /\ x.pc = p /\ x.kind = s.kind /\ x.key = q /\ x.result = s.result
      /\ x.method = s.method /\ x.verdict = s.verdict /\ x.from = s.from /\ x.answered = s.answered
  BY <1>3 DEF TaskRecs
<1>5. task' = [task EXCEPT ![t] = x] BY <1>1, <1>2, <1>3
<1>6. /\ task' \in [Tasks -> TaskRecs] /\ task'[t] = x
      /\ \A u \in Tasks : u # t => task'[u] = task[u]
  BY <1>1, <1>4, <1>5
<1> QED BY <1>2, <1>4, <1>6 DEF Goes

LEMMA GoesByResult ==
  ASSUME HostTypes, NEW t \in Tasks, NEW w \in Verdicts \cup {"Unsealable", "TypeError"},
         Respond(t, w)
  PROVE  Goes(t, "done", task[t].kind, task[t].key, w)
<1>1. task \in [Tasks -> TaskRecs] BY DEF HostTypes
<1>2. PICK s \in TaskRecs : s = task[t] BY <1>1
<1>3. PICK x : x = [s EXCEPT !.pc = "done", !.result = w] OBVIOUS
<1>4. /\ x \in TaskRecs /\ x.pc = "done" /\ x.kind = s.kind /\ x.key = s.key /\ x.result = w
      /\ x.method = s.method /\ x.verdict = s.verdict /\ x.from = s.from /\ x.answered = s.answered
  BY <1>3 DEF TaskRecs, TaskPcs
<1>5. task' = [task EXCEPT ![t] = x] BY <1>1, <1>2, <1>3 DEF Respond
<1>6. /\ task' \in [Tasks -> TaskRecs] /\ task'[t] = x
      /\ \A u \in Tasks : u # t => task'[u] = task[u]
  BY <1>1, <1>4, <1>5
<1> QED BY <1>2, <1>4, <1>6 DEF Goes

(* The handler t goes on from a point where it waits for no call.          *)
LEMMA TaskMoves ==
  ASSUME XInv, NEW t \in Tasks, NEW p, NEW k, NEW q, NEW w, Goes(t, p, k, q, w),
         UNCHANGED <<chain, pending>>, task[t].pc # "waiting", p \notin {"waiting", "replied"}
  PROVE  Chained' /\ AnswerIsMine' /\ task' \in [Tasks -> TaskRecs]
<1>1. HostTypes /\ Chained /\ AnswerIsMine BY DEF XInv
<1>2. chain \in Seq(Calls) BY <1>1 DEF HostTypes
<1>3. /\ task' \in [Tasks -> TaskRecs] /\ task'[t].pc = p
      /\ \A u \in Tasks : u # t => task'[u] = task[u]
  BY DEF Goes
<1>4. \A i \in DOMAIN chain : chain[i].task \in Tasks /\ chain[i].task # t
  <2>1. \A i \in DOMAIN chain : chain[i] \in Calls BY <1>2
  <2> QED BY <1>1, <2>1, CallFields DEF Chained
<1>5. Chained' BY <1>1, <1>3, <1>4 DEF Chained
<1>6. AnswerIsMine' BY <1>1, <1>3 DEF AnswerIsMine
<1> QED BY <1>3, <1>5, <1>6

(* The handler t makes a call and waits.                                   *)
LEMMA TaskCalls ==
  ASSUME XInv, NEW t \in Tasks, NEW method \in Methods, NEW nonce \in Nat, NEW key \in Nat,
         Call(t, method, nonce, key), task[t].pc # "waiting", pending' = pending
  PROVE  /\ Chained' /\ AnswerIsMine' /\ task' \in [Tasks -> TaskRecs] /\ chain' \in Seq(Calls)
         /\ task'[t].pc = "waiting" /\ task'[t].method = method
         /\ task'[t].result = task[t].result /\ task'[t].verdict = task[t].verdict
         /\ \A u \in Tasks : u # t => task'[u] = task[u]
         /\ \E c \in Calls : /\ chain' = Append(chain, c) /\ c.task = t /\ c.method = method
                             /\ c.nonce = nonce /\ c.key = key
<1>1. HostTypes /\ Chained /\ AnswerIsMine BY DEF XInv
<1>2. task \in [Tasks -> TaskRecs] /\ chain \in Seq(Calls) BY <1>1 DEF HostTypes
<1>3. PICK s \in TaskRecs : s = task[t] BY <1>2
<1>4. PICK x : x = [s EXCEPT !.pc = "waiting", !.method = method] OBVIOUS
<1>5. /\ x \in TaskRecs /\ x.pc = "waiting" /\ x.method = method /\ x.result = s.result
      /\ x.verdict = s.verdict
  BY <1>4 DEF TaskRecs, TaskPcs
<1>6. task' = [task EXCEPT ![t] = x] BY <1>2, <1>3, <1>4 DEF Call
<1>7. PICK c : c = [task |-> t, method |-> method, nonce |-> nonce, key |-> key] OBVIOUS
<1>8. c \in Calls /\ c.task = t /\ c.method = method /\ c.nonce = nonce /\ c.key = key
  BY <1>7 DEF Calls, Methods
<1>9. chain' = Append(chain, c) BY <1>7 DEF Call
<1>10. /\ task' \in [Tasks -> TaskRecs] /\ task'[t] = x
       /\ \A u \in Tasks : u # t => task'[u] = task[u]
  BY <1>2, <1>5, <1>6
<1>11. \A i \in DOMAIN chain : chain[i].task \in Tasks /\ chain[i].task # t
  <2>1. \A i \in DOMAIN chain : chain[i] \in Calls BY <1>2
  <2> QED BY <1>1, <2>1, CallFields DEF Chained
<1>12. /\ chain' \in Seq(Calls) /\ DOMAIN chain' = 1..(Len(chain) + 1) /\ chain'[Len(chain) + 1] = c
       /\ DOMAIN chain = 1..Len(chain) /\ Len(chain) \in Nat
       /\ \A i \in DOMAIN chain : i \in DOMAIN chain' /\ chain'[i] = chain[i]
  <2>1. DOMAIN chain = 1..Len(chain) /\ Len(chain) \in Nat BY <1>2
  <2>2. chain' \in Seq(Calls) /\ Len(chain') = Len(chain) + 1 BY <1>2, <1>8, <1>9
  <2>3. chain'[Len(chain) + 1] = c /\ \A i \in 1..Len(chain) : chain'[i] = chain[i]
    BY <1>2, <1>8, <1>9, AppendProperties
  <2>4. DOMAIN chain' = 1..(Len(chain) + 1) BY <2>2
  <2> QED BY <2>1, <2>2, <2>3, <2>4
<1>13. \A i \in DOMAIN chain' : i \in DOMAIN chain \/ (chain'[i] = c /\ i = Len(chain) + 1) BY <1>12
<1>14. \A i, j \in DOMAIN chain' : chain'[i].task = chain'[j].task => i = j
  BY <1>1, <1>8, <1>11, <1>12, <1>13 DEF Chained
<1>15. \A i \in DOMAIN chain' : /\ task'[chain'[i].task].pc = "waiting"
                                /\ task'[chain'[i].task].method = chain'[i].method
  BY <1>1, <1>5, <1>8, <1>10, <1>11, <1>12, <1>13 DEF Chained
<1>16. ASSUME NEW u \in Tasks, task'[u].pc = "waiting"
       PROVE  \E i \in DOMAIN chain' : chain'[i].task = u
  <2>1. CASE u = t BY <1>8, <1>12, <2>1
  <2>2. CASE u # t
    <3>1. PICK i \in DOMAIN chain : chain[i].task = u BY <1>1, <1>10, <1>16, <2>2 DEF Chained
    <3> QED BY <1>12, <3>1
  <2> QED BY <2>1, <2>2
<1>17. pending' # Null => chain' # <<>> /\ pending' = Head(chain')
  <2> SUFFICES ASSUME pending # Null PROVE chain' # <<>> /\ pending = Head(chain') OBVIOUS
  <2>1. chain # <<>> /\ pending = Head(chain) BY <1>1 DEF Chained
  <2> QED BY <1>2, <1>9, <2>1, <1>8
<1>18. Chained' BY <1>14, <1>15, <1>16, <1>17 DEF Chained
<1>19. AnswerIsMine' BY <1>1, <1>5, <1>10 DEF AnswerIsMine
<1> QED BY <1>3, <1>5, <1>8, <1>9, <1>10, <1>12, <1>18, <1>19

LEMMA TailIs ==
  ASSUME NEW S, NEW s \in Seq(S), s # <<>>
  PROVE  /\ Tail(s) \in Seq(S) /\ Head(s) \in S /\ Head(s) = s[1] /\ 1 \in DOMAIN s
         /\ Len(s) \in Nat /\ Len(s) > 0 /\ DOMAIN s = 1..Len(s)
         /\ Len(Tail(s)) = Len(s) - 1 /\ DOMAIN Tail(s) = 1..(Len(s) - 1)
         /\ \A i \in DOMAIN Tail(s) : i + 1 \in DOMAIN s /\ Tail(s)[i] = s[i + 1]
<1>1. Tail(s) \in Seq(S) /\ Head(s) \in S /\ Head(s) = s[1] /\ Len(Tail(s)) = Len(s) - 1
  BY HeadTailProperties
<1>2. Len(s) \in Nat /\ Len(s) > 0 /\ DOMAIN s = 1..Len(s) OBVIOUS
<1>3. DOMAIN Tail(s) = 1..(Len(s) - 1) BY <1>1
<1>4. \A i \in 1..(Len(s) - 1) : Tail(s)[i] = s[i + 1] BY <1>1, HeadTailProperties
<1> QED BY <1>1, <1>2, <1>3, <1>4

LEMMA PrefixIs ==
  ASSUME NEW S, NEW s \in Seq(S), NEW n \in 0..Len(s)
  PROVE  /\ SubSeq(s, 1, n) \in Seq(S) /\ Len(SubSeq(s, 1, n)) = n
         /\ DOMAIN SubSeq(s, 1, n) = 1..n /\ 1..n \subseteq DOMAIN s
         /\ \A i \in 1..n : SubSeq(s, 1, n)[i] = s[i]
<1>1. Len(s) \in Nat /\ DOMAIN s = 1..Len(s) /\ n \in Nat OBVIOUS
<1>2. 1..n \subseteq DOMAIN s /\ \A i \in 1..n : s[i] \in S BY <1>1
<1>3. /\ SubSeq(s, 1, n) \in Seq(S) /\ Len(SubSeq(s, 1, n)) = IF 1 <= n THEN n - 1 + 1 ELSE 0
      /\ \A i \in 1..(n - 1 + 1) : SubSeq(s, 1, n)[i] = s[1 + i - 1]
  BY <1>1, <1>2, SubSeqProperties
<1>4. Len(SubSeq(s, 1, n)) = n BY <1>1, <1>3
<1>5. \A i \in 1..n : SubSeq(s, 1, n)[i] = s[i] BY <1>1, <1>3
<1> QED BY <1>2, <1>3, <1>4, <1>5

(* The head of the chain is settled; a handler that was resetting may have *)
(* ended in the same step.                                                 *)
LEMMA TaskSettles ==
  ASSUME XInv, NEW tasks \in [Tasks -> TaskRecs], chain # <<>>,
         \A u \in Tasks : tasks[u] = task[u] \/ (task[u].pc = "resetting" /\ tasks[u].pc = "done"),
         NEW verdict \in Verdicts, NEW from \in Tasks \cup {Null}, NEW key \in Nat,
         NEW answered \in Methods \cup {"none"}, Settle(tasks, verdict, from, key, answered),
         answered # "none" => from = Head(chain).task /\ answered = Head(chain).method
  PROVE  /\ Chained' /\ AnswerIsMine' /\ task' \in [Tasks -> TaskRecs] /\ chain' \in Seq(Calls)
         /\ LET t == Head(chain).task
            IN /\ t \in Tasks /\ \A u \in Tasks : u # t => task'[u] = tasks[u]
               /\ task'[t].pc = "replied" /\ task'[t].verdict = verdict /\ task'[t].from = from
               /\ task'[t].key = key /\ task'[t].answered = answered
               /\ task'[t].method = Head(chain).method /\ task'[t].result = task[t].result
<1>1. HostTypes /\ Chained /\ AnswerIsMine BY DEF XInv
<1>2. task \in [Tasks -> TaskRecs] /\ chain \in Seq(Calls) BY <1>1 DEF HostTypes
<1>3. PICK t \in Tasks : t = Head(chain).task BY <1>2, TailIs, CallFields
<1>4. /\ Tail(chain) \in Seq(Calls) /\ Head(chain) = chain[1] /\ 1 \in DOMAIN chain
      /\ DOMAIN chain = 1..Len(chain) /\ Len(chain) \in Nat
      /\ \A i \in DOMAIN Tail(chain) : i + 1 \in DOMAIN chain /\ Tail(chain)[i] = chain[i + 1]
      /\ DOMAIN Tail(chain) = 1..(Len(chain) - 1)
  BY <1>2, TailIs
<1>5. task[t].pc = "waiting" /\ task[t].method = Head(chain).method BY <1>1, <1>3, <1>4 DEF Chained
<1>6. PICK s \in TaskRecs : s = tasks[t] OBVIOUS
<1>7. s = task[t] BY <1>5, <1>6
<1>8. PICK x : x = [s EXCEPT !.pc = "replied", !.verdict = verdict, !.from = from,
                             !.key = key, !.answered = answered]
  OBVIOUS
<1>9. /\ x \in TaskRecs /\ x.pc = "replied" /\ x.verdict = verdict /\ x.from = from
      /\ x.key = key /\ x.answered = answered /\ x.method = s.method /\ x.result = s.result
      /\ x.kind = s.kind
  BY <1>8 DEF TaskRecs, TaskPcs
<1>10. task' = [tasks EXCEPT ![t] = x] BY <1>3, <1>6, <1>8 DEF Settle
<1>11. /\ task' \in [Tasks -> TaskRecs] /\ task'[t] = x
       /\ \A u \in Tasks : u # t => task'[u] = tasks[u]
  BY <1>9, <1>10
<1>12. chain' = Tail(chain) /\ pending' = Null BY DEF Settle
<1>13. \A u \in Tasks : task'[u].pc = "waiting" <=> task[u].pc = "waiting" /\ u # t
  BY <1>9, <1>11
<1>14. \A i \in DOMAIN chain : chain[i].task \in Tasks
  <2>1. \A i \in DOMAIN chain : chain[i] \in Calls BY <1>2
  <2> QED BY <2>1, CallFields
<1>15. \A i \in DOMAIN chain' : /\ i + 1 \in DOMAIN chain /\ chain'[i] = chain[i + 1]
                                /\ chain'[i].task # t
  <2> SUFFICES ASSUME NEW i \in DOMAIN chain'
               PROVE  i + 1 \in DOMAIN chain /\ chain'[i] = chain[i + 1] /\ chain'[i].task # t
    OBVIOUS
  <2>1. i + 1 \in DOMAIN chain /\ chain'[i] = chain[i + 1] /\ i + 1 # 1 BY <1>4, <1>12
  <2>2. chain[i + 1].task # chain[1].task BY <1>1, <1>4, <2>1 DEF Chained
  <2> QED BY <1>3, <1>4, <2>1, <2>2
<1>16. \A i, j \in DOMAIN chain' : chain'[i].task = chain'[j].task => i = j
  <2> SUFFICES ASSUME NEW i \in DOMAIN chain', NEW j \in DOMAIN chain',
                      chain'[i].task = chain'[j].task
               PROVE  i = j
    OBVIOUS
  <2>1. i + 1 = j + 1 BY <1>1, <1>15 DEF Chained
  <2> QED BY <1>4, <1>12, <2>1
<1>17. \A i \in DOMAIN chain' : /\ task'[chain'[i].task].pc = "waiting"
                                /\ task'[chain'[i].task].method = chain'[i].method
  <2> SUFFICES ASSUME NEW i \in DOMAIN chain'
               PROVE  /\ task'[chain'[i].task].pc = "waiting"
                      /\ task'[chain'[i].task].method = chain'[i].method
    OBVIOUS
  <2>1. PICK c : c = chain[i + 1] OBVIOUS
  <2>2. /\ chain'[i] = c /\ c.task # t /\ c.task \in Tasks /\ task[c.task].pc = "waiting"
        /\ task[c.task].method = c.method
    BY <1>1, <1>14, <1>15, <2>1 DEF Chained
  <2>3. task'[c.task] = task[c.task] BY <1>11, <2>2
  <2> QED BY <2>2, <2>3
<1>18. ASSUME NEW u \in Tasks, task'[u].pc = "waiting"
       PROVE  \E i \in DOMAIN chain' : chain'[i].task = u
  <2>1. PICK j \in DOMAIN chain : chain[j].task = u BY <1>1, <1>13, <1>18 DEF Chained
  <2>2. j # 1 BY <1>3, <1>4, <1>13, <1>18, <2>1
  <2>3. PICK i : i = j - 1 OBVIOUS
  <2>4. i \in DOMAIN Tail(chain) /\ i + 1 = j BY <1>4, <2>2, <2>3
  <2> QED BY <1>4, <1>12, <2>1, <2>4
<1>19. Chained' BY <1>12, <1>16, <1>17, <1>18 DEF Chained
<1>20. AnswerIsMine'
  <2> SUFFICES ASSUME NEW u \in Tasks, task'[u].pc = "replied", task'[u].answered # "none"
               PROVE  task'[u].from = u /\ task'[u].answered = task'[u].method
    BY DEF AnswerIsMine
  <2>1. CASE u = t BY <1>3, <1>5, <1>7, <1>9, <1>11, <2>1
  <2>2. CASE u # t
    <3>1. task'[u] = task[u] BY <1>11, <2>2
    <3> QED BY <1>1, <3>1 DEF AnswerIsMine
  <2> QED BY <2>1, <2>2
<1> QED BY <1>3, <1>4, <1>5, <1>7, <1>9, <1>11, <1>12, <1>19, <1>20

LEMMA WireAlone == ASSUME WireTypes, UNCHANGED <<wire, peer>> PROVE WireTypes'
BY DEF WireTypes, wire, peer

LEMMA OperateKeeps ==
  ASSUME XInv, NEW t \in Tasks, NEW key \in Nat, NEW nonce \in Nat, Operate(t, key, nonce),
         task[t].pc # "waiting", pending' = pending
  PROVE  /\ Chained' /\ AnswerIsMine' /\ task' \in [Tasks -> TaskRecs] /\ chain' \in Seq(Calls)
         /\ requestNonce' \in Nat
<1>1. HostTypes BY DEF XInv
<1>2. CASE Call(t, "list", 0, NoKey) /\ requestNonce' = nonce
  <2>1. "list" \in Methods /\ 0 \in Nat /\ NoKey \in Nat BY DEF Methods, NoKey
  <2> QED BY <1>2, <2>1, TaskCalls
<1>3. CASE Call(t, "release", nonce + 1, NoKey) /\ requestNonce' = nonce + 1
  <2>1. "release" \in Methods /\ nonce + 1 \in Nat /\ NoKey \in Nat BY DEF Methods, NoKey
  <2> QED BY <1>3, <2>1, TaskCalls
<1>4. CASE /\ task' = [task EXCEPT ![t].pc = "sealing", ![t].key = key]
           /\ requestNonce' = nonce /\ UNCHANGED chain
  <2>1. "sealing" \in TaskPcs BY DEF TaskPcs
  <2>2. Goes(t, "sealing", task[t].kind, key, task[t].result) BY <1>1, <1>4, <2>1, GoesByKey
  <2>3. Chained' /\ AnswerIsMine' /\ task' \in [Tasks -> TaskRecs] BY <1>4, <2>2, TaskMoves
  <2> QED BY <1>1, <1>4, <2>3 DEF HostTypes
<1> QED BY <1>2, <1>3, <1>4 DEF Operate

(* Steps of a handler that touch no wire and settle nothing.               *)
LEMMA HandlerKeeps ==
  ASSUME XInv, NEW t \in Tasks,
         \/ \E kind \in Kinds : Start(t, kind)
         \/ Ping(t) \/ EnsureSession(t) \/ GenerateKey(t) \/ SendPublicKey(t) \/ DeriveBits(t)
         \/ Established(t) \/ Sealed(t) \/ Finish(t) \/ Fail(t) \/ ResetUsb(t)
  PROVE  XInv'
<1>1. HostTypes /\ WireTypes BY DEF XInv
<1>2. /\ hostPrivateKey \in Tasks \cup {Null} /\ sessionKey \in Nat /\ requestNonce \in Nat
      /\ task[t] \in TaskRecs /\ chain \in Seq(Calls)
  BY <1>1 DEF HostTypes
<1>3. UNCHANGED <<wire, peer>> /\ pending' = pending
  BY DEF Start, Ping, EnsureSession, GenerateKey, SendPublicKey, DeriveBits, Established, Sealed,
         Finish, Fail, ResetUsb
<1>4. WireTypes' BY <1>1, <1>3, WireAlone
<1>5. /\ task[t].key \in Nat /\ task[t].from \in Tasks \cup {Null} /\ task[t].verdict \in Verdicts
  BY <1>2, TaskFields
<1>6. 0 \in Nat /\ NoKey \in Nat BY DEF NoKey
<1>7. ASSUME /\ Chained' /\ AnswerIsMine' /\ task' \in [Tasks -> TaskRecs] /\ chain' \in Seq(Calls)
             /\ hostPrivateKey' \in Tasks \cup {Null} /\ sessionKey' \in Nat /\ requestNonce' \in Nat
      PROVE  XInv'
  BY <1>4, <1>7 DEF XInv, HostTypes
<1>8. ASSUME NEW p \in TaskPcs \ {"waiting", "replied"}, NEW k, NEW q, NEW w, Goes(t, p, k, q, w),
             task[t].pc # "waiting", chain' = chain, hostPrivateKey' \in Tasks \cup {Null},
             sessionKey' \in Nat, requestNonce' \in Nat
      PROVE  XInv'
  <2>1. Chained' /\ AnswerIsMine' /\ task' \in [Tasks -> TaskRecs] BY <1>3, <1>8, TaskMoves
  <2> QED BY <1>2, <1>7, <1>8, <2>1
<1>9. ASSUME NEW kind \in Kinds, Start(t, kind) PROVE XInv'
  <2>1. "started" \in TaskPcs \ {"waiting", "replied"} BY DEF TaskPcs
  <2>2. Goes(t, "started", kind, task[t].key, task[t].result)
    BY <1>1, <1>9, <2>1, GoesByKind DEF Start
  <2>3. task[t].pc # "waiting" /\ UNCHANGED <<host, chain>> BY <1>9 DEF Start
  <2> QED BY <1>2, <1>8, <2>1, <2>2, <2>3 DEF host
<1>10. CASE Ping(t)
  <2>1. "ping" \in Methods BY DEF Methods
  <2>2. Call(t, "ping", 0, NoKey) /\ task[t].pc # "waiting" /\ UNCHANGED host BY <1>10 DEF Ping
  <2>3. Chained' /\ AnswerIsMine' /\ task' \in [Tasks -> TaskRecs] /\ chain' \in Seq(Calls)
    BY <1>3, <1>6, <2>1, <2>2, TaskCalls
  <2> QED BY <1>2, <1>7, <2>2, <2>3 DEF host
<1>11. CASE EnsureSession(t)
  <2>1. task[t].pc # "waiting" /\ UNCHANGED <<hostPrivateKey, sessionKey>>
    BY <1>11 DEF EnsureSession
  <2>2. CASE sessionKey # NoKey
    <3>1. Operate(t, sessionKey, requestNonce) BY <1>11, <2>2 DEF EnsureSession
    <3>2. /\ Chained' /\ AnswerIsMine' /\ task' \in [Tasks -> TaskRecs] /\ chain' \in Seq(Calls)
          /\ requestNonce' \in Nat
      BY <1>2, <1>3, <2>1, <3>1, OperateKeeps
    <3> QED BY <1>2, <1>7, <2>1, <3>2
  <2>3. CASE sessionKey = NoKey
    <3>1. task' = [task EXCEPT ![t].pc = "generating"] /\ UNCHANGED <<requestNonce, chain>>
      BY <1>11, <2>3 DEF EnsureSession
    <3>2. "generating" \in TaskPcs \ {"waiting", "replied"} BY DEF TaskPcs
    <3>3. Goes(t, "generating", task[t].kind, task[t].key, task[t].result)
      BY <1>1, <3>1, <3>2, GoesByPc
    <3> QED BY <1>2, <1>8, <2>1, <3>1, <3>2, <3>3
  <2> QED BY <2>2, <2>3
<1>12. CASE GenerateKey(t)
  <2>1. /\ task[t].pc # "waiting" /\ hostPrivateKey' = t
        /\ UNCHANGED <<sessionKey, requestNonce, chain>>
        /\ task' = [task EXCEPT ![t].pc = "exporting"]
    BY <1>12 DEF GenerateKey
  <2>2. "exporting" \in TaskPcs \ {"waiting", "replied"} BY DEF TaskPcs
  <2>3. Goes(t, "exporting", task[t].kind, task[t].key, task[t].result)
    BY <1>1, <2>1, <2>2, GoesByPc
  <2> QED BY <1>2, <1>8, <2>1, <2>2, <2>3
<1>13. CASE SendPublicKey(t)
  <2>1. "establish_session" \in Methods BY DEF Methods
  <2>2. Call(t, "establish_session", 0, NoKey) /\ task[t].pc # "waiting" /\ UNCHANGED host
    BY <1>13 DEF SendPublicKey
  <2>3. Chained' /\ AnswerIsMine' /\ task' \in [Tasks -> TaskRecs] /\ chain' \in Seq(Calls)
    BY <1>3, <1>6, <2>1, <2>2, TaskCalls
  <2> QED BY <1>2, <1>7, <2>2, <2>3 DEF host
<1>14. CASE DeriveBits(t)
  <2>1. task[t].pc # "waiting" /\ UNCHANGED <<host, chain>> BY <1>14 DEF DeriveBits, Replied
  <2>2. {"done", "derived"} \subseteq TaskPcs \ {"waiting", "replied"} BY DEF TaskPcs
  <2>3. CASE Respond(t, "TypeError")
    <3>1. Goes(t, "done", task[t].kind, task[t].key, "TypeError") BY <1>1, <2>3, GoesByResult
    <3> QED BY <1>2, <1>8, <2>1, <2>2, <3>1 DEF host
  <2>4. CASE task' = [task EXCEPT ![t].pc = "derived",
                        ![t].key = SharedKey(hostPrivateKey, task[t].from, task[t].key)]
    <3>1. PICK q \in Nat : q = SharedKey(hostPrivateKey, task[t].from, task[t].key)
      BY <1>5 DEF SharedKey
    <3>2. Goes(t, "derived", task[t].kind, q, task[t].result)
      BY <1>1, <2>2, <2>4, <3>1, GoesByKey
    <3> QED BY <1>2, <1>8, <2>1, <2>2, <3>2 DEF host
  <2> QED BY <1>14, <2>3, <2>4 DEF DeriveBits
<1>15. CASE Established(t)
  <2>1. /\ task[t].pc # "waiting" /\ sessionKey' = task[t].key /\ UNCHANGED hostPrivateKey
        /\ Operate(t, task[t].key, 0)
    BY <1>15 DEF Established
  <2>2. /\ Chained' /\ AnswerIsMine' /\ task' \in [Tasks -> TaskRecs] /\ chain' \in Seq(Calls)
        /\ requestNonce' \in Nat
    BY <1>3, <1>5, <1>6, <2>1, OperateKeeps
  <2> QED BY <1>2, <1>5, <1>7, <2>1, <2>2
<1>16. CASE Sealed(t)
  <2>1. /\ task[t].pc # "waiting" /\ UNCHANGED <<hostPrivateKey, sessionKey>>
        /\ Call(t, "store", requestNonce + 1, task[t].key) /\ requestNonce' = requestNonce + 1
    BY <1>16 DEF Sealed
  <2>2. "store" \in Methods /\ requestNonce + 1 \in Nat BY <1>2 DEF Methods
  <2>3. Chained' /\ AnswerIsMine' /\ task' \in [Tasks -> TaskRecs] /\ chain' \in Seq(Calls)
    BY <1>3, <1>5, <2>1, <2>2, TaskCalls
  <2> QED BY <1>2, <1>7, <2>1, <2>2, <2>3
<1>17. CASE Finish(t)
  <2>1. task[t].pc # "waiting" /\ UNCHANGED <<host, chain>> BY <1>17 DEF Finish, Replied
  <2>2. PICK w \in {"Ok", "Unsealable"} : Respond(t, w) BY <1>17 DEF Finish
  <2>3. "done" \in TaskPcs \ {"waiting", "replied"} BY DEF TaskPcs
  <2>4. w \in Verdicts \cup {"Unsealable", "TypeError"} BY DEF Verdicts
  <2>5. Goes(t, "done", task[t].kind, task[t].key, w) BY <1>1, <2>2, <2>4, GoesByResult
  <2> QED BY <1>2, <1>8, <2>1, <2>3, <2>5 DEF host
<1>18. CASE Fail(t)
  <2>1. task[t].pc # "waiting" /\ chain' = chain /\ Respond(t, task[t].verdict)
    BY <1>18 DEF Fail
  <2>2. ResetSession \/ UNCHANGED host BY <1>18 DEF Fail
  <2>3. "done" \in TaskPcs \ {"waiting", "replied"} BY DEF TaskPcs
  <2>4. Goes(t, "done", task[t].kind, task[t].key, task[t].verdict)
    BY <1>1, <1>5, <2>1, GoesByResult
  <2>5. hostPrivateKey' \in Tasks \cup {Null} /\ sessionKey' \in Nat /\ requestNonce' \in Nat
    BY <1>2, <1>6, <2>2 DEF ResetSession, host
  <2> QED BY <1>8, <2>1, <2>3, <2>4, <2>5
<1>19. CASE ResetUsb(t)
  <2>1. /\ task[t].pc # "waiting" /\ chain' = chain /\ ResetSession
        /\ task' = [task EXCEPT ![t].pc = "resetting"]
    BY <1>19 DEF ResetUsb
  <2>2. "resetting" \in TaskPcs \ {"waiting", "replied"} BY DEF TaskPcs
  <2>3. Goes(t, "resetting", task[t].kind, task[t].key, task[t].result)
    BY <1>1, <2>1, <2>2, GoesByPc
  <2>4. hostPrivateKey' \in Tasks \cup {Null} /\ sessionKey' \in Nat /\ requestNonce' \in Nat
    BY <1>6, <2>1 DEF ResetSession
  <2> QED BY <1>8, <2>1, <2>2, <2>3, <2>4
<1> QED BY <1>9, <1>10, <1>11, <1>12, <1>13, <1>14, <1>15, <1>16, <1>17, <1>18, <1>19

LEMMA ChainHead ==
  ASSUME XInv, chain # <<>>
  PROVE  /\ Head(chain) \in Calls /\ Head(chain) # Null /\ Head(chain).task \in Tasks
         /\ Head(chain) = chain[1] /\ 1 \in DOMAIN chain
         /\ task[Head(chain).task].pc = "waiting"
         /\ task[Head(chain).task].method = Head(chain).method
<1>1. chain \in Seq(Calls) /\ Chained BY DEF XInv, HostTypes
<1>2. Head(chain) \in Calls /\ Head(chain) = chain[1] /\ 1 \in DOMAIN chain BY <1>1, TailIs
<1>3. Head(chain) # Null /\ Head(chain).task \in Tasks
  BY <1>2, ExtensionAssumption, CallFields
<1> QED BY <1>1, <1>2, <1>3 DEF Chained

LEMMA MakeCallKeeps == XInv /\ MakeCall => XInv'
<1> SUFFICES ASSUME XInv, MakeCall PROVE XInv' OBVIOUS
<1>1. HostTypes /\ WireTypes /\ Chained /\ AnswerIsMine BY DEF XInv
<1>2. /\ chain # <<>> /\ pending' = Head(chain) /\ toDevice' = Append(toDevice, Head(chain))
      /\ UNCHANGED <<host, chain, task, toHost, peer>>
  BY DEF MakeCall
<1>3. Head(chain) \in Calls BY <1>2, ChainHead
<1>4. toDevice \in Seq(Calls) BY <1>1 DEF WireTypes
<1>5. toDevice' \in Seq(Calls) BY <1>2, <1>3, <1>4
<1>6. WireTypes' BY <1>1, <1>2, <1>5 DEF WireTypes, peer
<1>7. HostTypes' BY <1>1, <1>2 DEF HostTypes, host
<1>8. Chained' BY <1>1, <1>2 DEF Chained
<1>9. AnswerIsMine' BY <1>1, <1>2 DEF AnswerIsMine
<1> QED BY <1>6, <1>7, <1>8, <1>9 DEF XInv

LEMMA PendingIsHead ==
  ASSUME XInv, pending # Null
  PROVE  chain # <<>> /\ pending = Head(chain)
BY DEF XInv, Chained

(* The pending call fails and tasks is as TaskSettles wants it.            *)
LEMMA RejectKeeps ==
  ASSUME XInv, NEW tasks \in [Tasks -> TaskRecs], chain # <<>>,
         \A u \in Tasks : tasks[u] = task[u] \/ (task[u].pc = "resetting" /\ tasks[u].pc = "done"),
         NEW verdict \in Verdicts, Reject(tasks, verdict)
  PROVE  /\ Chained' /\ AnswerIsMine' /\ task' \in [Tasks -> TaskRecs] /\ chain' \in Seq(Calls)
         /\ chain' = Tail(chain) /\ pending' = Null
         /\ LET t == Head(chain).task
            IN /\ t \in Tasks /\ \A u \in Tasks : u # t => task'[u] = tasks[u]
               /\ task'[t].pc = "replied" /\ task'[t].verdict = verdict
               /\ task'[t].method = Head(chain).method /\ task'[t].result = task[t].result
<1>1. Settle(tasks, verdict, Null, NoKey, "none") BY DEF Reject
<1>2. PICK from \in Tasks \cup {Null} : from = Null OBVIOUS
<1>3. PICK key \in Nat : key = NoKey BY DEF NoKey
<1>4. PICK answered \in Methods \cup {"none"} : answered = "none" OBVIOUS
<1>5. Settle(tasks, verdict, from, key, answered) BY <1>1, <1>2, <1>3, <1>4
<1>6. answered # "none" => from = Head(chain).task /\ answered = Head(chain).method BY <1>4
<1>7. /\ Chained' /\ AnswerIsMine' /\ task' \in [Tasks -> TaskRecs] /\ chain' \in Seq(Calls)
      /\ LET t == Head(chain).task
         IN /\ t \in Tasks /\ \A u \in Tasks : u # t => task'[u] = tasks[u]
            /\ task'[t].pc = "replied" /\ task'[t].verdict = verdict
            /\ task'[t].method = Head(chain).method /\ task'[t].result = task[t].result
  BY <1>5, <1>6, TaskSettles
<1>8. chain' = Tail(chain) /\ pending' = Null BY <1>1 DEF Settle
<1> QED BY <1>7, <1>8

LEMMA CallFails == XInv /\ (ConnectFails \/ RpcTimeout) => XInv'
<1> SUFFICES ASSUME XInv, ConnectFails \/ RpcTimeout PROVE XInv' OBVIOUS
<1>1. HostTypes /\ WireTypes BY DEF XInv
<1>2. chain # <<>> BY PendingIsHead DEF ConnectFails, RpcTimeout
<1>3. \E e \in {"unpaired", "usb", "unreachable", "timeout"} : Reject(task, e)
  BY DEF ConnectFails, RpcTimeout
<1>4. PICK e \in Verdicts : Reject(task, e)
  <2>1. {"unpaired", "usb", "unreachable", "timeout"} \subseteq Verdicts BY DEF Verdicts
  <2> QED BY <1>3, <2>1
<1>5. UNCHANGED <<wire, peer>> /\ (UNCHANGED host \/ ResetSession) BY DEF ConnectFails, RpcTimeout
<1>6. task \in [Tasks -> TaskRecs] BY <1>1 DEF HostTypes
<1>7. Chained' /\ AnswerIsMine' /\ task' \in [Tasks -> TaskRecs] /\ chain' \in Seq(Calls)
  BY <1>2, <1>4, <1>6, RejectKeeps
<1>8. WireTypes' BY <1>1, <1>5, WireAlone
<1>9. HostTypes' BY <1>1, <1>5, <1>7 DEF HostTypes, ResetSession, host, NoKey
<1> QED BY <1>7, <1>8, <1>9 DEF XInv

(* _readLoop hands an answer over only to the handler whose call it is.    *)
LEMMA ReadLoopMatches ==
  ASSUME XInv, toHost # <<>>, NEW m, m = Head(toHost),
         pending # Null, pending.task = m.task, pending.method = m.method,
         Settle(task, m.verdict, m.task, m.key, m.method)
  PROVE  /\ Chained' /\ AnswerIsMine' /\ task' \in [Tasks -> TaskRecs] /\ chain' \in Seq(Calls)
         /\ chain' = Tail(chain) /\ pending' = Null /\ chain # <<>> /\ pending = Head(chain)
         /\ LET t == Head(chain).task
            IN /\ t \in Tasks /\ \A u \in Tasks : u # t => task'[u] = task[u]
               /\ task'[t].pc = "replied" /\ task'[t].verdict = m.verdict /\ task'[t].from = t
               /\ task'[t].key = m.key /\ task'[t].method = Head(chain).method
               /\ task'[t].result = task[t].result
<1>1. HostTypes /\ WireTypes BY DEF XInv
<1>2. task \in [Tasks -> TaskRecs] /\ toHost \in Seq(Answers) BY <1>1 DEF HostTypes, WireTypes
<1>3. m \in Answers BY <1>2, TailIs
<1>4. chain # <<>> /\ pending = Head(chain) BY PendingIsHead
<1>5. PICK verdict \in Verdicts : verdict = m.verdict BY <1>3, AnswerFields
<1>6. PICK from \in Tasks \cup {Null} : from = m.task BY <1>3, AnswerFields
<1>7. PICK key \in Nat : key = m.key BY <1>3, AnswerFields
<1>8. PICK answered \in Methods \cup {"none"} : answered = m.method BY <1>3, AnswerFields
<1>8a. PICK tasks \in [Tasks -> TaskRecs] : tasks = task BY <1>2
<1>9. /\ Settle(tasks, verdict, from, key, answered)
      /\ \A u \in Tasks : tasks[u] = task[u] \/ (task[u].pc = "resetting" /\ tasks[u].pc = "done")
  BY <1>8a, <1>5, <1>6, <1>7, <1>8
<1>10. from = Head(chain).task /\ answered = Head(chain).method BY <1>4, <1>6, <1>8
<1>10a. answered # "none" => from = Head(chain).task /\ answered = Head(chain).method BY <1>10
<1>11. /\ Chained' /\ AnswerIsMine' /\ task' \in [Tasks -> TaskRecs] /\ chain' \in Seq(Calls)
       /\ LET t == Head(chain).task
          IN /\ t \in Tasks /\ \A u \in Tasks : u # t => task'[u] = tasks[u]
             /\ task'[t].pc = "replied" /\ task'[t].verdict = verdict /\ task'[t].from = from
             /\ task'[t].key = key /\ task'[t].method = Head(chain).method
             /\ task'[t].result = task[t].result
  BY <1>4, <1>9, <1>10a, TaskSettles
<1>12. chain' = Tail(chain) /\ pending' = Null BY DEF Settle
<1> QED BY <1>8a, <1>4, <1>5, <1>7, <1>10, <1>11, <1>12

LEMMA ReadLoopKeeps == XInv /\ ReadLoop => XInv'
<1> SUFFICES ASSUME XInv, ReadLoop PROVE XInv' OBVIOUS
<1>1. HostTypes /\ WireTypes /\ Chained /\ AnswerIsMine BY DEF XInv
<1>2. toHost # <<>> /\ toHost' = Tail(toHost) /\ UNCHANGED <<host, toDevice, peer>> BY DEF ReadLoop
<1>3. PICK m : m = Head(toHost) OBVIOUS
<1>4. WireTypes'
  <2>1. toHost \in Seq(Answers) BY <1>1 DEF WireTypes
  <2>2. toHost' \in Seq(Answers) BY <1>2, <2>1
  <2> QED BY <1>1, <1>2, <2>2 DEF WireTypes, peer
<1>5. CASE pending # Null /\ pending.task = m.task /\ pending.method = m.method
  <2>1. Settle(task, m.verdict, m.task, m.key, m.method) BY <1>3, <1>5 DEF ReadLoop
  <2>2. Chained' /\ AnswerIsMine' /\ task' \in [Tasks -> TaskRecs] /\ chain' \in Seq(Calls)
    BY <1>2, <1>3, <1>5, <2>1, ReadLoopMatches
  <2>3. HostTypes' BY <1>1, <1>2, <2>2 DEF HostTypes, host
  <2> QED BY <1>4, <2>2, <2>3 DEF XInv
<1>6. CASE ~(pending # Null /\ pending.task = m.task /\ pending.method = m.method)
  <2>1. UNCHANGED <<task, chain, pending>> BY <1>3, <1>6 DEF ReadLoop
  <2>2. HostTypes' BY <1>1, <1>2, <2>1 DEF HostTypes, host
  <2>3. Chained' BY <1>1, <2>1 DEF Chained
  <2>4. AnswerIsMine' BY <1>1, <2>1 DEF AnswerIsMine
  <2> QED BY <1>4, <2>2, <2>3, <2>4 DEF XInv
<1> QED BY <1>5, <1>6

LEMMA UnreadTypes == ASSUME WireTypes, LeaveUnread PROVE toDevice' \in Seq(Calls)
<1>1. toDevice \in Seq(Calls) BY DEF WireTypes
<1>2. PICK n \in 0..Len(toDevice) : toDevice' = SubSeq(toDevice, 1, n) \/ toDevice' = <<>>
  BY DEF LeaveUnread
<1>3. CASE toDevice' = SubSeq(toDevice, 1, n) BY <1>1, <1>3, PrefixIs
<1>4. CASE toDevice' = <<>> BY <1>4
<1> QED BY <1>2, <1>3, <1>4

LEMMA TearDownKeeps ==
  ASSUME XInv, NEW tasks \in [Tasks -> TaskRecs],
         \A u \in Tasks : tasks[u] = task[u] \/ (task[u].pc = "resetting" /\ tasks[u].pc = "done"),
         NEW verdict \in Verdicts, TearDown(tasks, verdict)
  PROVE  /\ Chained' /\ AnswerIsMine' /\ task' \in [Tasks -> TaskRecs] /\ chain' \in Seq(Calls)
         /\ toHost' \in Seq(Answers)
<1>1. HostTypes /\ WireTypes /\ Chained /\ AnswerIsMine BY DEF XInv
<1>2. toHost' = <<>> BY DEF TearDown
<1>4. CASE pending # Null
  <2>1. Reject(tasks, verdict) BY <1>4 DEF TearDown
  <2>2. chain # <<>> BY <1>4, PendingIsHead
  <2>3. Chained' /\ AnswerIsMine' /\ task' \in [Tasks -> TaskRecs] /\ chain' \in Seq(Calls)
    BY <2>1, <2>2, RejectKeeps
  <2> QED BY <1>2, <2>3
<1>5. CASE pending = Null
  <2>1. task' = tasks /\ UNCHANGED <<chain, pending>> BY <1>5 DEF TearDown
  <2>2. chain \in Seq(Calls) /\ \A i \in DOMAIN chain : chain[i].task \in Tasks
    <3>1. chain \in Seq(Calls) BY <1>1 DEF HostTypes
    <3>2. \A i \in DOMAIN chain : chain[i] \in Calls BY <3>1
    <3> QED BY <3>1, <3>2, CallFields
  <2>3. \A u \in Tasks : task[u].pc = "waiting" => tasks[u] = task[u] OBVIOUS
  <2>4. \A u \in Tasks : tasks[u].pc \in {"waiting", "replied"} => tasks[u] = task[u] OBVIOUS
  <2>5. Chained' BY <1>1, <2>1, <2>2, <2>3, <2>4 DEF Chained
  <2>6. AnswerIsMine' BY <1>1, <2>1, <2>4 DEF AnswerIsMine
  <2> QED BY <1>2, <2>1, <2>2, <2>5, <2>6
<1> QED BY <1>4, <1>5

(* A handler that ends with the teardown.                                  *)
LEMMA RespondedIs ==
  ASSUME HostTypes, NEW t \in Tasks, NEW tasks,
         tasks = [task EXCEPT ![t].pc = "done", ![t].result = "Ok"]
  PROVE  /\ tasks \in [Tasks -> TaskRecs] /\ tasks[t].pc = "done" /\ tasks[t].result = "Ok"
         /\ tasks[t].verdict = task[t].verdict /\ tasks[t].method = task[t].method
         /\ \A u \in Tasks : u # t => tasks[u] = task[u]
<1>1. task \in [Tasks -> TaskRecs] BY DEF HostTypes
<1>2. PICK s \in TaskRecs : s = task[t] BY <1>1
<1>3. PICK x : x = [s EXCEPT !.pc = "done", !.result = "Ok"] OBVIOUS
<1>4. /\ x \in TaskRecs /\ x.pc = "done" /\ x.result = "Ok" /\ x.verdict = s.verdict
      /\ x.method = s.method
  BY <1>3 DEF TaskRecs, TaskPcs, Verdicts
<1>5. tasks = [task EXCEPT ![t] = x] BY <1>1, <1>2, <1>3
<1> QED BY <1>1, <1>2, <1>4, <1>5

LEMMA DisconnectKeeps == XInv /\ Disconnect => XInv'
<1> SUFFICES ASSUME XInv, Disconnect PROVE XInv' OBVIOUS
<1>1. HostTypes /\ WireTypes BY DEF XInv
<1>2. task \in [Tasks -> TaskRecs] BY <1>1 DEF HostTypes
<1>3. \E e \in {"disconnected", "transfer"} : TearDown(task, e) BY DEF Disconnect
<1>4. PICK e \in Verdicts : TearDown(task, e)
  <2>1. {"disconnected", "transfer"} \subseteq Verdicts BY DEF Verdicts
  <2> QED BY <1>3, <2>1
<1>5. /\ Chained' /\ AnswerIsMine' /\ task' \in [Tasks -> TaskRecs] /\ chain' \in Seq(Calls)
      /\ toHost' \in Seq(Answers)
  BY <1>2, <1>4, TearDownKeeps
<1>5a. toDevice' \in Seq(Calls)
  <2>1. toDevice' = <<>> \/ LeaveUnread BY DEF Disconnect
  <2>2. CASE toDevice' = <<>> BY <2>2
  <2>3. CASE LeaveUnread BY <1>1, <2>3, UnreadTypes
  <2> QED BY <2>1, <2>2, <2>3
<1>6. device' \in {NewSession, device} /\ handshakes' = handshakes BY DEF Disconnect
<1>7. NewSession \in Sessions BY DEF NewSession, Sessions, SessionStates, NoKey
<1>8. WireTypes' BY <1>1, <1>5, <1>5a, <1>6, <1>7 DEF WireTypes
<1>9. ResetSession \/ UNCHANGED host BY DEF Disconnect
<1>10. HostTypes' BY <1>1, <1>5, <1>9 DEF HostTypes, ResetSession, host, NoKey
<1> QED BY <1>5, <1>8, <1>10 DEF XInv

LEMMA ResetUsbDoneKeeps == ASSUME XInv, NEW t \in Tasks, ResetUsbDone(t) PROVE XInv'
<1>1. HostTypes /\ WireTypes BY DEF XInv
<1>2. PICK tasks : tasks = [task EXCEPT ![t].pc = "done", ![t].result = "Ok"] OBVIOUS
<1>3. /\ tasks \in [Tasks -> TaskRecs] /\ tasks[t].pc = "done"
      /\ \A u \in Tasks : u # t => tasks[u] = task[u]
  BY <1>1, <1>2, RespondedIs
<1>4. task[t].pc = "resetting" /\ UNCHANGED <<host, peer>> BY DEF ResetUsbDone
<1>5. \/ TearDown(tasks, "disconnected") /\ LeaveUnread
      \/ task' = tasks /\ UNCHANGED <<chain, pending, wire>>
  BY <1>2 DEF ResetUsbDone
<1>6. /\ Chained' /\ AnswerIsMine' /\ task' \in [Tasks -> TaskRecs] /\ chain' \in Seq(Calls)
      /\ toDevice' \in Seq(Calls) /\ toHost' \in Seq(Answers)
  <2>1. CASE TearDown(tasks, "disconnected") /\ LeaveUnread
    <3>1. "disconnected" \in Verdicts BY DEF Verdicts
    <3>2. \A u \in Tasks : tasks[u] = task[u] \/ (task[u].pc = "resetting" /\ tasks[u].pc = "done")
      BY <1>3, <1>4
    <3>3. toDevice' \in Seq(Calls) BY <1>1, <2>1, UnreadTypes
    <3> QED BY <1>3, <2>1, <3>1, <3>2, <3>3, TearDownKeeps
  <2>2. CASE task' = tasks /\ UNCHANGED <<chain, pending, wire>>
    <3>1. Respond(t, "Ok") BY <1>2, <2>2 DEF Respond
    <3>2. "Ok" \in Verdicts \cup {"Unsealable", "TypeError"} BY DEF Verdicts
    <3>3. Goes(t, "done", task[t].kind, task[t].key, "Ok") BY <1>1, <3>1, <3>2, GoesByResult
    <3>4. Chained' /\ AnswerIsMine' /\ task' \in [Tasks -> TaskRecs] BY <1>4, <2>2, <3>3, TaskMoves
    <3> QED BY <1>1, <2>2, <3>4 DEF HostTypes, WireTypes, wire
  <2> QED BY <1>5, <2>1, <2>2
<1>7. WireTypes' BY <1>1, <1>4, <1>6 DEF WireTypes, peer
<1>8. HostTypes' BY <1>1, <1>4, <1>6 DEF HostTypes, host
<1> QED BY <1>6, <1>7, <1>8 DEF XInv

LEMMA VerdictIs == \A s, n : AcceptNonceVerdict(s, n) \in {"NotActive", "NonceReused", "Ok"}
<1> SUFFICES ASSUME NEW s, NEW n
             PROVE  AcceptNonceVerdict(s, n) \in {"NotActive", "NonceReused", "Ok"}
  OBVIOUS
<1>1. CASE ~IsActive(s) BY <1>1 DEF AcceptNonceVerdict
<1>2. CASE IsActive(s) /\ n <= s.last_nonce BY <1>2 DEF AcceptNonceVerdict
<1>3. CASE IsActive(s) /\ ~(n <= s.last_nonce) BY <1>3 DEF AcceptNonceVerdict
<1> QED BY <1>1, <1>2, <1>3

LEMMA SessionSteps ==
  ASSUME NEW s \in Sessions, NEW k \in Nat, NEW n \in Nat
  PROVE  /\ AcceptOk(s, k, 0) \in Sessions /\ AcceptOk(s, k, 0).key = k
         /\ AcceptOk(s, k, 0).last_nonce = 0
         /\ Expire(s) \in Sessions /\ ~IsActive(Expire(s))
         /\ AcceptNonce(s, n, 0) \in Sessions /\ AcceptNonce(s, n, 0).key = s.key
         /\ AcceptNonce(s, n, 0).last_nonce = n
         /\ IsActive(AcceptNonce(s, n, 0)) <=> IsActive(s)
BY DEF Sessions, SessionStates, AcceptOk, Expire, AcceptNonce, NoKey, IsActive

LEMMA OutcomeIs ==
  ASSUME NEW s, NEW v, NEW k, NEW o, o = Outcome(s, v, k)
  PROVE  o.session = s /\ o.verdict = v /\ o.key = k
BY DEF Outcome

(* The device's outcomes.                                                  *)
LEMMA HandledIs ==
  ASSUME device \in Sessions, handshakes \in Nat, NEW m \in Calls, NEW o \in Handled(m)
  PROVE  /\ o.session \in Sessions /\ o.verdict \in Verdicts /\ o.key \in Nat
         /\ \/ /\ m.method # Establish /\ o.session = device
               /\ IsActive(device) =>
                    \/ m.method \in {"ping", "list"} /\ o.verdict = "Ok"
                    \/ /\ m.method \notin {"ping", "list"} /\ o.verdict # "Ok"
                       /\ o.verdict = AcceptNonceVerdict(device, m.nonce)
               /\ ~IsActive(device) => \/ m.method = "ping" /\ o.verdict = "Ok"
                                       \/ o.verdict = "SessionExpired"
            \/ m.method # Establish /\ o.session = Expire(device) /\ o.verdict = "SessionExpired"
            \/ /\ m.method = Establish /\ o.verdict = "Ok" /\ o.key = handshakes + 1
               /\ o.session = AcceptOk(device, 2 * (handshakes + 1), 0)
            \/ /\ m.method \notin {"ping", "list", Establish}
               /\ o.session = AcceptNonce(device, m.nonce, 0) /\ IsActive(device)
               /\ AcceptNonceVerdict(device, m.nonce) = "Ok"
               /\ \/ o.verdict = "Internal" /\ m.method = "store" /\ ~CanOpen(device, m.key)
                  \/ o.verdict = "Refused"
                  \/ o.verdict = "Ok" /\ o.key = device.key
<1>1. m.nonce \in Nat /\ m.method \in Methods BY CallFields
<1>2. device.key \in Nat /\ NoKey \in Nat BY DEF Sessions, NoKey
<1>3. {"Ok", "Refused", "Internal", "SessionExpired", "NotActive", "NonceReused"} \subseteq Verdicts
  BY DEF Verdicts
<1>4. PICK h \in Nat : h = handshakes + 1 OBVIOUS
<1>5. PICK k \in Nat : k = 2 * h OBVIOUS
<1>6. /\ AcceptOk(device, k, 0) \in Sessions /\ Expire(device) \in Sessions
      /\ AcceptNonce(device, m.nonce, 0) \in Sessions /\ AcceptNonce(device, m.nonce, 0).key = device.key
  BY <1>1, SessionSteps
<1>7. CASE m.method = "ping"
  <2>1. o = Outcome(device, "Ok", NoKey) BY <1>7 DEF Handled
  <2>2. o.session = device /\ o.verdict = "Ok" /\ o.key = NoKey BY <2>1, OutcomeIs
  <2> QED BY <1>2, <1>3, <1>7, <2>2 DEF Establish
<1>8. CASE m.method = "establish_session"
  <2>1. o = Outcome(AcceptOk(device, k, 0), "Ok", h)
    BY <1>4, <1>5, <1>8 DEF Handled, SharedKey
  <2>2. o.session = AcceptOk(device, k, 0) /\ o.verdict = "Ok" /\ o.key = h BY <2>1, OutcomeIs
  <2> QED BY <1>3, <1>4, <1>5, <1>6, <1>8, <2>2 DEF Establish
<1>9. CASE m.method \notin {"ping", "establish_session"} /\ ~IsActive(device)
  <2>1. o = Outcome(device, "SessionExpired", NoKey) BY <1>9 DEF Handled
  <2>2. o.session = device /\ o.verdict = "SessionExpired" /\ o.key = NoKey BY <2>1, OutcomeIs
  <2> QED BY <1>2, <1>3, <1>9, <2>2 DEF Establish
<1>10. CASE m.method \notin {"ping", "establish_session"} /\ IsActive(device) /\ idle
  <2>1. o = Outcome(Expire(device), "SessionExpired", NoKey) BY <1>10 DEF Handled
  <2>2. o.session = Expire(device) /\ o.verdict = "SessionExpired" /\ o.key = NoKey
    BY <2>1, OutcomeIs
  <2> QED BY <1>2, <1>3, <1>6, <1>10, <2>2 DEF Establish
<1>11. CASE m.method = "list" /\ IsActive(device) /\ ~idle
  <2>1. o = Outcome(device, "Ok", NoKey) BY <1>11 DEF Handled
  <2>2. o.session = device /\ o.verdict = "Ok" /\ o.key = NoKey BY <2>1, OutcomeIs
  <2> QED BY <1>2, <1>3, <1>11, <2>2 DEF Establish
<1>12. CASE /\ m.method \notin {"ping", "establish_session", "list"} /\ IsActive(device) /\ ~idle
            /\ AcceptNonceVerdict(device, m.nonce) = "Ok"
  <2>1. o \in Admitted(m) BY <1>12 DEF Handled
  <2>2. PICK s : s = AcceptNonce(device, m.nonce, 0) OBVIOUS
  <2>3. \/ o = Outcome(s, "Internal", NoKey) /\ m.method = "store" /\ ~CanOpen(device, m.key)
        \/ o = Outcome(s, "Refused", NoKey)
        \/ o = Outcome(s, "Ok", s.key)
    BY <2>1, <2>2 DEF Admitted
  <2>4. /\ o.session = s
        /\ \/ o.verdict = "Internal" /\ o.key = NoKey /\ m.method = "store" /\ ~CanOpen(device, m.key)
           \/ o.verdict = "Refused" /\ o.key = NoKey
           \/ o.verdict = "Ok" /\ o.key = s.key
    BY <2>3, OutcomeIs
  <2> QED BY <1>2, <1>3, <1>6, <1>12, <2>2, <2>4 DEF Establish
<1>13. CASE /\ m.method \notin {"ping", "establish_session", "list"} /\ IsActive(device) /\ ~idle
            /\ AcceptNonceVerdict(device, m.nonce) # "Ok"
  <2>1. o = Outcome(device, AcceptNonceVerdict(device, m.nonce), NoKey) BY <1>13 DEF Handled
  <2>2. o.session = device /\ o.verdict = AcceptNonceVerdict(device, m.nonce) /\ o.key = NoKey
    BY <2>1, OutcomeIs
  <2>3. o.verdict \in Verdicts BY <1>3, <2>2, VerdictIs
  <2> QED BY <1>2, <1>13, <2>2, <2>3 DEF Establish
<1> QED BY <1>7, <1>8, <1>9, <1>10, <1>11, <1>12, <1>13

(* The device takes the next request off the wire and may answer it.       *)
LEMMA HandleMoves ==
  ASSUME XInv, Handle
  PROVE  /\ toDevice # <<>> /\ toDevice' = Tail(toDevice) /\ Head(toDevice) \in Calls
         /\ UNCHANGED <<host, chain, pending, task, link, stale, rest>>
         /\ \E o \in Handled(Head(toDevice)) :
              /\ device' = o.session
              /\ \/ toHost' = toHost
                 \/ \E a \in Answers : /\ toHost' = Append(toHost, a)
                                       /\ a.task = Head(toDevice).task
                                       /\ a.method = Head(toDevice).method
                                       /\ a.verdict = o.verdict /\ a.key = o.key
<1>1. WireTypes BY DEF XInv
<1>2. device \in Sessions /\ handshakes \in Nat /\ toDevice \in Seq(Calls) BY <1>1 DEF WireTypes
<1>3. /\ toDevice # <<>> /\ toDevice' = Tail(toDevice)
      /\ UNCHANGED <<host, chain, pending, task, link, stale, rest>>
  BY DEF Handle
<1>4. PICK m \in Calls : m = Head(toDevice) BY <1>2, <1>3, TailIs
<1>5. PICK o \in Handled(m) :
        /\ device' = o.session
        /\ toHost' = IF link THEN Append(toHost, [task |-> m.task, method |-> m.method,
                                                  verdict |-> o.verdict, key |-> o.key])
                     ELSE toHost
  BY <1>4 DEF Handle, Serve
<1>6. o.verdict \in Verdicts /\ o.key \in Nat BY <1>2, HandledIs
<1>7. PICK a : a = [task |-> m.task, method |-> m.method, verdict |-> o.verdict, key |-> o.key]
  OBVIOUS
<1>8. m.task \in Tasks /\ m.method \in Methods BY CallFields
<1>9. /\ a \in Answers /\ a.task = m.task /\ a.method = m.method /\ a.verdict = o.verdict
      /\ a.key = o.key
  BY <1>6, <1>7, <1>8 DEF Answers
<1> QED BY <1>3, <1>4, <1>5, <1>7, <1>9

LEMMA HandleKeeps == XInv /\ Handle => XInv'
<1> SUFFICES ASSUME XInv, Handle PROVE XInv' OBVIOUS
<1>1. HostTypes /\ WireTypes /\ Chained /\ AnswerIsMine BY DEF XInv
<1>2. device \in Sessions /\ handshakes \in Nat /\ toDevice \in Seq(Calls) /\ toHost \in Seq(Answers)
  BY <1>1 DEF WireTypes
<1>3. /\ toDevice # <<>> /\ toDevice' = Tail(toDevice) /\ Head(toDevice) \in Calls
      /\ UNCHANGED <<host, chain, pending, task, link, rest>>
  BY HandleMoves
<1>4. PICK o \in Handled(Head(toDevice)) :
        /\ device' = o.session
        /\ toHost' = toHost \/ \E a \in Answers : toHost' = Append(toHost, a)
  BY HandleMoves
<1>5. device' \in Sessions /\ toHost' \in Seq(Answers) /\ toDevice' \in Seq(Calls)
  <2>1. o.session \in Sessions BY <1>2, <1>3, HandledIs, Zenon
  <2> QED BY <1>2, <1>3, <1>4, <2>1
<1>6. handshakes' \in {handshakes, handshakes + 1} BY DEF Handle, Serve
<1>7. WireTypes' BY <1>2, <1>5, <1>6 DEF WireTypes
<1>8. HostTypes' BY <1>1, <1>3 DEF HostTypes, host
<1>9. Chained' BY <1>1, <1>3 DEF Chained
<1>10. AnswerIsMine' BY <1>1, <1>3 DEF AnswerIsMine
<1> QED BY <1>7, <1>8, <1>9, <1>10 DEF XInv

LEMMA HandleStaleKeeps == XInv /\ Leftovers /\ HandleStale => XInv' /\ Leftovers'
<1> SUFFICES ASSUME XInv, Leftovers, HandleStale PROVE XInv' /\ Leftovers' OBVIOUS
<1>1. HostTypes /\ WireTypes /\ Chained /\ AnswerIsMine BY DEF XInv
<1>2. device \in Sessions /\ handshakes \in Nat BY <1>1 DEF WireTypes
<1>3. PICK q \in stale :
        /\ \E o \in Handled(Head(q)) : Serve(Head(q), o)
        /\ \E more \in {{}, {Tail(q)} \ {<<>>}} : stale' = (stale \ {q}) \cup more
  BY DEF HandleStale
<1>4. UNCHANGED <<host, chain, pending, task, link, toDevice, toHost, rest>> BY DEF HandleStale
<1>5. q \in Seq(Calls) /\ q # <<>> BY <1>3 DEF Leftovers
<1>6. PICK m \in Calls : m = Head(q) BY <1>5, TailIs
<1>7. PICK o \in Handled(m) : device' = o.session BY <1>3, <1>6 DEF Serve
<1>8. device' \in Sessions BY <1>2, <1>7, HandledIs, Zenon
<1>9. handshakes' \in {handshakes, handshakes + 1} BY <1>3 DEF Serve
<1>10. WireTypes' BY <1>1, <1>2, <1>4, <1>8, <1>9 DEF WireTypes
<1>11. HostTypes' BY <1>1, <1>4 DEF HostTypes, host
<1>12. Chained' BY <1>1, <1>4 DEF Chained
<1>13. AnswerIsMine' BY <1>1, <1>4 DEF AnswerIsMine
<1>14. Leftovers'
  <2>1. PICK rest1 \in Seq(Calls) : rest1 = Tail(q) BY <1>5, TailIs
  <2>2. \A x \in stale' : x \in stale \/ (x = rest1 /\ x # <<>>) BY <1>3, <2>1
  <2>3. stale' \subseteq Seq(Calls) \ {<<>>} BY <2>1, <2>2 DEF Leftovers
  <2>4. ~Usb BY <1>3 DEF Leftovers
  <2>5. ~Usb' BY <1>4, <2>4 DEF Usb, rest
  <2> QED BY <2>3, <2>5 DEF Leftovers
<1> QED BY <1>10, <1>11, <1>12, <1>13, <1>14 DEF XInv

LEMMA PausesKeep == XInv /\ (RecycleWorker \/ StayIdle \/ UNCHANGED extVars) => XInv'
<1> SUFFICES ASSUME XInv, RecycleWorker \/ StayIdle \/ UNCHANGED extVars PROVE XInv' OBVIOUS
<1>1. HostTypes /\ WireTypes /\ Chained /\ AnswerIsMine BY DEF XInv
<1>2. UNCHANGED <<chain, pending, task>> BY DEF RecycleWorker, StayIdle, extVars
<1>3. UNCHANGED <<device, handshakes>> BY DEF RecycleWorker, StayIdle, extVars, peer
<1>3a. UNCHANGED wire \/ (toHost' = <<>> /\ LeaveUnread)
  BY DEF RecycleWorker, StayIdle, extVars
<1>4. ResetSession \/ UNCHANGED host BY DEF RecycleWorker, StayIdle, extVars
<1>5. HostTypes' BY <1>1, <1>2, <1>4 DEF HostTypes, ResetSession, host, NoKey
<1>6. WireTypes'
  <2>1. CASE UNCHANGED wire BY <1>1, <1>3, <2>1 DEF WireTypes, wire
  <2>2. CASE toHost' = <<>> /\ LeaveUnread
    <3>1. toDevice' \in Seq(Calls) BY <1>1, <2>2, UnreadTypes
    <3> QED BY <1>1, <1>3, <2>2, <3>1 DEF WireTypes
  <2> QED BY <1>3a, <2>1, <2>2
<1>7. Chained' BY <1>1, <1>2 DEF Chained
<1>8. AnswerIsMine' BY <1>1, <1>2 DEF AnswerIsMine
<1> QED BY <1>5, <1>6, <1>7, <1>8 DEF XInv

LEMMA LeftoversKept == XInv /\ Leftovers /\ [Next]_extVars => Leftovers'
<1> SUFFICES ASSUME XInv, Leftovers, [Next]_extVars PROVE Leftovers' OBVIOUS
<1>1. ASSUME UNCHANGED <<stale, transportKind>> PROVE Leftovers' BY <1>1 DEF Leftovers, Usb
<1>2. ASSUME LeaveUnread, transportKind' = transportKind PROVE Leftovers'
  <2>1. toDevice \in Seq(Calls) BY DEF XInv, WireTypes
  <2>2. PICK n \in 0..Len(toDevice) :
          \/ Usb /\ UNCHANGED stale
          \/ ~Usb /\ stale' = stale \cup ({SubSeq(toDevice, 1, n)} \ {<<>>})
    BY <1>2 DEF LeaveUnread
  <2>3. PICK left \in Seq(Calls) : left = SubSeq(toDevice, 1, n) BY <2>1, <2>2, PrefixIs
  <2>4. Usb' <=> Usb BY <1>2 DEF Usb
  <2>5. CASE Usb /\ UNCHANGED stale BY <1>1, <1>2, <2>5
  <2>6. CASE ~Usb /\ stale' = stale \cup ({left} \ {<<>>}) BY <2>4, <2>6 DEF Leftovers
  <2> QED BY <2>2, <2>3, <2>5, <2>6
<1>3. ASSUME UNCHANGED wire, UNCHANGED rest PROVE Leftovers' BY <1>1, <1>3 DEF wire, rest
<1>4. ASSUME NEW t \in Tasks, NEW kind \in Kinds, Start(t, kind) PROVE Leftovers'
  BY <1>1, <1>4 DEF Start, wire
<1>5. ASSUME NEW t \in Tasks, TaskStep(t) PROVE Leftovers'
  <2>1. CASE ResetUsbDone(t)
    <3>1. UNCHANGED rest /\ (UNCHANGED wire \/ LeaveUnread) BY <2>1 DEF ResetUsbDone
    <3> QED BY <1>2, <1>3, <3>1 DEF rest
  <2>2. CASE ~ResetUsbDone(t)
    <3>1. UNCHANGED wire /\ UNCHANGED rest
      BY <1>5, <2>2 DEF TaskStep, Ping, EnsureSession, GenerateKey, SendPublicKey, DeriveBits,
                        Established, Sealed, Finish, Fail, ResetUsb
    <3> QED BY <1>3, <3>1
  <2> QED BY <2>1, <2>2
<1>6. CASE MakeCall \/ ReadLoop \/ Handle
  BY <1>1, <1>6 DEF MakeCall, ReadLoop, Handle, rest
<1>7. CASE ConnectFails \/ RpcTimeout BY <1>3, <1>7 DEF ConnectFails, RpcTimeout
<1>8. CASE Disconnect
  <2>1. transportKind' = transportKind /\ (stale' = {} \/ LeaveUnread) BY <1>8 DEF Disconnect
  <2>2. CASE stale' = {} BY <2>2 DEF Leftovers
  <2> QED BY <1>2, <2>1, <2>2
<1>9. CASE RecycleWorker
  <2>1. UNCHANGED rest /\ (UNCHANGED wire \/ LeaveUnread) BY <1>9 DEF RecycleWorker
  <2> QED BY <1>2, <1>3, <2>1 DEF rest
<1>10. CASE HandleStale BY <1>10, HandleStaleKeeps
<1>11. CASE StayIdle BY <1>1, <1>11 DEF StayIdle, wire
<1>12. CASE UNCHANGED extVars BY <1>3, <1>12 DEF extVars
<1> QED BY <1>4, <1>5, <1>6, <1>7, <1>8, <1>9, <1>10, <1>11, <1>12 DEF Next

LEMMA XNextKeeps == XInv /\ Leftovers /\ [Next]_extVars => XInv'
<1> SUFFICES ASSUME XInv, Leftovers, [Next]_extVars PROVE XInv' OBVIOUS
<1>1. ASSUME NEW t \in Tasks, TaskStep(t) \/ \E kind \in Kinds : Start(t, kind) PROVE XInv'
  BY <1>1, HandlerKeeps, ResetUsbDoneKeeps DEF TaskStep
<1>2. CASE MakeCall \/ ConnectFails \/ ReadLoop \/ RpcTimeout \/ Disconnect \/ Handle
  BY <1>2, MakeCallKeeps, CallFails, ReadLoopKeeps, DisconnectKeeps, HandleKeeps
<1>3. CASE RecycleWorker \/ StayIdle \/ UNCHANGED extVars BY <1>3, PausesKeep
<1>4. CASE HandleStale BY <1>4, HandleStaleKeeps
<1> QED BY <1>1, <1>2, <1>3, <1>4 DEF Next

LEMMA XInvariant == Spec => [](XInv /\ Leftovers)
<1>1. Init => Leftovers BY DEF Init, Leftovers
<1>2. XInv /\ Leftovers /\ [Next]_extVars => XInv' /\ Leftovers' BY XNextKeeps, LeftoversKept
<1> QED BY <1>1, <1>2, InitXInv, PTL DEF Spec
-----------------------------------------------------------------------------
(* TypeOK holds for any number of handlers; with it, a handler waits if    *)
(* and only if the chain has its call, and the call that is being made is  *)
(* the head of the chain (background.js rpcChain).                         *)
THEOREM ExtensionTypeCorrect == Spec => []TypeOK
BY XInvariant, XInvTypes, PTL

(* What a handler is given is the device's answer to its own call, also    *)
(* after a timeout, a late answer or a lost link (_readLoop, _tearDown).   *)
THEOREM AnswersReachTheirCaller == Spec => []AnswerIsMine
<1>1. XInv => AnswerIsMine BY DEF XInv
<1> QED BY <1>1, XInvariant, PTL
-----------------------------------------------------------------------------
(* From here on handlers run one after the other, over WebUSB (a fact that *)
(* needs the transport says so: Usb => ...).  What relates the two         *)
(* ends then: whose calls are on the wire, and what each end's key and     *)
(* nonce counter are while a handler shakes hands and after it has.        *)
Unsent == {"new", "started", "generating", "exporting"}

Shaking(t) == \/ task[t].pc \in {"generating", "exporting", "derived"}
              \/ task[t].pc \in {"waiting", "replied"} /\ task[t].method = Establish

Serving(t) == \/ task[t].pc = "sealing"
              \/ /\ task[t].pc \in {"waiting", "replied"}
                 /\ task[t].method \in {"list", "release", "store"}

Gated(c) == c.method \in {"release", "store"}

Bad == {"NonceReused", "Internal", "Unsealable", "TypeError"}

OnlyOne == \A t, u \in Tasks : Running(t) /\ Running(u) => t = u

(* A call or answer m on the wire is from its handler's last call, which   *)
(* has been made, or from its handshake.                                   *)
Placed(m) == /\ task[m.task].pc \notin Unsent
             /\ m.method \in {task[m.task].method, Establish}
             /\ task[m.task].pc = "waiting" /\ m.method = task[m.task].method
                  => pending # Null /\ pending.task = m.task

Wired == /\ \A i \in DOMAIN toDevice : Placed(toDevice[i])
         /\ \A i \in DOMAIN toHost : Placed(toHost[i])

(* While the worker has a key, an active session of the device has it too, *)
(* and no handshake is on its way that could replace it.                   *)
SameKey == sessionKey # NoKey =>
             /\ IsActive(device) => device.key = sessionKey
             /\ \A i \in DOMAIN toDevice : toDevice[i].method # Establish

(* The device has just shaken hands with key k, or is without a session.   *)
Shaken(k) == /\ toDevice = <<>> /\ k \in Nat /\ k > 0
             /\ IsActive(device) => device.key = k /\ device.last_nonce = 0

Handler(t) ==
  /\ task[t].pc \in {"new", "started"} => task[t].method = "none"
  /\ task[t].pc = "sealing" => task[t].method \in {"none", Establish}
  /\ task[t].pc = "derived" => task[t].method = Establish /\ Shaken(task[t].key)
  /\ Replied(t, Establish) => task[t].from = t /\ Shaken(2 * task[t].key)
  /\ Shaking(t) => /\ sessionKey = NoKey
                   /\ task[t].pc \notin {"generating", "derived"}
                        => hostPrivateKey = t \/ (hostPrivateKey = Null /\ ~Usb)

UsbHandler(t) ==
  /\ Serving(t) => sessionKey # NoKey
  /\ task[t].pc = "sealing" => task[t].key = sessionKey
  /\ task[t].verdict \notin Bad /\ task[t].result \notin Bad
  /\ Replied(t, "release") => task[t].key = sessionKey

IsPending(m) == pending # Null /\ m.task = pending.task /\ m.method = pending.method

(* The pending call is the last on its way to the device, or its answer is *)
(* on the way back.                                                        *)
Flight ==
  /\ \A i \in DOMAIN toDevice : IsPending(toDevice[i]) => i = Len(toDevice)
  /\ \A i \in DOMAIN toHost : IsPending(toHost[i]) =>
       /\ toHost[i].method = Establish => toHost[i].verdict = "Ok" /\ Shaken(2 * toHost[i].key)
       /\ Usb => /\ toHost[i].verdict \notin Bad
                 /\ toHost[i].method = "release" /\ toHost[i].verdict = "Ok"
                      => toHost[i].key = sessionKey

(* Nonces on the wire rise above the device's; the one drawn last is       *)
(* requestNonce, and a call yet to be made has it.                         *)
Above(n) == /\ IsActive(device) => device.last_nonce < n
            /\ \A j \in DOMAIN toDevice : Gated(toDevice[j]) => toDevice[j].nonce < n

OnWire ==
  /\ IsActive(device) => device.last_nonce <= requestNonce
  /\ \A i \in DOMAIN toDevice : Gated(toDevice[i]) =>
       /\ toDevice[i].nonce <= requestNonce
       /\ IsActive(device) => device.last_nonce < toDevice[i].nonce
       /\ toDevice[i].method = "store" => toDevice[i].key = sessionKey
  /\ \A i, j \in DOMAIN toDevice :
       i < j /\ Gated(toDevice[i]) /\ Gated(toDevice[j]) => toDevice[i].nonce < toDevice[j].nonce

InChain == \A i \in DOMAIN chain : Gated(chain[i]) =>
             /\ chain[i].nonce = requestNonce
             /\ chain[i].method = "store" => chain[i].key = sessionKey
             /\ pending = Null => Above(requestNonce)

Nonces == sessionKey # NoKey => OnWire /\ InChain

SInv == /\ OnlyOne /\ Wired /\ SameKey /\ Flight
        /\ \A t \in Tasks : Handler(t)
        /\ Usb => Nonces /\ \A t \in Tasks : UsbHandler(t)

Solo == ~overlap /\ Usb => SInv
-----------------------------------------------------------------------------
(* A handler that is not waiting runs alone, with nothing in the chain.    *)
LEMMA Lone ==
  ASSUME XInv, OnlyOne, NEW t \in Tasks, Running(t), task[t].pc # "waiting"
  PROVE  /\ chain = <<>> /\ pending = Null
         /\ \A u \in Tasks : u # t => task[u].pc \in {"new", "done"}
<1>1. \A u \in Tasks : u # t => task[u].pc \in {"new", "done"} BY DEF OnlyOne, Running
<1>2. ASSUME chain # <<>> PROVE FALSE
  <2>1. Head(chain).task \in Tasks /\ task[Head(chain).task].pc = "waiting" BY <1>2, ChainHead
  <2> QED BY <1>1, <2>1
<1>3. ASSUME pending # Null PROVE FALSE BY <1>2, <1>3, PendingIsHead
<1> QED BY <1>1, <1>2, <1>3

(* One handler at a time means one call at a time.                         *)
LEMMA LoneCall ==
  ASSUME XInv, OnlyOne, chain # <<>>
  PROVE  /\ DOMAIN chain = {1} /\ Tail(chain) = <<>>
         /\ \A u \in Tasks : u # Head(chain).task => task[u].pc \in {"new", "done"}
<1>1. chain \in Seq(Calls) /\ Chained BY DEF XInv, HostTypes
<1>2. /\ Head(chain).task \in Tasks /\ Head(chain) = chain[1] /\ 1 \in DOMAIN chain
      /\ task[Head(chain).task].pc = "waiting"
  BY ChainHead
<1>3. \A u \in Tasks : u # Head(chain).task => task[u].pc \in {"new", "done"}
  BY <1>2 DEF OnlyOne, Running
<1>4. ASSUME NEW i \in DOMAIN chain PROVE i = 1
  <2>1. chain[i] \in Calls BY <1>1
  <2>2. chain[i].task \in Tasks /\ task[chain[i].task].pc = "waiting"
    BY <1>1, <2>1, CallFields DEF Chained
  <2>3. chain[i].task = chain[1].task BY <1>2, <1>3, <2>2
  <2> QED BY <1>1, <1>2, <2>3 DEF Chained
<1>5. DOMAIN chain = {1} BY <1>2, <1>4
<1>6. Len(chain) \in Nat /\ DOMAIN chain = 1..Len(chain) BY <1>1
<1>7. Len(chain) = 1 BY <1>5, <1>6
<1>8. Tail(chain) = <<>>
  <2>1. PICK s \in Seq(Calls) : s = Tail(chain) BY <1>1, TailIs
  <2>2. Len(s) = 0 BY <1>1, <1>7, <2>1, TailIs
  <2>3. s # <<>> => Len(s) > 0 BY TailIs
  <2> QED BY <2>1, <2>2, <2>3
<1> QED BY <1>3, <1>5, <1>8

LEMMA OnWireTypes ==
  ASSUME WireTypes
  PROVE  /\ \A i \in DOMAIN toDevice : /\ toDevice[i].task \in Tasks /\ toDevice[i].method \in Methods
                                       /\ toDevice[i].nonce \in Nat
         /\ \A i \in DOMAIN toHost : toHost[i].task \in Tasks /\ toHost[i].method \in Methods
<1>1. toDevice \in Seq(Calls) /\ toHost \in Seq(Answers) BY DEF WireTypes
<1>2. \A i \in DOMAIN toDevice : toDevice[i] \in Calls BY <1>1
<1>3. \A i \in DOMAIN toHost : toHost[i] \in Answers BY <1>1
<1> QED BY <1>2, <1>3, CallFields, AnswerFields

(* A handler that is at rest claims nothing but its old results.           *)
LEMMA AtRest ==
  ASSUME NEW u \in Tasks, Handler(u), Usb => UsbHandler(u), task[u].pc \in {"new", "done"},
         task'[u] = task[u], Usb' <=> Usb
  PROVE  Handler(u)' /\ (Usb' => UsbHandler(u)')
<1>1. task'[u].pc \in {"new", "done"} OBVIOUS
<1>2. ~Shaking(u)' /\ ~Serving(u)' /\ ~Replied(u, Establish)' /\ ~Replied(u, "release")'
  BY <1>1 DEF Shaking, Serving, Replied
<1> QED BY <1>1, <1>2 DEF Handler, UsbHandler

(* Only t's record changes and t neither waits before nor after.           *)
LEMMA MovesAlone ==
  ASSUME XInv, SInv, NEW t \in Tasks, \A u \in Tasks : u # t => task'[u] = task[u],
         \A u \in Tasks : u # t => task[u].pc \in {"new", "done"},
         task[t].pc # "waiting", task'[t].pc \notin {"waiting", "replied"},
         task'[t].pc \in Unsent => task[t].pc \in Unsent, task'[t].method = task[t].method,
         chain = <<>>, pending = Null, UNCHANGED <<chain, pending, wire, device, transportKind>>,
         UNCHANGED <<sessionKey, requestNonce>> \/ sessionKey' = NoKey,
         Handler(t)', Usb => UsbHandler(t)'
  PROVE  SInv'
<1>1. WireTypes BY DEF XInv
<1>2. Usb' <=> Usb BY DEF Usb
<1>3. OnlyOne' BY DEF OnlyOne, Running
<1>4. Wired'
  <2>1. ASSUME NEW m, m.task \in Tasks, Placed(m) PROVE Placed(m)'
    BY <2>1 DEF Placed
  <2> QED BY <1>1, <2>1, OnWireTypes DEF Wired, SInv, wire
<1>5. SameKey' BY DEF SInv, SameKey, wire
<1>6. Flight' BY DEF Flight, IsPending
<1>7. ASSUME NEW u \in Tasks PROVE Handler(u)' /\ (Usb' => UsbHandler(u)')
  <2>1. CASE u = t BY <1>2, <2>1
  <2>2. CASE u # t BY <1>2, <2>2, AtRest DEF SInv
  <2> QED BY <2>1, <2>2
<1>8. ASSUME Usb PROVE Nonces'
  <2>1. Nonces BY <1>8 DEF SInv
  <2>2. CASE sessionKey' = NoKey BY <2>2 DEF Nonces
  <2>3. CASE UNCHANGED <<sessionKey, requestNonce>>
    BY <2>1, <2>3 DEF Nonces, OnWire, InChain, wire
  <2> QED BY <2>2, <2>3
<1> QED BY <1>2, <1>3, <1>4, <1>5, <1>6, <1>7, <1>8 DEF SInv

(* The handler t makes its call c: it is the first of its kind, and what a *)
(* gated call carries is new.                                              *)
LEMMA CallsAlone ==
  ASSUME XInv, SInv, NEW t \in Tasks, NEW c, chain' = Append(chain, c), c.task = t,
         \A u \in Tasks : u # t => task'[u] = task[u],
         \A u \in Tasks : u # t => task[u].pc \in {"new", "done"},
         Running(t), task[t].pc # "waiting", task'[t].pc = "waiting", task'[t].method = c.method,
         \/ task[t].pc \in Unsent
         \/ task[t].method \in {"none", Establish} /\ c.method # Establish,
         chain = <<>>, pending = Null, UNCHANGED <<pending, wire, device, transportKind>>,
         SameKey', Handler(t)', Usb => UsbHandler(t)',
         Usb /\ sessionKey' # NoKey => OnWire',
         Usb /\ sessionKey' # NoKey /\ Gated(c) => c.nonce = requestNonce' /\ Above(c.nonce),
         Usb /\ sessionKey' # NoKey /\ c.method = "store" => c.key = sessionKey'
  PROVE  SInv'
<1>1. WireTypes BY DEF XInv
<1>2. Usb' <=> Usb BY DEF Usb
<1>3. OnlyOne' BY DEF OnlyOne, Running
<1>4. Wired'
  <2>1. ASSUME NEW m, m.task \in Tasks, m.method \in Methods, Placed(m) PROVE Placed(m)'
    <3>1. CASE m.task # t BY <2>1, <3>1 DEF Placed
    <3>2. CASE m.task = t
      <4>1. task[t].pc \notin Unsent /\ m.method \in {task[t].method, Establish}
        BY <2>1, <3>2 DEF Placed
      <4>2. m.method = Establish /\ c.method # Establish
        BY <2>1, <4>1 DEF Methods, Establish
      <4> QED BY <3>2, <4>2 DEF Placed, Unsent
    <3> QED BY <3>1, <3>2
  <2> QED BY <1>1, <2>1, OnWireTypes DEF Wired, SInv, wire
<1>5. Flight' BY DEF Flight, IsPending
<1>6. ASSUME NEW u \in Tasks PROVE Handler(u)' /\ (Usb' => UsbHandler(u)')
  <2>1. CASE u = t BY <1>2, <2>1
  <2>2. CASE u # t BY <1>2, <2>2, AtRest DEF SInv
  <2> QED BY <2>1, <2>2
<1>7. ASSUME Usb PROVE Nonces'
  <2> SUFFICES ASSUME sessionKey' # NoKey PROVE OnWire' /\ InChain' BY DEF Nonces
  <2>1. ASSUME NEW i \in DOMAIN chain', Gated(chain'[i])
        PROVE  /\ chain'[i].nonce = requestNonce'
               /\ chain'[i].method = "store" => chain'[i].key = sessionKey'
               /\ Above(requestNonce)'
    <3>1. chain' = <<c>> OBVIOUS
    <3>2. chain'[i] = c BY <2>1, <3>1
    <3>3. Above(c.nonce) /\ c.nonce = requestNonce' BY <1>7, <2>1, <3>2
    <3>4. Above(requestNonce)' BY <3>3 DEF Above, wire
    <3> QED BY <1>7, <2>1, <3>2, <3>3, <3>4
  <2> QED BY <1>7, <2>1 DEF InChain
<1> QED BY <1>2, <1>3, <1>4, <1>5, <1>6, <1>7 DEF SInv

(* The head of the chain is answered with verdict: its handler goes on.    *)
(* With the device as it was or without a session and less on the wire.    *)
LEMMA SettlesAlone ==
  ASSUME XInv, SInv, chain # <<>>, chain' = Tail(chain), pending' = Null,
         NEW t \in Tasks, t = Head(chain).task, \A u \in Tasks : u # t => task'[u] = task[u],
         task'[t].pc = "replied", task'[t].method = task[t].method,
         \A i \in DOMAIN toDevice' : i \in DOMAIN toDevice /\ toDevice'[i] = toDevice[i],
         \A i \in DOMAIN toHost' : \E j \in DOMAIN toHost : toHost'[i] = toHost[j],
         device' = device \/ ~IsActive(device'), transportKind' = transportKind,
         UNCHANGED host \/ (~Usb /\ ResetSession),
         task'[t].verdict = "Ok" /\ task[t].method = Establish
           => task'[t].from = t /\ Shaken(2 * task[t].key)',
         Usb => /\ task'[t].verdict \notin Bad /\ task'[t].result = task[t].result
                /\ task'[t].verdict = "Ok" /\ task[t].method = "release" => task'[t].key = sessionKey
  PROVE  SInv'
<1>1. WireTypes BY DEF XInv
<1>2. Usb' <=> Usb BY DEF Usb
<1>3. /\ task[t].pc = "waiting" /\ chain' = <<>>
      /\ \A u \in Tasks : u # t => task[u].pc \in {"new", "done"}
  BY ChainHead, LoneCall DEF SInv
<1>4. OnlyOne' BY <1>3 DEF OnlyOne, Running
<1>5. Wired'
  <2>1. ASSUME NEW m, m.task \in Tasks, Placed(m) PROVE Placed(m)'
    BY <1>3, <2>1 DEF Placed, Unsent
  <2>2. /\ \A i \in DOMAIN toDevice : toDevice[i].task \in Tasks /\ Placed(toDevice[i])
        /\ \A i \in DOMAIN toHost : toHost[i].task \in Tasks /\ Placed(toHost[i])
    BY <1>1, OnWireTypes DEF SInv, Wired
  <2>3. ASSUME NEW i \in DOMAIN toDevice' PROVE Placed(toDevice[i])' BY <2>1, <2>2, <2>3
  <2>4. ASSUME NEW i \in DOMAIN toHost' PROVE Placed(toHost[i])'
    <3>1. PICK j \in DOMAIN toHost : toHost'[i] = toHost[j] BY <2>4
    <3>2. PICK m : m = toHost[j] OBVIOUS
    <3>3. m.task \in Tasks /\ Placed(m) BY <2>2, <3>2
    <3>4. Placed(m)' BY <2>1, <3>3
    <3> QED BY <3>1, <3>2, <3>4 DEF Placed
  <2> QED BY <2>3, <2>4 DEF Wired
<1>6. sessionKey' # NoKey => sessionKey' = sessionKey /\ requestNonce' = requestNonce
  BY DEF host, ResetSession
<1>7. SameKey'
  <2> SUFFICES ASSUME sessionKey' # NoKey
               PROVE  /\ IsActive(device') => device'.key = sessionKey'
                      /\ \A i \in DOMAIN toDevice' : toDevice'[i].method # Establish
    BY DEF SameKey
  <2>1. SameKey BY DEF SInv
  <2> QED BY <1>6, <2>1 DEF SameKey
<1>8. Flight' BY DEF Flight, IsPending
<1>9. Handler(t) /\ (Usb => UsbHandler(t)) BY DEF SInv
<1>10. Handler(t)'
  <2>1. Shaking(t)' => Shaking(t) BY <1>3 DEF Shaking
  <2>2. Shaking(t) => sessionKey = NoKey /\ (hostPrivateKey = t \/ (hostPrivateKey = Null /\ ~Usb))
    BY <1>3, <1>9 DEF Handler
  <2>3. Shaking(t) => sessionKey' = NoKey /\ (hostPrivateKey' = t \/ (hostPrivateKey' = Null /\ ~Usb))
    BY <2>2 DEF host, ResetSession
  <2>4. Replied(t, Establish)' => task'[t].from = t /\ Shaken(2 * task[t].key)' BY DEF Replied
  <2> QED BY <1>2, <2>1, <2>3, <2>4 DEF Handler
<1>11. ASSUME Usb PROVE UsbHandler(t)'
  <2>1. Serving(t)' => Serving(t) BY <1>3 DEF Serving
  <2>2. sessionKey' = sessionKey BY <1>11 DEF host
  <2>3. Replied(t, "release")' => task'[t].key = sessionKey BY <1>11 DEF Replied
  <2> QED BY <1>9, <1>11, <2>1, <2>2, <2>3 DEF UsbHandler
<1>12. ASSUME NEW u \in Tasks PROVE Handler(u)' /\ (Usb' => UsbHandler(u)')
  <2>1. CASE u = t BY <1>2, <1>10, <1>11, <2>1
  <2>2. CASE u # t BY <1>2, <1>3, <2>2, AtRest DEF SInv
  <2> QED BY <2>1, <2>2
<1>13. ASSUME Usb PROVE Nonces'
  <2> SUFFICES ASSUME sessionKey' # NoKey PROVE OnWire' /\ InChain' BY DEF Nonces
  <2>1. OnWire BY <1>6, <1>13 DEF SInv, Nonces
  <2>2. OnWire' BY <1>6, <2>1 DEF OnWire
  <2>3. InChain' BY <1>3 DEF InChain
  <2> QED BY <2>2, <2>3
<1> QED BY <1>2, <1>4, <1>5, <1>7, <1>8, <1>12, <1>13 DEF SInv

LEMMA NobodyWaits ==
  ASSUME XInv, Quiet
  PROVE  /\ chain = <<>> /\ pending = Null
         /\ \A u \in Tasks : task[u].pc \in {"new", "done"}
<1>1. \A u \in Tasks : task[u].pc \in {"new", "done"} BY DEF Quiet, Running
<1>2. ASSUME chain # <<>> PROVE FALSE BY <1>1, <1>2, ChainHead
<1>3. ASSUME pending # Null PROVE FALSE BY <1>2, <1>3, PendingIsHead
<1> QED BY <1>1, <1>2, <1>3

LEMMA StartsAlone ==
  ASSUME XInv, SInv, ~overlap', NEW t \in Tasks, NEW kind \in Kinds, Start(t, kind)
  PROVE  SInv'
<1>1. /\ task[t].pc = "new" /\ task' = [task EXCEPT ![t].pc = "started", ![t].kind = kind]
      /\ Quiet /\ UNCHANGED <<host, chain, pending, wire, peer, transportKind>>
  BY DEF Start
<1>2. /\ chain = <<>> /\ pending = Null
      /\ \A u \in Tasks : task[u].pc \in {"new", "done"}
  BY <1>1, NobodyWaits
<1>3. "started" \in TaskPcs /\ HostTypes BY DEF TaskPcs, XInv
<1>4. Goes(t, "started", kind, task[t].key, task[t].result) BY <1>1, <1>3, GoesByKind
<1>5. /\ task'[t].pc = "started" /\ task'[t].method = task[t].method
      /\ task'[t].verdict = task[t].verdict /\ task'[t].result = task[t].result
      /\ \A u \in Tasks : u # t => task'[u] = task[u]
  BY <1>4 DEF Goes
<1>6. UNCHANGED <<sessionKey, requestNonce, device>> BY <1>1 DEF host, peer
<1>7. Handler(t) /\ (Usb => UsbHandler(t)) BY DEF SInv
<1>8. Handler(t)' BY <1>1, <1>5, <1>7 DEF Handler, Shaking, Replied
<1>9. Usb => UsbHandler(t)' BY <1>5, <1>7 DEF UsbHandler, Serving, Replied
<1>10. task[t].pc \in Unsent BY <1>1 DEF Unsent
<1> QED BY <1>1, <1>2, <1>5, <1>6, <1>8, <1>9, <1>10, MovesAlone

(* What a handler does once it has the key: with the counter of the        *)
(* session it has found, or with a new one after its own handshake.        *)
LEMMA OperatesAlone ==
  ASSUME XInv, SInv, NEW t \in Tasks, NEW key \in Nat, NEW nonce \in Nat, key # NoKey,
         Operate(t, key, nonce), task[t].pc \in {"started", "derived"},
         UNCHANGED <<hostPrivateKey, pending, wire, device, transportKind>>, sessionKey' = key,
         IsActive(device) => device.key = key,
         \A i \in DOMAIN toDevice : toDevice[i].method # Establish,
         Usb => /\ IsActive(device) => device.last_nonce <= nonce
                /\ \A i \in DOMAIN toDevice : Gated(toDevice[i]) =>
                     /\ toDevice[i].nonce <= nonce
                     /\ IsActive(device) => device.last_nonce < toDevice[i].nonce
                     /\ toDevice[i].method = "store" => toDevice[i].key = key
                /\ \A i, j \in DOMAIN toDevice :
                     i < j /\ Gated(toDevice[i]) /\ Gated(toDevice[j])
                       => toDevice[i].nonce < toDevice[j].nonce
  PROVE  SInv'
<1>1. HostTypes /\ WireTypes /\ OnlyOne BY DEF XInv, SInv
<1>2. Running(t) /\ task[t].pc # "waiting" BY DEF Running
<1>3. /\ chain = <<>> /\ pending = Null
      /\ \A u \in Tasks : u # t => task[u].pc \in {"new", "done"}
  BY <1>1, <1>2, Lone
<1>4. Handler(t) /\ (Usb => UsbHandler(t)) BY DEF SInv
<1>5. task[t].method \in {"none", Establish} BY <1>4 DEF Handler
<1>6. SameKey' BY DEF SameKey, wire
<1>7. Usb => task[t].verdict \notin Bad /\ task[t].result \notin Bad BY <1>4 DEF UsbHandler
<1>8. /\ IsActive(device) => device.last_nonce \in Nat
      /\ \A i \in DOMAIN toDevice : toDevice[i].nonce \in Nat
  BY <1>1, OnWireTypes DEF WireTypes, Sessions
<1>9. ASSUME Usb, requestNonce' \in {nonce, nonce + 1} PROVE OnWire' /\ Above(nonce + 1)
  <2>1. OnWire' BY <1>8, <1>9 DEF OnWire, wire
  <2>2. Above(nonce + 1) BY <1>8, <1>9 DEF Above
  <2> QED BY <2>1, <2>2
<1>10. ASSUME NEW method \in {"list", "release"}, NEW n \in Nat, Call(t, method, n, NoKey),
              requestNonce' \in {nonce, nonce + 1},
              method = "release" => n = nonce + 1 /\ requestNonce' = nonce + 1
       PROVE  SInv'
  <2>1. method \in Methods /\ NoKey \in Nat BY DEF Methods, NoKey
  <2>2. /\ task'[t].pc = "waiting" /\ task'[t].method = method
        /\ task'[t].result = task[t].result /\ task'[t].verdict = task[t].verdict
        /\ \A u \in Tasks : u # t => task'[u] = task[u]
        /\ \E c \in Calls : /\ chain' = Append(chain, c) /\ c.task = t /\ c.method = method
                            /\ c.nonce = n /\ c.key = NoKey
    BY <1>2, <1>10, <2>1, TaskCalls
  <2>3. PICK c \in Calls : /\ chain' = Append(chain, c) /\ c.task = t /\ c.method = method
                           /\ c.nonce = n /\ c.key = NoKey
    BY <2>2
  <2>4. Handler(t)' BY <2>2 DEF Handler, Shaking, Replied, Establish
  <2>5. Usb => UsbHandler(t)' BY <1>7, <2>2 DEF UsbHandler, Serving, Replied
  <2>6. c.method # Establish /\ c.method # "store" BY <2>3 DEF Establish
  <2>7. task'[t].method = c.method BY <2>2, <2>3
  <2>8. Usb /\ sessionKey' # NoKey => OnWire' BY <1>9, <1>10
  <2>9. Usb /\ sessionKey' # NoKey /\ Gated(c) => c.nonce = requestNonce' /\ Above(c.nonce)
    BY <1>9, <1>10, <2>3 DEF Gated
  <2>10. Usb /\ sessionKey' # NoKey /\ c.method = "store" => c.key = sessionKey' BY <2>6
  <2> QED BY <1>2, <1>3, <1>5, <1>6, <2>2, <2>3, <2>4, <2>5, <2>6, <2>7, <2>8, <2>9, <2>10,
           CallsAlone
<1>11. CASE Call(t, "list", 0, NoKey) /\ requestNonce' = nonce BY <1>10, <1>11
<1>12. CASE Call(t, "release", nonce + 1, NoKey) /\ requestNonce' = nonce + 1 BY <1>10, <1>12
<1>13. CASE /\ task' = [task EXCEPT ![t].pc = "sealing", ![t].key = key]
            /\ requestNonce' = nonce /\ UNCHANGED chain
  <2>1. "sealing" \in TaskPcs BY DEF TaskPcs
  <2>2. Goes(t, "sealing", task[t].kind, key, task[t].result) BY <1>1, <1>13, <2>1, GoesByKey
  <2>3. /\ task'[t].pc = "sealing" /\ task'[t].key = key /\ task'[t].result = task[t].result
        /\ task'[t].verdict = task[t].verdict /\ task'[t].method = task[t].method
        /\ \A u \in Tasks : u # t => task'[u] = task[u]
    BY <2>2 DEF Goes
  <2>4. Usb' <=> Usb BY DEF Usb
  <2>5. Handler(t)' BY <1>5, <2>3 DEF Handler, Shaking, Replied
  <2>6. Usb => UsbHandler(t)' BY <1>7, <2>3 DEF UsbHandler, Serving, Replied
  <2>7. OnlyOne' BY <1>3, <2>3 DEF OnlyOne, Running
  <2>8. Wired'
    <3>1. ASSUME NEW m, m.task \in Tasks, Placed(m) PROVE Placed(m)'
      BY <1>3, <2>3, <3>1 DEF Placed, Unsent
    <3> QED BY <1>1, <3>1, OnWireTypes DEF Wired, SInv, wire
  <2>9. Flight' BY <1>3 DEF Flight, IsPending
  <2>10. ASSUME NEW u \in Tasks PROVE Handler(u)' /\ (Usb' => UsbHandler(u)')
    <3>1. CASE u = t BY <2>4, <2>5, <2>6, <3>1
    <3>2. CASE u # t BY <1>3, <2>3, <2>4, <3>2, AtRest DEF SInv
    <3> QED BY <3>1, <3>2
  <2>11. Usb => Nonces' BY <1>3, <1>9, <1>13 DEF Nonces, InChain
  <2> QED BY <1>6, <2>4, <2>7, <2>8, <2>9, <2>10, <2>11 DEF SInv
<1> QED BY <1>11, <1>12, <1>13 DEF Operate

(* The steps of a handler between its awaits.                              *)
LEMMA HandlesAlone ==
  ASSUME XInv, SInv, NEW t \in Tasks,
         \/ Ping(t) \/ EnsureSession(t) \/ GenerateKey(t) \/ SendPublicKey(t) \/ DeriveBits(t)
         \/ Established(t) \/ Sealed(t) \/ Finish(t) \/ Fail(t) \/ ResetUsb(t)
  PROVE  SInv'
<1>1. HostTypes /\ WireTypes /\ OnlyOne BY DEF XInv, SInv
<1>2. Running(t) /\ task[t].pc # "waiting"
  BY DEF Ping, EnsureSession, GenerateKey, SendPublicKey, DeriveBits, Established, Sealed,
         Finish, Fail, ResetUsb, Replied, Running
<1>3. UNCHANGED <<wire, peer>> /\ UNCHANGED rest /\ pending' = pending
  BY DEF Ping, EnsureSession, GenerateKey, SendPublicKey, DeriveBits, Established, Sealed,
         Finish, Fail, ResetUsb
<1>4. UNCHANGED <<pending, wire, device, transportKind>> BY <1>3 DEF peer, rest
<1>5. /\ chain = <<>> /\ pending = Null
      /\ \A u \in Tasks : u # t => task[u].pc \in {"new", "done"}
  BY <1>1, <1>2, Lone
<1>6. Handler(t) /\ (Usb => UsbHandler(t)) BY DEF SInv
<1>7. task[t] \in TaskRecs /\ sessionKey \in Nat /\ requestNonce \in Nat BY <1>1 DEF HostTypes
<1>8. task[t].key \in Nat /\ task[t].verdict \in Verdicts BY <1>7, TaskFields
<1>9. Usb => task[t].verdict \notin Bad /\ task[t].result \notin Bad BY <1>6 DEF UsbHandler
<1>10. Usb' <=> Usb BY <1>4 DEF Usb
<1>11. ASSUME NEW p, NEW k, NEW q, NEW w, Goes(t, p, k, q, w), p \notin {"waiting", "replied"},
              p \in Unsent => task[t].pc \in Unsent, chain' = chain,
              UNCHANGED <<sessionKey, requestNonce>> \/ sessionKey' = NoKey,
              Handler(t)', Usb => UsbHandler(t)'
       PROVE  SInv'
  <2>1. /\ task'[t].pc = p /\ task'[t].method = task[t].method
        /\ \A u \in Tasks : u # t => task'[u] = task[u]
    BY <1>11 DEF Goes
  <2>2. UNCHANGED <<chain, pending, wire, device, transportKind>> BY <1>4, <1>11
  <2> QED BY <1>2, <1>5, <1>11, <2>1, <2>2, MovesAlone
<1>12. ASSUME NEW k, NEW q, NEW w, Goes(t, "done", k, q, w), chain' = chain,
              UNCHANGED <<sessionKey, requestNonce>> \/ sessionKey' = NoKey,
              Usb => w \notin Bad
       PROVE  SInv'
  <2>1. task'[t].pc = "done" /\ task'[t].verdict = task[t].verdict /\ task'[t].result = w
    BY <1>12 DEF Goes
  <2>2. Handler(t)' BY <2>1 DEF Handler, Shaking, Replied
  <2>3. Usb => UsbHandler(t)' BY <1>9, <1>12, <2>1 DEF UsbHandler, Serving, Replied
  <2>4. "done" \notin Unsent BY DEF Unsent
  <2> QED BY <1>11, <1>12, <2>2, <2>3, <2>4
<1>13. ASSUME NEW method \in Methods, NEW n \in Nat, NEW key \in Nat, Call(t, method, n, key),
              \/ task[t].pc \in Unsent
              \/ task[t].method \in {"none", Establish} /\ method # Establish,
              method = Establish => /\ sessionKey' = NoKey
                                    /\ hostPrivateKey' = t \/ (hostPrivateKey' = Null /\ ~Usb),
              Usb /\ method \in {"list", "release", "store"} => sessionKey' # NoKey,
              sessionKey' = sessionKey, OnWire => OnWire',
              Usb /\ method \in {"release", "store"} /\ OnWire => n = requestNonce' /\ Above(n),
              Usb /\ method = "store" => key = sessionKey'
       PROVE  SInv'
  <2>1. /\ task'[t].pc = "waiting" /\ task'[t].method = method
        /\ task'[t].result = task[t].result /\ task'[t].verdict = task[t].verdict
        /\ \A u \in Tasks : u # t => task'[u] = task[u]
        /\ \E c \in Calls : /\ chain' = Append(chain, c) /\ c.task = t /\ c.method = method
                            /\ c.nonce = n /\ c.key = key
    BY <1>2, <1>4, <1>13, TaskCalls
  <2>2. PICK c \in Calls : /\ chain' = Append(chain, c) /\ c.task = t /\ c.method = method
                           /\ c.nonce = n /\ c.key = key
    BY <2>1
  <2>3. Handler(t)' BY <1>10, <1>13, <2>1 DEF Handler, Shaking, Replied
  <2>4. Usb => UsbHandler(t)' BY <1>9, <1>13, <2>1 DEF UsbHandler, Serving, Replied
  <2>5. task'[t].method = c.method BY <2>1, <2>2
  <2>6. SameKey' BY <1>4, <1>13 DEF SInv, SameKey, wire
  <2>7. Usb /\ sessionKey' # NoKey => OnWire BY <1>13 DEF SInv, Nonces
  <2>8. Usb /\ sessionKey' # NoKey => OnWire' BY <1>13, <2>7
  <2>9. Usb /\ sessionKey' # NoKey /\ Gated(c) => c.nonce = requestNonce' /\ Above(c.nonce)
    BY <1>13, <2>2, <2>7 DEF Gated
  <2>10. Usb /\ sessionKey' # NoKey /\ c.method = "store" => c.key = sessionKey' BY <1>13, <2>2
  <2>11. \/ task[t].pc \in Unsent
         \/ task[t].method \in {"none", Establish} /\ c.method # Establish
    BY <1>13, <2>2
  <2> QED BY <1>2, <1>4, <1>5, <2>1, <2>2, <2>3, <2>4, <2>5, <2>6, <2>8, <2>9, <2>10, <2>11,
           CallsAlone
<1>14. CASE Ping(t)
  <2>1. /\ task[t].pc \in Unsent /\ Call(t, "ping", 0, NoKey)
        /\ sessionKey' = sessionKey /\ requestNonce' = requestNonce
    BY <1>14 DEF Ping, Unsent, host
  <2>2. OnWire => OnWire' BY <1>4, <2>1 DEF OnWire, wire
  <2>3. "ping" \in Methods /\ "ping" # Establish /\ 0 \in Nat /\ NoKey \in Nat
    BY DEF Methods, Establish, NoKey
  <2> QED BY <1>13, <2>1, <2>2, <2>3
<1>15. CASE EnsureSession(t)
  <2>1. task[t].pc = "started" /\ UNCHANGED <<hostPrivateKey, sessionKey>>
    BY <1>15 DEF EnsureSession
  <2>2. CASE sessionKey # NoKey
    <3>1. Operate(t, sessionKey, requestNonce) BY <1>15, <2>2 DEF EnsureSession
    <3>2. /\ IsActive(device) => device.key = sessionKey
          /\ \A i \in DOMAIN toDevice : toDevice[i].method # Establish
      BY <2>2 DEF SInv, SameKey
    <3>3. Usb => OnWire BY <2>2 DEF SInv, Nonces
    <3>4. PICK key \in Nat : key = sessionKey BY <1>7
    <3>5. PICK nonce \in Nat : nonce = requestNonce BY <1>7
    <3>6. Operate(t, key, nonce) /\ key # NoKey /\ sessionKey' = key BY <2>1, <2>2, <3>1, <3>4, <3>5
    <3>7. Usb => /\ IsActive(device) => device.last_nonce <= nonce
                 /\ \A i \in DOMAIN toDevice : Gated(toDevice[i]) =>
                      /\ toDevice[i].nonce <= nonce
                      /\ IsActive(device) => device.last_nonce < toDevice[i].nonce
                      /\ toDevice[i].method = "store" => toDevice[i].key = key
                 /\ \A i, j \in DOMAIN toDevice :
                      i < j /\ Gated(toDevice[i]) /\ Gated(toDevice[j])
                        => toDevice[i].nonce < toDevice[j].nonce
      BY <3>3, <3>4, <3>5 DEF OnWire
    <3> QED BY <1>4, <2>1, <3>2, <3>4, <3>6, <3>7, OperatesAlone
  <2>3. CASE sessionKey = NoKey
    <3>1. task' = [task EXCEPT ![t].pc = "generating"] /\ UNCHANGED <<requestNonce, chain>>
      BY <1>15, <2>3 DEF EnsureSession
    <3>2. "generating" \in TaskPcs /\ task[t].pc \in Unsent BY <2>1 DEF TaskPcs, Unsent
    <3>3. Goes(t, "generating", task[t].kind, task[t].key, task[t].result)
      BY <1>1, <3>1, <3>2, GoesByPc
    <3>4. /\ task'[t].pc = "generating" /\ task'[t].verdict = task[t].verdict
          /\ task'[t].result = task[t].result
      BY <3>3 DEF Goes
    <3>5. Handler(t)' BY <2>1, <2>3, <3>4 DEF Handler, Shaking, Replied
    <3>6. Usb => UsbHandler(t)' BY <1>9, <3>4 DEF UsbHandler, Serving, Replied
    <3> QED BY <1>11, <2>1, <3>1, <3>2, <3>3, <3>5, <3>6
  <2> QED BY <2>2, <2>3
<1>16. CASE GenerateKey(t)
  <2>1. /\ task[t].pc = "generating" /\ hostPrivateKey' = t
        /\ UNCHANGED <<sessionKey, requestNonce, chain>>
        /\ task' = [task EXCEPT ![t].pc = "exporting"]
    BY <1>16 DEF GenerateKey
  <2>2. "exporting" \in TaskPcs /\ task[t].pc \in Unsent BY <2>1 DEF TaskPcs, Unsent
  <2>3. Goes(t, "exporting", task[t].kind, task[t].key, task[t].result)
    BY <1>1, <2>1, <2>2, GoesByPc
  <2>4. /\ task'[t].pc = "exporting" /\ task'[t].verdict = task[t].verdict
        /\ task'[t].result = task[t].result
    BY <2>3 DEF Goes
  <2>5. sessionKey = NoKey BY <1>6, <2>1 DEF Handler, Shaking
  <2>6. Handler(t)' BY <2>1, <2>4, <2>5 DEF Handler, Shaking, Replied
  <2>7. Usb => UsbHandler(t)' BY <1>9, <2>4 DEF UsbHandler, Serving, Replied
  <2> QED BY <1>11, <2>1, <2>2, <2>3, <2>6, <2>7
<1>17. CASE SendPublicKey(t)
  <2>1. /\ task[t].pc = "exporting" /\ UNCHANGED host
        /\ Call(t, Establish, 0, NoKey)
    BY <1>17 DEF SendPublicKey, Establish
  <2>2. sessionKey' = sessionKey /\ requestNonce' = requestNonce /\ hostPrivateKey' = hostPrivateKey
    BY <2>1 DEF host
  <2>3. sessionKey = NoKey /\ (hostPrivateKey = t \/ (hostPrivateKey = Null /\ ~Usb))
    BY <1>6, <2>1 DEF Handler, Shaking
  <2>4. OnWire => OnWire' BY <1>4, <2>2 DEF OnWire, wire
  <2>5. /\ Establish \in Methods /\ Establish \notin {"list", "release", "store"}
        /\ 0 \in Nat /\ NoKey \in Nat /\ task[t].pc \in Unsent
    BY <2>1 DEF Methods, Establish, NoKey, Unsent
  <2> QED BY <1>13, <2>1, <2>2, <2>3, <2>4, <2>5
<1>18. CASE DeriveBits(t)
  <2>1. /\ task[t].pc = "replied" /\ task[t].verdict = "Ok" /\ task[t].method = Establish
        /\ UNCHANGED <<host, chain>>
    BY <1>18 DEF DeriveBits, Replied, Establish
  <2>2. UNCHANGED <<hostPrivateKey, sessionKey, requestNonce>> BY <2>1 DEF host
  <2>3. task[t].from = t /\ Shaken(2 * task[t].key) BY <1>6, <2>1 DEF Handler, Replied
  <2>4. sessionKey = NoKey /\ (hostPrivateKey = t \/ (hostPrivateKey = Null /\ ~Usb))
    BY <1>6, <2>1 DEF Handler, Shaking
  <2>5. CASE hostPrivateKey = Null
    <3>1. Respond(t, "TypeError") BY <1>18, <2>5 DEF DeriveBits
    <3>2. Goes(t, "done", task[t].kind, task[t].key, "TypeError") BY <1>1, <3>1, GoesByResult
    <3>3. ~Usb BY <2>4, <2>5, ExtensionAssumption
    <3> QED BY <1>12, <2>1, <2>2, <3>2, <3>3
  <2>6. CASE hostPrivateKey # Null
    <3>1. PICK q \in Nat : q = 2 * task[t].key BY <1>8
    <3>2. task' = [task EXCEPT ![t].pc = "derived", ![t].key = q]
      BY <1>18, <2>3, <2>4, <2>6, <3>1 DEF DeriveBits, SharedKey
    <3>3. "derived" \in TaskPcs /\ "derived" \notin Unsent BY DEF TaskPcs, Unsent
    <3>4. Goes(t, "derived", task[t].kind, q, task[t].result) BY <1>1, <3>2, <3>3, GoesByKey
    <3>5. /\ task'[t].pc = "derived" /\ task'[t].key = q /\ task'[t].verdict = task[t].verdict
          /\ task'[t].method = Establish /\ task'[t].result = task[t].result
      BY <2>1, <3>4 DEF Goes
    <3>6. Shaken(q) BY <2>3, <3>1
    <3>7. Shaken(task[t].key)' BY <1>4, <3>5, <3>6 DEF Shaken, wire
    <3>8. Handler(t)' BY <2>2, <2>4, <3>5, <3>7 DEF Handler, Shaking, Replied
    <3>9. Usb => UsbHandler(t)' BY <1>9, <3>5 DEF UsbHandler, Serving, Replied
    <3> QED BY <1>11, <2>1, <2>2, <3>3, <3>4, <3>8, <3>9
  <2> QED BY <2>5, <2>6
<1>19. CASE Established(t)
  <2>1. /\ task[t].pc = "derived" /\ sessionKey' = task[t].key /\ UNCHANGED hostPrivateKey
        /\ Operate(t, task[t].key, 0)
    BY <1>19 DEF Established
  <2>2. PICK key \in Nat : key = task[t].key BY <1>8
  <2>3. Shaken(key) BY <1>6, <2>1, <2>2 DEF Handler
  <2>4. /\ key # NoKey /\ toDevice = <<>>
        /\ IsActive(device) => device.key = key /\ device.last_nonce = 0
    BY <2>3 DEF Shaken, NoKey
  <2>5. DOMAIN toDevice = {} BY <2>4
  <2>6. Operate(t, key, 0) /\ sessionKey' = key BY <2>1, <2>2
  <2>7. PICK nonce \in Nat : nonce = 0 OBVIOUS
  <2>8. Operate(t, key, nonce) BY <2>6, <2>7
  <2>9. Usb => /\ IsActive(device) => device.last_nonce <= nonce
               /\ \A i \in DOMAIN toDevice : Gated(toDevice[i]) =>
                    /\ toDevice[i].nonce <= nonce
                    /\ IsActive(device) => device.last_nonce < toDevice[i].nonce
                    /\ toDevice[i].method = "store" => toDevice[i].key = key
               /\ \A i, j \in DOMAIN toDevice :
                    i < j /\ Gated(toDevice[i]) /\ Gated(toDevice[j])
                      => toDevice[i].nonce < toDevice[j].nonce
    BY <2>4, <2>5, <2>7
  <2>10. /\ IsActive(device) => device.key = key
         /\ \A i \in DOMAIN toDevice : toDevice[i].method # Establish
    BY <2>4, <2>5
  <2> QED BY <1>4, <2>1, <2>4, <2>6, <2>8, <2>9, <2>10, OperatesAlone
<1>20. CASE Sealed(t)
  <2>1. /\ task[t].pc = "sealing" /\ UNCHANGED <<hostPrivateKey, sessionKey>>
        /\ Call(t, "store", requestNonce + 1, task[t].key) /\ requestNonce' = requestNonce + 1
    BY <1>20 DEF Sealed
  <2>2. task[t].method \in {"none", Establish} BY <1>6, <2>1 DEF Handler
  <2>3. Usb => sessionKey # NoKey /\ task[t].key = sessionKey
    BY <1>6, <2>1 DEF UsbHandler, Serving
  <2>4. "store" \in Methods /\ "store" # Establish /\ requestNonce + 1 \in Nat
    BY <1>7 DEF Methods, Establish
  <2>5. /\ IsActive(device) => device.last_nonce \in Nat
        /\ \A i \in DOMAIN toDevice : toDevice[i].nonce \in Nat
    BY <1>1, OnWireTypes DEF WireTypes, Sessions
  <2>6. OnWire => OnWire' BY <1>4, <1>7, <2>1, <2>5 DEF OnWire, wire
  <2>7. OnWire => Above(requestNonce + 1) BY <1>7, <2>5 DEF OnWire, Above
  <2> QED BY <1>8, <1>13, <2>1, <2>2, <2>3, <2>4, <2>6, <2>7
<1>21. CASE Finish(t)
  <2>1. chain' = chain /\ UNCHANGED <<sessionKey, requestNonce>> BY <1>21 DEF Finish, host
  <2>2. PICK w \in {"Ok", "Unsealable"} : /\ Respond(t, w)
                                          /\ w = "Unsealable" => /\ Replied(t, "release")
                                                                 /\ sessionKey # task[t].key
    BY <1>21 DEF Finish
  <2>3. w \in Verdicts \cup {"Unsealable", "TypeError"} BY DEF Verdicts
  <2>4. Goes(t, "done", task[t].kind, task[t].key, w) BY <1>1, <2>2, <2>3, GoesByResult
  <2>5. Usb => w \notin Bad BY <1>6, <2>2 DEF UsbHandler, Bad
  <2> QED BY <1>12, <2>1, <2>4, <2>5
<1>22. CASE Fail(t)
  <2>1. chain' = chain /\ Respond(t, task[t].verdict) BY <1>22 DEF Fail
  <2>2. ResetSession \/ UNCHANGED host BY <1>22 DEF Fail
  <2>3. Goes(t, "done", task[t].kind, task[t].key, task[t].verdict)
    BY <1>1, <1>8, <2>1, GoesByResult
  <2>4. UNCHANGED <<sessionKey, requestNonce>> \/ sessionKey' = NoKey
    BY <2>2 DEF ResetSession, host
  <2> QED BY <1>9, <1>12, <2>1, <2>3, <2>4
<1>23. CASE ResetUsb(t)
  <2>1. /\ task[t].pc # "waiting" /\ chain' = chain /\ sessionKey' = NoKey
        /\ task' = [task EXCEPT ![t].pc = "resetting"]
    BY <1>23 DEF ResetUsb, ResetSession
  <2>2. "resetting" \in TaskPcs /\ "resetting" \notin Unsent BY DEF TaskPcs, Unsent
  <2>3. Goes(t, "resetting", task[t].kind, task[t].key, task[t].result)
    BY <1>1, <2>1, <2>2, GoesByPc
  <2>4. /\ task'[t].pc = "resetting" /\ task'[t].verdict = task[t].verdict
        /\ task'[t].result = task[t].result
    BY <2>3 DEF Goes
  <2>5. Handler(t)' BY <2>4 DEF Handler, Shaking, Replied
  <2>6. Usb => UsbHandler(t)' BY <1>9, <2>4 DEF UsbHandler, Serving, Replied
  <2> QED BY <1>11, <2>1, <2>2, <2>3, <2>5, <2>6
<1> QED BY <1>14, <1>15, <1>16, <1>17, <1>18, <1>19, <1>20, <1>21, <1>22, <1>23

(* The link is lost, or reset, with no call pending.                       *)
LEMMA LosesAlone ==
  ASSUME XInv, SInv, pending = Null, UNCHANGED <<chain, pending, transportKind>>,
         \A u \in Tasks : \/ task'[u] = task[u]
                          \/ /\ task[u].pc = "resetting" /\ task'[u].pc = "done"
                             /\ task'[u].method = task[u].method
                             /\ task'[u].verdict = task[u].verdict /\ task'[u].result = "Ok",
         toHost' = <<>>, toDevice = <<>> => toDevice' = <<>>,
         \A i \in DOMAIN toDevice' : i \in DOMAIN toDevice /\ toDevice'[i] = toDevice[i],
         device' = device \/ ~IsActive(device'), UNCHANGED host \/ (~Usb /\ ResetSession)
  PROVE  SInv'
<1>1. WireTypes BY DEF XInv
<1>2. Usb' <=> Usb BY DEF Usb
<1>3. OnlyOne'
  <2>1. \A u \in Tasks : Running(u)' => Running(u) BY DEF Running
  <2> QED BY <2>1 DEF SInv, OnlyOne
<1>4. Wired'
  <2>1. ASSUME NEW i \in DOMAIN toDevice' PROVE Placed(toDevice[i])'
    <3>1. PICK m : m = toDevice[i] OBVIOUS
    <3>2. Placed(m) /\ m.task \in Tasks /\ toDevice'[i] = m
      BY <1>1, <2>1, <3>1, OnWireTypes DEF SInv, Wired
    <3>3. CASE task'[m.task] = task[m.task] BY <3>2, <3>3 DEF Placed
    <3>4. CASE task'[m.task].pc = "done" /\ task'[m.task].method = task[m.task].method
      BY <3>2, <3>4 DEF Placed, Unsent
    <3> QED BY <3>2, <3>3, <3>4
  <2> QED BY <2>1 DEF Wired
<1>5. sessionKey' # NoKey => sessionKey' = sessionKey /\ requestNonce' = requestNonce
  BY DEF host, ResetSession
<1>6. SameKey'
  <2> SUFFICES ASSUME sessionKey' # NoKey
               PROVE  /\ IsActive(device') => device'.key = sessionKey'
                      /\ \A i \in DOMAIN toDevice' : toDevice'[i].method # Establish
    BY DEF SameKey
  <2>1. SameKey BY DEF SInv
  <2> QED BY <1>5, <2>1 DEF SameKey
<1>7. Flight' BY DEF Flight, IsPending
<1>8. ASSUME NEW u \in Tasks PROVE Handler(u)' /\ (Usb' => UsbHandler(u)')
  <2>1. Handler(u) /\ (Usb => UsbHandler(u)) BY DEF SInv
  <2>2. CASE task'[u] = task[u]
    <3>1. ASSUME NEW k, Shaken(k) PROVE Shaken(k)' BY <3>1 DEF Shaken
    <3>2. PICK x : x = task[u] OBVIOUS
    <3>3. task'[u] = x BY <2>2, <3>2
    <3>4. x.pc = "derived" => x.method = Establish /\ Shaken(x.key)
      BY <2>1, <3>2 DEF Handler
    <3>5. x.pc = "derived" => x.method = Establish /\ Shaken(x.key)'
      BY <3>1, <3>4 DEF Shaken
    <3>6. Replied(u, Establish) => x.from = u /\ Shaken(2 * x.key)
      BY <2>1, <3>2 DEF Handler
    <3>7. Replied(u, Establish)' => x.from = u /\ Shaken(2 * x.key)'
      BY <3>1, <3>2, <3>3, <3>6 DEF Replied
    <3>8. Shaking(u)' => Shaking(u) BY <2>2 DEF Shaking
    <3>9. Shaking(u) => /\ sessionKey' = NoKey
                        /\ task[u].pc \notin {"generating", "derived"}
                             => hostPrivateKey' = u \/ (hostPrivateKey' = Null /\ ~Usb)
      BY <2>1 DEF Handler, host, ResetSession
    <3>10. Handler(u)'
      BY <1>2, <2>1, <3>2, <3>3, <3>5, <3>7, <3>8, <3>9 DEF Handler, Shaken
    <3>11. Usb => UsbHandler(u)' BY <2>1, <2>2 DEF UsbHandler, Serving, Replied, host
    <3> QED BY <1>2, <3>10, <3>11
  <2>3. CASE /\ task'[u].pc = "done" /\ task'[u].verdict = task[u].verdict
             /\ task'[u].result = "Ok"
    <3>1. Handler(u)' BY <2>3 DEF Handler, Shaking, Replied
    <3>2. Usb => UsbHandler(u)' BY <2>1, <2>3 DEF UsbHandler, Serving, Replied, Bad
    <3> QED BY <1>2, <3>1, <3>2
  <2> QED BY <2>2, <2>3
<1>9. ASSUME Usb PROVE Nonces'
  <2> SUFFICES ASSUME sessionKey' # NoKey PROVE OnWire' /\ InChain' BY DEF Nonces
  <2>1. OnWire /\ InChain BY <1>5, <1>9 DEF SInv, Nonces
  <2>2. OnWire' BY <1>5, <2>1 DEF OnWire
  <2>3. InChain'
    <3>1. Above(requestNonce) => Above(requestNonce)' BY <1>5 DEF Above
    <3> QED BY <1>5, <2>1, <3>1 DEF InChain
  <2> QED BY <2>2, <2>3
<1> QED BY <1>2, <1>3, <1>4, <1>6, <1>7, <1>8, <1>9 DEF SInv

(* What a teardown leaves on the wire.                                     *)
LEMMA TornDown ==
  ASSUME WireTypes, NEW tasks, NEW verdict, TearDown(tasks, verdict),
         LeaveUnread \/ toDevice' = <<>>
  PROVE  /\ toHost' = <<>> /\ (toDevice = <<>> => toDevice' = <<>>)
         /\ \A i \in DOMAIN toDevice' : i \in DOMAIN toDevice /\ toDevice'[i] = toDevice[i]
<1>1. toDevice \in Seq(Calls) /\ toHost' = <<>> BY DEF WireTypes, TearDown
<1>1a. CASE toDevice' = <<>> BY <1>1, <1>1a
<1>1b. SUFFICES ASSUME toDevice' # <<>>
                PROVE  /\ toDevice = <<>> => toDevice' = <<>>
                       /\ \A i \in DOMAIN toDevice' : i \in DOMAIN toDevice /\ toDevice'[i] = toDevice[i]
  BY <1>1, <1>1a
<1>2. PICK n \in 0..Len(toDevice) : toDevice' = SubSeq(toDevice, 1, n)
  BY <1>1b DEF LeaveUnread
<1>3. PICK s : s = SubSeq(toDevice, 1, n) OBVIOUS
<1>4. /\ s \in Seq(Calls) /\ Len(s) = n /\ DOMAIN s = 1..n /\ 1..n \subseteq DOMAIN toDevice
      /\ \A i \in 1..n : s[i] = toDevice[i]
  BY <1>1, <1>3, PrefixIs
<1>5. ASSUME toDevice = <<>> PROVE s = <<>>
  <2>1. Len(s) = 0 BY <1>4, <1>5
  <2>2. s # <<>> => Len(s) > 0 BY <1>4, TailIs
  <2> QED BY <2>1, <2>2
<1> QED BY <1>1, <1>2, <1>3, <1>4, <1>5

(* The pending call fails without an answer, whatever is left of the wire. *)
LEMMA RejectsAlone ==
  ASSUME XInv, SInv, chain # <<>>, NEW e \in Verdicts, e # "Ok", e \notin Bad, Reject(task, e),
         \A i \in DOMAIN toDevice' : i \in DOMAIN toDevice /\ toDevice'[i] = toDevice[i],
         toHost' = toHost \/ toHost' = <<>>,
         device' = device \/ ~IsActive(device'), transportKind' = transportKind,
         UNCHANGED host \/ (~Usb /\ ResetSession)
  PROVE  SInv'
<1>1. task \in [Tasks -> TaskRecs] BY DEF XInv, HostTypes
<1>2. PICK tasks \in [Tasks -> TaskRecs] : tasks = task BY <1>1
<1>3. /\ Reject(tasks, e)
      /\ \A u \in Tasks : tasks[u] = task[u] \/ (task[u].pc = "resetting" /\ tasks[u].pc = "done")
  BY <1>2
<1>4. PICK t \in Tasks : t = Head(chain).task BY ChainHead
<1>5. /\ chain' = Tail(chain) /\ pending' = Null /\ \A u \in Tasks : u # t => task'[u] = tasks[u]
      /\ task'[t].pc = "replied" /\ task'[t].verdict = e
      /\ task'[t].method = Head(chain).method /\ task'[t].result = task[t].result
  BY <1>3, <1>4, RejectKeeps
<1>6. task'[t].method = task[t].method BY <1>4, <1>5, ChainHead
<1>7. \A u \in Tasks : u # t => task'[u] = task[u] BY <1>2, <1>5
<1>8. \A i \in DOMAIN toHost' : \E j \in DOMAIN toHost : toHost'[i] = toHost[j] OBVIOUS
<1>9. task'[t].verdict # "Ok" BY <1>5
<1>10. Usb => /\ task'[t].verdict \notin Bad /\ task'[t].result = task[t].result
              /\ task'[t].verdict = "Ok" /\ task[t].method = "release" => task'[t].key = sessionKey
  BY <1>5
<1> QED BY <1>4, <1>5, <1>6, <1>7, <1>8, <1>9, <1>10, SettlesAlone

LEMMA FailsAlone ==
  ASSUME XInv, SInv, ConnectFails \/ RpcTimeout
  PROVE  SInv'
<1>1. chain # <<>> BY PendingIsHead DEF ConnectFails, RpcTimeout
<1>2. PICK e \in {"unpaired", "usb", "unreachable", "timeout"} : Reject(task, e)
  BY DEF ConnectFails, RpcTimeout
<1>3. e \in Verdicts /\ e # "Ok" /\ e \notin Bad BY DEF Verdicts, Bad
<1>4. UNCHANGED <<wire, peer, rest>> /\ (UNCHANGED host \/ (~Usb /\ ResetSession))
  BY DEF ConnectFails, RpcTimeout
<1>5. UNCHANGED <<toDevice, toHost, device, transportKind>> BY <1>4 DEF wire, peer, rest
<1> QED BY <1>1, <1>2, <1>3, <1>4, <1>5, RejectsAlone

LEMMA ResetsAlone ==
  ASSUME XInv, SInv, NEW t \in Tasks, ResetUsbDone(t)
  PROVE  SInv'
<1>1. HostTypes /\ WireTypes /\ OnlyOne BY DEF XInv, SInv
<1>2. /\ task[t].pc = "resetting" /\ UNCHANGED <<host, peer, rest>> BY DEF ResetUsbDone
<1>3. Running(t) /\ task[t].pc # "waiting" BY <1>2 DEF Running
<1>4. pending = Null BY <1>1, <1>3, Lone
<1>5. PICK tasks : tasks = [task EXCEPT ![t].pc = "done", ![t].result = "Ok"] OBVIOUS
<1>6. /\ tasks[t].pc = "done" /\ tasks[t].result = "Ok" /\ tasks[t].verdict = task[t].verdict
      /\ tasks[t].method = task[t].method /\ \A u \in Tasks : u # t => tasks[u] = task[u]
  BY <1>1, <1>5, RespondedIs
<1>7. UNCHANGED <<host, device, transportKind>> BY <1>2 DEF peer, rest
<1>8. CASE Usb
  <2>1. TearDown(tasks, "disconnected") /\ LeaveUnread BY <1>5, <1>8 DEF ResetUsbDone
  <2>2. task' = tasks /\ UNCHANGED <<chain, pending>> BY <1>4, <2>1 DEF TearDown
  <2>3. /\ toHost' = <<>> /\ (toDevice = <<>> => toDevice' = <<>>)
        /\ \A i \in DOMAIN toDevice' : i \in DOMAIN toDevice /\ toDevice'[i] = toDevice[i]
    BY <1>1, <2>1, TornDown
  <2>4. \A u \in Tasks : \/ task'[u] = task[u]
                         \/ /\ task[u].pc = "resetting" /\ task'[u].pc = "done"
                            /\ task'[u].method = task[u].method
                            /\ task'[u].verdict = task[u].verdict /\ task'[u].result = "Ok"
    BY <1>2, <1>6, <2>2
  <2> QED BY <1>4, <1>7, <2>2, <2>3, <2>4, LosesAlone
<1>9. CASE ~Usb
  <2>1. task' = tasks /\ UNCHANGED <<chain, pending, wire>> BY <1>5, <1>9 DEF ResetUsbDone
  <2>2. /\ chain = <<>> /\ \A u \in Tasks : u # t => task[u].pc \in {"new", "done"}
    BY <1>1, <1>3, Lone
  <2>3. UNCHANGED <<sessionKey, requestNonce>> BY <1>7 DEF host
  <2>4. Handler(t)' BY <1>6, <2>1 DEF Handler, Shaking, Replied
  <2>5. task'[t].pc = "done" /\ "done" \notin Unsent BY <1>6, <2>1 DEF Unsent
  <2>6. task'[t].method = task[t].method /\ \A u \in Tasks : u # t => task'[u] = task[u]
    BY <1>6, <2>1
  <2> QED BY <1>3, <1>4, <1>7, <1>9, <2>1, <2>2, <2>3, <2>4, <2>5, <2>6, MovesAlone
<1> QED BY <1>8, <1>9

LEMMA DisconnectsAlone ==
  ASSUME XInv, SInv, Disconnect
  PROVE  SInv'
<1>1. WireTypes BY DEF XInv
<1>2. PICK e \in {"disconnected", "transfer"} : TearDown(task, e) BY DEF Disconnect
<1>3. e \in Verdicts /\ e # "Ok" /\ e \notin Bad BY DEF Verdicts, Bad
<1>3a. LeaveUnread \/ toDevice' = <<>> BY DEF Disconnect
<1>4. /\ toHost' = <<>> /\ (toDevice = <<>> => toDevice' = <<>>)
      /\ \A i \in DOMAIN toDevice' : i \in DOMAIN toDevice /\ toDevice'[i] = toDevice[i]
  BY <1>1, <1>2, <1>3a, TornDown
<1>5. ~IsActive(NewSession) BY DEF IsActive, NewSession
<1>6. device' = device \/ ~IsActive(device') BY <1>5 DEF Disconnect
<1>7. transportKind' = transportKind /\ (UNCHANGED host \/ (~Usb /\ ResetSession))
  BY DEF Disconnect
<1>8. CASE pending # Null
  <2>1. Reject(task, e) BY <1>2, <1>8 DEF TearDown
  <2>2. chain # <<>> BY <1>8, PendingIsHead
  <2> QED BY <1>3, <1>4, <1>6, <1>7, <2>1, <2>2, RejectsAlone
<1>9. CASE pending = Null
  <2>1. task' = task /\ UNCHANGED <<chain, pending>> BY <1>2, <1>9 DEF TearDown
  <2> QED BY <1>4, <1>6, <1>7, <1>9, <2>1, LosesAlone
<1> QED BY <1>8, <1>9

LEMMA PausesAlone ==
  ASSUME XInv, SInv, Usb, RecycleWorker \/ StayIdle \/ UNCHANGED extVars
  PROVE  SInv'
<1>1. UNCHANGED <<chain, pending, task, toDevice, toHost, device, transportKind>>
  BY DEF RecycleWorker, StayIdle, extVars, wire, peer, rest
<1>2. Usb' <=> Usb BY <1>1 DEF Usb
<1>3. OnlyOne' BY <1>1 DEF SInv, OnlyOne, Running
<1>4. Wired' BY <1>1 DEF SInv, Wired, Placed
<1>5. CASE RecycleWorker
  <2>1. Quiet /\ sessionKey' = NoKey BY <1>5 DEF RecycleWorker, ResetSession
  <2>2. pending = Null /\ \A u \in Tasks : task[u].pc \in {"new", "done"} BY <2>1, NobodyWaits
  <2>3. Flight' BY <1>1, <2>2 DEF Flight, IsPending
  <2>4. SameKey' /\ Nonces' BY <2>1 DEF SameKey, Nonces
  <2>5. ASSUME NEW u \in Tasks PROVE Handler(u)' /\ (Usb' => UsbHandler(u)')
    BY <1>1, <1>2, <2>2, AtRest DEF SInv
  <2> QED BY <1>2, <1>3, <1>4, <2>3, <2>4, <2>5 DEF SInv
<1>6. CASE StayIdle \/ UNCHANGED extVars
  <2>1. UNCHANGED <<hostPrivateKey, sessionKey, requestNonce>> BY <1>6 DEF StayIdle, extVars, host
  <2>2. Flight' BY <1>1, <1>2, <2>1 DEF SInv, Flight, IsPending, Shaken
  <2>3. SameKey' BY <1>1, <2>1 DEF SInv, SameKey
  <2>4. Usb => Nonces' BY <1>1, <2>1 DEF SInv, Nonces, OnWire, InChain, Above
  <2>5. ASSUME NEW u \in Tasks PROVE Handler(u)' /\ (Usb => UsbHandler(u)')
    <3>1. Handler(u) /\ (Usb => UsbHandler(u)) BY DEF SInv
    <3>2. Handler(u)' BY <1>1, <1>2, <2>1, <3>1 DEF Handler, Shaking, Replied, Shaken
    <3>3. Usb => UsbHandler(u)' BY <1>1, <2>1, <3>1 DEF UsbHandler, Serving, Replied
    <3> QED BY <3>2, <3>3
  <2> QED BY <1>2, <1>3, <1>4, <2>2, <2>3, <2>4, <2>5 DEF SInv
<1> QED BY <1>5, <1>6

LEMMA ReadsAlone ==
  ASSUME XInv, SInv, ReadLoop
  PROVE  SInv'
<1>1. HostTypes /\ WireTypes BY DEF XInv
<1>2. /\ toHost # <<>> /\ toHost' = Tail(toHost)
      /\ UNCHANGED <<host, link, toDevice, peer, rest>>
  BY DEF ReadLoop
<1>3. UNCHANGED <<host, toDevice, device, transportKind>> BY <1>2 DEF peer, rest
<1>4. toHost \in Seq(Answers) BY <1>1 DEF WireTypes
<1>5. PICK m \in Answers : m = Head(toHost) /\ m = toHost[1] /\ 1 \in DOMAIN toHost
  BY <1>2, <1>4, TailIs
<1>6. \A i \in DOMAIN toHost' : i + 1 \in DOMAIN toHost /\ toHost'[i] = toHost[i + 1]
  BY <1>2, <1>4, TailIs
<1>7. CASE pending # Null /\ pending.task = m.task /\ pending.method = m.method
  <2>1. Settle(task, m.verdict, m.task, m.key, m.method) BY <1>5, <1>7 DEF ReadLoop
  <2>2. PICK t \in Tasks : t = Head(chain).task BY <1>7, PendingIsHead, ChainHead
  <2>3. /\ chain' = Tail(chain) /\ pending' = Null /\ chain # <<>> /\ pending = Head(chain)
        /\ \A u \in Tasks : u # t => task'[u] = task[u]
        /\ task'[t].pc = "replied" /\ task'[t].verdict = m.verdict /\ task'[t].from = t
        /\ task'[t].key = m.key /\ task'[t].method = Head(chain).method
        /\ task'[t].result = task[t].result
    BY <1>2, <1>5, <1>7, <2>1, <2>2, ReadLoopMatches
  <2>4. task'[t].method = task[t].method /\ task[t].method = m.method
    BY <1>7, <2>2, <2>3, ChainHead
  <2>5. /\ m.method = Establish => m.verdict = "Ok" /\ Shaken(2 * m.key)
        /\ Usb => /\ m.verdict \notin Bad
                  /\ m.method = "release" /\ m.verdict = "Ok" => m.key = sessionKey
    BY <1>5, <1>7 DEF SInv, Flight, IsPending
  <2>6. task'[t].verdict = "Ok" /\ task[t].method = Establish
          => task'[t].from = t /\ Shaken(2 * task[t].key)'
    BY <1>3, <2>3, <2>4, <2>5 DEF Shaken
  <2>7. Usb => /\ task'[t].verdict \notin Bad /\ task'[t].result = task[t].result
               /\ task'[t].verdict = "Ok" /\ task[t].method = "release" => task'[t].key = sessionKey
    BY <2>3, <2>4, <2>5
  <2>8. \A i \in DOMAIN toDevice' : i \in DOMAIN toDevice /\ toDevice'[i] = toDevice[i] BY <1>3
  <2>9. \A i \in DOMAIN toHost' : \E j \in DOMAIN toHost : toHost'[i] = toHost[j] BY <1>6
  <2> QED BY <1>3, <2>2, <2>3, <2>4, <2>6, <2>7, <2>8, <2>9, SettlesAlone
<1>8. CASE ~(pending # Null /\ pending.task = m.task /\ pending.method = m.method)
  <2>1. UNCHANGED <<task, chain, pending>> BY <1>5, <1>8 DEF ReadLoop
  <2>2. Usb' <=> Usb BY <1>3 DEF Usb
  <2>3. UNCHANGED <<hostPrivateKey, sessionKey, requestNonce>> BY <1>3 DEF host
  <2>4. OnlyOne' BY <2>1 DEF SInv, OnlyOne, Running
  <2>5. Wired' BY <1>3, <1>6, <2>1 DEF SInv, Wired, Placed
  <2>6. SameKey' BY <1>3, <2>3 DEF SInv, SameKey
  <2>7. Flight' BY <1>3, <1>6, <2>1, <2>2, <2>3 DEF SInv, Flight, IsPending, Shaken
  <2>8. Usb => Nonces' BY <1>3, <2>1, <2>3 DEF SInv, Nonces, OnWire, InChain, Above
  <2>9. ASSUME NEW u \in Tasks PROVE Handler(u)' /\ (Usb => UsbHandler(u)')
    <3>1. Handler(u) /\ (Usb => UsbHandler(u)) BY DEF SInv
    <3>2. Handler(u)' BY <1>3, <2>1, <2>2, <2>3, <3>1 DEF Handler, Shaking, Replied, Shaken
    <3>3. Usb => UsbHandler(u)' BY <2>1, <2>3, <3>1 DEF UsbHandler, Serving, Replied
    <3> QED BY <3>2, <3>3
  <2> QED BY <2>2, <2>4, <2>5, <2>6, <2>7, <2>8, <2>9 DEF SInv
<1> QED BY <1>7, <1>8

LEMMA MakesCallAlone ==
  ASSUME XInv, SInv, MakeCall
  PROVE  SInv'
<1>1. HostTypes /\ WireTypes /\ Chained BY DEF XInv
<1>2. /\ chain # <<>> /\ pending = Null /\ pending' = Head(chain)
      /\ toDevice' = Append(toDevice, Head(chain))
      /\ UNCHANGED <<host, chain, task, toHost, peer, rest>>
  BY DEF MakeCall
<1>3. UNCHANGED <<hostPrivateKey, sessionKey, requestNonce, device, transportKind>>
  BY <1>2 DEF host, peer, rest
<1>4. PICK c \in Calls : c = Head(chain) /\ c = chain[1] /\ 1 \in DOMAIN chain /\ c # Null
  BY <1>2, ChainHead
<1>5. PICK t \in Tasks : t = c.task BY <1>4, CallFields
<1>6. /\ task[t].pc = "waiting" /\ task[t].method = c.method /\ DOMAIN chain = {1}
      /\ \A u \in Tasks : u # t => task[u].pc \in {"new", "done"}
  BY <1>2, <1>4, <1>5, ChainHead, LoneCall DEF SInv
<1>7. toDevice \in Seq(Calls) BY <1>1 DEF WireTypes
<1>8. /\ Len(toDevice) \in Nat /\ DOMAIN toDevice = 1..Len(toDevice)
      /\ Len(toDevice') = Len(toDevice) + 1 /\ DOMAIN toDevice' = 1..(Len(toDevice) + 1)
      /\ toDevice'[Len(toDevice) + 1] = c
      /\ \A i \in 1..Len(toDevice) : toDevice'[i] = toDevice[i]
  <2>1. Len(toDevice) \in Nat /\ DOMAIN toDevice = 1..Len(toDevice) BY <1>7
  <2>2. toDevice' \in Seq(Calls) /\ Len(toDevice') = Len(toDevice) + 1
    BY <1>2, <1>4, <1>7
  <2>3. /\ toDevice'[Len(toDevice) + 1] = c
        /\ \A i \in 1..Len(toDevice) : toDevice'[i] = toDevice[i]
    BY <1>2, <1>4, <1>7, AppendProperties
  <2> QED BY <2>1, <2>2, <2>3
<1>9. \A i \in DOMAIN toDevice' : \/ i \in DOMAIN toDevice /\ toDevice'[i] = toDevice[i]
                                  \/ i = Len(toDevice') /\ toDevice'[i] = c
  BY <1>8
<1>10. pending' = c /\ pending' # Null BY <1>2, <1>4
<1>11. Usb' <=> Usb BY <1>3 DEF Usb
<1>12. OnlyOne' BY <1>2 DEF SInv, OnlyOne, Running
<1>13. Wired'
  <2>1. ASSUME NEW m, m.task \in Tasks, Placed(m) PROVE Placed(m)'
    BY <1>2, <1>5, <1>6, <1>10, <2>1 DEF Placed
  <2>2. Placed(c)' BY <1>2, <1>5, <1>6, <1>10 DEF Placed, Unsent
  <2>3. ASSUME NEW i \in DOMAIN toDevice' PROVE Placed(toDevice[i])'
    <3>1. CASE i \in DOMAIN toDevice /\ toDevice'[i] = toDevice[i]
      <4>1. PICK m : m = toDevice[i] OBVIOUS
      <4>2. m.task \in Tasks /\ Placed(m) BY <1>1, <3>1, <4>1, OnWireTypes DEF SInv, Wired
      <4>3. Placed(m)' BY <2>1, <4>2
      <4> QED BY <3>1, <4>1, <4>3 DEF Placed
    <3>2. CASE toDevice'[i] = c BY <2>2, <3>2 DEF Placed
    <3> QED BY <1>9, <2>3, <3>1, <3>2
  <2>4. ASSUME NEW i \in DOMAIN toHost' PROVE Placed(toHost[i])'
    <3>1. PICK m : m = toHost[i] OBVIOUS
    <3>2. m.task \in Tasks /\ Placed(m) /\ toHost'[i] = m
      BY <1>1, <1>2, <2>4, <3>1, OnWireTypes DEF SInv, Wired
    <3>3. Placed(m)' BY <2>1, <3>2
    <3> QED BY <3>2, <3>3 DEF Placed
  <2> QED BY <2>3, <2>4 DEF Wired
<1>14. sessionKey # NoKey => c.method # Establish
  BY <1>6 DEF SInv, Handler, Shaking
<1>15. SameKey' BY <1>3, <1>9, <1>14 DEF SInv, SameKey
<1>16. ASSUME NEW m, Placed(m), m.task = t PROVE m.method # c.method
  BY <1>2, <1>6, <1>16 DEF Placed
<1>17. Flight'
  <2>1. ASSUME NEW i \in DOMAIN toDevice', toDevice'[i].task = t, toDevice'[i].method = c.method
        PROVE  i = Len(toDevice')
    <3>1. ASSUME i \in DOMAIN toDevice, toDevice'[i] = toDevice[i] PROVE FALSE
      <4>1. Placed(toDevice[i]) BY <3>1 DEF SInv, Wired
      <4> QED BY <1>16, <2>1, <3>1, <4>1
    <3> QED BY <1>9, <2>1, <3>1
  <2>2. ASSUME NEW i \in DOMAIN toHost' PROVE ~(toHost'[i].task = t /\ toHost'[i].method = c.method)
    <3>1. Placed(toHost[i]) BY <1>2, <2>2 DEF SInv, Wired
    <3> QED BY <1>2, <1>16, <3>1
  <2> QED BY <1>5, <1>10, <2>1, <2>2 DEF Flight, IsPending
<1>18. ASSUME NEW u \in Tasks PROVE Handler(u)' /\ (Usb => UsbHandler(u)')
  <2>1. Handler(u) /\ (Usb => UsbHandler(u)) BY DEF SInv
  <2>2. task[u].pc \notin {"replied", "derived"} BY <1>6
  <2>3. Handler(u)' BY <1>2, <1>3, <1>11, <2>1, <2>2 DEF Handler, Shaking, Replied
  <2>4. Usb => UsbHandler(u)' BY <1>2, <1>3, <2>1 DEF UsbHandler, Serving, Replied
  <2> QED BY <2>3, <2>4
<1>19. ASSUME Usb PROVE Nonces'
  <2> SUFFICES ASSUME sessionKey # NoKey PROVE OnWire' /\ InChain' BY <1>3 DEF Nonces
  <2>1. OnWire /\ InChain BY <1>19 DEF SInv, Nonces
  <2>2. Gated(c) => /\ c.nonce = requestNonce /\ Above(requestNonce)
                    /\ c.method = "store" => c.key = sessionKey
    BY <1>2, <1>4, <2>1 DEF InChain
  <2>3. requestNonce \in Nat /\ c.nonce \in Nat BY <1>1, CallFields DEF HostTypes
  <2>4. ASSUME NEW i \in DOMAIN toDevice', Gated(toDevice'[i])
        PROVE  /\ toDevice'[i].nonce <= requestNonce'
               /\ IsActive(device') => device'.last_nonce < toDevice'[i].nonce
               /\ toDevice'[i].method = "store" => toDevice'[i].key = sessionKey'
    <3>1. CASE i \in DOMAIN toDevice /\ toDevice'[i] = toDevice[i]
      BY <1>3, <2>1, <2>4, <3>1 DEF OnWire
    <3>2. CASE toDevice'[i] = c BY <1>3, <2>2, <2>3, <2>4, <3>2 DEF Above
    <3> QED BY <1>9, <2>4, <3>1, <3>2
  <2>5. ASSUME NEW i \in DOMAIN toDevice', NEW j \in DOMAIN toDevice', i < j,
               Gated(toDevice'[i]), Gated(toDevice'[j])
        PROVE  toDevice'[i].nonce < toDevice'[j].nonce
    <3>1. i \in DOMAIN toDevice /\ toDevice'[i] = toDevice[i] BY <1>8, <2>5
    <3>2. CASE j \in DOMAIN toDevice /\ toDevice'[j] = toDevice[j]
      BY <2>1, <2>5, <3>1, <3>2 DEF OnWire
    <3>3. CASE toDevice'[j] = c BY <2>2, <2>5, <3>1, <3>3 DEF Above
    <3> QED BY <1>9, <2>5, <3>2, <3>3
  <2>6. IsActive(device') => device'.last_nonce <= requestNonce' BY <1>3, <2>1 DEF OnWire
  <2>7. OnWire' BY <2>4, <2>5, <2>6 DEF OnWire
  <2>8. InChain' BY <1>2, <1>3, <1>10, <2>1 DEF InChain
  <2> QED BY <2>7, <2>8
<1> QED BY <1>11, <1>12, <1>13, <1>15, <1>17, <1>18, <1>19 DEF SInv

LEMMA HigherNonceOk ==
  ASSUME NEW s, IsActive(s), s.last_nonce \in Nat, NEW n \in Nat, s.last_nonce < n
  PROVE  AcceptNonceVerdict(s, n) = "Ok"
<1>1. ~(n <= s.last_nonce) OBVIOUS
<1> QED BY <1>1, Zenon DEF AcceptNonceVerdict

(* The device takes a call off the wire.                                   *)
LEMMA DeviceAlone ==
  ASSUME XInv, SInv, Handle
  PROVE  SInv'
<1>1. HostTypes /\ WireTypes /\ Chained BY DEF XInv
<1>2. /\ toDevice # <<>> /\ toDevice' = Tail(toDevice) /\ Head(toDevice) \in Calls
      /\ UNCHANGED <<host, chain, pending, task, link, rest>>
      /\ \E o \in Handled(Head(toDevice)) :
           /\ device' = o.session
           /\ \/ toHost' = toHost
              \/ \E a \in Answers : /\ toHost' = Append(toHost, a)
                                    /\ a.task = Head(toDevice).task
                                    /\ a.method = Head(toDevice).method
                                    /\ a.verdict = o.verdict /\ a.key = o.key
  BY HandleMoves, Zenon
<1>3. UNCHANGED <<hostPrivateKey, sessionKey, requestNonce, transportKind>>
  BY <1>2 DEF host, rest
<1>4. device \in Sessions /\ handshakes \in Nat /\ toDevice \in Seq(Calls) /\ toHost \in Seq(Answers)
  BY <1>1 DEF WireTypes
<1>5. PICK m \in Calls : m = Head(toDevice) BY <1>2
<1>6. PICK o \in Handled(m) :
        /\ device' = o.session
        /\ \/ toHost' = toHost
           \/ \E a \in Answers : /\ toHost' = Append(toHost, a)
                                 /\ a.task = m.task /\ a.method = m.method
                                 /\ a.verdict = o.verdict /\ a.key = o.key
  BY <1>2, <1>5
<1>7. /\ m = toDevice[1] /\ 1 \in DOMAIN toDevice /\ Len(toDevice) \in Nat
      /\ DOMAIN toDevice = 1..Len(toDevice) /\ DOMAIN toDevice' = 1..(Len(toDevice) - 1)
      /\ \A i \in DOMAIN toDevice' : i + 1 \in DOMAIN toDevice /\ toDevice'[i] = toDevice[i + 1]
      /\ Len(toDevice') = Len(toDevice) - 1 /\ toDevice' \in Seq(Calls)
  BY <1>2, <1>4, <1>5, TailIs
<1>8. m.task \in Tasks /\ m.method \in Methods /\ m.nonce \in Nat BY CallFields
<1>9. Usb' <=> Usb BY <1>3 DEF Usb
<1>10. OnlyOne' BY <1>2 DEF SInv, OnlyOne, Running
<1>11. ASSUME NEW i \in DOMAIN toHost'
       PROVE  \/ i \in DOMAIN toHost /\ toHost'[i] = toHost[i]
              \/ /\ toHost'[i].task = m.task /\ toHost'[i].method = m.method
                 /\ toHost'[i].verdict = o.verdict /\ toHost'[i].key = o.key
  <2>1. CASE toHost' = toHost BY <1>11, <2>1
  <2>2. ASSUME NEW a \in Answers, toHost' = Append(toHost, a),
               a.task = m.task, a.method = m.method, a.verdict = o.verdict, a.key = o.key
        PROVE  \/ i \in DOMAIN toHost /\ toHost'[i] = toHost[i]
               \/ /\ toHost'[i].task = m.task /\ toHost'[i].method = m.method
                  /\ toHost'[i].verdict = o.verdict /\ toHost'[i].key = o.key
    <3>1. /\ toHost'[Len(toHost) + 1] = a /\ \A j \in 1..Len(toHost) : toHost'[j] = toHost[j]
          /\ Len(toHost) \in Nat /\ DOMAIN toHost = 1..Len(toHost)
      BY <1>4, <2>2, AppendProperties
    <3>2. DOMAIN toHost' = 1..(Len(toHost) + 1) BY <1>4, <2>2
    <3>3. i \in DOMAIN toHost \/ i = Len(toHost) + 1 BY <1>11, <3>1, <3>2
    <3> QED BY <2>2, <3>1, <3>3
  <2> QED BY <1>6, <2>1, <2>2
<1>12. Wired'
  <2>1. Placed(m) BY <1>7 DEF SInv, Wired
  <2>2. ASSUME NEW i \in DOMAIN toDevice' PROVE Placed(toDevice[i])'
    BY <1>2, <1>7, <2>2 DEF SInv, Wired, Placed
  <2>3. ASSUME NEW i \in DOMAIN toHost' PROVE Placed(toHost[i])'
    BY <1>2, <1>11, <2>1, <2>3 DEF SInv, Wired, Placed
  <2> QED BY <2>2, <2>3 DEF Wired
<1>13. /\ device.key \in Nat /\ device.last_nonce \in Nat BY <1>4 DEF Sessions
<1>14. \/ /\ m.method # Establish /\ o.session = device
          /\ IsActive(device) =>
               \/ m.method \in {"ping", "list"} /\ o.verdict = "Ok"
               \/ /\ m.method \notin {"ping", "list"} /\ o.verdict # "Ok"
                  /\ o.verdict = AcceptNonceVerdict(device, m.nonce)
          /\ ~IsActive(device) => \/ m.method = "ping" /\ o.verdict = "Ok"
                                  \/ o.verdict = "SessionExpired"
       \/ m.method # Establish /\ o.session = Expire(device) /\ o.verdict = "SessionExpired"
       \/ /\ m.method = Establish /\ o.verdict = "Ok" /\ o.key = handshakes + 1
          /\ o.session = AcceptOk(device, 2 * (handshakes + 1), 0)
       \/ /\ m.method \notin {"ping", "list", Establish}
          /\ o.session = AcceptNonce(device, m.nonce, 0) /\ IsActive(device)
          /\ AcceptNonceVerdict(device, m.nonce) = "Ok"
          /\ \/ o.verdict = "Internal" /\ m.method = "store" /\ ~CanOpen(device, m.key)
             \/ o.verdict = "Refused"
             \/ o.verdict = "Ok" /\ o.key = device.key
  BY <1>4, HandledIs, Zenon
<1>15. PICK k \in Nat : k = 2 * (handshakes + 1) BY <1>4
<1>16. /\ AcceptOk(device, k, 0).key = k /\ AcceptOk(device, k, 0).last_nonce = 0
       /\ ~IsActive(Expire(device)) /\ AcceptNonce(device, m.nonce, 0).key = device.key
       /\ AcceptNonce(device, m.nonce, 0).last_nonce = m.nonce
  <2>1. device \in Sessions BY <1>4
  <2>2. AcceptOk(device, k, 0).key = k /\ AcceptOk(device, k, 0).last_nonce = 0
    BY <2>1, SessionSteps
  <2>3. ~IsActive(Expire(device)) BY <2>1, SessionSteps
  <2>4. /\ AcceptNonce(device, m.nonce, 0).key = device.key
        /\ AcceptNonce(device, m.nonce, 0).last_nonce = m.nonce
    BY <1>8, <2>1, SessionSteps
  <2> QED BY <2>2, <2>3, <2>4
<1>17. m.method # Establish /\ IsActive(device')
         => /\ IsActive(device) /\ device'.key = device.key
            /\ \/ device'.last_nonce = device.last_nonce
               \/ device'.last_nonce = m.nonce /\ Gated(m)
  BY <1>6, <1>8, <1>14, <1>16 DEF Gated, Methods, Establish
<1>18. m.method = Establish => /\ o.verdict = "Ok" /\ 2 * o.key = k /\ k > 0
                               /\ device'.key = k /\ device'.last_nonce = 0
  BY <1>4, <1>6, <1>14, <1>15, <1>16
<1>19. sessionKey # NoKey => m.method # Establish BY <1>7 DEF SInv, SameKey
<1>20. SameKey' BY <1>3, <1>7, <1>17, <1>19 DEF SInv, SameKey
<1>21. ASSUME NEW u \in Tasks PROVE Handler(u)' /\ (Usb => UsbHandler(u)')
  <2>1. Handler(u) /\ (Usb => UsbHandler(u)) BY DEF SInv
  <2>2. task[u].pc # "derived" /\ ~Replied(u, Establish) BY <1>2, <2>1 DEF Handler, Shaken
  <2>3. Handler(u)' BY <1>2, <1>3, <1>9, <2>1, <2>2 DEF Handler, Shaking, Replied
  <2>4. Usb => UsbHandler(u)' BY <1>2, <1>3, <2>1 DEF UsbHandler, Serving, Replied
  <2> QED BY <2>3, <2>4
<1>22. ASSUME Usb, Gated(m), sessionKey # NoKey
       PROVE  /\ o.verdict \notin Bad
              /\ o.verdict = "Ok" => o.key = sessionKey
  <2>1. OnWire BY <1>22 DEF SInv, Nonces
  <2>2. /\ IsActive(device) => device.last_nonce < m.nonce
        /\ m.method = "store" => m.key = sessionKey
    BY <1>7, <1>22, <2>1 DEF OnWire
  <2>3. IsActive(device) => device.key = sessionKey BY <1>22 DEF SInv, SameKey
  <2>4. IsActive(device) => AcceptNonceVerdict(device, m.nonce) = "Ok"
    BY <1>8, <1>13, <2>2, HigherNonceOk
  <2>5. IsActive(device) /\ m.method = "store" => CanOpen(device, m.key)
    BY <1>22, <2>2, <2>3 DEF CanOpen, CanSeal
  <2>6. m.method \notin {"ping", "list", Establish} BY <1>22 DEF Gated, Establish
  <2> QED BY <1>14, <2>3, <2>4, <2>5, <2>6 DEF Bad
<1>23. m.method \in {"ping", "list"} => o.verdict \in {"Ok", "SessionExpired"}
  BY <1>14 DEF Establish
<1>24. ASSUME IsPending(m)
       PROVE  /\ toDevice' = <<>>
              /\ m.method = Establish => o.verdict = "Ok" /\ Shaken(2 * o.key)'
              /\ Usb => /\ o.verdict \notin Bad
                        /\ m.method = "release" /\ o.verdict = "Ok" => o.key = sessionKey
  <2>1. Len(toDevice) = 1 BY <1>7, <1>24 DEF SInv, Flight
  <2>2. toDevice' # <<>> => Len(toDevice') > 0 BY <1>7, TailIs
  <2>3. toDevice' = <<>> BY <1>7, <2>1, <2>2
  <2>4. PICK t \in Tasks : /\ t = m.task /\ task[t].pc = "waiting" /\ task[t].method = m.method
    BY <1>24, PendingIsHead, ChainHead DEF IsPending
  <2>5. m.method = Establish => o.verdict = "Ok" /\ Shaken(2 * o.key)'
    <3>1. Shaken(k)' <=> /\ toDevice' = <<>> /\ k \in Nat /\ k > 0
                         /\ IsActive(device') => device'.key = k /\ device'.last_nonce = 0
      BY DEF Shaken
    <3> QED BY <1>18, <2>3, <3>1
  <2>6. Usb /\ Gated(m) => sessionKey # NoKey
    BY <2>4 DEF SInv, UsbHandler, Serving, Gated
  <2>7. CASE Gated(m) BY <1>22, <2>3, <2>5, <2>6, <2>7
  <2>8. CASE m.method \in {"ping", "list"} BY <1>23, <2>3, <2>8 DEF Bad, Establish
  <2>9. CASE m.method = Establish BY <1>18, <2>3, <2>5, <2>9 DEF Bad, Establish
  <2> QED BY <1>8, <2>7, <2>8, <2>9 DEF Gated, Methods, Establish
<1>25. Flight'
  <2>1. ASSUME NEW i \in DOMAIN toDevice', IsPending(toDevice[i])' PROVE i = Len(toDevice')
    <3>1. IsPending(toDevice[i + 1]) BY <1>2, <1>7, <2>1 DEF IsPending
    <3>2. i + 1 = Len(toDevice) BY <1>7, <2>1, <3>1 DEF SInv, Flight
    <3> QED BY <1>7, <2>1, <3>2
  <2>2. ASSUME NEW i \in DOMAIN toHost', IsPending(toHost[i])'
        PROVE  /\ toHost'[i].method = Establish
                    => toHost'[i].verdict = "Ok" /\ Shaken(2 * toHost[i].key)'
               /\ Usb' => /\ toHost'[i].verdict \notin Bad
                          /\ toHost'[i].method = "release" /\ toHost'[i].verdict = "Ok"
                               => toHost'[i].key = sessionKey'
    <3>1. CASE i \in DOMAIN toHost /\ toHost'[i] = toHost[i]
      <4>1. IsPending(toHost[i]) BY <1>2, <2>2, <3>1 DEF IsPending
      <4>2. toHost[i].method # Establish BY <1>2, <3>1, <4>1 DEF SInv, Flight, Shaken
      <4>3. Usb => /\ toHost[i].verdict \notin Bad
                   /\ toHost[i].method = "release" /\ toHost[i].verdict = "Ok"
                        => toHost[i].key = sessionKey
        BY <3>1, <4>1 DEF SInv, Flight
      <4> QED BY <1>3, <1>9, <3>1, <4>2, <4>3
    <3>2. CASE /\ toHost'[i].task = m.task /\ toHost'[i].method = m.method
               /\ toHost'[i].verdict = o.verdict /\ toHost'[i].key = o.key
      <4>1. IsPending(m) BY <1>2, <2>2, <3>2 DEF IsPending
      <4>2. Shaken(2 * o.key)' => Shaken(2 * toHost[i].key)' BY <3>2 DEF Shaken
      <4> QED BY <1>3, <1>9, <1>24, <3>2, <4>1, <4>2
    <3> QED BY <1>11, <2>2, <3>1, <3>2
  <2> QED BY <2>1, <2>2 DEF Flight
<1>26. ASSUME Usb PROVE Nonces'
  <2> SUFFICES ASSUME sessionKey # NoKey PROVE OnWire' /\ InChain' BY <1>3 DEF Nonces
  <2>1. OnWire /\ InChain BY <1>26 DEF SInv, Nonces
  <2>2. ASSUME IsActive(device')
        PROVE  /\ IsActive(device)
               /\ \/ device'.last_nonce = device.last_nonce
                  \/ device'.last_nonce = m.nonce /\ Gated(m)
    BY <1>17, <1>19, <2>2, Zenon
  <2>3. IsActive(device') => device'.last_nonce <= requestNonce'
    BY <1>3, <1>7, <2>1, <2>2 DEF OnWire
  <2>4. ASSUME NEW i \in DOMAIN toDevice', Gated(toDevice'[i])
        PROVE  /\ toDevice'[i].nonce <= requestNonce'
               /\ IsActive(device') => device'.last_nonce < toDevice'[i].nonce
               /\ toDevice'[i].method = "store" => toDevice'[i].key = sessionKey'
    <3>1. PICK j \in DOMAIN toDevice : j = i + 1 /\ 1 < j /\ toDevice'[i] = toDevice[j]
      BY <1>7, <2>4
    <3>2. Gated(m) => m.nonce < toDevice[j].nonce BY <1>7, <2>1, <2>4, <3>1 DEF OnWire
    <3> QED BY <1>3, <2>1, <2>2, <2>4, <3>1, <3>2 DEF OnWire
  <2>5. ASSUME NEW i \in DOMAIN toDevice', NEW j \in DOMAIN toDevice', i < j,
               Gated(toDevice'[i]), Gated(toDevice'[j])
        PROVE  toDevice'[i].nonce < toDevice'[j].nonce
    <3>1. i + 1 < j + 1 BY <1>7, <2>5
    <3> QED BY <1>7, <2>1, <2>5, <3>1 DEF OnWire
  <2>6. OnWire' BY <2>3, <2>4, <2>5 DEF OnWire
  <2>7. Above(requestNonce) => Above(requestNonce)' BY <1>3, <1>7, <2>2 DEF Above
  <2>8. InChain' BY <1>2, <1>3, <2>1, <2>7 DEF InChain
  <2> QED BY <2>6, <2>8
<1> QED BY <1>9, <1>10, <1>12, <1>20, <1>21, <1>25, <1>26 DEF SInv

LEMMA InitSolo == Init => Solo
<1> SUFFICES ASSUME Init PROVE SInv BY DEF Solo
<1>1. \A t \in Tasks : task[t] = NewTask BY DEF Init
<1>2. /\ NewTask.pc = "new" /\ NewTask.method = "none" /\ NewTask.verdict = "none"
      /\ NewTask.result = "none"
  BY DEF NewTask
<1>3. /\ toDevice = <<>> /\ toHost = <<>> /\ chain = <<>> /\ pending = Null /\ sessionKey = NoKey
  BY DEF Init
<1>4. OnlyOne BY <1>1, <1>2 DEF OnlyOne, Running
<1>5. Wired BY <1>3 DEF Wired
<1>6. SameKey /\ Nonces BY <1>3 DEF SameKey, Nonces
<1>7. Flight BY <1>3 DEF Flight
<1>8. ASSUME NEW t \in Tasks PROVE Handler(t) /\ UsbHandler(t)
  <2>1. Handler(t) BY <1>1, <1>2 DEF Handler, Shaking, Replied
  <2>2. UsbHandler(t) BY <1>1, <1>2 DEF UsbHandler, Serving, Replied, Bad
  <2> QED BY <2>1, <2>2
<1> QED BY <1>4, <1>5, <1>6, <1>7, <1>8 DEF SInv

LEMMA SoloKept == XInv /\ Leftovers /\ Solo /\ [Next]_extVars => Solo'
<1> SUFFICES ASSUME XInv, Leftovers, Solo, [Next]_extVars, ~overlap', Usb' PROVE SInv'
  BY DEF Solo
<1>1. ~overlap /\ Usb
  <2>1. UNCHANGED rest => overlap' = overlap /\ transportKind' = transportKind BY DEF rest
  <2>2. UNCHANGED extVars => UNCHANGED rest BY DEF extVars
  <2>3. ASSUME NEW t \in Tasks, NEW kind \in Kinds, Start(t, kind) PROVE ~overlap /\ Usb
    BY <2>3 DEF Start, Usb
  <2>4. ASSUME NEW t \in Tasks, TaskStep(t) PROVE UNCHANGED rest
    BY <2>4 DEF TaskStep, Ping, EnsureSession, GenerateKey, SendPublicKey, DeriveBits,
                Established, Sealed, Finish, Fail, ResetUsb, ResetUsbDone
  <2>5. CASE MakeCall \/ ConnectFails \/ ReadLoop \/ RpcTimeout \/ Disconnect \/ RecycleWorker
             \/ Handle \/ HandleStale \/ StayIdle
    BY <2>1, <2>5 DEF MakeCall, ConnectFails, ReadLoop, RpcTimeout, Disconnect, RecycleWorker,
                      Handle, HandleStale, StayIdle, Usb
  <2> QED BY <2>1, <2>2, <2>3, <2>4, <2>5 DEF Next, Usb
<1>2. SInv BY <1>1 DEF Solo
<1>3. ASSUME NEW t \in Tasks, TaskStep(t) \/ \E kind \in Kinds : Start(t, kind) PROVE SInv'
  BY <1>2, <1>3, StartsAlone, HandlesAlone, ResetsAlone DEF TaskStep
<1>4. CASE MakeCall \/ ConnectFails \/ ReadLoop \/ RpcTimeout \/ Disconnect \/ Handle
  BY <1>2, <1>4, MakesCallAlone, FailsAlone, ReadsAlone, DisconnectsAlone, DeviceAlone
<1>5. CASE RecycleWorker \/ StayIdle \/ UNCHANGED extVars BY <1>1, <1>2, <1>5, PausesAlone
<1>6. ~HandleStale BY <1>1 DEF Leftovers, HandleStale
<1> QED BY <1>3, <1>4, <1>5, <1>6 DEF Next

(* Over WebUSB, as long as handlers run one after the other, the device    *)
(* refuses no nonce, either end opens what the other one sealed, and a     *)
(* worker with a key has that of the device's session, after any number of *)
(* timeouts, late requests, lost links, restarts, idle times and repairs   *)
(* (ensureSession, rpcChain, shouldResetSession).                          *)
THEOREM HandlersInTurnWork == Spec => []OneAtATimeWorks
<1>1. Solo => OneAtATimeWorks
  <2> SUFFICES ASSUME SInv, Usb
               PROVE  /\ \A t \in Tasks : task[t].result \notin Bad
                      /\ sessionKey # NoKey /\ IsActive(device) => sessionKey = device.key
    BY DEF OneAtATimeWorks, Solo, Bad
  <2> QED BY DEF SInv, UsbHandler, SameKey
<1>2. XInv /\ Leftovers /\ Solo /\ [Next]_extVars => Solo' BY SoloKept
<1> QED BY <1>1, <1>2, InitSolo, XInvariant, PTL DEF Spec
=============================================================================
