------------------------- MODULE SlintApproverProofs -------------------------
(***************************************************************************)
(* Proofs about SlintApprover, for any number of requests, cancels and     *)
(* event-loop endings and for both transports: no waiting request is lost, *)
(* nobody is timed out early, and the safety part of the trait is kept.    *)
(***************************************************************************)
EXTENDS SlintApprover, TLAPS

(* The deadline in the slot belongs to the request in the slot.            *)
OwnDeadline ==
  slot.req # NoReq => slot.deadline = askedAt[slot.req] + APPROVAL_TIMEOUT

(* Nothing was sent to a request that was not made yet.                    *)
NotYetTold == \A r \in Reqs : pc[r] = "new" => chan[r] = "none"

ApproverInv == TypeOK /\ NoLostRequest /\ OwnDeadline /\ NotYetTold

(* Sending to the pending request changes its channel and no other.        *)
LEMMA SendFacts ==
  ASSUME TypeOK, NEW v \in Verdicts, SendToPending(v)
  PROVE  /\ chan' \in [Reqs -> {"none"} \cup Verdicts]
         /\ \A r \in Reqs : chan'[r] = IF r = slot.req THEN v ELSE chan[r]
<1>1. /\ slot.req \in Reqs \cup {NoReq}
      /\ chan \in [Reqs -> {"none"} \cup Verdicts]
  BY DEF TypeOK
<1>2. CASE slot.req = NoReq
  BY <1>1, <1>2, ApproverAssumption DEF SendToPending
<1>3. CASE slot.req # NoReq
  BY <1>1, <1>3 DEF SendToPending
<1> QED BY <1>2, <1>3

(* The sender is taken out and told v: tap, timeout or cancel.             *)
LEMMA TakeKeeps ==
  ASSUME ApproverInv, TypeOK', NEW v \in Verdicts, SendToPending(v),
         slot' = Empty, UNCHANGED <<pc, askedAt>>
  PROVE  ApproverInv'
<1>1. \A r \in Reqs : chan'[r] = IF r = slot.req THEN v ELSE chan[r]
  BY SendFacts DEF ApproverInv
<1>2. v # "none" BY DEF Verdicts
<1>3. slot'.req = NoReq BY DEF Empty
<1>4. NoLostRequest'
  BY <1>1, <1>2, <1>3 DEF ApproverInv, NoLostRequest
<1>5. OwnDeadline' BY <1>3 DEF OwnDeadline
<1>6. NotYetTold'
  BY <1>1, ApproverAssumption DEF ApproverInv, NotYetTold, NoLostRequest
<1> QED BY <1>4, <1>5, <1>6 DEF ApproverInv

(* The step touches neither the slot nor a channel nor a request.          *)
LEMMA OtherKeeps ==
  ASSUME ApproverInv, TypeOK', UNCHANGED <<slot, chan, pc, askedAt>>
  PROVE  ApproverInv'
BY DEF ApproverInv, NoLostRequest, OwnDeadline, NotYetTold

(* Every step keeps the types.                                             *)
LEMMA NextTypes == ApproverInv /\ [Next]_vars => TypeOK'
<1> SUFFICES ASSUME ApproverInv, [Next]_vars PROVE TypeOK'
  OBVIOUS
<1> USE ApproverAssumption
<1>t. TypeOK BY DEF ApproverInv
<1>v. /\ "Approve" \in Verdicts /\ "Reject" \in Verdicts /\ "Timeout" \in Verdicts
  BY DEF Verdicts
<1>e. Empty \in [req : Reqs \cup {NoReq}, deadline : Nat]
  BY DEF Empty
<1>b. Backward => pages' \in Nat
  BY <1>t DEF Backward, TypeOK
<1>p. PostClear => queue' \in Seq(Closures)
  <2>1. [op |-> "clear", req |-> NoReq] \in Closures /\ queue \in Seq(Closures)
    BY <1>t DEF Closures, TypeOK
  <2> QED BY <2>1 DEF PostClear
<1>1. ASSUME NEW r \in Reqs, RequestReplace(r) PROVE TypeOK'
  <2>1. chan' \in [Reqs -> {"none"} \cup Verdicts]
    BY <1>1, <1>t, <1>v, SendFacts DEF RequestReplace
  <2>2. slot' \in [req : Reqs \cup {NoReq}, deadline : Nat] /\ askedAt' \in [Reqs -> Nat]
    BY <1>1, <1>t DEF RequestReplace, TypeOK
  <2> QED BY <1>1, <1>t, <2>1, <2>2 DEF RequestReplace, TypeOK
<1>2. ASSUME NEW r \in Reqs, RequestSchedule(r) PROVE TypeOK'
  <2>1. [op |-> "show", req |-> r] \in Closures /\ queue \in Seq(Closures)
    BY <1>t DEF Closures, TypeOK
  <2>2. queue' \in Seq(Closures)
    BY <1>2, <2>1 DEF RequestSchedule
  <2> QED BY <1>2, <1>t, <2>2 DEF RequestSchedule, TypeOK
<1>3. ASSUME NEW r \in Reqs, RequestUnscheduled(r) PROVE TypeOK'
  BY <1>3, <1>t, <1>v, <1>e DEF RequestUnscheduled, TypeOK
<1>4. ASSUME NEW r \in Reqs, RequestReturn(r) PROVE TypeOK'
  BY <1>4, <1>t, <1>v DEF RequestReturn, TypeOK
<1>5. CASE OnApprove
  <2>1. chan' \in [Reqs -> {"none"} \cup Verdicts]
    BY <1>5, <1>t, <1>v, SendFacts DEF OnApprove
  <2>2. seenOn' \in [Reqs -> Reqs \cup {NoReq}]
    BY <1>5, <1>t DEF OnApprove, TypeOK
  <2> QED BY <1>5, <1>t, <1>e, <1>b, <2>1, <2>2 DEF OnApprove, TypeOK
<1>6. CASE OnReject
  <2>1. chan' \in [Reqs -> {"none"} \cup Verdicts]
    BY <1>6, <1>t, <1>v, SendFacts DEF OnReject
  <2> QED BY <1>6, <1>t, <1>e, <1>b, <2>1 DEF OnReject, TypeOK
<1>7. CASE RunClosure
  <2>1. queue \in Seq(Closures) /\ queue # <<>>
    BY <1>7, <1>t DEF RunClosure, TypeOK
  <2>2. Head(queue) \in Closures /\ queue' \in Seq(Closures)
    BY <1>7, <2>1 DEF RunClosure
  <2>3. Head(queue).op = "show" => Head(queue).req \in Reqs
    BY <2>2 DEF Closures
  <2>4. card' \in Reqs \cup {NoReq} /\ pages' \in Nat
    BY <1>7, <1>t, <1>b, <2>3 DEF RunClosure, TypeOK
  <2> QED BY <1>7, <1>t, <2>2, <2>4 DEF RunClosure, TypeOK
<1>8. CASE TimeoutTake
  <2>1. chan' \in [Reqs -> {"none"} \cup Verdicts]
    BY <1>8, <1>t, <1>v, SendFacts DEF TimeoutTake
  <2> QED BY <1>8, <1>t, <1>e, <2>1 DEF TimeoutTake, TypeOK
<1>9. CASE TimeoutClear
  BY <1>9, <1>t, <1>p DEF TimeoutClear, TypeOK
<1>10. CASE CancelTake
  <2>1. chan' \in [Reqs -> {"none"} \cup Verdicts]
    BY <1>10, <1>t, <1>v, SendFacts DEF CancelTake
  <2> QED BY <1>10, <1>t, <1>e, <2>1 DEF CancelTake, TypeOK
<1>11. CASE CancelClear
  BY <1>11, <1>t, <1>p DEF CancelClear, TypeOK
<1>12. CASE TearDown
  BY <1>12, <1>t DEF TearDown, TypeOK
<1>13. CASE Tick
  BY <1>13, <1>t DEF Tick, TypeOK
<1>14. CASE UNCHANGED vars
  BY <1>14, <1>t DEF vars, TypeOK
<1> QED BY <1>1, <1>2, <1>3, <1>4, <1>5, <1>6, <1>7, <1>8, <1>9, <1>10, <1>11,
           <1>12, <1>13, <1>14 DEF Next, RequestStep

LEMMA InitInv == Init => ApproverInv
BY ApproverAssumption DEF Init, ApproverInv, TypeOK, NoLostRequest, OwnDeadline,
   NotYetTold, Empty, Verdicts

LEMMA NextInv == ApproverInv /\ [Next]_vars => ApproverInv'
<1> SUFFICES ASSUME ApproverInv, [Next]_vars PROVE ApproverInv'
  OBVIOUS
<1> USE ApproverAssumption
<1>t. TypeOK /\ TypeOK' BY NextTypes DEF ApproverInv
<1>v. /\ "Approve" \in Verdicts /\ "Reject" \in Verdicts /\ "Timeout" \in Verdicts
  BY DEF Verdicts
<1>1. ASSUME NEW r \in Reqs, RequestReplace(r) PROVE ApproverInv'
  <2>1. \A q \in Reqs : chan'[q] = IF q = slot.req THEN "Reject" ELSE chan[q]
    BY <1>1, <1>t, <1>v, SendFacts DEF RequestReplace
  <2>2. pc[r] = "new" /\ slot.req # r
    BY <1>1 DEF RequestReplace, MayStart, ApproverInv, NoLostRequest
  <2>3. /\ pc'[r] = "replaced" /\ \A q \in Reqs \ {r} : pc'[q] = pc[q]
        /\ slot'.req = r /\ slot'.deadline = now + APPROVAL_TIMEOUT
        /\ askedAt'[r] = now
    BY <1>1, <1>t DEF RequestReplace, TypeOK
  <2>4. NoLostRequest'
    BY <2>1, <2>2, <2>3 DEF ApproverInv, NoLostRequest, NotYetTold
  <2>5. OwnDeadline'
    BY <2>3 DEF OwnDeadline
  <2>6. NotYetTold'
    BY <2>1, <2>2, <2>3 DEF ApproverInv, NotYetTold, NoLostRequest
  <2> QED BY <1>t, <2>4, <2>5, <2>6 DEF ApproverInv
<1>2. ASSUME NEW r \in Reqs, RequestSchedule(r) PROVE ApproverInv'
  <2>1. /\ pc[r] = "replaced" /\ pc'[r] = "waiting" /\ \A q \in Reqs \ {r} : pc'[q] = pc[q]
        /\ UNCHANGED <<slot, chan, askedAt>>
    BY <1>2, <1>t DEF RequestSchedule, TypeOK
  <2>2. NoLostRequest'
    BY <1>t, <2>1 DEF ApproverInv, NoLostRequest, TypeOK
  <2>3. OwnDeadline' /\ NotYetTold'
    BY <2>1 DEF ApproverInv, OwnDeadline, NotYetTold
  <2> QED BY <1>t, <2>2, <2>3 DEF ApproverInv
<1>3. ASSUME NEW r \in Reqs, RequestUnscheduled(r) PROVE ApproverInv'
  <2>1. /\ pc'[r] = "returned" /\ \A q \in Reqs \ {r} : pc'[q] = pc[q]
        /\ UNCHANGED <<chan, askedAt>>
        /\ \/ slot.req = r /\ slot'.req = NoReq
           \/ slot.req # r /\ slot' = slot
    BY <1>3, <1>t DEF RequestUnscheduled, TypeOK, Empty
  <2>2. NoLostRequest'
    BY <1>t, <2>1 DEF ApproverInv, NoLostRequest, TypeOK
  <2>3. OwnDeadline' /\ NotYetTold'
    BY <2>1 DEF ApproverInv, OwnDeadline, NotYetTold
  <2> QED BY <1>t, <2>2, <2>3 DEF ApproverInv
<1>4. ASSUME NEW r \in Reqs, RequestReturn(r) PROVE ApproverInv'
  <2>1. /\ pc'[r] = "returned" /\ \A q \in Reqs \ {r} : pc'[q] = pc[q]
        /\ UNCHANGED <<slot, chan, askedAt>> /\ chan[r] # "none"
    BY <1>4, <1>t DEF RequestReturn, TypeOK, ApproverInv, NoLostRequest
  <2>2. NoLostRequest'
    BY <1>t, <2>1 DEF ApproverInv, NoLostRequest, TypeOK
  <2>3. OwnDeadline' /\ NotYetTold'
    BY <2>1 DEF ApproverInv, OwnDeadline, NotYetTold
  <2> QED BY <1>t, <2>2, <2>3 DEF ApproverInv
<1>5. CASE OnApprove
  BY <1>5, <1>t, <1>v, TakeKeeps DEF OnApprove
<1>6. CASE OnReject
  BY <1>6, <1>t, <1>v, TakeKeeps DEF OnReject
<1>7. CASE RunClosure
  BY <1>7, <1>t, OtherKeeps DEF RunClosure
<1>8. CASE TimeoutTake
  BY <1>8, <1>t, <1>v, TakeKeeps DEF TimeoutTake
<1>9. CASE TimeoutClear
  BY <1>9, <1>t, OtherKeeps DEF TimeoutClear
<1>10. CASE CancelTake
  BY <1>10, <1>t, <1>v, TakeKeeps DEF CancelTake
<1>11. CASE CancelClear
  BY <1>11, <1>t, OtherKeeps DEF CancelClear
<1>12. CASE TearDown
  BY <1>12, <1>t, OtherKeeps DEF TearDown
<1>13. CASE Tick
  BY <1>13, <1>t, OtherKeeps DEF Tick
<1>14. CASE UNCHANGED vars
  BY <1>14, <1>t, OtherKeeps DEF vars
<1> QED BY <1>1, <1>2, <1>3, <1>4, <1>5, <1>6, <1>7, <1>8, <1>9, <1>10, <1>11,
           <1>12, <1>13, <1>14 DEF Next, RequestStep

(* The approver's variables keep their types.                              *)
THEOREM ApproverTypeOK == Spec => []TypeOK
<1>1. ApproverInv => TypeOK BY DEF ApproverInv
<1> QED BY <1>1, InitInv, NextInv, PTL DEF Spec

(* A request that waits always has its sender in the slot or its answer on *)
(* the way, and what is in the slot is unanswered.                         *)
THEOREM ApproverNoLostRequest == Spec => []NoLostRequest
<1>1. ApproverInv => NoLostRequest BY DEF ApproverInv
<1> QED BY <1>1, InitInv, NextInv, PTL DEF Spec

(* Which steps tell a request something, and what.                         *)
LEMMA Tellers ==
  ASSUME ApproverInv, [Next]_vars
  PROVE  \/ chan' = chan
         \/ SendToPending("Approve") \/ SendToPending("Reject")
         \/ SendToPending("Timeout") /\ Overdue
BY DEF Next, vars, RequestStep, RequestReplace, RequestSchedule, RequestUnscheduled,
       RequestReturn, OnApprove, OnReject, RunClosure, TimeoutTake, TimeoutClear,
       CancelTake, CancelClear, TearDown, Tick

LEMMA OnlyPendingTold ==
  ASSUME ApproverInv, [Next]_vars, NEW r \in Reqs, chan'[r] # chan[r]
  PROVE  /\ r = slot.req /\ chan[r] = "none"
         /\ chan'[r] = "Timeout" => Overdue
<1>v. /\ "Approve" \in Verdicts /\ "Reject" \in Verdicts /\ "Timeout" \in Verdicts
  BY DEF Verdicts
<1>t. TypeOK BY DEF ApproverInv
<1>1. r = slot.req => chan[r] = "none"
  BY ApproverAssumption DEF ApproverInv, NoLostRequest
<1>2. CASE SendToPending("Approve")
  BY <1>1, <1>2, <1>t, <1>v, SendFacts
<1>3. CASE SendToPending("Reject")
  BY <1>1, <1>3, <1>t, <1>v, SendFacts
<1>4. CASE SendToPending("Timeout") /\ Overdue
  BY <1>1, <1>4, <1>t, <1>v, SendFacts
<1> QED BY <1>2, <1>3, <1>4, Tellers

(* Nobody is told Timeout before the full approval window has passed.      *)
THEOREM ApproverFullWindow == Spec => FullWindow
<1>1. ApproverInv /\ [Next]_vars =>
        [\A r \in Reqs : chan[r] = "none" /\ chan'[r] = "Timeout"
           => now >= askedAt[r] + APPROVAL_TIMEOUT]_vars
  <2> SUFFICES ASSUME ApproverInv, [Next]_vars, NEW r \in Reqs,
                      chan[r] = "none", chan'[r] = "Timeout"
               PROVE  now >= askedAt[r] + APPROVAL_TIMEOUT
    OBVIOUS
  <2>1. r = slot.req /\ Overdue BY OnlyPendingTold
  <2> QED BY <2>1 DEF Overdue, ApproverInv, OwnDeadline
<1> QED BY <1>1, InitInv, NextInv, PTL DEF Spec, FullWindow
-----------------------------------------------------------------------------
(* The refinement of the trait, its safety part: initial states map to     *)
(* initial states, and every step to Ask, to Answer or to a stutter.       *)
LEMMA StatusInit == Init => Trait!ApproverInit
BY DEF Init, Trait!ApproverInit, statusOf

LEMMA StatusStep == ApproverInv /\ [Next]_vars => [Trait!ApproverNext]_statusOf
<1> SUFFICES ASSUME ApproverInv, [Next]_vars PROVE [Trait!ApproverNext]_statusOf
  OBVIOUS
<1>t. /\ pc \in [Reqs -> {"new", "replaced", "waiting", "returned"}]
      /\ outcome \in [Reqs -> {"none"} \cup Verdicts]
      /\ chan \in [Reqs -> {"none"} \cup Verdicts]
  BY DEF ApproverInv, TypeOK
<1>1. ASSUME NEW r \in Reqs, RequestReplace(r) PROVE Trait!Ask(r)
  <2>1. pc[r] = "new" /\ pc' = [pc EXCEPT ![r] = "replaced"] /\ outcome' = outcome
    BY <1>1 DEF RequestReplace, MayStart
  <2> QED BY <1>t, <2>1 DEF Trait!Ask, statusOf
<1>2. ASSUME NEW r \in Reqs, RequestSchedule(r) PROVE statusOf' = statusOf
  <2>1. pc[r] = "replaced" /\ pc' = [pc EXCEPT ![r] = "waiting"] /\ outcome' = outcome
    BY <1>2 DEF RequestSchedule
  <2> QED BY <1>t, <2>1 DEF statusOf
<1>3. ASSUME NEW r \in Reqs, RequestUnscheduled(r) PROVE Trait!Answer(r, "Reject")
  <2>1. /\ pc[r] = "replaced" /\ pc' = [pc EXCEPT ![r] = "returned"]
        /\ outcome' = [outcome EXCEPT ![r] = "Reject"]
    BY <1>3 DEF RequestUnscheduled
  <2> QED BY <1>t, <2>1 DEF Trait!Answer, statusOf
<1>a. ASSUME NEW r \in Reqs, RequestReturn(r) PROVE chan[r] # "none"
  BY <1>a DEF RequestReturn, ApproverInv, NoLostRequest
<1>4. ASSUME NEW r \in Reqs, RequestReturn(r) PROVE Trait!Answer(r, chan[r])
  <2>1. /\ pc[r] = "waiting" /\ pc' = [pc EXCEPT ![r] = "returned"]
        /\ outcome' = [outcome EXCEPT ![r] = chan[r]]
    BY <1>4, <1>a DEF RequestReturn
  <2> QED BY <1>t, <2>1 DEF Trait!Answer, statusOf
<1>5. ASSUME NEW r \in Reqs, RequestReturn(r) PROVE chan[r] \in Trait!Decisions
  BY <1>5, <1>a, <1>t DEF Verdicts, Trait!Decisions
<1>6. CASE UNCHANGED <<pc, outcome>>
  BY <1>6 DEF statusOf
<1>7. \/ \E r \in Reqs : RequestStep(r)
      \/ UNCHANGED <<pc, outcome>>
  BY DEF Next, vars, OnApprove, OnReject, RunClosure, TimeoutTake, TimeoutClear,
         CancelTake, CancelClear, TearDown, Tick
<1> QED
  BY <1>1, <1>2, <1>3, <1>4, <1>5, <1>6, <1>7
  DEF RequestStep, Trait!ApproverNext, Trait!Decisions

(* The on-device approver keeps the safety half of the Approver trait: a   *)
(* request is asked once, answered once with a decision, and the answer    *)
(* does not change.                                                        *)
THEOREM ApproverImplementsTraitSafety ==
  Spec => Trait!ApproverInit /\ [][Trait!ApproverNext]_statusOf
BY StatusInit, StatusStep, InitInv, NextInv, PTL DEF Spec
=============================================================================
