---------------------------- MODULE SlintApprover ----------------------------
(***************************************************************************)
(* The on-device approver of src/main.rs: one shared slot for the pending  *)
(* approval, a oneshot channel per request, the approval card that the UI  *)
(* thread draws when it gets to the closures other threads queued, the     *)
(* Approve and Reject buttons, the timeout worker and cancel.              *)
(*                                                                         *)
(* Threads: the tasks that call request() and cancel_pending(), the        *)
(* timeout worker, and the UI thread, whose steps (a queued closure or a   *)
(* button) are each atomic with respect to one another.                    *)
(***************************************************************************)
EXTENDS Naturals, Sequences

CONSTANTS Reqs,             \* approval requests, each made once
          NoReq,            \* no request
          SingleFlight,     \* TRUE: WebUSB, the next request waits for the last
          APPROVAL_TIMEOUT, \* in ticks
          MaxTime,          \* bound on the clock
          MaxCancels,       \* bound on cancel_pending calls
          MayTearDown       \* whether the UI event loop may end

ASSUME ApproverAssumption ==
  /\ NoReq \notin Reqs
  /\ {SingleFlight, MayTearDown} \subseteq BOOLEAN
  /\ {APPROVAL_TIMEOUT, MaxTime, MaxCancels} \subseteq Nat

VARIABLES slot,     \* pending_tx: the pending request and its deadline
          chan,     \* what was sent to each request's oneshot receiver
          pc,       \* where each request() call is
          outcome,  \* what request() returned
          queue,    \* closures queued by invoke_from_event_loop
          card,     \* whose text Callbacks.approval holds
          pages,    \* approval pages on the navigation stack
          worker,   \* the timeout worker
          canceller,\* the task inside cancel_pending
          cancels,  \* calls of cancel_pending so far
          alive,    \* the event loop runs
          now,
          seenOn,   \* history: the card on screen when Approve was tapped
          askedAt   \* history: when each request took the slot

vars == <<slot, chan, pc, outcome, queue, card, pages, worker, canceller,
          cancels, alive, now, seenOn, askedAt>>

Empty == [req |-> NoReq, deadline |-> 0]

Init == /\ slot = Empty
        /\ chan = [r \in Reqs |-> "none"]
        /\ pc = [r \in Reqs |-> "new"]
        /\ outcome = [r \in Reqs |-> "none"]
        /\ queue = <<>> /\ card = NoReq /\ pages = 0
        /\ worker = "poll" /\ canceller = "idle" /\ cancels = 0
        /\ alive = TRUE /\ now = 0
        /\ seenOn = [r \in Reqs |-> NoReq]
        /\ askedAt = [r \in Reqs |-> 0]

(* The oneshot channel: a value sent to the request in the slot, if any.   *)
SendToPending(v) ==
  chan' = IF slot.req = NoReq THEN chan ELSE [chan EXCEPT ![slot.req] = v]

MayStart(r) == /\ pc[r] = "new"
               /\ now + APPROVAL_TIMEOUT <= MaxTime
               /\ SingleFlight => \A q \in Reqs : pc[q] \in {"new", "returned"}

(* Mutant: the new request inherits the deadline of the one it replaces.   *)
RequestReplaceOldDeadline(r) ==
  /\ MayStart(r)
  /\ SendToPending("Reject")
  /\ slot' = [req |-> r, deadline |-> IF slot.req = NoReq THEN now + APPROVAL_TIMEOUT
                                      ELSE slot.deadline]
  /\ pc' = [pc EXCEPT ![r] = "replaced"]
  /\ askedAt' = [askedAt EXCEPT ![r] = now]
  /\ UNCHANGED <<outcome, queue, card, pages, worker, canceller, cancels, alive,
                 now, seenOn>>

(* request(), up to the release of the slot lock: the new request replaces *)
(* the old one, which is told Reject.                                      *)
RequestReplace(r) ==
  /\ MayStart(r)
  /\ SendToPending("Reject")
  /\ slot' = [req |-> r, deadline |-> now + APPROVAL_TIMEOUT]
  /\ pc' = [pc EXCEPT ![r] = "replaced"]
  /\ askedAt' = [askedAt EXCEPT ![r] = now]
  /\ UNCHANGED <<outcome, queue, card, pages, worker, canceller, cancels, alive,
                 now, seenOn>>

(* invoke_from_event_loop succeeds: the card is drawn later.               *)
RequestSchedule(r) ==
  /\ pc[r] = "replaced" /\ alive
  /\ queue' = Append(queue, [op |-> "show", req |-> r])
  /\ pc' = [pc EXCEPT ![r] = "waiting"]
  /\ UNCHANGED <<slot, chan, outcome, card, pages, worker, canceller, cancels,
                 alive, now, seenOn, askedAt>>

(* invoke_from_event_loop fails: the slot is emptied if it is still ours,  *)
(* which drops our sender, and the answer is Reject.                       *)
RequestUnscheduled(r) ==
  /\ pc[r] = "replaced" /\ ~alive
  /\ slot' = IF slot.req = r THEN Empty ELSE slot
  /\ pc' = [pc EXCEPT ![r] = "returned"]
  /\ outcome' = [outcome EXCEPT ![r] = "Reject"]
  /\ UNCHANGED <<chan, queue, card, pages, worker, canceller, cancels, alive, now,
                 seenOn, askedAt>>

(* rx.await yields: the decision, or, if the sender is gone without having *)
(* sent one, Reject.                                                       *)
RequestReturn(r) ==
  /\ pc[r] = "waiting" /\ (chan[r] # "none" \/ slot.req # r)
  /\ outcome' = [outcome EXCEPT ![r] = IF chan[r] = "none" THEN "Reject" ELSE chan[r]]
  /\ pc' = [pc EXCEPT ![r] = "returned"]
  /\ UNCHANGED <<slot, chan, queue, card, pages, worker, canceller, cancels, alive,
                 now, seenOn, askedAt>>

(* Mutant: backward on the main page is not a no-op.                       *)
BackwardUnguarded == pages' = pages - 1

(* Navigate.backward, as the approval code uses it: one page is left.      *)
Backward == pages' = IF pages > 0 THEN pages - 1 ELSE 0

(* on_approve: whatever is in the slot is approved; clear; go back.        *)
OnApprove ==
  /\ alive /\ pages > 0
  /\ SendToPending("Approve")
  /\ seenOn' = IF slot.req = NoReq THEN seenOn ELSE [seenOn EXCEPT ![slot.req] = card]
  /\ slot' = Empty
  /\ Backward
  /\ UNCHANGED <<pc, outcome, queue, card, worker, canceller, cancels, alive, now,
                 askedAt>>

OnReject ==
  /\ alive /\ pages > 0
  /\ SendToPending("Reject")
  /\ slot' = Empty
  /\ Backward
  /\ UNCHANGED <<pc, outcome, queue, card, worker, canceller, cancels, alive, now,
                 seenOn, askedAt>>

(* The UI thread runs the oldest queued closure: it draws the card and     *)
(* navigates to it, or goes back.                                          *)
RunClosure ==
  /\ alive /\ queue # <<>>
  /\ queue' = Tail(queue)
  /\ \/ /\ Head(queue).op = "show"
        /\ card' = Head(queue).req
        /\ pages' = pages + 1
     \/ /\ Head(queue).op = "clear"
        /\ Backward
        /\ UNCHANGED card
  /\ UNCHANGED <<slot, chan, pc, outcome, worker, canceller, cancels, alive, now,
                 seenOn, askedAt>>

PostClear == queue' = IF alive THEN Append(queue, [op |-> "clear", req |-> NoReq])
                      ELSE queue

(* Mutant: the worker only times out an approval whose card is up.         *)
OverdueOnScreen == slot.req # NoReq /\ now >= slot.deadline /\ card = slot.req

Overdue == slot.req # NoReq /\ now >= slot.deadline

(* The timeout worker, under the slot lock: a pending approval past its    *)
(* deadline is taken out and told Timeout.                                 *)
TimeoutTake ==
  /\ worker = "poll" /\ Overdue
  /\ SendToPending("Timeout")
  /\ slot' = Empty
  /\ worker' = "took"
  /\ UNCHANGED <<pc, outcome, queue, card, pages, canceller, cancels, alive, now,
                 seenOn, askedAt>>

(* Mutant: the worker ends when it finds the event loop gone.              *)
TimeoutClearOrEnd ==
  /\ worker = "took"
  /\ PostClear
  /\ worker' = IF alive THEN "poll" ELSE "took"
  /\ UNCHANGED <<slot, chan, pc, outcome, card, pages, canceller, cancels, alive, now,
                 seenOn, askedAt>>

(* ... and, the lock released, it queues the closure that clears the card. *)
TimeoutClear ==
  /\ worker = "took"
  /\ PostClear
  /\ worker' = "poll"
  /\ UNCHANGED <<slot, chan, pc, outcome, card, pages, canceller, cancels, alive, now,
                 seenOn, askedAt>>

(* Mutant: cancel takes the sender and drops it without an answer.         *)
CancelTakeSilent ==
  /\ canceller = "idle" /\ cancels < MaxCancels
  /\ cancels' = cancels + 1
  /\ slot' = Empty
  /\ canceller' = IF slot.req = NoReq THEN "idle" ELSE "took"
  /\ UNCHANGED <<chan, pc, outcome, queue, card, pages, worker, alive, now, seenOn,
                 askedAt>>

(* cancel_pending, likewise in two steps.  A single-flight dispatcher gets *)
(* to the cancel request only when no other request is being handled.      *)
CancelTake ==
  /\ canceller = "idle" /\ cancels < MaxCancels
  /\ SingleFlight => \A q \in Reqs : pc[q] \in {"new", "returned"}
  /\ cancels' = cancels + 1
  /\ SendToPending("Reject")
  /\ slot' = Empty
  /\ canceller' = IF slot.req = NoReq THEN "idle" ELSE "took"
  /\ UNCHANGED <<pc, outcome, queue, card, pages, worker, alive, now, seenOn, askedAt>>

CancelClear ==
  /\ canceller = "took"
  /\ PostClear
  /\ canceller' = "idle"
  /\ UNCHANGED <<slot, chan, pc, outcome, card, pages, worker, cancels, alive, now,
                 seenOn, askedAt>>

TearDown == /\ MayTearDown /\ alive
            /\ alive' = FALSE
            /\ UNCHANGED <<slot, chan, pc, outcome, queue, card, pages, worker,
                           canceller, cancels, now, seenOn, askedAt>>

Tick == /\ now < MaxTime
        /\ now' = now + 1
        /\ UNCHANGED <<slot, chan, pc, outcome, queue, card, pages, worker, canceller,
                       cancels, alive, seenOn, askedAt>>

RequestStep(r) == \/ RequestReplace(r) \/ RequestSchedule(r)
                  \/ RequestUnscheduled(r) \/ RequestReturn(r)

Next == \/ \E r \in Reqs : RequestStep(r)
        \/ OnApprove \/ OnReject \/ RunClosure
        \/ TimeoutTake \/ TimeoutClear
        \/ CancelTake \/ CancelClear
        \/ TearDown \/ Tick

(* The threads are scheduled and time passes; nobody has to tap, to cancel *)
(* or to make a request.  The UI thread need not even run its closures.    *)
Fairness == /\ \A r \in Reqs : /\ WF_vars(RequestSchedule(r))
                               /\ WF_vars(RequestUnscheduled(r))
                               /\ WF_vars(RequestReturn(r))
            /\ WF_vars(TimeoutTake) /\ WF_vars(TimeoutClear)
            /\ WF_vars(Tick)

Spec == Init /\ [][Next]_vars /\ Fairness
-----------------------------------------------------------------------------
Verdicts == {"Approve", "Reject", "Timeout"}

Closures == [op : {"show"}, req : Reqs] \cup [op : {"clear"}, req : {NoReq}]

TypeOK ==
  /\ slot \in [req : Reqs \cup {NoReq}, deadline : Nat]
  /\ chan \in [Reqs -> {"none"} \cup Verdicts]
  /\ pc \in [Reqs -> {"new", "replaced", "waiting", "returned"}]
  /\ outcome \in [Reqs -> {"none"} \cup Verdicts]
  /\ queue \in Seq(Closures)
  /\ card \in Reqs \cup {NoReq}
  /\ pages \in Nat
  /\ worker \in {"poll", "took"} /\ canceller \in {"idle", "took"}
  /\ cancels \in Nat /\ alive \in BOOLEAN /\ now \in Nat
  /\ seenOn \in [Reqs -> Reqs \cup {NoReq}]
  /\ askedAt \in [Reqs -> Nat]

(* A request that waits can still be answered: its sender is in the slot,  *)
(* or its answer is on the way.  And what is in the slot is unanswered, so *)
(* no tap, timeout or cancel ever reaches a request that already has its   *)
(* decision (main.rs: every path takes the sender out under the lock).     *)
NoLostRequest ==
  /\ \A r \in Reqs : pc[r] \in {"replaced", "waiting"}
                      => slot.req = r \/ chan[r] # "none"
  /\ slot.req # NoReq => /\ chan[slot.req] = "none"
                         /\ pc[slot.req] \in {"replaced", "waiting"}

(* Nobody is told Timeout before the whole approval window has passed      *)
(* since the request took the slot, however often the slot changed hands.  *)
FullWindow ==
  [][\A r \in Reqs : chan[r] = "none" /\ chan'[r] = "Timeout"
        => now >= askedAt[r] + APPROVAL_TIMEOUT]_vars

(* A request is approved only if the device owner tapped Approve on a card *)
(* that was drawn for that request (README.md: "The extension can only     *)
(* ever obtain a credential the device owner explicitly approved").        *)
ApprovedWasShown == \A r \in Reqs : chan[r] = "Approve" => seenOn[r] = r

(* Every request() call returns, even if the user walks away or the UI     *)
(* ends (TESTING.md: "Leaving an approval pending returns `timeout`").     *)
EveryRequestAnswered == \A r \in Reqs : pc[r] = "replaced" ~> pc[r] = "returned"

(* The approver keeps the promise of the trait: asked once, answered once, *)
(* always answered.                                                        *)
statusOf == [r \in Reqs |-> CASE pc[r] = "new" -> "new"
                              [] pc[r] = "returned" -> outcome[r]
                              [] OTHER -> "waiting"]

Trait == INSTANCE Approver WITH status <- statusOf

ImplementsTrait == Trait!ApproverSpec
=============================================================================
