---------------------------- MODULE ListViewProofs ----------------------------
(***************************************************************************)
(* Proofs about ListView, for any number of engine threads, changes and    *)
(* filters: the mutexes of the app cannot deadlock, and the list at rest   *)
(* shows the vault.  Both rest on an annotation of the threads' programs:  *)
(* which mutexes are held at a point, and whether somebody still has to be *)
(* shown something.                                                        *)
(***************************************************************************)
EXTENDS ListView, TLAPS

(* The order in which the mutexes are taken.                               *)
Rank == [l \in Locks |-> IF l = "pending" THEN 0 ELSE IF l = "state" THEN 1
                         ELSE IF l = "keystore" THEN 2 ELSE 3]

(* At a point of its program a thread holds some mutexes and has a duty:   *)
(* none; to put its snapshot back if the write fails; or to draw the list, *)
(* post a refresh or roll back, come what may.                             *)
Points == [held : SUBSET Locks, duty : {"none", "undo", "show"}]

Ops == {"lock", "unlock", "mutate", "batch", "take", "write", "filter", "render", "post",
        "rollback"}
Steps == Ops \X (Locks \cup {""})

(* What step s of thread t does to the mutexes it holds: they are taken in *)
(* the order of Rank and the records touched only under the keystore's.    *)
FitsHeld(s, a, b) ==
  /\ s[1] = "lock" => /\ s[2] \in Locks /\ s[2] \notin a.held
                      /\ b.held = a.held \cup {s[2]}
                      /\ \A m \in a.held : Rank[m] < Rank[s[2]]
  /\ s[1] = "unlock" => s[2] \in a.held /\ b.held = a.held \ {s[2]}
  /\ s[1] \notin {"lock", "unlock"} => b.held = a.held
  /\ s[1] \in {"mutate", "batch", "write", "rollback", "render"} => "keystore" \in a.held
  /\ s[1] = "batch" => a.held = {"keystore"}

(* ... and op to its duty.  Only the UI draws, only an engine posts.       *)
Duty(t, op, d, e) ==
  /\ op \in {"lock", "unlock"} => e = d
  /\ op = "take" => t = UI /\ d = "none" /\ e = "none"
  /\ op \in {"mutate", "batch"} => d = "none" /\ e = IF t = UI THEN "undo" ELSE "show"
  /\ op = "batch" => t = UI
  /\ op = "write" => d = (IF t = UI THEN "undo" ELSE "show") /\ e = "show"
  /\ op = "filter" => t = UI /\ d = "none" /\ e = "show"
  /\ op = "render" => t = UI /\ d = "show" /\ e = "none"
  /\ op \in {"post", "rollback"} => t # UI /\ d = "show" /\ e = "none"

Fits(t, s, a, b) == FitsHeld(s, a, b) /\ Duty(t, s[1], a.duty, b.duty)

Annotated(t, p, h) ==
  /\ h \in [1..(Len(p) + 1) -> Points]
  /\ \A i \in 1..Len(p) : Fits(t, p[i], h[i], h[i + 1])

(* Thread t can run p from point a to point b.                             *)
Runs(t, p, a, b) == /\ p \in Seq(Steps)
                    /\ \E h : Annotated(t, p, h) /\ h[1] = a /\ h[Len(p) + 1] = b

Point(held, duty) == [held |-> held, duty |-> duty]
Rest == Point({}, "none")

LEMMA PointsArePoints ==
  ASSUME NEW H \in SUBSET Locks, NEW d \in {"none", "undo", "show"}
  PROVE  /\ Point(H, d) \in Points /\ Point(H, d).held = H /\ Point(H, d).duty = d
BY DEF Point, Points

LEMMA StepsAreSteps ==
  /\ \A l \in Locks : /\ Lock(l) \in Steps /\ Lock(l)[1] = "lock" /\ Lock(l)[2] = l
                      /\ Unlock(l) \in Steps /\ Unlock(l)[1] = "unlock" /\ Unlock(l)[2] = l
  /\ \A op \in Ops : Do(op) \in Steps /\ Do(op)[1] = op /\ Do(op)[2] = ""
<1>1. {"lock", "unlock"} \subseteq Ops BY DEF Ops
<1> QED BY <1>1 DEF Steps, Lock, Unlock, Do

(* Sequential composition.                                                 *)
LEMMA RunsConcat ==
  ASSUME NEW t, NEW p, NEW q, NEW a, NEW b, NEW c, Runs(t, p, a, b), Runs(t, q, b, c)
  PROVE  Runs(t, p \o q, a, c)
<1>1. PICK h : Annotated(t, p, h) /\ h[1] = a /\ h[Len(p) + 1] = b BY DEF Runs
<1>2. PICK g : Annotated(t, q, g) /\ g[1] = b /\ g[Len(q) + 1] = c BY DEF Runs
<1>3. p \in Seq(Steps) /\ q \in Seq(Steps) BY DEF Runs
<1> DEFINE r == p \o q
           k == [i \in 1..(Len(p) + Len(q) + 1) |-> IF i <= Len(p) THEN h[i] ELSE g[i - Len(p)]]
<1>4. /\ r \in Seq(Steps) /\ Len(r) = Len(p) + Len(q) /\ Len(p) \in Nat /\ Len(q) \in Nat
      /\ \A i \in 1..Len(p) : r[i] = p[i]
      /\ \A i \in 1..Len(q) : r[Len(p) + i] = q[i]
  BY <1>3
<1> HIDE DEF r
<1>5. /\ h \in [1..(Len(p) + 1) -> Points] /\ g \in [1..(Len(q) + 1) -> Points]
      /\ \A i \in 1..Len(p) : Fits(t, p[i], h[i], h[i + 1])
      /\ \A i \in 1..Len(q) : Fits(t, q[i], g[i], g[i + 1])
  BY <1>1, <1>2 DEF Annotated
<1>6. k \in [1..(Len(r) + 1) -> Points]
  BY <1>4, <1>5
<1>7. /\ \A i \in 1..(Len(p) + 1) : k[i] = h[i]
      /\ \A i \in 1..(Len(q) + 1) : k[Len(p) + i] = g[i]
  BY <1>1, <1>2, <1>4, <1>5
<1> HIDE DEF k
<1>8. ASSUME NEW i \in 1..Len(r) PROVE Fits(t, r[i], k[i], k[i + 1])
  <2>1. CASE i \in 1..Len(p)
    BY <2>1, <1>4, <1>5, <1>7
  <2>2. CASE i \notin 1..Len(p)
    <3>1. PICK j \in 1..Len(q) : i = Len(p) + j
      <4>1. i - Len(p) \in 1..Len(q) /\ i = Len(p) + (i - Len(p)) BY <2>2, <1>4
      <4> QED BY <4>1
    <3>2. r[i] = q[j] /\ k[i] = g[j] /\ k[i + 1] = g[j + 1]
      BY <3>1, <1>4, <1>7
    <3> QED BY <3>2, <1>5
  <2> QED BY <2>1, <2>2
<1>9. k[1] = a /\ k[Len(r) + 1] = c
  BY <1>1, <1>2, <1>4, <1>7
<1>10. Annotated(t, r, k) BY <1>6, <1>8 DEF Annotated
<1> QED BY <1>4, <1>9, <1>10 DEF Runs, r

LEMMA RunsOne ==
  ASSUME NEW t, NEW s1 \in Steps,
         NEW a0 \in Points, NEW a1 \in Points,
         Fits(t, s1, a0, a1)
  PROVE  Runs(t, <<s1>>, a0, a1)
<1> DEFINE h == <<a0, a1>>
           p == <<s1>>
<1>1. p \in Seq(Steps) /\ Len(p) = 1 /\ p[1] = s1 OBVIOUS
<1>2. h \in [1..2 -> Points] /\ h[1] = a0 /\ h[2] = a1 OBVIOUS
<1> HIDE DEF h, p
<1>3. Annotated(t, p, h) BY <1>1, <1>2 DEF Annotated
<1>4. Runs(t, p, a0, a1) BY <1>1, <1>2, <1>3 DEF Runs
<1> QED BY <1>4 DEF p

LEMMA RunsTwo ==
  ASSUME NEW t, NEW s1 \in Steps, NEW s2 \in Steps,
         NEW a0 \in Points, NEW a1 \in Points, NEW a2 \in Points,
         Fits(t, s1, a0, a1), Fits(t, s2, a1, a2)
  PROVE  Runs(t, <<s1, s2>>, a0, a2)
<1> DEFINE h == <<a0, a1, a2>>
           p == <<s1, s2>>
<1>1. p \in Seq(Steps) /\ Len(p) = 2 /\ p[1] = s1 /\ p[2] = s2 OBVIOUS
<1>2. h \in [1..3 -> Points] /\ h[1] = a0 /\ h[2] = a1 /\ h[3] = a2 OBVIOUS
<1> HIDE DEF h, p
<1>3. Annotated(t, p, h) BY <1>1, <1>2 DEF Annotated
<1>4. Runs(t, p, a0, a2) BY <1>1, <1>2, <1>3 DEF Runs
<1> QED BY <1>4 DEF p

LEMMA RunsThree ==
  ASSUME NEW t, NEW s1 \in Steps, NEW s2 \in Steps, NEW s3 \in Steps,
         NEW a0 \in Points, NEW a1 \in Points, NEW a2 \in Points, NEW a3 \in Points,
         Fits(t, s1, a0, a1), Fits(t, s2, a1, a2), Fits(t, s3, a2, a3)
  PROVE  Runs(t, <<s1, s2, s3>>, a0, a3)
<1> DEFINE h == <<a0, a1, a2, a3>>
           p == <<s1, s2, s3>>
<1>1. p \in Seq(Steps) /\ Len(p) = 3 /\ p[1] = s1 /\ p[2] = s2 /\ p[3] = s3 OBVIOUS
<1>2. h \in [1..4 -> Points] /\ h[1] = a0 /\ h[2] = a1 /\ h[3] = a2 /\ h[4] = a3 OBVIOUS
<1> HIDE DEF h, p
<1>3. Annotated(t, p, h) BY <1>1, <1>2 DEF Annotated
<1>4. Runs(t, p, a0, a3) BY <1>1, <1>2, <1>3 DEF Runs
<1> QED BY <1>4 DEF p

LEMMA RunsFour ==
  ASSUME NEW t, NEW s1 \in Steps, NEW s2 \in Steps, NEW s3 \in Steps, NEW s4 \in Steps,
         NEW a0 \in Points, NEW a1 \in Points, NEW a2 \in Points, NEW a3 \in Points, NEW a4 \in Points,
         Fits(t, s1, a0, a1), Fits(t, s2, a1, a2), Fits(t, s3, a2, a3), Fits(t, s4, a3, a4)
  PROVE  Runs(t, <<s1, s2, s3, s4>>, a0, a4)
<1> DEFINE h == <<a0, a1, a2, a3, a4>>
           p == <<s1, s2, s3, s4>>
<1>1. p \in Seq(Steps) /\ Len(p) = 4 /\ p[1] = s1 /\ p[2] = s2 /\ p[3] = s3 /\ p[4] = s4 OBVIOUS
<1>2. h \in [1..5 -> Points] /\ h[1] = a0 /\ h[2] = a1 /\ h[3] = a2 /\ h[4] = a3 /\ h[5] = a4 OBVIOUS
<1> HIDE DEF h, p
<1>3. Annotated(t, p, h) BY <1>1, <1>2 DEF Annotated
<1>4. Runs(t, p, a0, a4) BY <1>1, <1>2, <1>3 DEF Runs
<1> QED BY <1>4 DEF p

LEMMA RunsFive ==
  ASSUME NEW t, NEW s1 \in Steps, NEW s2 \in Steps, NEW s3 \in Steps, NEW s4 \in Steps, NEW s5 \in Steps,
         NEW a0 \in Points, NEW a1 \in Points, NEW a2 \in Points, NEW a3 \in Points, NEW a4 \in Points, NEW a5 \in Points,
         Fits(t, s1, a0, a1), Fits(t, s2, a1, a2), Fits(t, s3, a2, a3), Fits(t, s4, a3, a4), Fits(t, s5, a4, a5)
  PROVE  Runs(t, <<s1, s2, s3, s4, s5>>, a0, a5)
<1> DEFINE h == <<a0, a1, a2, a3, a4, a5>>
           p == <<s1, s2, s3, s4, s5>>
<1>1. p \in Seq(Steps) /\ Len(p) = 5 /\ p[1] = s1 /\ p[2] = s2 /\ p[3] = s3 /\ p[4] = s4 /\ p[5] = s5 OBVIOUS
<1>2. h \in [1..6 -> Points] /\ h[1] = a0 /\ h[2] = a1 /\ h[3] = a2 /\ h[4] = a3 /\ h[5] = a4 /\ h[6] = a5 OBVIOUS
<1> HIDE DEF h, p
<1>3. Annotated(t, p, h) BY <1>1, <1>2 DEF Annotated
<1>4. Runs(t, p, a0, a5) BY <1>1, <1>2, <1>3 DEF Runs
<1> QED BY <1>4 DEF p

LEMMA LockFits ==
  ASSUME NEW t, NEW l \in Locks, NEW H \in SUBSET Locks, NEW K \in SUBSET Locks,
         NEW d \in {"none", "undo", "show"},
         l \notin H, K = H \cup {l}, \A m \in H : Rank[m] < Rank[l]
  PROVE  Fits(t, Lock(l), Point(H, d), Point(K, d))
<1> DEFINE s == Lock(l)
           a == Point(H, d)
           b == Point(K, d)
<1>1. s[1] = "lock" /\ s[2] = l BY StepsAreSteps
<1>2. a.held = H /\ a.duty = d /\ b.held = K /\ b.duty = d BY PointsArePoints
<1> HIDE DEF s, a, b
<1>3. FitsHeld(s, a, b) BY <1>1, <1>2 DEF FitsHeld
<1>4. Duty(t, s[1], a.duty, b.duty) BY <1>1, <1>2 DEF Duty
<1>5. Fits(t, s, a, b) BY <1>3, <1>4 DEF Fits
<1> QED BY <1>5 DEF s, a, b

LEMMA UnlockFits ==
  ASSUME NEW t, NEW l \in Locks, NEW H \in SUBSET Locks, NEW K \in SUBSET Locks,
         NEW d \in {"none", "undo", "show"}, l \in H, K = H \ {l}
  PROVE  Fits(t, Unlock(l), Point(H, d), Point(K, d))
<1> DEFINE s == Unlock(l)
           a == Point(H, d)
           b == Point(K, d)
<1>1. s[1] = "unlock" /\ s[2] = l BY StepsAreSteps
<1>2. a.held = H /\ a.duty = d /\ b.held = K /\ b.duty = d BY PointsArePoints
<1> HIDE DEF s, a, b
<1>3. FitsHeld(s, a, b) BY <1>1, <1>2 DEF FitsHeld
<1>4. Duty(t, s[1], a.duty, b.duty) BY <1>1, <1>2 DEF Duty
<1>5. Fits(t, s, a, b) BY <1>3, <1>4 DEF Fits
<1> QED BY <1>5 DEF s, a, b

LEMMA DoFits ==
  ASSUME NEW t, NEW op \in Ops \ {"lock", "unlock"}, NEW H \in SUBSET Locks,
         NEW d \in {"none", "undo", "show"}, NEW e \in {"none", "undo", "show"},
         op \in {"mutate", "batch", "write", "rollback", "render"} => "keystore" \in H,
         op = "batch" => H = {"keystore"}, Duty(t, op, d, e)
  PROVE  Fits(t, Do(op), Point(H, d), Point(H, e))
<1> DEFINE s == Do(op)
           a == Point(H, d)
           b == Point(H, e)
<1>1. s[1] = op BY StepsAreSteps
<1>2. a.held = H /\ a.duty = d /\ b.held = H /\ b.duty = e BY PointsArePoints
<1> HIDE DEF s, a, b
<1>3. FitsHeld(s, a, b) BY <1>1, <1>2 DEF FitsHeld
<1>5. Fits(t, s, a, b) BY <1>1, <1>2, <1>3 DEF Fits
<1> QED BY <1>5 DEF s, a, b

(* The steps the programs are made of.                                     *)
LEMMA TheSteps ==
  /\ \A l \in {"state", "keystore", "store", "pending"} : Lock(l) \in Steps /\ Unlock(l) \in Steps
  /\ \A op \in {"take", "filter", "mutate", "write", "render", "batch", "post", "rollback"} :
       Do(op) \in Steps
BY StepsAreSteps DEF Locks, Ops

LEMMA LocksInOrder == /\ Locks = {"state", "keystore", "store", "pending"}
                      /\ Rank["pending"] < Rank["state"] /\ Rank["state"] < Rank["keystore"]
                      /\ Rank["keystore"] < Rank["store"]
BY DEF Locks, Rank

(* Each program of the app takes and releases its mutexes in order and     *)
(* ends at rest, whatever it owes having been done.                        *)
LEMMA RefreshRuns == Runs(UI, Refresh, Point({}, "show"), Rest)
<1> USE LocksInOrder
<1>1. Fits(UI, Lock("state"), Point({}, "show"), Point({"state"}, "show"))
  BY LockFits
<1>2. Fits(UI, Lock("keystore"), Point({"state"}, "show"), Point({"state", "keystore"}, "show"))
  BY LockFits
<1>3. Fits(UI, Do("render"), Point({"state", "keystore"}, "show"), Point({"state", "keystore"}, "none"))
  BY DoFits DEF Duty, Ops
<1>4. Fits(UI, Unlock("keystore"), Point({"state", "keystore"}, "none"), Point({"state"}, "none"))
  BY UnlockFits
<1>5. Fits(UI, Unlock("state"), Point({"state"}, "none"), Rest)
  BY UnlockFits DEF Rest
<1>6. {Point({}, "show"),
          Point({"state"}, "show"),
          Point({"state", "keystore"}, "show"),
          Point({"state", "keystore"}, "none"),
          Point({"state"}, "none"),
          Rest} \subseteq Points
  BY PointsArePoints DEF Rest
<1>7. {Lock("state"), Lock("keystore"), Do("render"), Unlock("keystore"), Unlock("state")} \subseteq Steps
  BY TheSteps
<1> QED BY <1>1, <1>2, <1>3, <1>4, <1>5, <1>6, <1>7, RunsFive DEF Refresh

LEMMA UIPersists == Runs(UI, PersistKeystore, Point({"keystore"}, "undo"), Point({"keystore"}, "show"))
<1> USE LocksInOrder
<1>1. Fits(UI, Lock("store"), Point({"keystore"}, "undo"), Point({"keystore", "store"}, "undo"))
  BY LockFits
<1>2. Fits(UI, Do("write"), Point({"keystore", "store"}, "undo"), Point({"keystore", "store"}, "show"))
  BY DoFits DEF Duty, Ops
<1>3. Fits(UI, Unlock("store"), Point({"keystore", "store"}, "show"), Point({"keystore"}, "show"))
  BY UnlockFits
<1>4. {Point({"keystore"}, "undo"),
          Point({"keystore", "store"}, "undo"),
          Point({"keystore", "store"}, "show"),
          Point({"keystore"}, "show")} \subseteq Points
  BY PointsArePoints
<1>5. {Lock("store"), Do("write"), Unlock("store")} \subseteq Steps BY TheSteps
<1> QED BY <1>1, <1>2, <1>3, <1>4, <1>5, RunsThree DEF PersistKeystore

LEMMA EnginePersists ==
  ASSUME NEW t, t # UI
  PROVE  Runs(t, PersistKeystore, Point({"keystore"}, "show"), Point({"keystore"}, "show"))
<1> USE LocksInOrder
<1>1. Fits(t, Lock("store"), Point({"keystore"}, "show"), Point({"keystore", "store"}, "show"))
  BY LockFits
<1>2. Fits(t, Do("write"), Point({"keystore", "store"}, "show"), Point({"keystore", "store"}, "show"))
  BY DoFits DEF Duty, Ops
<1>3. Fits(t, Unlock("store"), Point({"keystore", "store"}, "show"), Point({"keystore"}, "show"))
  BY UnlockFits
<1>4. {Point({"keystore"}, "show"), Point({"keystore", "store"}, "show")} \subseteq Points
  BY PointsArePoints
<1>5. {Lock("store"), Do("write"), Unlock("store")} \subseteq Steps BY TheSteps
<1> QED BY <1>1, <1>2, <1>3, <1>4, <1>5, RunsThree DEF PersistKeystore

LEMMA ReleaseRuns == Runs(UI, <<Unlock("keystore")>>, Point({"keystore"}, "show"), Point({}, "show"))
<1> USE LocksInOrder
<1>1. Fits(UI, Unlock("keystore"), Point({"keystore"}, "show"), Point({}, "show"))
  BY UnlockFits
<1>2. {Point({"keystore"}, "show"), Point({}, "show")} \subseteq Points
  BY PointsArePoints
<1>3. {Unlock("keystore")} \subseteq Steps BY TheSteps
<1> QED BY <1>1, <1>2, <1>3, RunsOne

LEMMA SkippedRuns == Runs(UI, <<Unlock("keystore")>> \o Refresh, Point({"keystore"}, "show"), Rest)
BY ReleaseRuns, RefreshRuns, RunsConcat

LEMMA MutateRuns == Runs(UI, <<Lock("keystore"), Do("mutate")>>, Rest, Point({"keystore"}, "undo"))
<1> USE LocksInOrder
<1>1. Fits(UI, Lock("keystore"), Rest, Point({"keystore"}, "none"))
  BY LockFits DEF Rest
<1>2. Fits(UI, Do("mutate"), Point({"keystore"}, "none"), Point({"keystore"}, "undo"))
  BY DoFits DEF Duty, Ops
<1>3. {Rest, Point({"keystore"}, "none"), Point({"keystore"}, "undo")} \subseteq Points
  BY PointsArePoints DEF Rest
<1>4. {Lock("keystore"), Do("mutate")} \subseteq Steps BY TheSteps
<1> QED BY <1>1, <1>2, <1>3, <1>4, RunsTwo

LEMMA ChangeRuns == Runs(UI, Change, Rest, Rest)
<1> DEFINE m == <<Lock("keystore"), Do("mutate")>>
           u == <<Unlock("keystore")>>
<1>1. Runs(UI, m, Rest, Point({"keystore"}, "undo")) BY MutateRuns
<1>2. Runs(UI, u, Point({"keystore"}, "show"), Point({}, "show")) BY ReleaseRuns
<1> HIDE DEF m, u
<1>3. Runs(UI, m \o PersistKeystore, Rest, Point({"keystore"}, "show"))
  BY <1>1, UIPersists, RunsConcat
<1>4. Runs(UI, (m \o PersistKeystore) \o u, Rest, Point({}, "show")) BY <1>2, <1>3, RunsConcat
<1>5. Runs(UI, ((m \o PersistKeystore) \o u) \o Refresh, Rest, Rest)
  BY <1>4, RefreshRuns, RunsConcat
<1> QED BY <1>5 DEF Change, m, u

LEMMA TakeRuns == Runs(UI, <<Lock("pending"), Do("take"), Unlock("pending"), Lock("keystore"), Do("batch")>>, Rest, Point({"keystore"}, "undo"))
<1> USE LocksInOrder
<1>1. Fits(UI, Lock("pending"), Rest, Point({"pending"}, "none"))
  BY LockFits DEF Rest
<1>2. Fits(UI, Do("take"), Point({"pending"}, "none"), Point({"pending"}, "none"))
  BY DoFits DEF Duty, Ops
<1>3. Fits(UI, Unlock("pending"), Point({"pending"}, "none"), Rest)
  BY UnlockFits DEF Rest
<1>4. Fits(UI, Lock("keystore"), Rest, Point({"keystore"}, "none"))
  BY LockFits DEF Rest
<1>5. Fits(UI, Do("batch"), Point({"keystore"}, "none"), Point({"keystore"}, "undo"))
  BY DoFits DEF Duty, Ops
<1>6. {Rest,
          Point({"pending"}, "none"),
          Point({"keystore"}, "none"),
          Point({"keystore"}, "undo")} \subseteq Points
  BY PointsArePoints DEF Rest
<1>7. {Lock("pending"), Do("take"), Unlock("pending"), Lock("keystore"), Do("batch")} \subseteq Steps
  BY TheSteps
<1> QED BY <1>1, <1>2, <1>3, <1>4, <1>5, <1>6, <1>7, RunsFive

LEMMA ConfirmRuns == Runs(UI, Confirm, Rest, Rest)
<1> DEFINE m == <<Lock("pending"), Do("take"), Unlock("pending"), Lock("keystore"), Do("batch")>>
           u == <<Unlock("keystore")>>
<1>1. Runs(UI, m, Rest, Point({"keystore"}, "undo")) BY TakeRuns
<1>2. Runs(UI, u, Point({"keystore"}, "show"), Point({}, "show")) BY ReleaseRuns
<1> HIDE DEF m, u
<1>3. Runs(UI, m \o PersistKeystore, Rest, Point({"keystore"}, "show"))
  BY <1>1, UIPersists, RunsConcat
<1>4. Runs(UI, (m \o PersistKeystore) \o u, Rest, Point({}, "show")) BY <1>2, <1>3, RunsConcat
<1>5. Runs(UI, ((m \o PersistKeystore) \o u) \o Refresh, Rest, Rest)
  BY <1>4, RefreshRuns, RunsConcat
<1> QED BY <1>5 DEF Confirm, m, u

LEMMA StagingRuns == Runs(UI, Staging, Rest, Rest)
<1> USE LocksInOrder
<1>1. Fits(UI, Lock("pending"), Rest, Point({"pending"}, "none"))
  BY LockFits DEF Rest
<1>2. Fits(UI, Unlock("pending"), Point({"pending"}, "none"), Rest)
  BY UnlockFits DEF Rest
<1>3. {Rest, Point({"pending"}, "none")} \subseteq Points
  BY PointsArePoints DEF Rest
<1>4. {Lock("pending"), Unlock("pending")} \subseteq Steps BY TheSteps
<1> QED BY <1>1, <1>2, <1>3, <1>4, RunsTwo DEF Staging

LEMMA FilterRuns == Runs(UI, <<Lock("state"), Do("filter"), Unlock("state")>>, Rest, Point({}, "show"))
<1> USE LocksInOrder
<1>1. Fits(UI, Lock("state"), Rest, Point({"state"}, "none"))
  BY LockFits DEF Rest
<1>2. Fits(UI, Do("filter"), Point({"state"}, "none"), Point({"state"}, "show"))
  BY DoFits DEF Duty, Ops
<1>3. Fits(UI, Unlock("state"), Point({"state"}, "show"), Point({}, "show"))
  BY UnlockFits
<1>4. {Rest,
          Point({"state"}, "none"),
          Point({"state"}, "show"),
          Point({}, "show")} \subseteq Points
  BY PointsArePoints DEF Rest
<1>5. {Lock("state"), Do("filter"), Unlock("state")} \subseteq Steps BY TheSteps
<1> QED BY <1>1, <1>2, <1>3, <1>4, <1>5, RunsThree

LEMMA SearchChangedRuns == Runs(UI, SearchChanged, Rest, Rest)
BY FilterRuns, RefreshRuns, RunsConcat DEF SearchChanged

LEMMA ModeRuns == Runs(UI, <<Do("filter")>>, Rest, Point({}, "show"))
<1> USE LocksInOrder
<1>1. Fits(UI, Do("filter"), Rest, Point({}, "show"))
  BY DoFits DEF Duty, Ops, Rest
<1>2. {Rest, Point({}, "show")} \subseteq Points
  BY PointsArePoints DEF Rest
<1>3. {Do("filter")} \subseteq Steps BY TheSteps
<1> QED BY <1>1, <1>2, <1>3, RunsOne

LEMMA ArchiveModeRuns == Runs(UI, ArchiveMode, Rest, Rest)
BY ModeRuns, RefreshRuns, RunsConcat DEF ArchiveMode

LEMMA ReadRuns ==
  ASSUME NEW t
  PROVE  Runs(t, Read, Rest, Rest)
<1> USE LocksInOrder
<1>1. Fits(t, Lock("keystore"), Rest, Point({"keystore"}, "none"))
  BY LockFits DEF Rest
<1>2. Fits(t, Unlock("keystore"), Point({"keystore"}, "none"), Rest)
  BY UnlockFits DEF Rest
<1>3. {Rest, Point({"keystore"}, "none")} \subseteq Points
  BY PointsArePoints DEF Rest
<1>4. {Lock("keystore"), Unlock("keystore")} \subseteq Steps BY TheSteps
<1> QED BY <1>1, <1>2, <1>3, <1>4, RunsTwo DEF Read

LEMMA EngineMutateRuns ==
  ASSUME NEW t, t # UI
  PROVE  Runs(t, <<Lock("keystore"), Do("mutate"), Unlock("keystore"), Lock("keystore")>>, Rest, Point({"keystore"}, "show"))
<1> USE LocksInOrder
<1>1. Fits(t, Lock("keystore"), Rest, Point({"keystore"}, "none"))
  BY LockFits DEF Rest
<1>2. Fits(t, Do("mutate"), Point({"keystore"}, "none"), Point({"keystore"}, "show"))
  BY DoFits DEF Duty, Ops
<1>3. Fits(t, Unlock("keystore"), Point({"keystore"}, "show"), Point({}, "show"))
  BY UnlockFits
<1>4. Fits(t, Lock("keystore"), Point({}, "show"), Point({"keystore"}, "show"))
  BY LockFits
<1>5. {Rest,
          Point({"keystore"}, "none"),
          Point({"keystore"}, "show"),
          Point({}, "show")} \subseteq Points
  BY PointsArePoints DEF Rest
<1>6. {Lock("keystore"), Do("mutate"), Unlock("keystore")} \subseteq Steps BY TheSteps
<1> QED BY <1>1, <1>2, <1>3, <1>4, <1>5, <1>6, RunsFour

LEMMA PostRuns ==
  ASSUME NEW t, t # UI
  PROVE  Runs(t, <<Unlock("keystore"), Do("post")>>, Point({"keystore"}, "show"), Rest)
<1> USE LocksInOrder
<1>1. Fits(t, Unlock("keystore"), Point({"keystore"}, "show"), Point({}, "show"))
  BY UnlockFits
<1>2. Fits(t, Do("post"), Point({}, "show"), Rest)
  BY DoFits DEF Duty, Ops, Rest
<1>3. {Point({"keystore"}, "show"), Point({}, "show"), Rest} \subseteq Points
  BY PointsArePoints DEF Rest
<1>4. {Unlock("keystore"), Do("post")} \subseteq Steps BY TheSteps
<1> QED BY <1>1, <1>2, <1>3, <1>4, RunsTwo

LEMMA CommitRuns ==
  ASSUME NEW t, t # UI
  PROVE  Runs(t, Commit, Rest, Rest)
<1> DEFINE m == <<Lock("keystore"), Do("mutate"), Unlock("keystore"), Lock("keystore")>>
           u == <<Unlock("keystore"), Do("post")>>
<1>1. Runs(t, m, Rest, Point({"keystore"}, "show")) BY EngineMutateRuns
<1>2. Runs(t, u, Point({"keystore"}, "show"), Rest) BY PostRuns
<1> HIDE DEF m, u
<1>3. Runs(t, m \o PersistKeystore, Rest, Point({"keystore"}, "show"))
  BY <1>1, EnginePersists, RunsConcat
<1>4. Runs(t, (m \o PersistKeystore) \o u, Rest, Rest) BY <1>2, <1>3, RunsConcat
<1> QED BY <1>4 DEF Commit, m, u

LEMMA RollbackRuns ==
  ASSUME NEW t, t # UI
  PROVE  Runs(t, Rollback, Point({}, "show"), Rest)
<1> USE LocksInOrder
<1>1. Fits(t, Lock("keystore"), Point({}, "show"), Point({"keystore"}, "show"))
  BY LockFits
<1>2. Fits(t, Do("rollback"), Point({"keystore"}, "show"), Point({"keystore"}, "none"))
  BY DoFits DEF Duty, Ops
<1>3. Fits(t, Unlock("keystore"), Point({"keystore"}, "none"), Rest)
  BY UnlockFits DEF Rest
<1>4. {Point({}, "show"),
          Point({"keystore"}, "show"),
          Point({"keystore"}, "none"),
          Rest} \subseteq Points
  BY PointsArePoints DEF Rest
<1>5. {Lock("keystore"), Do("rollback"), Unlock("keystore")} \subseteq Steps BY TheSteps
<1> QED BY <1>1, <1>2, <1>3, <1>4, <1>5, RunsThree DEF Rollback

LEMMA RunsEmpty ==
  /\ \A t, a, b : Runs(t, <<>>, a, b) => a = b
  /\ \A t : Runs(t, <<>>, Rest, Rest)
<1>1. <<>> \in Seq(Steps) /\ Len(<<>>) = 0 OBVIOUS
<1>2. ASSUME NEW t, NEW a, NEW b, Runs(t, <<>>, a, b) PROVE a = b
  BY <1>1, <1>2 DEF Runs
<1>3. ASSUME NEW t PROVE Runs(t, <<>>, Rest, Rest)
  <2> DEFINE h == [i \in 1..1 |-> Rest]
  <2>1. h \in [1..1 -> Points] /\ h[1] = Rest BY PointsArePoints DEF Rest
  <2> HIDE DEF h
  <2>2. Annotated(t, <<>>, h) BY <2>1, <1>1 DEF Annotated
  <2> QED BY <2>1, <2>2, <1>1 DEF Runs
<1> QED BY <1>2, <1>3

(* The first step of a program leads to a point the rest can be run from.  *)
LEMMA RunsTail ==
  ASSUME NEW t, NEW p, NEW a, NEW c, Runs(t, p, a, c), p # <<>>
  PROVE  /\ a \in Points /\ Head(p) \in Steps /\ Tail(p) \in Seq(Steps)
         /\ \E b \in Points : Fits(t, Head(p), a, b) /\ Runs(t, Tail(p), b, c)
<1>1. PICK h : Annotated(t, p, h) /\ h[1] = a /\ h[Len(p) + 1] = c BY DEF Runs
<1>2. p \in Seq(Steps) BY DEF Runs
<1> DEFINE n == Len(p)
           q == Tail(p)
           g == [i \in 1..n |-> h[i + 1]]
<1>3. /\ n \in Nat /\ n >= 1 /\ q \in Seq(Steps) /\ Len(q) = n - 1 /\ Head(p) = p[1]
      /\ Head(p) \in Steps /\ \A i \in 1..(n - 1) : q[i] = p[i + 1]
  BY <1>2
<1>4. h \in [1..(n + 1) -> Points] /\ \A i \in 1..n : Fits(t, p[i], h[i], h[i + 1])
  BY <1>1 DEF Annotated
<1> HIDE DEF n, q
<1>5. g \in [1..((n - 1) + 1) -> Points] /\ \A i \in 1..n : g[i] = h[i + 1]
  BY <1>3, <1>4
<1> HIDE DEF g
<1>6. \A i \in 1..(n - 1) : Fits(t, q[i], g[i], g[i + 1])
  BY <1>3, <1>4, <1>5
<1>7. Annotated(t, q, g) BY <1>3, <1>5, <1>6 DEF Annotated
<1>8. g[1] = h[2] /\ g[(n - 1) + 1] = c
  BY <1>1, <1>3, <1>5 DEF n
<1>9. h[1] \in Points /\ h[2] \in Points /\ Fits(t, Head(p), a, h[2])
  BY <1>1, <1>3, <1>4
<1>10. Runs(t, q, h[2], c) BY <1>3, <1>7, <1>8 DEF Runs
<1> QED BY <1>1, <1>3, <1>9, <1>10 DEF q
-----------------------------------------------------------------------------
Types == /\ prog \in [Threads -> Seq(Steps)] /\ holder \in [Locks -> Threads \cup {Free}]
         /\ version \in Nat /\ changes \in Nat /\ snapshot \in [Threads -> Nat]
         /\ filter \in Nat /\ view \in [version : Nat, filter : Nat] /\ closures \in Nat

(* at gives each thread's point: what it holds there is what it holds.     *)
LocksAgree(at) ==
  \A t \in Threads : /\ Runs(t, prog[t], at[t], Rest)
                     /\ \A l \in Locks : holder[l] = t <=> l \in at[t].held

(* The list shows v, or somebody will see to it.                           *)
ShownSoon(at, v) ==
  v = view.version \/ closures > 0 \/ \E e \in Engines : at[e].duty = "show"

ListAgrees(at) ==
  ~rolledBack =>
    /\ at[UI].duty = "none" => ShownSoon(at, version) /\ filter = view.filter
    /\ at[UI].duty = "undo" => ShownSoon(at, snapshot[UI]) /\ filter = view.filter

IInv == Types /\ \E at \in [Threads -> Points] : LocksAgree(at) /\ ListAgrees(at)

LEMMA InitIInv == Init => IInv
<1> SUFFICES ASSUME Init PROVE IInv OBVIOUS
<1> DEFINE at == [t \in Threads |-> Rest]
<1>1. /\ at \in [Threads -> Points] /\ \A t \in Threads : at[t] = Rest
      /\ Rest.held = {} /\ UI \in Threads
  BY PointsArePoints DEF Rest, Threads
<1>2. Types BY DEF Init, Types
<1> HIDE DEF at
<1>3. LocksAgree(at)
  BY <1>1, RunsEmpty, ListViewAssumption DEF Init, LocksAgree, Threads
<1>4. ListAgrees(at) BY <1>1 DEF Init, ListAgrees, ShownSoon
<1> QED BY <1>1, <1>2, <1>3, <1>4 DEF IInv

(* One thread moves to point b with program q left; the others keep what   *)
(* they hold.                                                              *)
LEMMA LocksStillAgree ==
  ASSUME NEW at \in [Threads -> Points], NEW t \in Threads, NEW b \in Points, NEW q,
         Types, LocksAgree(at), prog' = [prog EXCEPT ![t] = q], Runs(t, q, b, Rest),
         \A l \in Locks : holder'[l] = t <=> l \in b.held,
         \A l \in Locks : \A u \in Threads \ {t} : holder'[l] = u <=> holder[l] = u
  PROVE  /\ LocksAgree([at EXCEPT ![t] = b])'
         /\ [at EXCEPT ![t] = b] \in [Threads -> Points]
         /\ prog' \in [Threads -> Seq(Steps)]
<1>1. q \in Seq(Steps) BY DEF Runs
<1>2. /\ prog'[t] = q /\ \A u \in Threads \ {t} : prog'[u] = prog[u]
      /\ prog' \in [Threads -> Seq(Steps)]
  BY <1>1 DEF Types
<1> DEFINE new == [at EXCEPT ![t] = b]
<1>3. new \in [Threads -> Points] /\ new[t] = b /\ \A u \in Threads \ {t} : new[u] = at[u]
  OBVIOUS
<1> HIDE DEF new
<1>4. LocksAgree(new)'
  <2> SUFFICES ASSUME NEW u \in Threads
               PROVE  /\ Runs(u, prog'[u], new[u], Rest)
                      /\ \A l \in Locks : holder'[l] = u <=> l \in new[u].held
    BY DEF LocksAgree
  <2>1. CASE u = t BY <2>1, <1>2, <1>3
  <2>2. CASE u # t BY <2>2, <1>2, <1>3 DEF LocksAgree
  <2> QED BY <2>1, <2>2
<1> QED BY <1>2, <1>3, <1>4 DEF new

(* A thread that is told to begin at rest, and one that is in the middle.  *)
LEMMA IdleAtRest ==
  ASSUME NEW at, LocksAgree(at), NEW t \in Threads, Idle(t)
  PROVE  at[t] = Rest
BY RunsEmpty DEF LocksAgree, Idle

LEMMA BeginKeeps ==
  ASSUME IInv, NEW t \in Threads, Idle(t), NEW q, NEW b \in Points, Runs(t, q, b, Rest),
         b.held = {}, prog' = [prog EXCEPT ![t] = q],
         b.duty = "none" \/ (t = UI /\ b.duty = "show"),
         closures' = closures \/ (closures > 0 /\ closures' = closures - 1 /\ b.duty = "show"),
         UNCHANGED <<holder, version, changes, snapshot, filter, view, rolledBack>>
  PROVE  IInv'
<1>1. PICK at \in [Threads -> Points] : LocksAgree(at) /\ ListAgrees(at) BY DEF IInv
<1>2. Types BY DEF IInv
<1>3. at[t] = Rest /\ Rest.held = {} /\ Rest.duty = "none"
  BY <1>1, IdleAtRest, PointsArePoints DEF Rest
<1> DEFINE new == [at EXCEPT ![t] = b]
<1>4. /\ LocksAgree(new)' /\ new \in [Threads -> Points] /\ prog' \in [Threads -> Seq(Steps)]
  <2>1. \A l \in Locks : holder'[l] = t <=> l \in b.held
    BY <1>1, <1>3 DEF LocksAgree
  <2>2. \A l \in Locks : \A u \in Threads \ {t} : holder'[l] = u <=> holder[l] = u
    OBVIOUS
  <2> QED BY <1>1, <1>2, <2>1, <2>2, LocksStillAgree
<1>5. /\ UI \in Threads /\ Engines \subseteq Threads /\ UI \notin Engines
      /\ new[t] = b /\ \A u \in Threads \ {t} : new[u] = at[u]
  BY <1>1, ListViewAssumption DEF Threads
<1> HIDE DEF new
<1>6. ListAgrees(new)'
  <2>1. CASE b.duty = "none"
    <3>1. \A e \in Engines : new[e].duty = at[e].duty BY <2>1, <1>3, <1>5
    <3>2. new[UI].duty = at[UI].duty BY <2>1, <1>3, <1>5
    <3>3. closures' = closures BY <2>1
    <3> QED BY <1>1, <3>1, <3>2, <3>3 DEF ListAgrees, ShownSoon
  <2>2. CASE t = UI /\ b.duty = "show"
    BY <2>2, <1>5 DEF ListAgrees
  <2> QED BY <2>1, <2>2
<1>7. Types' BY <1>2, <1>4 DEF Types
<1> QED BY <1>4, <1>6, <1>7 DEF IInv

LEMMA CallbackKeeps == IInv /\ Callback => IInv'
<1> SUFFICES ASSUME IInv, Callback PROVE IInv' OBVIOUS
<1>1. PICK p \in {Change, Confirm, Staging, SearchChanged, ArchiveMode, Read} :
        prog' = [prog EXCEPT ![UI] = p]
  BY DEF Callback
<1> DEFINE b == Rest
<1>2. Runs(UI, p, b, Rest)
  BY ChangeRuns, ConfirmRuns, StagingRuns, SearchChangedRuns, ArchiveModeRuns, ReadRuns
<1>3. b \in Points /\ b.held = {} /\ b.duty = "none" BY PointsArePoints DEF Rest
<1>4. UI \in Threads BY DEF Threads
<1>5. /\ Idle(UI) /\ closures' = closures
      /\ UNCHANGED <<holder, version, changes, snapshot, filter, view, rolledBack>>
  BY DEF Callback
<1> HIDE DEF b
<1> QED BY <1>1, <1>2, <1>3, <1>4, <1>5, BeginKeeps

LEMMA RunClosureKeeps == IInv /\ RunClosure => IInv'
<1> SUFFICES ASSUME IInv, RunClosure PROVE IInv' OBVIOUS
<1> DEFINE b == Point({}, "show")
<1>1. b \in Points /\ b.held = {} /\ b.duty = "show" BY PointsArePoints
<1>2. Runs(UI, Refresh, b, Rest) BY RefreshRuns
<1>3. UI \in Threads BY DEF Threads
<1> HIDE DEF b
<1> QED BY <1>1, <1>2, <1>3, BeginKeeps DEF RunClosure

LEMMA RequestKeeps ==
  ASSUME IInv, NEW e \in Engines, Request(e)
  PROVE  IInv'
<1>1. PICK p \in {Commit, Read} : prog' = [prog EXCEPT ![e] = p] BY DEF Request
<1>2. e \in Threads /\ e # UI BY ListViewAssumption DEF Threads
<1> DEFINE b == Rest
<1>3. Runs(e, p, b, Rest) BY <1>2, CommitRuns, ReadRuns
<1>4. b \in Points /\ b.held = {} /\ b.duty = "none" BY PointsArePoints DEF Rest
<1>5. /\ Idle(e) /\ closures' = closures
      /\ UNCHANGED <<holder, version, changes, snapshot, filter, view, rolledBack>>
  BY DEF Request
<1> HIDE DEF b
<1> QED BY <1>1, <1>2, <1>3, <1>4, <1>5, BeginKeeps

(* A thread goes on: what the new lists have to satisfy is left to the     *)
(* action.                                                                 *)
LEMMA AdvanceLocks ==
  ASSUME Types, NEW at \in [Threads -> Points], LocksAgree(at), NEW t \in Threads,
         ~Idle(t), Advance(t), UNCHANGED holder, Head(prog[t])[1] \notin {"lock", "unlock"}
  PROVE  \E b \in Points : /\ Fits(t, Head(prog[t]), at[t], b)
                           /\ LocksAgree([at EXCEPT ![t] = b])'
                           /\ prog' \in [Threads -> Seq(Steps)]
<1>1. prog[t] # <<>> /\ Runs(t, prog[t], at[t], Rest) BY DEF Idle, LocksAgree
<1>2. PICK b \in Points : Fits(t, Head(prog[t]), at[t], b) /\ Runs(t, Tail(prog[t]), b, Rest)
  BY <1>1, RunsTail
<1>3. b.held = at[t].held BY <1>2 DEF Fits, FitsHeld
<1>4. \A l \in Locks : holder'[l] = t <=> l \in b.held BY <1>3 DEF LocksAgree
<1>5. prog' = [prog EXCEPT ![t] = Tail(prog[t])] BY DEF Advance
<1>6. \A l \in Locks : \A u \in Threads \ {t} : holder'[l] = u <=> holder[l] = u
  OBVIOUS
<1> HIDE DEF LocksAgree
<1>7. LocksAgree([at EXCEPT ![t] = b])' /\ prog' \in [Threads -> Seq(Steps)]
  BY <1>2, <1>4, <1>5, <1>6, LocksStillAgree
<1> QED BY <1>2, <1>7

LEMMA StepKeeps ==
  ASSUME IInv, NEW t \in Threads, Step(t)
  PROVE  IInv'
<1>1. PICK at \in [Threads -> Points] : LocksAgree(at) /\ ListAgrees(at) BY DEF IInv
<1>2. Types BY DEF IInv
<1>3. UI \in Threads /\ Engines \subseteq Threads /\ UI \notin Engines /\ (t # UI => t \in Engines)
  BY ListViewAssumption DEF Threads
<1> DEFINE new(b) == [at EXCEPT ![t] = b]
           op == Head(prog[t])[1]
           lk == Head(prog[t])[2]
<1>4. ASSUME NEW b \in Points
      PROVE  /\ new(b) \in [Threads -> Points] /\ new(b)[t] = b
             /\ \A u \in Threads \ {t} : new(b)[u] = at[u]
  BY <1>1
<1>5. ASSUME NEW b \in Points, LocksAgree(new(b))', ListAgrees(new(b))', Types'
      PROVE  IInv'
  BY <1>4, <1>5 DEF IInv
<1>6. ASSUME ~Idle(t), Advance(t), UNCHANGED holder, op \notin {"lock", "unlock"}
      PROVE  \E b \in Points : /\ FitsHeld(Head(prog[t]), at[t], b)
                               /\ Duty(t, op, at[t].duty, b.duty)
                               /\ LocksAgree(new(b))' /\ prog' \in [Threads -> Seq(Steps)]
  BY <1>1, <1>2, <1>6, AdvanceLocks DEF Fits
<1>7. ASSUME NEW b \in Points, t = UI, b.duty = "show" PROVE ListAgrees(new(b))'
  BY <1>3, <1>4, <1>7 DEF ListAgrees
<1>8. ASSUME NEW b \in Points, b.duty = at[t].duty,
             UNCHANGED <<version, snapshot, filter, view, closures, rolledBack>>
      PROVE  ListAgrees(new(b))'
  <2>1. \A u \in Threads : new(b)[u].duty = at[u].duty BY <1>4, <1>8
  <2> QED BY <1>1, <1>3, <1>8, <2>1 DEF ListAgrees, ShownSoon
<1>9. ASSUME NEW b \in Points, t \in Engines, b.duty = "show",
             UNCHANGED <<snapshot, filter, view, rolledBack>>
      PROVE  ListAgrees(new(b))'
  BY <1>1, <1>3, <1>4, <1>9 DEF ListAgrees, ShownSoon
<1> HIDE DEF new, op, lk
<1>10. CASE Acquire(t)
  <2>1. prog[t] # <<>> /\ Runs(t, prog[t], at[t], Rest)
    BY <1>1, <1>10 DEF Acquire, At, Idle, LocksAgree
  <2>2. PICK b \in Points : Fits(t, Head(prog[t]), at[t], b) /\ Runs(t, Tail(prog[t]), b, Rest)
    BY <2>1, RunsTail
  <2>3. op = "lock" /\ holder[lk] = Free /\ holder' = [holder EXCEPT ![lk] = t]
    BY <1>10 DEF Acquire, At, op, lk
  <2>4. /\ lk \in Locks /\ b.held = at[t].held \cup {lk} /\ b.duty = at[t].duty
    BY <2>2, <2>3 DEF Fits, FitsHeld, Duty, op, lk
  <2>5. prog' = [prog EXCEPT ![t] = Tail(prog[t])] BY <1>10 DEF Acquire, Advance
  <2>6. /\ \A l \in Locks : holder'[l] = t <=> l \in b.held
        /\ \A l \in Locks : \A u \in Threads \ {t} : holder'[l] = u <=> holder[l] = u
        /\ holder' \in [Locks -> Threads \cup {Free}]
    BY <1>1, <1>2, <2>3, <2>4, ListViewAssumption DEF LocksAgree, Types, Threads
  <2>7. LocksAgree(new(b))' /\ prog' \in [Threads -> Seq(Steps)]
    BY <1>1, <1>2, <2>2, <2>5, <2>6, LocksStillAgree DEF new
  <2>8. Types' BY <1>2, <1>10, <2>6, <2>7 DEF Types, Acquire
  <2>9. ListAgrees(new(b))' BY <1>8, <1>10, <2>4 DEF Acquire
  <2> QED BY <1>5, <2>7, <2>8, <2>9
<1>11. CASE Release(t)
  <2>1. prog[t] # <<>> /\ Runs(t, prog[t], at[t], Rest)
    BY <1>1, <1>11 DEF Release, At, Idle, LocksAgree
  <2>2. PICK b \in Points : Fits(t, Head(prog[t]), at[t], b) /\ Runs(t, Tail(prog[t]), b, Rest)
    BY <2>1, RunsTail
  <2>3. op = "unlock" /\ holder' = [holder EXCEPT ![lk] = Free]
    BY <1>11 DEF Release, At, op, lk
  <2>4. at[t] \in Points /\ lk \in at[t].held /\ b.held = at[t].held \ {lk} /\ b.duty = at[t].duty
    BY <1>1, <2>2, <2>3 DEF Fits, FitsHeld, Duty, op, lk
  <2>5. lk \in Locks /\ holder[lk] = t BY <1>1, <2>4 DEF Points, LocksAgree
  <2>6. prog' = [prog EXCEPT ![t] = Tail(prog[t])] BY <1>11 DEF Release, Advance
  <2>7. /\ \A l \in Locks : holder'[l] = t <=> l \in b.held
        /\ \A l \in Locks : \A u \in Threads \ {t} : holder'[l] = u <=> holder[l] = u
        /\ holder' \in [Locks -> Threads \cup {Free}]
    BY <1>1, <1>2, <2>3, <2>4, <2>5, ListViewAssumption DEF LocksAgree, Types, Threads
  <2>8. LocksAgree(new(b))' /\ prog' \in [Threads -> Seq(Steps)]
    BY <1>1, <1>2, <2>2, <2>6, <2>7, LocksStillAgree DEF new
  <2>9. Types' BY <1>2, <1>11, <2>7, <2>8 DEF Types, Release
  <2>10. ListAgrees(new(b))' BY <1>8, <1>11, <2>4 DEF Release
  <2> QED BY <1>5, <2>8, <2>9, <2>10
<1>12. CASE Mutate(t)
  <2>1. /\ ~Idle(t) /\ Advance(t) /\ holder' = holder /\ op \in {"mutate", "batch"}
        /\ version' = changes + 1 /\ changes' = changes + 1
        /\ snapshot' = [snapshot EXCEPT ![t] = version]
        /\ UNCHANGED <<filter, view, closures, rolledBack>>
    BY <1>12 DEF Mutate, At, op
  <2>2. PICK b \in Points : /\ FitsHeld(Head(prog[t]), at[t], b)
                            /\ Duty(t, op, at[t].duty, b.duty)
                            /\ LocksAgree(new(b))' /\ prog' \in [Threads -> Seq(Steps)]
    BY <1>6, <2>1
  <2>3. Types' BY <1>2, <2>1, <2>2, changes + 1 \in Nat DEF Types
  <2>4. CASE t = UI
    <3>1. at[UI].duty = "none" /\ b.duty = "undo" BY <2>1, <2>2, <2>4 DEF Duty
    <3>2. snapshot'[UI] = version BY <1>2, <1>3, <2>1, <2>4 DEF Types
    <3>3. new(b)[UI] = b /\ \A e \in Engines : new(b)[e] = at[e] BY <1>3, <1>4, <2>4
    <3>4. ListAgrees(new(b))' BY <1>1, <2>1, <3>1, <3>2, <3>3 DEF ListAgrees, ShownSoon
    <3> QED BY <1>5, <2>2, <2>3, <3>4
  <2>5. CASE t # UI
    <3>1. t \in Engines /\ b.duty = "show" BY <1>3, <2>1, <2>2, <2>5 DEF Duty
    <3>2. snapshot'[UI] = snapshot[UI] BY <1>2, <1>3, <2>1, <2>5 DEF Types
    <3>3. ListAgrees(new(b))' BY <1>1, <1>3, <1>4, <2>1, <3>1, <3>2 DEF ListAgrees, ShownSoon
    <3> QED BY <1>5, <2>2, <2>3, <3>3
  <2> QED BY <2>4, <2>5
<1>13. CASE NoEffect(t)
  <2>1. /\ ~Idle(t) /\ Advance(t) /\ holder' = holder /\ op = "mutate" /\ t = UI
        /\ snapshot' = [snapshot EXCEPT ![t] = version]
        /\ UNCHANGED <<version, changes, filter, view, closures, rolledBack>>
    BY <1>13 DEF NoEffect, At, op
  <2>2. PICK b \in Points : /\ FitsHeld(Head(prog[t]), at[t], b)
                            /\ Duty(t, op, at[t].duty, b.duty)
                            /\ LocksAgree(new(b))' /\ prog' \in [Threads -> Seq(Steps)]
    BY <1>6, <2>1
  <2>3. Types' BY <1>2, <2>1, <2>2 DEF Types
  <2>4. at[UI].duty = "none" /\ b.duty = "undo" BY <2>1, <2>2 DEF Duty
  <2>5. snapshot'[UI] = version BY <1>2, <1>3, <2>1 DEF Types
  <2>6. new(b)[UI] = b /\ \A e \in Engines : new(b)[e] = at[e] BY <1>3, <1>4, <2>1
  <2>7. ListAgrees(new(b))' BY <1>1, <2>1, <2>4, <2>5, <2>6 DEF ListAgrees, ShownSoon
  <2> QED BY <1>5, <2>2, <2>3, <2>7
<1>14. CASE NothingToDo(t)
  <2>1. /\ ~Idle(t) /\ op \in {"mutate", "take"} /\ prog' = [prog EXCEPT ![t] = <<>>]
        /\ holder' = [l \in Locks |-> IF holder[l] = t THEN Free ELSE holder[l]]
        /\ UNCHANGED <<version, changes, snapshot, filter, view, closures, rolledBack>>
    BY <1>14 DEF NothingToDo, ReturnWith, At, op
  <2>2. prog[t] # <<>> /\ Runs(t, prog[t], at[t], Rest) BY <1>1, <2>1 DEF Idle, LocksAgree
  <2>3. PICK c \in Points : Fits(t, Head(prog[t]), at[t], c) BY <2>2, RunsTail
  <2>4. at[t].duty = "none" BY <2>1, <2>3 DEF Fits, Duty, op
  <2>5. Rest \in Points /\ Rest.held = {} /\ Rest.duty = "none" BY PointsArePoints DEF Rest
  <2>6. /\ \A l \in Locks : holder'[l] = t <=> l \in Rest.held
        /\ \A l \in Locks : \A u \in Threads \ {t} : holder'[l] = u <=> holder[l] = u
        /\ holder' \in [Locks -> Threads \cup {Free}]
    BY <1>2, <2>1, <2>5, ListViewAssumption DEF Types, Threads
  <2>7. LocksAgree(new(Rest))' /\ prog' \in [Threads -> Seq(Steps)]
    BY <1>1, <1>2, <2>1, <2>5, <2>6, RunsEmpty, LocksStillAgree DEF new
  <2>8. Types' BY <1>2, <2>1, <2>6, <2>7 DEF Types
  <2>9. ListAgrees(new(Rest))' BY <1>8, <2>1, <2>4, <2>5
  <2> QED BY <1>5, <2>5, <2>7, <2>8, <2>9
<1>15. CASE AllSkipped(t)
  <2> DEFINE q == <<Unlock("keystore")>> \o Refresh
             b == Point({"keystore"}, "show")
  <2>1. /\ ~Idle(t) /\ op = "batch" /\ prog' = [prog EXCEPT ![t] = q] /\ holder' = holder
        /\ UNCHANGED <<version, changes, snapshot, filter, view, closures, rolledBack>>
    BY <1>15 DEF AllSkipped, At, op
  <2>2. prog[t] # <<>> /\ Runs(t, prog[t], at[t], Rest) BY <1>1, <2>1 DEF Idle, LocksAgree
  <2>3. PICK c \in Points : Fits(t, Head(prog[t]), at[t], c) BY <2>2, RunsTail
  <2>4. t = UI /\ at[t].held = {"keystore"}
    BY <2>1, <2>3 DEF Fits, FitsHeld, Duty, op
  <2>5. b \in Points /\ b.held = {"keystore"} /\ b.duty = "show"
    BY LocksInOrder, PointsArePoints
  <2>6. Runs(t, q, b, Rest) BY <2>4, SkippedRuns
  <2> HIDE DEF q, b
  <2>7. /\ \A l \in Locks : holder'[l] = t <=> l \in b.held
        /\ \A l \in Locks : \A u \in Threads \ {t} : holder'[l] = u <=> holder[l] = u
    BY <1>1, <2>1, <2>4, <2>5 DEF LocksAgree
  <2>8. LocksAgree(new(b))' /\ prog' \in [Threads -> Seq(Steps)]
    BY <1>1, <1>2, <2>1, <2>5, <2>6, <2>7, LocksStillAgree DEF new
  <2>9. Types' BY <1>2, <2>1, <2>8 DEF Types
  <2> QED BY <1>5, <1>7, <2>4, <2>5, <2>8, <2>9
<1>16. CASE Take(t)
  <2>1. /\ ~Idle(t) /\ Advance(t) /\ holder' = holder /\ op = "take"
        /\ UNCHANGED <<version, changes, snapshot, filter, view, closures, rolledBack>>
    BY <1>16 DEF Take, At, op
  <2>2. PICK b \in Points : /\ FitsHeld(Head(prog[t]), at[t], b)
                            /\ Duty(t, op, at[t].duty, b.duty)
                            /\ LocksAgree(new(b))' /\ prog' \in [Threads -> Seq(Steps)]
    BY <1>6, <2>1
  <2>3. b.duty = at[t].duty BY <2>1, <2>2 DEF Duty
  <2>4. Types' BY <1>2, <2>1, <2>2 DEF Types
  <2> QED BY <1>5, <1>8, <2>1, <2>2, <2>3, <2>4
<1>17. CASE WriteOk(t)
  <2>1. /\ ~Idle(t) /\ Advance(t) /\ holder' = holder /\ op = "write"
        /\ UNCHANGED <<version, changes, snapshot, filter, view, closures, rolledBack>>
    BY <1>17 DEF WriteOk, At, op
  <2>2. PICK b \in Points : /\ FitsHeld(Head(prog[t]), at[t], b)
                            /\ Duty(t, op, at[t].duty, b.duty)
                            /\ LocksAgree(new(b))' /\ prog' \in [Threads -> Seq(Steps)]
    BY <1>6, <2>1
  <2>3. b.duty = "show" BY <2>1, <2>2 DEF Duty
  <2>4. Types' BY <1>2, <2>1, <2>2 DEF Types
  <2>5. ListAgrees(new(b))' BY <1>3, <1>7, <1>9, <2>1, <2>3
  <2> QED BY <1>5, <2>2, <2>4, <2>5
<1>18. CASE WriteFails(t)
  <2>1. /\ ~Idle(t) /\ op = "write"
        /\ holder' = [l \in Locks |-> IF holder[l] = t THEN Free ELSE holder[l]]
        /\ UNCHANGED <<changes, snapshot, filter, view, closures, rolledBack>>
        /\ t = UI => prog' = [prog EXCEPT ![t] = <<>>] /\ version' = snapshot[t]
        /\ t # UI => prog' = [prog EXCEPT ![t] = Rollback] /\ version' = version
    BY <1>18 DEF WriteFails, ReturnWith, At, op
  <2>2. prog[t] # <<>> /\ Runs(t, prog[t], at[t], Rest) BY <1>1, <2>1 DEF Idle, LocksAgree
  <2>3. PICK c \in Points : Fits(t, Head(prog[t]), at[t], c) BY <2>2, RunsTail
  <2>4. /\ \A l \in Locks : holder'[l] # t
        /\ \A l \in Locks : \A u \in Threads \ {t} : holder'[l] = u <=> holder[l] = u
        /\ holder' \in [Locks -> Threads \cup {Free}]
    BY <1>2, <2>1, ListViewAssumption DEF Types, Threads
  <2>5. CASE t = UI
    <3>1. Rest \in Points /\ Rest.held = {} /\ Rest.duty = "none" BY PointsArePoints DEF Rest
    <3>2. at[UI].duty = "undo" BY <2>1, <2>3, <2>5 DEF Fits, Duty, op
    <3>3. LocksAgree(new(Rest))' /\ prog' \in [Threads -> Seq(Steps)]
      BY <1>1, <1>2, <2>1, <2>4, <2>5, <3>1, RunsEmpty, LocksStillAgree DEF new
    <3>4. Types' BY <1>2, <1>3, <2>1, <2>4, <2>5, <3>3 DEF Types
    <3>5. new(Rest)[UI] = Rest /\ \A e \in Engines : new(Rest)[e] = at[e]
      BY <1>3, <1>4, <2>5, <3>1
    <3>6. ListAgrees(new(Rest))'
      BY <1>1, <2>1, <2>5, <3>1, <3>2, <3>5 DEF ListAgrees, ShownSoon
    <3> QED BY <1>5, <3>1, <3>3, <3>4, <3>6
  <2>6. CASE t # UI
    <3> DEFINE b == Point({}, "show")
    <3>1. b \in Points /\ b.held = {} /\ b.duty = "show" BY PointsArePoints
    <3>2. Runs(t, Rollback, b, Rest) BY <2>6, RollbackRuns
    <3> HIDE DEF b
    <3>3. LocksAgree(new(b))' /\ prog' \in [Threads -> Seq(Steps)]
      BY <1>1, <1>2, <2>1, <2>4, <2>6, <3>1, <3>2, LocksStillAgree DEF new
    <3>4. Types' BY <1>2, <2>1, <2>4, <2>6, <3>3 DEF Types
    <3>5. ListAgrees(new(b))' BY <1>3, <1>9, <2>1, <2>6, <3>1
    <3> QED BY <1>5, <3>1, <3>3, <3>4, <3>5
  <2> QED BY <2>5, <2>6
<1>19. CASE PutBack(t)
  <2>1. /\ ~Idle(t) /\ Advance(t) /\ holder' = holder /\ op = "rollback"
        /\ version' = snapshot[t] /\ rolledBack' = TRUE
        /\ UNCHANGED <<changes, snapshot, filter, view, closures>>
    BY <1>19 DEF PutBack, At, op
  <2>2. PICK b \in Points : /\ FitsHeld(Head(prog[t]), at[t], b)
                            /\ Duty(t, op, at[t].duty, b.duty)
                            /\ LocksAgree(new(b))' /\ prog' \in [Threads -> Seq(Steps)]
    BY <1>6, <2>1
  <2>3. Types' BY <1>2, <2>1, <2>2 DEF Types
  <2>4. ListAgrees(new(b))' BY <2>1 DEF ListAgrees
  <2> QED BY <1>5, <2>2, <2>3, <2>4
<1>20. CASE SetFilter(t)
  <2>1. /\ ~Idle(t) /\ Advance(t) /\ holder' = holder /\ op = "filter"
        /\ filter' \in {filter} \cup {f \in {filter + 1} : f <= MaxFilters}
        /\ UNCHANGED <<version, changes, snapshot, view, closures, rolledBack>>
    BY <1>20 DEF SetFilter, At, op
  <2>2. PICK b \in Points : /\ FitsHeld(Head(prog[t]), at[t], b)
                            /\ Duty(t, op, at[t].duty, b.duty)
                            /\ LocksAgree(new(b))' /\ prog' \in [Threads -> Seq(Steps)]
    BY <1>6, <2>1
  <2>3. t = UI /\ b.duty = "show" BY <2>1, <2>2 DEF Duty
  <2>4. filter' \in Nat BY <1>2, <2>1 DEF Types
  <2>5. Types' BY <1>2, <2>1, <2>2, <2>4 DEF Types
  <2> QED BY <1>5, <1>7, <2>2, <2>3, <2>5
<1>21. CASE Render(t)
  <2>1. /\ ~Idle(t) /\ Advance(t) /\ holder' = holder /\ op = "render"
        /\ view' = [version |-> version, filter |-> filter] /\ rolledBack' = FALSE
        /\ UNCHANGED <<version, changes, snapshot, filter, closures>>
    BY <1>21 DEF Render, At, op
  <2>2. PICK b \in Points : /\ FitsHeld(Head(prog[t]), at[t], b)
                            /\ Duty(t, op, at[t].duty, b.duty)
                            /\ LocksAgree(new(b))' /\ prog' \in [Threads -> Seq(Steps)]
    BY <1>6, <2>1
  <2>3. t = UI /\ b.duty = "none" BY <2>1, <2>2 DEF Duty
  <2>4. view' \in [version : Nat, filter : Nat] /\ view'.version = version /\ view'.filter = filter
    BY <1>2, <2>1 DEF Types
  <2>5. Types' BY <1>2, <2>1, <2>2, <2>4 DEF Types
  <2>6. new(b)[UI].duty = "none" BY <1>4, <2>3
  <2>7. ListAgrees(new(b))' BY <2>1, <2>4, <2>6 DEF ListAgrees, ShownSoon
  <2> QED BY <1>5, <2>2, <2>5, <2>7
<1>22. CASE Post(t)
  <2>1. /\ ~Idle(t) /\ Advance(t) /\ holder' = holder /\ op = "post"
        /\ closures' = closures + 1
        /\ UNCHANGED <<version, changes, snapshot, filter, view, rolledBack>>
    BY <1>22 DEF Post, At, op
  <2>2. PICK b \in Points : /\ FitsHeld(Head(prog[t]), at[t], b)
                            /\ Duty(t, op, at[t].duty, b.duty)
                            /\ LocksAgree(new(b))' /\ prog' \in [Threads -> Seq(Steps)]
    BY <1>6, <2>1
  <2>3. t # UI BY <2>1, <2>2 DEF Duty
  <2>4. closures' \in Nat /\ closures' > 0 BY <1>2, <2>1 DEF Types
  <2>5. Types' BY <1>2, <2>1, <2>2, <2>4 DEF Types
  <2>6. new(b)[UI] = at[UI] BY <1>3, <1>4, <2>3
  <2>7. ListAgrees(new(b))' BY <1>1, <2>1, <2>4, <2>6 DEF ListAgrees, ShownSoon
  <2> QED BY <1>5, <2>2, <2>5, <2>7
<1> QED BY <1>10, <1>11, <1>12, <1>13, <1>14, <1>15, <1>16, <1>17, <1>18, <1>19, <1>20, <1>21,
           <1>22 DEF Step

LEMMA IInvInvariant == Spec => []IInv
<1>1. IInv /\ [Next]_vars => IInv'
  <2> SUFFICES ASSUME IInv, [Next]_vars PROVE IInv' OBVIOUS
  <2>1. CASE Next
    BY <2>1, CallbackKeeps, RunClosureKeeps, RequestKeeps, StepKeeps DEF Next
  <2>2. CASE UNCHANGED vars
    <3>1. Types' BY <2>2 DEF vars, IInv, Types
    <3>2. PICK at \in [Threads -> Points] : LocksAgree(at) /\ ListAgrees(at) BY DEF IInv
    <3>3. LocksAgree(at)' BY <2>2, <3>2 DEF vars, LocksAgree
    <3>4. ListAgrees(at)' BY <2>2, <3>2 DEF vars, ListAgrees, ShownSoon
    <3> QED BY <3>1, <3>3, <3>4 DEF IInv
  <2> QED BY <2>1, <2>2
<1> QED BY <1>1, InitIInv, PTL DEF Spec

(* A thread that only reads owes nobody anything, nor does an engine until *)
(* it has changed the records.                                             *)
LEMMA OnlyReads ==
  ASSUME NEW t, NEW p \in {Read, Tail(Read)}, NEW a, Runs(t, p, a, Rest)
  PROVE  a.duty = Rest.duty
<1> DEFINE l == Lock("keystore")
           u == Unlock("keystore")
<1>1. l \in Steps /\ u \in Steps /\ l[1] = "lock" /\ u[1] = "unlock"
  BY StepsAreSteps, LocksInOrder
<1>2. Read = <<l, u>> BY DEF Read
<1> HIDE DEF l, u
<1>3. /\ Read # <<>> /\ Head(Read) = l /\ Tail(Read) # <<>> /\ Head(Tail(Read)) = u
      /\ Tail(Tail(Read)) = <<>>
  BY <1>1, <1>2
<1>4. ASSUME NEW b, Runs(t, Tail(Read), b, Rest) PROVE b.duty = Rest.duty
  <2>1. PICK c : Fits(t, u, b, c) /\ Runs(t, <<>>, c, Rest) BY <1>3, <1>4, RunsTail
  <2> QED BY <1>1, <2>1, RunsEmpty DEF Fits, Duty
<1>5. CASE p = Read
  <2>1. PICK b : Fits(t, l, a, b) /\ Runs(t, Tail(Read), b, Rest) BY <1>3, <1>5, RunsTail
  <2> QED BY <1>1, <1>4, <2>1 DEF Fits, Duty
<1> QED BY <1>4, <1>5

LEMMA ConcatStarts ==
  ASSUME NEW p \in Seq(Steps), NEW q \in Seq(Steps), Len(p) >= 4
  PROVE  /\ p \o q \in Seq(Steps) /\ Len(p \o q) >= 4
         /\ (p \o q)[1] = p[1] /\ (p \o q)[2] = p[2]
<1>1. Len(p) \in Nat /\ Len(q) \in Nat /\ p \o q \in Seq(Steps) /\ Len(p \o q) = Len(p) + Len(q)
  OBVIOUS
<1>2. \A i \in 1..Len(p) : (p \o q)[i] = p[i] OBVIOUS
<1> QED BY <1>1, <1>2

LEMMA BeforeMutate ==
  ASSUME NEW t, NEW p \in {Commit, Tail(Commit)}, NEW a, Runs(t, p, a, Rest)
  PROVE  a.duty = "none"
<1> DEFINE l == Lock("keystore")
           m == Do("mutate")
           u == Unlock("keystore")
           k == <<l, m, u, l>>
           v == <<Unlock("keystore"), Do("post")>>
<1>1. l \in Steps /\ m \in Steps /\ u \in Steps /\ l[1] = "lock" /\ m[1] = "mutate"
  BY StepsAreSteps, LocksInOrder DEF Ops
<1>2. PersistKeystore \in Seq(Steps) /\ v \in Seq(Steps)
  <2>1. {Lock("store"), Unlock("store"), Unlock("keystore"), Do("write"), Do("post")} \subseteq Steps
    BY TheSteps
  <2> QED BY <2>1 DEF PersistKeystore
<1>3. Commit = (k \o PersistKeystore) \o v BY DEF Commit
<1> HIDE DEF l, m, u, v
<1>4. k \in Seq(Steps) /\ Len(k) = 4 /\ k[1] = l /\ k[2] = m BY <1>1
<1> HIDE DEF k
<1>5. Commit \in Seq(Steps) /\ Len(Commit) >= 4 /\ Commit[1] = l /\ Commit[2] = m
  <2> DEFINE w == k \o PersistKeystore
  <2>1. w \in Seq(Steps) /\ Len(w) >= 4 /\ w[1] = l /\ w[2] = m
    <3>1. Len(k) >= 4 BY <1>4
    <3>2. w \in Seq(Steps) /\ Len(w) >= 4 /\ w[1] = k[1] /\ w[2] = k[2]
      BY <1>2, <1>4, <3>1, ConcatStarts
    <3> QED BY <1>4, <3>2
  <2> HIDE DEF w
  <2>2. /\ w \o v \in Seq(Steps) /\ Len(w \o v) >= 4 /\ (w \o v)[1] = l /\ (w \o v)[2] = m
    BY <1>2, <2>1, ConcatStarts
  <2> QED BY <1>3, <2>2 DEF w
<1>6. Commit # <<>> /\ Head(Commit) = l /\ Tail(Commit) # <<>> /\ Head(Tail(Commit)) = m
  BY <1>5
<1>7. ASSUME NEW b, Runs(t, Tail(Commit), b, Rest) PROVE b.duty = "none"
  <2>1. PICK c : Fits(t, m, b, c) BY <1>6, <1>7, RunsTail
  <2> QED BY <1>1, <2>1 DEF Fits, Duty
<1>8. CASE p = Commit
  <2>1. PICK b : Fits(t, l, a, b) /\ Runs(t, Tail(Commit), b, Rest) BY <1>6, <1>8, RunsTail
  <2> QED BY <1>1, <1>7, <2>1 DEF Fits, Duty
<1> QED BY <1>7, <1>8
-----------------------------------------------------------------------------
(* The mutexes of the app cannot deadlock, whatever the number of engine   *)
(* tasks: every callback, closure, commit, early return and rollback takes *)
(* pending, state, keystore and store in that order and ends with none, so *)
(* a thread that waits waits for one that can go on (main.rs, state.rs,    *)
(* engine.rs commit_store_mutation).                                       *)
THEOREM MutexesNeverDeadlock == Spec => []NoDeadlock
<1>1. IInv => NoDeadlock
  <2> SUFFICES ASSUME IInv PROVE NoDeadlock OBVIOUS
  <2>1. PICK at \in [Threads -> Points] : LocksAgree(at) BY DEF IInv
  <2>2. holder \in [Locks -> Threads \cup {Free}] BY DEF IInv, Types
  <2>3. ASSUME NEW l \in Locks, holder[l] # Free PROVE ~Idle(holder[l])
    <3>1. holder[l] \in Threads /\ l \in at[holder[l]].held
      BY <2>1, <2>2, <2>3 DEF LocksAgree
    <3>2. Rest.held = {} BY PointsArePoints DEF Rest
    <3> QED BY <2>1, <3>1, <3>2, IdleAtRest
  <2>4. ASSUME NEW S \in (SUBSET Threads) \ {{}}
        PROVE  \E t \in S : ~Waits(t) \/ WaitsFor(t) \notin S
    <3> SUFFICES ASSUME \A t \in S : Waits(t) /\ WaitsFor(t) \in S PROVE FALSE OBVIOUS
    <3> DEFINE W(t) == Head(prog[t])[2]
    <3>1. ASSUME NEW t \in S
          PROVE  W(t) \in Locks /\ \A m \in at[t].held : Rank[m] < Rank[W(t)]
      <4>1. t \in Threads /\ prog[t] # <<>> /\ Head(prog[t])[1] = "lock"
        BY <3>1 DEF Waits, At, Idle
      <4>2. PICK b \in Points : Fits(t, Head(prog[t]), at[t], b)
        BY <2>1, <4>1, RunsTail DEF LocksAgree
      <4> QED BY <4>1, <4>2 DEF Fits, FitsHeld
    <3>2. ASSUME NEW t \in S PROVE \E u \in S : Rank[W(t)] < Rank[W(u)]
      <4>1. W(t) \in Locks /\ holder[W(t)] \in S BY <3>1 DEF WaitsFor
      <4>2. W(t) \in at[holder[W(t)]].held BY <2>1, <4>1 DEF LocksAgree
      <4> QED BY <3>1, <4>1, <4>2
    <3>3. \A t \in S : Rank[W(t)] \in 0..3
      <4>1. \A l \in Locks : Rank[l] \in 0..3 BY DEF Rank
      <4> QED BY <3>1, <4>1
    <3> HIDE DEF W
    <3>4. PICK t0 \in S : TRUE OBVIOUS
    <3>5. PICK t1 \in S : Rank[W(t0)] < Rank[W(t1)] BY <3>2
    <3>6. PICK t2 \in S : Rank[W(t1)] < Rank[W(t2)] BY <3>2
    <3>7. PICK t3 \in S : Rank[W(t2)] < Rank[W(t3)] BY <3>2
    <3>8. PICK t4 \in S : Rank[W(t3)] < Rank[W(t4)] BY <3>2
    <3> QED BY <3>3, <3>4, <3>5, <3>6, <3>7, <3>8
  <2> QED BY <2>3, <2>4 DEF NoDeadlock
<1> QED BY <1>1, IInvInvariant, PTL

(* When the UI is at rest, nothing is posted and no engine is between its  *)
(* change and its post, the list shows the records as they are under the   *)
(* filter as it is, for any number of engine tasks and of changes, unless  *)
(* an engine's rollback came since the list was drawn (main.rs on_write,   *)
(* state.rs refresh_credentials, engine.rs commit_store_mutation).         *)
THEOREM RestingListShowsVault == Spec => []ListShowsVault
<1>1. IInv => ListShowsVault
  <2> SUFFICES ASSUME IInv, Idle(UI), closures = 0, ~rolledBack,
                      \A e \in Engines :
                        Idle(e) \/ prog[e] \in {Read, Tail(Read), Commit, Tail(Commit)}
               PROVE  view = [version |-> version, filter |-> filter]
    BY DEF ListShowsVault
  <2>1. PICK at \in [Threads -> Points] : LocksAgree(at) /\ ListAgrees(at) BY DEF IInv
  <2>2. Types /\ UI \in Threads /\ Engines \subseteq Threads BY DEF IInv, Threads
  <2>3. Rest.duty = "none" BY PointsArePoints DEF Rest
  <2>4. at[UI].duty = "none" BY <2>1, <2>2, <2>3, IdleAtRest
  <2>5. ASSUME NEW e \in Engines PROVE at[e].duty = "none"
    <3>1. Runs(e, prog[e], at[e], Rest) BY <2>1, <2>2 DEF LocksAgree
    <3>2. CASE Idle(e) BY <2>1, <2>2, <2>3, <3>2, IdleAtRest
    <3>3. CASE prog[e] \in {Read, Tail(Read)} BY <2>3, <3>1, <3>3, OnlyReads
    <3>4. CASE prog[e] \in {Commit, Tail(Commit)} BY <3>1, <3>4, BeforeMutate
    <3> QED BY <3>2, <3>3, <3>4
  <2>6. view.version = version /\ view.filter = filter
    BY <2>1, <2>4, <2>5 DEF ListAgrees, ShownSoon
  <2> QED BY <2>2, <2>6 DEF Types
<1> QED BY <1>1, IInvInvariant, PTL
=============================================================================
