----------------------------- MODULE RecordsProofs -----------------------------
(***************************************************************************)
(* Facts about the keystore's record operations, for vaults of any length: *)
(* what the searches find, and what each operation keeps of the vault it   *)
(* is applied to.  VaultProofs rests on them.                              *)
(***************************************************************************)
EXTENDS Records, TLAPS, WellFoundedInduction, SequenceTheorems

(* The records of a vault are told apart by ids; ids and passwords have    *)
(* been drawn from the counter before it reached n.                        *)
Sound(recs, n) ==
  /\ recs \in Seq(CredentialRecord)
  /\ \A i, j \in DOMAIN recs : recs[i].id = recs[j].id => i = j
  /\ \A i \in DOMAIN recs : recs[i].id > 0 /\ recs[i].id < n /\ recs[i].password < n

(* b has every record of a, but for the ids in X, with its password or a   *)
(* later one.                                                              *)
Retains(a, b, X) ==
  \A i \in DOMAIN a : \/ a[i].id \in X
                      \/ \E j \in DOMAIN b : b[j].id = a[i].id /\ b[j].password >= a[i].password

(* ... and archives none that a does not.                                  *)
Keeps(a, b) ==
  \A i \in DOMAIN a : \E j \in DOMAIN b : /\ b[j].id = a[i].id /\ b[j].password >= a[i].password
                                          /\ b[j].archived => a[i].archived

(* Vec::position finds the first match.                                    *)
LEMMA FirstIsLeast ==
  ASSUME NEW S \in SUBSET Nat, S # {}
  PROVE  First(S) \in S /\ \A j \in S : First(S) <= j
<1> DEFINE R == OpToRel(<, Nat)
<1>1. PICK i \in S : \A j \in S : ~(<<j, i>> \in R) BY NatLessThanWellFounded, WFMin
<1>2. \A j \in S : <<j, i>> \in R <=> j < i BY Zenon DEF OpToRel
<1> HIDE DEF R
<1>3. \A j \in S : ~(j < i) BY <1>1, <1>2, Zenon
<1>4. \A j \in S : i <= j BY <1>3
<1> QED BY <1>4 DEF First

LEMMA FirstOfPositions ==
  ASSUME NEW recs \in Seq(CredentialRecord), NEW S \in SUBSET DOMAIN recs
  PROVE  /\ First(S) = 0 <=> S = {}
         /\ First(S) # 0 => First(S) \in S /\ \A j \in S : First(S) <= j
<1>1. S \in SUBSET Nat /\ 0 \notin S OBVIOUS
<1>2. CASE S = {} BY <1>2 DEF First
<1>3. CASE S # {} BY <1>1, <1>3, FirstIsLeast
<1> QED BY <1>2, <1>3

LEMMA PosOfLoginFinds ==
  ASSUME NEW recs \in Seq(CredentialRecord), NEW o, NEW u
  PROVE  LET i == PosOfLogin(recs, o, u)
         IN /\ i = 0 => \A j \in DOMAIN recs : ~(recs[j].origin = o /\ recs[j].username = u)
            /\ i # 0 => /\ i \in DOMAIN recs /\ recs[i].origin = o /\ recs[i].username = u
                        /\ \A j \in DOMAIN recs :
                             recs[j].origin = o /\ recs[j].username = u => i <= j
<1> DEFINE S == {i \in DOMAIN recs : recs[i].origin = o /\ recs[i].username = u}
<1>1. S \in SUBSET DOMAIN recs OBVIOUS
<1>2. /\ First(S) = 0 <=> S = {}
      /\ First(S) # 0 => First(S) \in S /\ \A j \in S : First(S) <= j
  BY <1>1, FirstOfPositions
<1> QED BY <1>2 DEF PosOfLogin

LEMMA PosOfIdFinds ==
  ASSUME NEW recs \in Seq(CredentialRecord), NEW id
  PROVE  LET i == PosOfId(recs, id)
         IN /\ i = 0 => \A j \in DOMAIN recs : recs[j].id # id
            /\ i # 0 => i \in DOMAIN recs /\ recs[i].id = id
<1> DEFINE S == {i \in DOMAIN recs : recs[i].id = id}
<1>1. S \in SUBSET DOMAIN recs OBVIOUS
<1>2. /\ First(S) = 0 <=> S = {}
      /\ First(S) # 0 => First(S) \in S
  BY <1>1, FirstOfPositions
<1> QED BY <1>2 DEF PosOfId


LEMMA Fields ==
  ASSUME NEW recs \in Seq(CredentialRecord)
  PROVE  \A i \in DOMAIN recs :
           /\ recs[i] \in CredentialRecord /\ recs[i].id \in Nat /\ recs[i].origin \in Origins
           /\ recs[i].username \in Usernames /\ recs[i].password \in Nat
           /\ recs[i].archived \in BOOLEAN /\ recs[i].color \in Nat
<1>1. ASSUME NEW i \in DOMAIN recs PROVE recs[i] \in CredentialRecord OBVIOUS
<1>2. ASSUME NEW r \in CredentialRecord
      PROVE  /\ r.id \in Nat /\ r.origin \in Origins /\ r.username \in Usernames
             /\ r.password \in Nat /\ r.archived \in BOOLEAN /\ r.color \in Nat
  BY DEF CredentialRecord
<1> QED BY <1>1, <1>2

LEMMA SoundGrows ==
  ASSUME NEW n \in Nat, NEW m \in Nat, n <= m, NEW recs, Sound(recs, n)
  PROVE  Sound(recs, m)
<1>1. \A i \in DOMAIN recs : recs[i].id \in Nat /\ recs[i].password \in Nat
  BY Fields DEF Sound
<1> QED BY <1>1 DEF Sound

LEMMA EmptyIsSound == \A n : Sound(<<>>, n)
BY DEF Sound

LEMMA KeepsItself ==
  ASSUME NEW recs \in Seq(CredentialRecord)
  PROVE  Keeps(recs, recs) /\ \A X : Retains(recs, recs, X)
<1>1. \A i \in DOMAIN recs : recs[i].password \in Nat BY Fields
<1>2. \A i \in DOMAIN recs : recs[i].password >= recs[i].password BY <1>1
<1> QED BY <1>2 DEF Keeps, Retains

LEMMA KeepsChains ==
  ASSUME NEW a \in Seq(CredentialRecord), NEW b \in Seq(CredentialRecord),
         NEW c \in Seq(CredentialRecord), Keeps(a, b)
  PROVE  /\ Keeps(b, c) => Keeps(a, c)
         /\ \A X : Retains(b, c, X) => Retains(a, c, X)
<1>1. /\ \A i \in DOMAIN a : a[i].password \in Nat /\ a[i].archived \in BOOLEAN
      /\ \A i \in DOMAIN b : b[i].password \in Nat /\ b[i].archived \in BOOLEAN
      /\ \A i \in DOMAIN c : c[i].password \in Nat /\ c[i].archived \in BOOLEAN
  BY Fields
<1>2. ASSUME Keeps(b, c), NEW i \in DOMAIN a
      PROVE  \E k \in DOMAIN c : /\ c[k].id = a[i].id /\ c[k].password >= a[i].password
                                 /\ c[k].archived => a[i].archived
  <2>1. PICK j \in DOMAIN b : /\ b[j].id = a[i].id /\ b[j].password >= a[i].password
                              /\ b[j].archived => a[i].archived
    BY DEF Keeps
  <2>2. PICK k \in DOMAIN c : /\ c[k].id = b[j].id /\ c[k].password >= b[j].password
                              /\ c[k].archived => b[j].archived
    BY <1>2 DEF Keeps
  <2>3. c[k].password >= a[i].password BY <1>1, <2>1, <2>2
  <2> QED BY <2>1, <2>2, <2>3
<1>3. ASSUME NEW X, Retains(b, c, X), NEW i \in DOMAIN a
      PROVE  \/ a[i].id \in X
             \/ \E k \in DOMAIN c : c[k].id = a[i].id /\ c[k].password >= a[i].password
  <2>1. PICK j \in DOMAIN b : b[j].id = a[i].id /\ b[j].password >= a[i].password
    BY DEF Keeps
  <2>2. CASE b[j].id \in X BY <2>1, <2>2
  <2>3. CASE b[j].id \notin X
    <3>1. PICK k \in DOMAIN c : c[k].id = b[j].id /\ c[k].password >= b[j].password
      BY <1>3, <2>3 DEF Retains
    <3>2. c[k].password >= a[i].password BY <1>1, <2>1, <3>1
    <3> QED BY <2>1, <3>1, <3>2
  <2> QED BY <2>2, <2>3
<1> QED BY <1>2, <1>3 DEF Keeps, Retains

(* Vec::push.                                                              *)
LEMMA AppendKeeps ==
  ASSUME NEW n \in Nat, NEW m \in Nat, n <= m, NEW recs, Sound(recs, n),
         NEW r \in CredentialRecord, r.id \notin Ids(recs), r.id > 0, r.id < m, r.password < m
  PROVE  /\ Sound(Append(recs, r), m) /\ Keeps(recs, Append(recs, r))
         /\ \A X : Retains(recs, Append(recs, r), X)
         /\ Ids(Append(recs, r)) = Ids(recs) \cup {r.id}
         /\ Len(Append(recs, r)) = Len(recs) + 1
         /\ \A i \in DOMAIN recs : Append(recs, r)[i] = recs[i]
         /\ Append(recs, r)[Len(recs) + 1] = r
<1> DEFINE new == Append(recs, r)
<1>1. recs \in Seq(CredentialRecord) /\ Len(recs) \in Nat BY DEF Sound
<1>2. /\ new \in Seq(CredentialRecord) /\ Len(new) = Len(recs) + 1
      /\ \A i \in 1..Len(recs) : new[i] = recs[i]
      /\ new[Len(recs) + 1] = r
  BY <1>1, AppendProperties
<1> HIDE DEF new
<1>3. DOMAIN recs = 1..Len(recs) /\ DOMAIN new = 1..(Len(recs) + 1) BY <1>1, <1>2
<1>4. \A i \in DOMAIN new : i \in DOMAIN recs \/ i = Len(recs) + 1 BY <1>1, <1>3
<1>5. \A i \in DOMAIN recs : /\ i \in DOMAIN new /\ new[i] = recs[i] /\ recs[i].id # r.id
                             /\ recs[i] \in CredentialRecord
  BY <1>1, <1>2, <1>3 DEF Ids
<1>6. Len(recs) + 1 \in DOMAIN new BY <1>1, <1>3
<1>7. Sound(recs, m) BY SoundGrows
<1>8. Sound(new, m)
  <2>1. ASSUME NEW i \in DOMAIN new, NEW j \in DOMAIN new, new[i].id = new[j].id PROVE i = j
    <3>1. CASE i \in DOMAIN recs /\ j \in DOMAIN recs BY <2>1, <3>1, <1>5 DEF Sound
    <3>2. CASE i = Len(recs) + 1 /\ j \in DOMAIN recs BY <2>1, <3>2, <1>2, <1>5
    <3>3. CASE j = Len(recs) + 1 /\ i \in DOMAIN recs BY <2>1, <3>3, <1>2, <1>5
    <3>4. CASE i = Len(recs) + 1 /\ j = Len(recs) + 1 BY <3>4
    <3> QED BY <3>1, <3>2, <3>3, <3>4, <1>4
  <2>2. ASSUME NEW i \in DOMAIN new
        PROVE  new[i].id > 0 /\ new[i].id < m /\ new[i].password < m
    <3>1. CASE i \in DOMAIN recs BY <3>1, <1>5, <1>7 DEF Sound
    <3>2. CASE i = Len(recs) + 1 BY <3>2, <1>2
    <3> QED BY <3>1, <3>2, <1>4
  <2> QED BY <1>2, <2>1, <2>2 DEF Sound
<1>9. \A i \in DOMAIN recs : new[i].password >= recs[i].password
  <2>1. \A i \in DOMAIN recs : recs[i].password \in Nat BY <1>1, Fields
  <2> QED BY <1>5, <2>1
<1>10. Keeps(recs, new) /\ \A X : Retains(recs, new, X)
  BY <1>5, <1>9 DEF Keeps, Retains
<1>11. Ids(new) = Ids(recs) \cup {r.id}
  <2>1. ASSUME NEW x \in Ids(new) PROVE x \in Ids(recs) \cup {r.id}
    <3>1. PICK i \in DOMAIN new : x = new[i].id BY DEF Ids
    <3> QED BY <3>1, <1>2, <1>4, <1>5 DEF Ids
  <2>2. ASSUME NEW x \in Ids(recs) \cup {r.id} PROVE x \in Ids(new)
    BY <1>2, <1>5, <1>6 DEF Ids
  <2> QED BY <2>1, <2>2
<1> QED BY <1>2, <1>3, <1>8, <1>10, <1>11 DEF new

(* A record is changed in place and keeps its id.                          *)
LEMMA UpdateKeeps ==
  ASSUME NEW n \in Nat, NEW m \in Nat, n <= m, NEW recs, Sound(recs, n),
         NEW i \in DOMAIN recs, NEW r \in CredentialRecord, r.id = recs[i].id, r.password < m,
         NEW new, new = [recs EXCEPT ![i] = r]
  PROVE  /\ Sound(new, m) /\ Ids(new) = Ids(recs) /\ Len(new) = Len(recs)
         /\ DOMAIN new = DOMAIN recs /\ new[i] = r
         /\ \A j \in DOMAIN recs : j # i => new[j] = recs[j]
         /\ Retains(recs, new, {r.id})
         /\ r.password >= recs[i].password =>
              /\ \A X : Retains(recs, new, X)
              /\ ~r.archived => Keeps(recs, new)
<1>1. recs \in Seq(CredentialRecord) BY DEF Sound
<1>2. /\ new \in Seq(CredentialRecord) /\ Len(new) = Len(recs) /\ DOMAIN new = DOMAIN recs
      /\ new[i] = r /\ \A j \in DOMAIN recs : j # i => new[j] = recs[j]
  BY <1>1
<1>3. \A j \in DOMAIN recs : new[j].id = recs[j].id BY <1>2
<1>4. \A j \in DOMAIN recs : recs[j].password \in Nat /\ recs[j].password >= recs[j].password
  <2>1. \A j \in DOMAIN recs : recs[j].password \in Nat BY <1>1, Fields
  <2> QED BY <2>1
<1>5. Sound(recs, m) BY SoundGrows
<1>6. Sound(new, m)
  <2>1. \A j \in DOMAIN new : new[j].id > 0 /\ new[j].id < m /\ new[j].password < m
    BY <1>2, <1>3, <1>5 DEF Sound
  <2>2. \A j, k \in DOMAIN new : new[j].id = new[k].id => j = k
    BY <1>2, <1>3 DEF Sound
  <2> QED BY <1>2, <2>1, <2>2 DEF Sound
<1>7. Ids(new) = Ids(recs) BY <1>2, <1>3 DEF Ids
<1>8. Retains(recs, new, {r.id}) BY <1>2, <1>4 DEF Retains
<1>9. ASSUME r.password >= recs[i].password
      PROVE  /\ \A X : Retains(recs, new, X)
             /\ ~r.archived => Keeps(recs, new)
  <2>1. \A j \in DOMAIN recs : new[j].password >= recs[j].password BY <1>2, <1>4, <1>9
  <2> QED BY <1>2, <1>3, <2>1 DEF Retains, Keeps
<1> QED BY <1>2, <1>6, <1>7, <1>8, <1>9

LEMMA NewRecordIs ==
  ASSUME NEW recs \in Seq(CredentialRecord), NEW id \in Nat, NEW o \in Origins,
         NEW u \in Usernames, NEW p \in Nat, NEW r, r = NewRecord(recs, id, o, u, p)
  PROVE  /\ r \in CredentialRecord /\ r.id = id /\ r.password = p /\ r.origin = o
         /\ r.username = u /\ ~r.archived
<1>1. NextAutomaticColor(recs) \in Nat
  <2>1. FIRST_AUTOMATIC_COLOR + Len(recs) \in Nat BY DEF FIRST_AUTOMATIC_COLOR
  <2> QED BY <2>1, RecordsAssumption DEF NextAutomaticColor
<1> QED BY <1>1 DEF NewRecord, CredentialRecord

LEMMA EditKeeps ==
  ASSUME NEW n \in Nat, NEW m \in Nat, n <= m, NEW recs, Sound(recs, n), NEW i \in DOMAIN recs,
         NEW u \in Usernames, NEW p \in Nat, p < m, p >= recs[i].password, NEW c \in Nat
  PROVE  /\ Sound(Edit(recs, i, u, p, c), m)
         /\ \A X : Retains(recs, Edit(recs, i, u, p, c), X)
<1> DEFINE new == Edit(recs, i, u, p, c)
<1>1. PICK s \in CredentialRecord : s = recs[i] BY Fields DEF Sound
<1>2. PICK r : r = [s EXCEPT !.username = u, !.password = p, !.color = c] OBVIOUS
<1>3. new = [recs EXCEPT ![i] = r] BY <1>1, <1>2 DEF Edit
<1>4. r \in CredentialRecord /\ r.id = recs[i].id /\ r.password = p
  BY <1>1, <1>2 DEF CredentialRecord
<1> HIDE DEF new
<1>5. Sound(new, m) BY <1>3, <1>4, UpdateKeeps
<1>6. r.password >= recs[i].password BY <1>4
<1>7. \A X : Retains(recs, new, X) BY <1>3, <1>4, <1>6, UpdateKeeps
<1> QED BY <1>5, <1>7 DEF new

LEMMA SetColorKeeps ==
  ASSUME NEW n \in Nat, NEW recs, Sound(recs, n), NEW i \in DOMAIN recs, NEW c \in Nat
  PROVE  Sound(SetColor(recs, i, c), n) /\ \A X : Retains(recs, SetColor(recs, i, c), X)
<1> DEFINE new == SetColor(recs, i, c)
<1>1. PICK s \in CredentialRecord : s = recs[i] BY Fields DEF Sound
<1>2. PICK r : r = [s EXCEPT !.color = c] OBVIOUS
<1>3. new = [recs EXCEPT ![i] = r] BY <1>1, <1>2 DEF SetColor
<1>4. r \in CredentialRecord /\ r.id = recs[i].id /\ r.password = recs[i].password
  BY <1>1, <1>2 DEF CredentialRecord
<1>5. recs[i].password \in Nat /\ recs[i].password < n BY Fields DEF Sound
<1> HIDE DEF new
<1>6. r.password < n /\ r.password >= recs[i].password /\ n <= n BY <1>4, <1>5
<1>7. Sound(new, n) BY <1>3, <1>4, <1>6, UpdateKeeps
<1>8. \A X : Retains(recs, new, X) BY <1>3, <1>4, <1>6, UpdateKeeps
<1> QED BY <1>7, <1>8 DEF new

LEMMA SetArchivedKeeps ==
  ASSUME NEW n \in Nat, NEW recs, Sound(recs, n), NEW id, NEW b \in BOOLEAN
  PROVE  Sound(SetArchived(recs, id, b), n) /\ \A X : Retains(recs, SetArchived(recs, id, b), X)
<1> DEFINE new == SetArchived(recs, id, b)
           i == PosOfId(recs, id)
<1>1. recs \in Seq(CredentialRecord) BY DEF Sound
<1>2. CASE i = 0
  <2>1. new = recs BY <1>2 DEF SetArchived
  <2> QED BY <1>1, <2>1, KeepsItself
<1>3. CASE i # 0
  <2>1. i \in DOMAIN recs BY <1>1, <1>3, PosOfIdFinds
  <2>2. PICK s \in CredentialRecord : s = recs[i] BY <1>1, <2>1, Fields
  <2>3. PICK r : r = [s EXCEPT !.archived = b] OBVIOUS
  <2>4. new = [recs EXCEPT ![i] = r] BY <1>3, <2>2, <2>3 DEF SetArchived
  <2>5. r \in CredentialRecord /\ r.id = recs[i].id /\ r.password = recs[i].password
    BY <2>2, <2>3 DEF CredentialRecord
  <2>6. recs[i].password \in Nat /\ recs[i].password < n BY <1>1, <2>1, Fields DEF Sound
  <2> HIDE DEF new, i
  <2>7. r.password < n /\ r.password >= recs[i].password /\ n <= n BY <2>5, <2>6
  <2>8. Sound(new, n) BY <2>1, <2>4, <2>5, <2>7, UpdateKeeps
  <2>9. \A X : Retains(recs, new, X) BY <2>1, <2>4, <2>5, <2>7, UpdateKeeps
  <2> QED BY <2>8, <2>9 DEF new
<1> QED BY <1>2, <1>3

(* Vec::remove.                                                            *)
LEMMA RemoveKeeps ==
  ASSUME NEW n \in Nat, NEW recs, Sound(recs, n), NEW i \in DOMAIN recs
  PROVE  Sound(RemovePos(recs, i), n) /\ Retains(recs, RemovePos(recs, i), {recs[i].id})
<1> DEFINE new == RemovePos(recs, i)
<1>1. recs \in Seq(CredentialRecord) /\ Len(recs) \in Nat /\ DOMAIN recs = 1..Len(recs)
  BY DEF Sound
<1>2. new \in [1..(Len(recs) - 1) -> CredentialRecord] /\ Len(recs) - 1 \in Nat
  BY <1>1 DEF RemovePos
<1>3. new \in Seq(CredentialRecord) /\ DOMAIN new = 1..(Len(recs) - 1) BY <1>2
<1>4. \A j \in DOMAIN new : new[j] = IF j < i THEN recs[j] ELSE recs[j + 1]
  BY <1>2 DEF RemovePos
<1> HIDE DEF new
<1> DEFINE old(j) == IF j < i THEN j ELSE j + 1
<1>5. /\ \A j \in DOMAIN new : old(j) \in DOMAIN recs /\ new[j] = recs[old(j)]
      /\ \A j, k \in DOMAIN new : old(j) = old(k) => j = k
  BY <1>1, <1>3, <1>4
<1>6. \A k \in DOMAIN recs : k # i => \E j \in DOMAIN new : k = old(j)
  <2>1. ASSUME NEW k \in DOMAIN recs, k < i PROVE k \in DOMAIN new /\ k = old(k)
    BY <1>1, <1>3, <2>1
  <2>2. ASSUME NEW k \in DOMAIN recs, k > i PROVE k - 1 \in DOMAIN new /\ k = old(k - 1)
    BY <1>1, <1>3, <2>2
  <2>3. \A k \in DOMAIN recs : k < i \/ k > i \/ k = i BY <1>1
  <2> QED BY <2>1, <2>2, <2>3
<1> HIDE DEF old
<1>7. Sound(new, n)
  <2>1. \A j, k \in DOMAIN new : new[j].id = new[k].id => j = k BY <1>5 DEF Sound
  <2>2. \A j \in DOMAIN new : new[j].id > 0 /\ new[j].id < n /\ new[j].password < n
    BY <1>5 DEF Sound
  <2> QED BY <1>3, <2>1, <2>2 DEF Sound
<1>8. Retains(recs, new, {recs[i].id})
  <2> SUFFICES ASSUME NEW k \in DOMAIN recs, k # i
               PROVE  \E j \in DOMAIN new : /\ new[j].id = recs[k].id
                                            /\ new[j].password >= recs[k].password
    BY DEF Retains
  <2>1. PICK j \in DOMAIN new : k = old(j) BY <1>6
  <2>2. recs[k].password \in Nat /\ new[j] = recs[k] BY <1>1, <1>5, <2>1, Fields
  <2> QED BY <2>2
<1> QED BY <1>7, <1>8 DEF new

(* The drawn id is new.                                                    *)
LEMMA FreshIdIsNew ==
  ASSUME NEW n \in Nat, NEW m \in Nat, n <= m, NEW recs, Sound(recs, n)
  PROVE  m \notin Ids(recs)
<1>1. \A i \in DOMAIN recs : recs[i].id \in Nat /\ recs[i].id < n BY Fields DEF Sound
<1> QED BY <1>1 DEF Ids

(* upsert leaves the login's first record live, with the new password, and *)
(* it is the one find_by_origin gives.                                     *)
LEMMA UpsertKeeps ==
  ASSUME NEW n \in Nat, NEW m \in Nat, NEW recs, Sound(recs, n), NEW o \in Origins,
         NEW u \in Usernames, NEW p \in Nat, NEW id \in Nat, n <= p, p < m, n > 0,
         PosOfLogin(recs, o, u) = 0 => id >= n /\ id < m,
         NEW new, new = Upsert(recs, o, u, p, id), NEW k, k = PosOfLogin(new, o, u)
  PROVE  /\ Sound(new, m) /\ Keeps(recs, new)
         /\ k \in DOMAIN new /\ new[k].password = p /\ PosOfLive(new, o, u) = k /\ k # 0
<1> DEFINE i == PosOfLogin(recs, o, u)
           login(v, j) == v[j].origin = o /\ v[j].username = u
<1>1. recs \in Seq(CredentialRecord) /\ Len(recs) \in Nat /\ DOMAIN recs = 1..Len(recs)
  BY DEF Sound
<1>2. /\ Sound(new, m) /\ Keeps(recs, new)
      /\ \E t \in DOMAIN new : /\ login(new, t) /\ new[t].password = p /\ ~new[t].archived
                               /\ \A j \in DOMAIN new : login(new, j) => t <= j
  <2>1. CASE i = 0
    <3>0. PICK r : r = NewRecord(recs, id, o, u, p) OBVIOUS
    <3>1. /\ r \in CredentialRecord /\ r.id = id /\ r.password = p /\ r.origin = o
          /\ r.username = u /\ ~r.archived
      BY <1>1, <3>0, NewRecordIs
    <3>2. new = Append(recs, r) BY <2>1, <3>0 DEF Upsert
    <3>3. r.id \notin Ids(recs) /\ r.id > 0 /\ r.id < m /\ r.password < m /\ n <= m
      BY <2>1, <3>1, FreshIdIsNew
    <3>4. /\ Sound(Append(recs, r), m) /\ Keeps(recs, Append(recs, r))
          /\ Len(Append(recs, r)) = Len(recs) + 1
          /\ \A j \in DOMAIN recs : Append(recs, r)[j] = recs[j]
          /\ Append(recs, r)[Len(recs) + 1] = r
      BY <3>1, <3>3, AppendKeeps
    <3>5. \A j \in DOMAIN recs : ~login(recs, j) BY <1>1, <2>1, PosOfLoginFinds
    <3> HIDE DEF i
    <3>6. DOMAIN new = 1..(Len(recs) + 1) BY <3>2, <3>4 DEF Sound
    <3> DEFINE t == Len(recs) + 1
    <3>7. t \in DOMAIN new /\ login(new, t) /\ new[t].password = p /\ ~new[t].archived
      BY <1>1, <3>1, <3>2, <3>4, <3>6
    <3>8. \A j \in DOMAIN new : login(new, j) => t <= j
      <4> SUFFICES ASSUME NEW j \in DOMAIN new, login(new, j), ~(t <= j) PROVE FALSE OBVIOUS
      <4>1. j \in DOMAIN recs BY <1>1, <3>6
      <4>2. new[j] = recs[j] BY <3>2, <3>4, <4>1
      <4> QED BY <3>5, <4>1, <4>2
    <3> HIDE DEF t
    <3> QED BY <3>2, <3>4, <3>7, <3>8
  <2>2. CASE i # 0
    <3>1. i \in DOMAIN recs /\ login(recs, i) /\ \A j \in DOMAIN recs : login(recs, j) => i <= j
      BY <1>1, <2>2, PosOfLoginFinds
    <3>2. PICK s \in CredentialRecord : s = recs[i] BY <1>1, <3>1, Fields
    <3>3. PICK r : r = [s EXCEPT !.password = p, !.archived = FALSE] OBVIOUS
    <3>4. new = [recs EXCEPT ![i] = r] BY <2>2, <3>2, <3>3 DEF Upsert
    <3>5. /\ r \in CredentialRecord /\ r.id = recs[i].id /\ r.password = p /\ ~r.archived
          /\ r.origin = recs[i].origin /\ r.username = recs[i].username
      BY <3>2, <3>3 DEF CredentialRecord
    <3>6. recs[i].password \in Nat /\ recs[i].password < n /\ n <= m
      BY <1>1, <3>1, Fields DEF Sound
    <3>7. r.password < m /\ r.password >= recs[i].password BY <3>5, <3>6
    <3> HIDE DEF i
    <3>8. /\ Sound(new, m) /\ DOMAIN new = DOMAIN recs /\ new[i] = r
          /\ \A j \in DOMAIN recs : j # i => new[j] = recs[j]
          /\ Keeps(recs, new)
      <4>1. i \in DOMAIN recs BY <3>1
      <4>2. r \in CredentialRecord /\ r.id = recs[i].id /\ ~r.archived BY <3>5
      <4>3. n <= m BY <3>6
      <4>0. PICK w : w = [recs EXCEPT ![i] = r] OBVIOUS
      <4>4. Sound(w, m) BY <3>7, <4>0, <4>1, <4>2, <4>3, UpdateKeeps
      <4>5. DOMAIN new = DOMAIN recs /\ new[i] = r
        BY <1>1, <3>4, <4>1
      <4>6. \A j \in DOMAIN recs : j # i => new[j] = recs[j] BY <1>1, <3>4, <4>1
      <4>7. Keeps(recs, w) BY <3>7, <4>0, <4>1, <4>2, <4>3, UpdateKeeps
      <4> QED BY <3>4, <4>0, <4>4, <4>5, <4>6, <4>7
    <3>10. login(new, i) /\ new[i].password = p /\ ~new[i].archived
      BY <3>1, <3>5, <3>8
    <3>11. \A j \in DOMAIN new : login(new, j) => i <= j
      BY <1>1, <3>1, <3>8
    <3> QED BY <3>1, <3>8, <3>10, <3>11
  <2> QED BY <2>1, <2>2
<1>3. PICK t \in DOMAIN new : /\ login(new, t) /\ new[t].password = p /\ ~new[t].archived
                              /\ \A j \in DOMAIN new : login(new, j) => t <= j
  BY <1>2
<1> HIDE DEF i
<1>4. new \in Seq(CredentialRecord) BY <1>2 DEF Sound
<1>5. k = t
  <2>1. k # 0 BY <1>3, <1>4, PosOfLoginFinds
  <2>2. k \in DOMAIN new /\ login(new, k) /\ k <= t BY <1>3, <1>4, <2>1, PosOfLoginFinds
  <2>3. t <= k BY <1>3, <2>2
  <2> QED BY <1>4, <2>2, <2>3
<1>6. PosOfLive(new, o, u) = t
  <2> DEFINE S == {j \in DOMAIN new : /\ new[j].origin = o /\ new[j].username = u
                                      /\ ~new[j].archived}
             f == First(S)
  <2>1. t \in S BY <1>3
  <2>2. S \in SUBSET DOMAIN new OBVIOUS
  <2>3. f # 0 /\ f \in S /\ f <= t BY <1>4, <2>1, <2>2, FirstOfPositions
  <2>4. t <= f BY <1>3, <2>3
  <2>5. f = t BY <1>4, <2>2, <2>3, <2>4
  <2> QED BY <2>5 DEF PosOfLive
<1>7. k \in DOMAIN new /\ new[k].password = p /\ PosOfLive(new, o, u) = k /\ k # 0
  BY <1>3, <1>4, <1>5, <1>6
<1> QED BY <1>2, <1>7

LEMMA UpsertPasswords ==
  ASSUME NEW recs \in Seq(CredentialRecord), NEW o \in Origins, NEW u \in Usernames, NEW p \in Nat,
         NEW id \in Nat, NEW new, new = Upsert(recs, o, u, p, id), NEW k \in DOMAIN new,
         new[k].password # p
  PROVE  \E i \in DOMAIN recs : recs[i].password = new[k].password
<1> DEFINE i == PosOfLogin(recs, o, u)
<1>1. CASE i = 0
  <2>1. PICK r : r = NewRecord(recs, id, o, u, p) OBVIOUS
  <2>2. r \in CredentialRecord /\ r.password = p BY <2>1, NewRecordIs
  <2>3. new = Append(recs, r) BY <1>1, <2>1 DEF Upsert
  <2> HIDE DEF i
  <2>4. Len(recs) \in Nat /\ DOMAIN recs = 1..Len(recs) OBVIOUS
  <2>5. /\ DOMAIN new = 1..(Len(recs) + 1) /\ new[Len(recs) + 1] = r
        /\ \A j \in 1..Len(recs) : new[j] = recs[j]
    BY <2>2, <2>3
  <2>6. k \in 1..Len(recs) BY <2>2, <2>4, <2>5
  <2> QED BY <2>4, <2>5, <2>6
<1>2. CASE i # 0
  <2>1. i \in DOMAIN recs BY <1>2, PosOfLoginFinds
  <2>2. PICK s \in CredentialRecord : s = recs[i] BY <2>1, Fields
  <2>3. PICK r : r = [s EXCEPT !.password = p, !.archived = FALSE] OBVIOUS
  <2>4. new = [recs EXCEPT ![i] = r] BY <1>2, <2>2, <2>3 DEF Upsert
  <2>5. r.password = p BY <2>3 DEF CredentialRecord
  <2> HIDE DEF i
  <2>6. DOMAIN new = DOMAIN recs /\ new[i] = r /\ \A j \in DOMAIN recs : j # i => new[j] = recs[j]
    BY <2>1, <2>4
  <2> QED BY <2>5, <2>6
<1> QED BY <1>1, <1>2

(* What one round of import_many or restore_many makes of recs: nothing is *)
(* lost but the password of a record that Replace hits, n is the id drawn. *)
Took(recs, new, policy, hit, n) ==
  /\ Sound(new, IF n \in Ids(new) THEN n + 1 ELSE n)
  /\ Ids(recs) \subseteq Ids(new)
  /\ policy # "Replace" => Len(new) >= Len(recs) /\ \A i \in DOMAIN recs : new[i] = recs[i]
  /\ hit # 0 /\ policy = "Skip" => new = recs
  /\ hit # 0 => Retains(recs, new, {recs[hit].id})
  /\ hit = 0 \/ policy # "Replace" => \A X : Retains(recs, new, X)

LEMMA AppendTakes ==
  ASSUME NEW n \in Nat, n > 0, NEW recs, Sound(recs, n), NEW policy, NEW hit,
         hit = 0 \/ policy = "KeepBoth", NEW r \in CredentialRecord, r.id \notin Ids(recs),
         r.id > 0, r.id < n \/ r.id = n, r.password < n
  PROVE  Took(recs, Append(recs, r), policy, hit, n)
<1> DEFINE new == Append(recs, r)
           m == n + 1
<1>1. n \notin Ids(recs) BY FreshIdIsNew
<1>2. r.id \in Nat /\ r.password \in Nat /\ recs \in Seq(CredentialRecord) /\ Len(recs) \in Nat
  BY DEF CredentialRecord, Sound
<1>3. ASSUME NEW k \in Nat, n <= k, r.id < k, r.password < k
      PROVE  /\ Sound(new, k) /\ Keeps(recs, new) /\ \A X : Retains(recs, new, X)
             /\ Ids(new) = Ids(recs) \cup {r.id} /\ Len(new) = Len(recs) + 1
             /\ \A i \in DOMAIN recs : new[i] = recs[i]
  BY <1>3, AppendKeeps
<1> HIDE DEF new
<1>4. /\ Sound(new, n + 1) /\ \A X : Retains(recs, new, X)
      /\ Ids(new) = Ids(recs) \cup {r.id} /\ Len(new) = Len(recs) + 1
      /\ \A i \in DOMAIN recs : new[i] = recs[i]
  <2>1. n + 1 \in Nat /\ n <= n + 1 /\ r.id < n + 1 /\ r.password < n + 1 BY <1>2
  <2> QED BY <1>3, <2>1
<1>5. Sound(new, IF n \in Ids(new) THEN n + 1 ELSE n)
  <2>1. CASE r.id = n BY <1>4, <2>1
  <2>2. CASE r.id < n
    <3>1. n \notin Ids(new) BY <1>1, <1>2, <1>4, <2>2
    <3>2. n <= n OBVIOUS
    <3>3. Sound(new, n) BY <1>3, <2>2, <3>2
    <3> QED BY <3>1, <3>3
  <2> QED BY <2>1, <2>2
<1>6. Len(new) >= Len(recs) BY <1>2, <1>4
<1>7. Took(recs, new, policy, hit, n)
  BY <1>4, <1>5, <1>6 DEF Took
<1> QED BY <1>7 DEF new

LEMMA SkipTakes ==
  ASSUME NEW n \in Nat, n > 0, NEW recs, Sound(recs, n), NEW hit
  PROVE  Took(recs, recs, "Skip", hit, n)
<1>1. n \notin Ids(recs) BY FreshIdIsNew
<1>2. recs \in Seq(CredentialRecord) /\ Len(recs) >= Len(recs) BY DEF Sound
<1> QED BY <1>1, <1>2, KeepsItself DEF Took

LEMMA ReplaceTakes ==
  ASSUME NEW n \in Nat, n > 0, NEW recs, Sound(recs, n), NEW hit \in DOMAIN recs,
         NEW r \in CredentialRecord, r.id = recs[hit].id, r.password < n,
         NEW new, new = [recs EXCEPT ![hit] = r]
  PROVE  Took(recs, new, "Replace", hit, n)
<1>1. n <= n OBVIOUS
<1>2. Sound(new, n) /\ Ids(new) = Ids(recs) /\ Retains(recs, new, {r.id})
  <2>1. Sound(new, n) BY <1>1, UpdateKeeps
  <2>2. Ids(new) = Ids(recs)
    <3>1. DOMAIN new = DOMAIN recs /\ new[hit] = r BY <1>1, UpdateKeeps
    <3>2. \A j \in DOMAIN recs : j # hit => new[j] = recs[j] BY <1>1, UpdateKeeps
    <3> QED BY <3>1, <3>2 DEF Ids
  <2>3. Retains(recs, new, {r.id}) BY <1>1, UpdateKeeps
  <2> QED BY <2>1, <2>2, <2>3
<1>3. n \notin Ids(recs) BY FreshIdIsNew
<1>4. hit # 0 BY DEF Sound
<1> QED BY <1>2, <1>3, <1>4 DEF Took

LEMMA ImportItemTakes ==
  ASSUME NEW n \in Nat, n > 0, NEW recs, Sound(recs, n), NEW policy \in Policies,
         NEW item \in [origin : Origins, username : Usernames, password : Nat], item.password < n
  PROVE  Took(recs, ImportItem(recs, item, policy, n), policy,
              PosOfLogin(recs, item.origin, item.username), n)
<1> DEFINE i == PosOfLogin(recs, item.origin, item.username)
           new == ImportItem(recs, item, policy, n)
<1>1. recs \in Seq(CredentialRecord) BY DEF Sound
<1>2. item.origin \in Origins /\ item.username \in Usernames /\ item.password \in Nat OBVIOUS
<1>3. CASE i = 0 \/ policy = "KeepBoth"
  <2>1. PICK r : r = NewRecord(recs, n, item.origin, item.username, item.password) OBVIOUS
  <2>2. r \in CredentialRecord /\ r.id = n /\ r.password = item.password
    BY <1>1, <1>2, <2>1, NewRecordIs
  <2>3. new = Append(recs, r) BY <1>3, <2>1 DEF ImportItem
  <2>4. r.id \notin Ids(recs) /\ r.id > 0 BY <2>2, FreshIdIsNew
  <2> HIDE DEF i, new
  <2>5. Took(recs, Append(recs, r), policy, i, n) BY <1>3, <2>2, <2>4, AppendTakes
  <2> QED BY <2>3, <2>5 DEF i, new
<1>4. CASE i # 0 /\ policy = "Skip"
  <2>1. new = recs BY <1>4 DEF ImportItem
  <2> QED BY <1>4, <2>1, SkipTakes
<1>5. CASE i # 0 /\ policy = "Replace"
  <2>1. i \in DOMAIN recs BY <1>1, <1>5, PosOfLoginFinds
  <2>2. PICK s \in CredentialRecord : s = recs[i] BY <1>1, <2>1, Fields
  <2>3. PICK p \in Nat : p = item.password BY <1>2
  <2>4. PICK r : r = [s EXCEPT !.password = p, !.archived = FALSE] OBVIOUS
  <2>5. r \in CredentialRecord /\ r.id = s.id /\ r.password = p
    BY <2>2, <2>3, <2>4 DEF CredentialRecord
  <2>6. new = [recs EXCEPT ![i] = r] BY <1>5, <2>2, <2>3, <2>4 DEF ImportItem
  <2> HIDE DEF i, new
  <2>7. r.id = recs[i].id /\ r.password < n BY <2>2, <2>3, <2>5
  <2>8. Took(recs, new, "Replace", i, n) BY <2>1, <2>5, <2>6, <2>7, ReplaceTakes
  <2> QED BY <1>5, <2>8 DEF i, new
<1> QED BY <1>3, <1>4, <1>5 DEF Policies

LEMMA RestoreItemTakes ==
  ASSUME NEW n \in Nat, n > 0, NEW recs, Sound(recs, n), NEW policy \in Policies,
         NEW item \in CredentialRecord, item.password < n, item.id > 0, item.id < n
  PROVE  Took(recs, RestoreItem(recs, item, policy, n), policy,
              PosOfLogin(recs, item.origin, item.username), n)
<1> DEFINE i == PosOfLogin(recs, item.origin, item.username)
           new == RestoreItem(recs, item, policy, n)
<1>1. recs \in Seq(CredentialRecord) BY DEF Sound
<1>3. CASE i = 0 \/ policy = "KeepBoth"
  <2>1. PICK x : x = UniqueRecordId(recs, item.id, n) OBVIOUS
  <2>2. x \in Nat /\ x \notin Ids(recs) /\ x > 0 /\ (x < n \/ x = n)
    <3>1. item.id \in Nat BY DEF CredentialRecord
    <3>2. n \notin Ids(recs) BY FreshIdIsNew
    <3> QED BY <2>1, <3>1, <3>2 DEF UniqueRecordId
  <2>3. PICK r : r = [item EXCEPT !.id = x] OBVIOUS
  <2>4. r \in CredentialRecord /\ r.id = x /\ r.password = item.password
    BY <2>2, <2>3 DEF CredentialRecord
  <2>5. new = Append(recs, r) BY <1>3, <2>1, <2>3 DEF RestoreItem
  <2> HIDE DEF i, new
  <2>6. Took(recs, Append(recs, r), policy, i, n) BY <1>3, <2>2, <2>4, AppendTakes
  <2> QED BY <2>5, <2>6 DEF i, new
<1>4. CASE i # 0 /\ policy = "Skip"
  <2>1. new = recs BY <1>4 DEF RestoreItem
  <2> QED BY <1>4, <2>1, SkipTakes
<1>5. CASE i # 0 /\ policy = "Replace"
  <2>1. i \in DOMAIN recs BY <1>1, <1>5, PosOfLoginFinds
  <2>2. PICK x \in Nat : x = recs[i].id BY <1>1, <2>1, Fields
  <2>3. PICK r : r = [item EXCEPT !.id = x] OBVIOUS
  <2>4. r \in CredentialRecord /\ r.id = x /\ r.password = item.password
    BY <2>2, <2>3 DEF CredentialRecord
  <2>5. new = [recs EXCEPT ![i] = r] BY <1>5, <2>2, <2>3 DEF RestoreItem
  <2> HIDE DEF i, new
  <2>6. Took(recs, new, "Replace", i, n) BY <2>1, <2>2, <2>4, <2>5, ReplaceTakes
  <2> QED BY <1>5, <2>6 DEF i, new
<1> QED BY <1>3, <1>4, <1>5 DEF Policies
=============================================================================
