------------------------------ MODULE VaultProofs ------------------------------
(***************************************************************************)
(* Proofs about Vault, for vaults, batches and histories of any length and *)
(* any number of commits at once.  The invariant relates the vault in      *)
(* memory, the one on disk and every snapshot that can come back.          *)
(***************************************************************************)
EXTENDS Vault, RecordsProofs

Commits == [pc : {"idle", "mutated", "failed"}, snap : Vaults, id : Nat, password : Nat]

Batches == [kind : {"none", "import", "restore"}, items : Seq(ImportRow) \cup Vaults,
            policy : Policies, snap : Vaults, changed : BOOLEAN]

Types ==
  /\ staged \in [import : Seq(ImportRow), restore : Vaults]
  /\ commit \in [Committers -> Commits]
  /\ batch \in Batches
  /\ batch.items \in IF batch.kind = "import" THEN Seq(ImportRow) ELSE Vaults
  /\ fresh \in Nat /\ fresh > 0 /\ crashes \in Nat /\ raced \in BOOLEAN

(* Every vault there is, and every row that may become a record, has been  *)
(* drawn from the counter.                                                 *)
DrawnBefore(n) ==
  /\ Sound(records, n) /\ Sound(disk, n) /\ Sound(backup, n)
  /\ Sound(staged.restore, n) /\ Sound(batch.snap, n)
  /\ \A e \in Committers : Sound(commit[e].snap, n)
  /\ \A i \in DOMAIN staged.import : staged.import[i].password < n
  /\ \A i \in DOMAIN batch.items :
       /\ batch.items[i].password < n
       /\ batch.kind = "restore" => batch.items[i].id > 0 /\ batch.items[i].id < n

Drawn == DrawnBefore(fresh)

(* A batch that counted no change made none; none loses a record.          *)
BatchGoesOn ==
  ~Unlocked => /\ ~batch.changed => records = batch.snap
               /\ Ids(batch.snap) \subseteq Ids(records)
               /\ batch.policy # "Replace" =>
                    /\ Len(records) >= Len(batch.snap)
                    /\ \A i \in DOMAIN batch.snap : records[i] = batch.snap[i]

(* The vault that is left if the batch that runs now fails.                *)
Base == IF Unlocked THEN records ELSE batch.snap

(* Memory is ahead of the disk only by what commits in progress have done, *)
(* unless a rollback has put back an older vault.                          *)
InStep == ~raced => /\ Keeps(disk, Base)
                    /\ (\A e \in Committers : commit[e].pc = "idle") => Base = disk

(* v has the record with this id, with this password or a later one.       *)
Has(v, id, p) == \E i \in DOMAIN v : v[i].id = id /\ v[i].password >= p

(* ... every record the host was told is saved,                            *)
OwedIn(told, v) == \A id \in DOMAIN told : told[id] \in Nat /\ Has(v, id, told[id])

(* ... and what the commits about to be persisted have written.            *)
WrittenIn(c, v) ==
  \A e \in Committers :
    c[e].pc = "mutated" /\ c[e].id # 0 => Has(v, c[e].id, c[e].password)

(* What is owed is in memory, on disk and in every snapshot that can come  *)
(* back.                                                                   *)
OwedKept ==
  /\ OwedIn(owed, records) /\ OwedIn(owed, Base) /\ OwedIn(owed, disk)
  /\ \A e \in Committers : commit[e].pc # "idle" => OwedIn(owed, commit[e].snap)
  /\ WrittenIn(commit, records) /\ WrittenIn(commit, Base)

(* No two commits are under way at once.                                   *)
Alone ==
  \A d, e \in Committers : commit[d].pc # "idle" /\ commit[e].pc # "idle" => d = e

(* Commits that keep out of each other's way keep what is owed.            *)
OwedStep == OwedKept /\ Alone /\ Alone' => OwedKept'

IInv == Types /\ Drawn /\ BatchGoesOn /\ InStep

(* The step of DurableNotLost.                                             *)
DiskKept ==
  ~raced => \A i \in DOMAIN disk :
    \/ disk[i].archived
    \/ \E j \in DOMAIN disk' : /\ disk'[j].id = disk[i].id
                               /\ Unlocked => disk'[j].password >= disk[i].password

(* A step that ends what is owed for the records in X, at least.           *)
Forgets(X) ==
  /\ DOMAIN owed' \subseteq (DOMAIN owed) \ X /\ \A k \in DOMAIN owed' : owed'[k] = owed[k]
  /\ commit' \in [Committers -> Commits]
  /\ \A e \in Committers :
       /\ commit'[e].pc = commit[e].pc /\ commit'[e].snap = commit[e].snap
       /\ commit'[e].password = commit[e].password /\ commit'[e].id \in {0, commit[e].id}
       /\ commit'[e].id # 0 => commit'[e].id \notin X
-----------------------------------------------------------------------------
LEMMA CommitFields ==
  ASSUME commit \in [Committers -> Commits]
  PROVE  \A e \in Committers :
           /\ commit[e] \in Commits /\ commit[e].pc \in {"idle", "mutated", "failed"}
           /\ commit[e].snap \in Vaults /\ commit[e].id \in Nat /\ commit[e].password \in Nat
<1>1. \A c \in Commits : /\ c.pc \in {"idle", "mutated", "failed"} /\ c.snap \in Vaults
                         /\ c.id \in Nat /\ c.password \in Nat
  BY DEF Commits
<1> QED BY <1>1

LEMMA BatchFields ==
  ASSUME batch \in Batches
  PROVE  /\ batch.kind \in {"none", "import", "restore"} /\ batch.policy \in Policies
         /\ batch.snap \in Vaults /\ batch.changed \in BOOLEAN
BY DEF Batches

LEMMA RowPasswords ==
  ASSUME Types
  PROVE  /\ \A i \in DOMAIN staged.import : staged.import[i].password \in Nat
         /\ \A i \in DOMAIN batch.items : batch.items[i].password \in Nat
         /\ batch.kind = "restore" => \A i \in DOMAIN batch.items : batch.items[i].id \in Nat
<1>1. \A s \in Seq(ImportRow) : \A i \in DOMAIN s : s[i].password \in Nat
  <2>1. \A s \in Seq(ImportRow) : \A i \in DOMAIN s : s[i] \in ImportRow OBVIOUS
  <2>2. \A r \in ImportRow : r.password \in Nat BY DEF ImportRow
  <2> QED BY <2>1, <2>2
<1>2. \A s \in Vaults : \A i \in DOMAIN s : s[i].password \in Nat /\ s[i].id \in Nat
  BY Fields DEF Vaults
<1>3. staged.import \in Seq(ImportRow) BY DEF Types
<1>4. CASE batch.kind = "import" BY <1>1, <1>3, <1>4 DEF Types
<1>5. CASE batch.kind # "import" BY <1>1, <1>2, <1>3, <1>5 DEF Types
<1> QED BY <1>4, <1>5

LEMMA DrawnGrows ==
  ASSUME Types, DrawnBefore(fresh), NEW m \in Nat, fresh <= m
  PROVE  DrawnBefore(m)
<1>1. fresh \in Nat BY DEF Types
<1>2. /\ Sound(records, m) /\ Sound(disk, m) /\ Sound(backup, m)
      /\ Sound(staged.restore, m) /\ Sound(batch.snap, m)
  BY <1>1, SoundGrows DEF DrawnBefore
<1>3. \A e \in Committers : Sound(commit[e].snap, m)
  BY <1>1, SoundGrows DEF DrawnBefore
<1>4. \A i \in DOMAIN staged.import : staged.import[i].password < m
  BY <1>1, RowPasswords DEF DrawnBefore
<1>5. \A i \in DOMAIN batch.items : batch.items[i].password < m
  BY <1>1, RowPasswords DEF DrawnBefore
<1>6. ASSUME batch.kind = "restore", NEW i \in DOMAIN batch.items
      PROVE  batch.items[i].id > 0 /\ batch.items[i].id < m
  BY <1>1, <1>6, RowPasswords DEF DrawnBefore
<1> QED BY <1>2, <1>3, <1>4, <1>5, <1>6 DEF DrawnBefore

LEMMA ForgetsNothing ==
  ASSUME Types, owed' = owed, commit' = commit
  PROVE  Forgets({})
BY DEF Forgets, Types

LEMMA ForgetsOne ==
  ASSUME Types, NEW id, owed' = Forget(id), commit' = ForgetCommits(id)
  PROVE  Forgets({id})
<1>1. commit \in [Committers -> Commits] BY DEF Types
<1>2. ASSUME NEW e \in Committers
      PROVE  /\ commit'[e] \in Commits
             /\ commit'[e].pc = commit[e].pc /\ commit'[e].snap = commit[e].snap
             /\ commit'[e].password = commit[e].password
             /\ commit'[e].id \in {0, commit[e].id}
             /\ commit'[e].id # 0 => commit'[e].id \notin {id}
  <2>1. PICK c \in Commits : c = commit[e] BY <1>1
  <2>2. commit'[e] = IF c.id = id THEN [c EXCEPT !.id = 0] ELSE c
    BY <2>1 DEF ForgetCommits
  <2>3. PICK d : d = [c EXCEPT !.id = 0] OBVIOUS
  <2>4. /\ d \in Commits /\ d.pc = c.pc /\ d.snap = c.snap /\ d.password = c.password /\ d.id = 0
    BY <2>3 DEF Commits
  <2> QED BY <2>1, <2>2, <2>3, <2>4
<1>3. commit' = [e \in Committers |-> commit'[e]] BY DEF ForgetCommits
<1>4. commit' \in [Committers -> Commits] BY <1>2, <1>3
<1>5. DOMAIN owed' = (DOMAIN owed) \ {id} /\ \A k \in DOMAIN owed' : owed'[k] = owed[k]
  BY DEF Forget
<1> QED BY <1>2, <1>4, <1>5 DEF Forgets

LEMMA HasRetained ==
  ASSUME NEW a \in Seq(CredentialRecord), NEW b \in Seq(CredentialRecord), NEW X,
         Retains(a, b, X), NEW id, id \notin X, NEW p \in Nat, Has(a, id, p)
  PROVE  Has(b, id, p)
<1>1. PICK i \in DOMAIN a : a[i].id = id /\ a[i].password >= p BY DEF Has
<1>2. PICK j \in DOMAIN b : b[j].id = a[i].id /\ b[j].password >= a[i].password
  BY <1>1 DEF Retains
<1>3. a[i].password \in Nat /\ b[j].password \in Nat BY Fields
<1>4. b[j].password >= p BY <1>1, <1>2, <1>3
<1> QED BY <1>1, <1>2, <1>4 DEF Has

(* What is owed stays in a vault that retains all but what is forgotten.   *)
LEMMA OwedRetained ==
  ASSUME Types, NEW X, Forgets(X), NEW a \in Seq(CredentialRecord),
         NEW b \in Seq(CredentialRecord), Retains(a, b, X)
  PROVE  /\ OwedIn(owed, a) => OwedIn(owed', b)
         /\ WrittenIn(commit, a) => WrittenIn(commit', b)
<1>1. ASSUME NEW id, id \notin X, NEW p \in Nat, Has(a, id, p) PROVE Has(b, id, p)
  BY <1>1, HasRetained
<1>2. ASSUME OwedIn(owed, a) PROVE OwedIn(owed', b)
  <2>1. \A k \in DOMAIN owed' : k \in DOMAIN owed /\ k \notin X /\ owed'[k] = owed[k]
    BY DEF Forgets
  <2>2. \A k \in DOMAIN owed : owed[k] \in Nat /\ Has(a, k, owed[k]) BY <1>2 DEF OwedIn
  <2>3. \A k \in DOMAIN owed' : owed'[k] \in Nat /\ Has(b, k, owed'[k]) BY <1>1, <2>1, <2>2
  <2> QED BY <2>3 DEF OwedIn
<1>3. ASSUME WrittenIn(commit, a) PROVE WrittenIn(commit', b)
  <2> SUFFICES ASSUME NEW e \in Committers, commit'[e].pc = "mutated", commit'[e].id # 0
               PROVE  Has(b, commit'[e].id, commit'[e].password)
    BY DEF WrittenIn
  <2>1. /\ commit[e].pc = "mutated" /\ commit'[e].id = commit[e].id
        /\ commit'[e].password = commit[e].password /\ commit[e].id \notin X
    BY DEF Forgets
  <2>2. commit[e].password \in Nat BY CommitFields DEF Types
  <2>3. Has(a, commit[e].id, commit[e].password) BY <1>3, <2>1 DEF WrittenIn
  <2> QED BY <1>1, <2>1, <2>2, <2>3
<1> QED BY <1>2, <1>3

LEMMA DiskAlone == IInv /\ disk' = disk => DiskKept
<1> SUFFICES ASSUME IInv, disk' = disk PROVE DiskKept OBVIOUS
<1>1. disk \in Seq(CredentialRecord) BY DEF IInv, Drawn, DrawnBefore, Sound
<1>2. \A i \in DOMAIN disk : disk[i].password >= disk[i].password BY <1>1, Fields
<1> QED BY <1>2 DEF DiskKept

LEMMA InitIInv == Init => IInv
<1> SUFFICES ASSUME Init PROVE IInv OBVIOUS
<1>1. <<>> \in Vaults /\ <<>> \in Seq(ImportRow) /\ "Skip" \in Policies BY DEF Vaults, Policies
<1>2. NoCommit \in Commits /\ NoCommit.snap = <<>> BY <1>1 DEF NoCommit, Commits
<1>3. NoBatch \in Batches /\ NoBatch.items = <<>> /\ NoBatch.kind = "none" /\ NoBatch.snap = <<>>
  BY <1>1 DEF NoBatch, Batches
<1>4. Types
  <2>1. staged \in [import : Seq(ImportRow), restore : Vaults] BY <1>1 DEF Init
  <2>2. commit \in [Committers -> Commits] BY <1>2 DEF Init
  <2>3. batch \in Batches /\ batch.items \in IF batch.kind = "import" THEN Seq(ImportRow) ELSE Vaults
    BY <1>1, <1>3 DEF Init
  <2>4. fresh = 1 /\ crashes = 0 /\ raced \in BOOLEAN BY DEF Init
  <2> QED BY <2>1, <2>2, <2>3, <2>4 DEF Types
<1>5. Drawn
  <2>1. Sound(<<>>, fresh) /\ DOMAIN <<>> = {} BY EmptyIsSound
  <2>2. staged.import = <<>> /\ staged.restore = <<>> BY DEF Init
  <2>3. \A e \in Committers : commit[e].snap = <<>> BY <1>2 DEF Init
  <2>4. records = <<>> /\ disk = <<>> /\ backup = <<>> /\ batch.snap = <<>> /\ batch.items = <<>>
    BY <1>3 DEF Init
  <2> QED BY <2>1, <2>2, <2>3, <2>4 DEF Drawn, DrawnBefore
<1>6. Unlocked BY <1>3 DEF Init, Unlocked
<1>7. BatchGoesOn BY <1>6 DEF BatchGoesOn
<1>8. InStep BY <1>1, <1>6, KeepsItself DEF InStep, Init, Base, Vaults
<1> QED BY <1>4, <1>5, <1>7, <1>8 DEF IInv

LEMMA InitOwed == Init => OwedKept
<1> SUFFICES ASSUME Init PROVE OwedKept OBVIOUS
<1>1. DOMAIN owed = {} BY DEF Init
<1>2. \A e \in Committers : commit[e].pc = "idle" BY DEF Init, NoCommit
<1> QED BY <1>1, <1>2 DEF OwedKept, OwedIn, WrittenIn

(* A UI callback: the new vault is in memory and on disk, or the old one   *)
(* is in both places where it was.                                         *)
LEMMA CallbackKeeps ==
  ASSUME IInv, Unlocked, NEW new, fresh' \in Nat, fresh <= fresh', Sound(new, fresh'),
         PersistOrRollback(new), UNCHANGED <<batch, staged, backup, crashes, raced>>,
         NEW X, Forgets(X), Retains(records, new, X),
         \A i \in DOMAIN records : records[i].id \in X => records[i].archived
  PROVE  IInv' /\ DiskKept /\ OwedStep
<1>1. Types /\ Drawn /\ InStep BY DEF IInv
<1>2. DrawnBefore(fresh') BY <1>1, DrawnGrows DEF Drawn
<1>3. \/ records' = new /\ disk' = new
      \/ records' = records /\ disk' = disk
  BY DEF PersistOrRollback
<1>4. /\ commit' \in [Committers -> Commits]
      /\ \A e \in Committers : commit'[e].pc = commit[e].pc /\ commit'[e].snap = commit[e].snap
  BY DEF Forgets
<1>5. Types' BY <1>1, <1>4 DEF Types
<1>6. Drawn'
  <2>1. Sound(records', fresh') /\ Sound(disk', fresh') BY <1>2, <1>3 DEF DrawnBefore
  <2>2. Sound(backup', fresh') /\ Sound(staged'.restore, fresh') /\ Sound(batch'.snap, fresh')
    BY <1>2 DEF DrawnBefore
  <2>3. \A e \in Committers : Sound(commit'[e].snap, fresh') BY <1>2, <1>4 DEF DrawnBefore
  <2>4. /\ \A i \in DOMAIN staged'.import : staged'.import[i].password < fresh'
        /\ \A i \in DOMAIN batch'.items :
             /\ batch'.items[i].password < fresh'
             /\ batch'.kind = "restore" => batch'.items[i].id > 0 /\ batch'.items[i].id < fresh'
    BY <1>2 DEF DrawnBefore
  <2> QED BY <2>1, <2>2, <2>3, <2>4 DEF Drawn, DrawnBefore
<1>7. Unlocked' BY DEF Unlocked
<1>8. BatchGoesOn' BY <1>7 DEF BatchGoesOn
<1>9. Base = records /\ Base' = records' BY <1>7 DEF Base
<1>10. /\ new \in Seq(CredentialRecord) /\ records \in Seq(CredentialRecord)
       /\ disk \in Seq(CredentialRecord)
       /\ \A e \in Committers : commit[e].snap \in Seq(CredentialRecord)
  BY <1>1 DEF Drawn, DrawnBefore, Sound
<1>11. InStep'
  <2>1. CASE records' = new /\ disk' = new BY <1>9, <1>10, <2>1, KeepsItself DEF InStep
  <2>2. CASE records' = records /\ disk' = disk BY <1>1, <1>4, <1>9, <2>2 DEF InStep
  <2> QED BY <1>3, <2>1, <2>2
<1>12. OwedStep
  <2> SUFFICES ASSUME OwedKept, Alone, Alone' PROVE OwedKept' BY DEF OwedStep
  <2>1. /\ OwedIn(owed, records) /\ OwedIn(owed, disk) /\ WrittenIn(commit, records)
        /\ \A e \in Committers : commit[e].pc # "idle" => OwedIn(owed, commit[e].snap)
    BY DEF OwedKept
  <2>2. OwedIn(owed', new) /\ WrittenIn(commit', new) BY <1>1, <1>10, <2>1, OwedRetained
  <2>3. Retains(records, records, X) /\ Retains(disk, disk, X) BY <1>10, KeepsItself
  <2>4. OwedIn(owed', records) /\ WrittenIn(commit', records)
    BY <1>1, <1>10, <2>1, <2>3, OwedRetained
  <2>5. OwedIn(owed', disk) BY <1>1, <1>10, <2>1, <2>3, OwedRetained
  <2>6. ASSUME NEW e \in Committers, commit'[e].pc # "idle" PROVE OwedIn(owed', commit'[e].snap)
    <3>1. commit[e].snap \in Seq(CredentialRecord) /\ OwedIn(owed, commit[e].snap)
      BY <1>4, <1>10, <2>1, <2>6
    <3>2. Retains(commit[e].snap, commit[e].snap, X) BY <3>1, KeepsItself
    <3> QED BY <1>1, <1>4, <3>1, <3>2, OwedRetained
  <2>7. OwedIn(owed', records') /\ OwedIn(owed', disk') /\ WrittenIn(commit', records')
    BY <1>3, <2>2, <2>4, <2>5
  <2> QED BY <1>9, <2>6, <2>7 DEF OwedKept
<1>13. DiskKept
  <2>1. CASE disk' = disk BY <2>1, DiskAlone
  <2>2. CASE disk' = new
    <3> SUFFICES ASSUME ~raced, NEW i \in DOMAIN disk, ~disk[i].archived
                 PROVE  \E j \in DOMAIN new : new[j].id = disk[i].id /\ new[j].password >= disk[i].password
      BY <2>2 DEF DiskKept
    <3>1. Keeps(disk, records) BY <1>1, <1>9 DEF InStep
    <3>2. PICK k \in DOMAIN records : /\ records[k].id = disk[i].id
                                      /\ records[k].password >= disk[i].password
                                      /\ records[k].archived => disk[i].archived
      BY <3>1 DEF Keeps
    <3>3. records[k].id \notin X BY <3>2
    <3>4. PICK j \in DOMAIN new : new[j].id = records[k].id /\ new[j].password >= records[k].password
      BY <3>3 DEF Retains
    <3>5. new[j].password \in Nat /\ records[k].password \in Nat /\ disk[i].password \in Nat
      BY <1>10, Fields
    <3>6. new[j].password >= disk[i].password BY <3>2, <3>4, <3>5
    <3> QED BY <3>2, <3>4, <3>6
  <2> QED BY <1>3, <2>1, <2>2
<1> QED BY <1>5, <1>6, <1>8, <1>11, <1>12, <1>13 DEF IInv

LEMMA ColorsAreNats == \A c \in 0..(CARD_COLOR_COUNT - 1) : c \in Nat
BY RecordsAssumption

LEMMA SaveNewKeeps ==
  ASSUME IInv, NEW o \in Origins, NEW u \in Usernames, NEW c \in Nat, SaveNew(o, u, c)
  PROVE  IInv' /\ DiskKept /\ OwedStep
<1>1. Sound(records, fresh) /\ fresh \in Nat /\ fresh > 0 BY DEF IInv, Drawn, DrawnBefore, Types
<1>2. fresh' = fresh + 2 BY DEF SaveNew, Draw
<1>3. records \in Seq(CredentialRecord) BY <1>1 DEF Sound
<1>4. PICK q : q = NewRecord(records, fresh, o, u, fresh + 1) OBVIOUS
<1>5. fresh + 1 \in Nat BY <1>1
<1>6. q \in CredentialRecord /\ q.id = fresh /\ q.password = fresh + 1
  BY <1>1, <1>3, <1>4, <1>5, NewRecordIs
<1>7. PICK r : r = [q EXCEPT !.color = c] OBVIOUS
<1>8. r \in CredentialRecord /\ r.id = fresh /\ r.password = fresh + 1
  BY <1>6, <1>7 DEF CredentialRecord
<1>9. PersistOrRollback(Append(records, r)) BY <1>4, <1>7 DEF SaveNew
<1>10. /\ fresh' \in Nat /\ fresh <= fresh' /\ r.id > 0 /\ r.id < fresh' /\ r.password < fresh'
  BY <1>1, <1>2, <1>8
<1>11. fresh <= fresh BY <1>1
<1>12. r.id \notin Ids(records) BY <1>1, <1>8, <1>11, FreshIdIsNew
<1>13. Sound(Append(records, r), fresh') BY <1>1, <1>8, <1>10, <1>12, AppendKeeps
<1>14. Unlocked /\ UNCHANGED <<batch, staged, backup, crashes, raced>> /\ Forgets({})
  BY ForgetsNothing DEF IInv, SaveNew
<1>15. Retains(records, Append(records, r), {}) BY <1>1, <1>8, <1>10, <1>12, AppendKeeps
<1> QED BY <1>9, <1>10, <1>13, <1>14, <1>15, CallbackKeeps

LEMMA EditSaveKeeps ==
  ASSUME IInv, NEW id, NEW u \in Usernames, NEW c \in Nat, NEW keep \in BOOLEAN,
         EditSave(id, u, c, keep)
  PROVE  IInv' /\ DiskKept /\ OwedStep
<1> DEFINE i == PosOfId(records, id)
<1>1. Sound(records, fresh) /\ fresh \in Nat BY DEF IInv, Drawn, DrawnBefore, Types
<1>2. records \in Seq(CredentialRecord) BY <1>1 DEF Sound
<1>3. i \in DOMAIN records BY <1>2, PosOfIdFinds DEF EditSave
<1>4. records[i].password \in Nat /\ records[i].password < fresh
  BY <1>1, <1>2, <1>3, Fields DEF Sound
<1>5. PICK p : p = IF keep THEN records[i].password ELSE fresh OBVIOUS
<1>6. fresh' = IF keep THEN fresh ELSE fresh + 1 BY DEF EditSave, Draw
<1>7. PersistOrRollback(Edit(records, i, u, p, c)) BY <1>5 DEF EditSave
<1> HIDE DEF i
<1>8. /\ fresh' \in Nat /\ fresh <= fresh' /\ p \in Nat /\ p < fresh' /\ p >= records[i].password
  BY <1>1, <1>4, <1>5, <1>6
<1>9. Sound(Edit(records, i, u, p, c), fresh') BY <1>1, <1>3, <1>8, EditKeeps
<1>10. Unlocked /\ UNCHANGED <<batch, staged, backup, crashes, raced>> /\ Forgets({})
  BY ForgetsNothing DEF IInv, EditSave
<1>11. Retains(records, Edit(records, i, u, p, c), {}) BY <1>1, <1>3, <1>8, EditKeeps
<1> QED BY <1>7, <1>8, <1>9, <1>10, <1>11, CallbackKeeps

LEMMA ArchiveKeeps ==
  ASSUME IInv, NEW id, NEW a \in BOOLEAN, Archive(id, a)
  PROVE  IInv' /\ DiskKept /\ OwedStep
<1>1. Sound(records, fresh) /\ fresh \in Nat BY DEF IInv, Drawn, DrawnBefore, Types
<1>2. fresh' = fresh /\ fresh' \in Nat /\ fresh <= fresh' BY <1>1 DEF Archive
<1>3. Sound(SetArchived(records, id, a), fresh') BY <1>1, <1>2, SetArchivedKeeps
<1>4. /\ Unlocked /\ UNCHANGED <<batch, staged, backup, crashes, raced>> /\ Forgets({})
      /\ PersistOrRollback(SetArchived(records, id, a))
  BY ForgetsNothing DEF IInv, Archive
<1>5. Retains(records, SetArchived(records, id, a), {}) BY <1>1, SetArchivedKeeps
<1> QED BY <1>2, <1>3, <1>4, <1>5, CallbackKeeps

LEMMA ChangeColorKeeps ==
  ASSUME IInv, NEW id, NEW c \in Nat, ChangeColor(id, c)
  PROVE  IInv' /\ DiskKept /\ OwedStep
<1> DEFINE i == PosOfId(records, id)
<1>1. Sound(records, fresh) /\ fresh \in Nat BY DEF IInv, Drawn, DrawnBefore, Types
<1>2. fresh' = fresh /\ fresh' \in Nat /\ fresh <= fresh' BY <1>1 DEF ChangeColor
<1>3. records \in Seq(CredentialRecord) BY <1>1 DEF Sound
<1>4. i \in DOMAIN records BY <1>3, PosOfIdFinds DEF ChangeColor
<1>5. Sound(SetColor(records, i, c), fresh') BY <1>1, <1>2, <1>4, SetColorKeeps
<1>6. /\ Unlocked /\ UNCHANGED <<batch, staged, backup, crashes, raced>> /\ Forgets({})
      /\ PersistOrRollback(SetColor(records, i, c))
  BY ForgetsNothing DEF IInv, ChangeColor
<1>7. Retains(records, SetColor(records, i, c), {}) BY <1>1, <1>4, SetColorKeeps
<1> QED BY <1>2, <1>5, <1>6, <1>7, CallbackKeeps

LEMMA StutterKeeps == IInv /\ UNCHANGED vars => IInv' /\ OwedStep
<1> SUFFICES ASSUME IInv, UNCHANGED vars PROVE IInv' /\ OwedStep OBVIOUS
<1>1. /\ records' = records /\ disk' = disk /\ commit' = commit /\ batch' = batch
      /\ staged' = staged /\ backup' = backup /\ fresh' = fresh /\ crashes' = crashes
      /\ owed' = owed /\ raced' = raced
  BY DEF vars
<1>2. Types' BY <1>1 DEF IInv, Types
<1>3. Drawn' BY <1>1 DEF IInv, Drawn, DrawnBefore
<1>4. Base' = Base /\ Unlocked' = Unlocked BY <1>1 DEF Base, Unlocked
<1>5. BatchGoesOn' BY <1>1, <1>4 DEF IInv, BatchGoesOn
<1>6. InStep' BY <1>1, <1>4 DEF IInv, InStep
<1>7. OwedStep BY <1>1, <1>4 DEF OwedStep, OwedKept
<1> QED BY <1>2, <1>3, <1>5, <1>6, <1>7 DEF IInv

LEMMA DeleteForeverKeeps ==
  ASSUME IInv, NEW id, DeleteForever(id)
  PROVE  IInv' /\ DiskKept /\ OwedStep
<1> DEFINE i == PosOfId(records, id)
<1>1. Sound(records, fresh) /\ fresh \in Nat BY DEF IInv, Drawn, DrawnBefore, Types
<1>2. fresh' = fresh /\ fresh' \in Nat /\ fresh <= fresh' BY <1>1 DEF DeleteForever
<1>3. records \in Seq(CredentialRecord) BY <1>1 DEF Sound
<1>4. i \in DOMAIN records BY <1>3, PosOfIdFinds DEF DeleteForever, MayDelete
<1>5. Sound(RemovePos(records, i), fresh') BY <1>1, <1>2, <1>4, RemoveKeeps
<1>6. /\ Unlocked /\ UNCHANGED <<batch, staged, backup, crashes, raced>>
      /\ PersistOrRollback(RemovePos(records, i))
      /\ \/ records' # records /\ owed' = Forget(id) /\ commit' = ForgetCommits(id)
         \/ records' = records /\ UNCHANGED <<owed, commit>>
  BY DEF DeleteForever
<1>7. records[i].id = id /\ records[i].archived BY <1>3, PosOfIdFinds DEF DeleteForever, MayDelete
<1>8. Retains(records, RemovePos(records, i), {id}) BY <1>1, <1>4, <1>7, RemoveKeeps
<1>9. \A k \in DOMAIN records : records[k].id \in {id} => records[k].archived
  BY <1>1, <1>4, <1>7 DEF Sound
<1>10. CASE records' # records
  <2>1. Forgets({id}) BY <1>6, <1>10, ForgetsOne DEF IInv
  <2> QED BY <1>2, <1>5, <1>6, <1>8, <1>9, <2>1, CallbackKeeps
<1>11. CASE records' = records
  <2>1. RemovePos(records, i) # records
    <3>1. Len(records) \in Nat /\ DOMAIN records = 1..Len(records) BY <1>3
    <3>2. DOMAIN RemovePos(records, i) = 1..(Len(records) - 1) BY DEF RemovePos
    <3>3. Len(records) \in DOMAIN records /\ Len(records) \notin 1..(Len(records) - 1)
      BY <1>4, <3>1
    <3> QED BY <3>2, <3>3
  <2>2. disk' = disk BY <1>6, <1>11, <2>1 DEF PersistOrRollback
  <2>3. UNCHANGED vars BY <1>2, <1>6, <1>11, <2>2 DEF vars
  <2> QED BY <2>2, <2>3, StutterKeeps, DiskAlone
<1> QED BY <1>10, <1>11

(* Steps that leave the vault, the disk and the batch alone.               *)
LEMMA StagingKeeps ==
  ASSUME IInv, Unlocked, UNCHANGED <<records, disk, commit, batch, crashes, owed, raced>>,
         fresh' \in Nat, fresh <= fresh', Sound(backup', fresh'),
         staged' \in [import : Seq(ImportRow), restore : Vaults], Sound(staged'.restore, fresh'),
         \A i \in DOMAIN staged'.import : staged'.import[i].password < fresh'
  PROVE  IInv' /\ OwedStep
<1>1. Types /\ Drawn /\ InStep BY DEF IInv
<1>2. DrawnBefore(fresh') BY <1>1, DrawnGrows DEF Drawn
<1>3. Types' BY <1>1 DEF Types
<1>4. Drawn' BY <1>2 DEF Drawn, DrawnBefore
<1>5. Unlocked' /\ Base' = Base BY DEF Unlocked, Base
<1>6. BatchGoesOn' BY <1>5 DEF BatchGoesOn
<1>7. InStep' BY <1>1, <1>5 DEF InStep
<1>8. OwedStep BY <1>5 DEF OwedStep, OwedKept
<1> QED BY <1>3, <1>4, <1>6, <1>7, <1>8 DEF IInv

LEMMA ImportPickKeeps ==
  ASSUME IInv, NEW rows \in Rows, ImportPick(rows)
  PROVE  IInv' /\ OwedStep
<1>1. PICK n \in 1..MaxItems : rows \in [1..n -> Origins \X Usernames] BY DEF Rows
<1>2. n \in Nat /\ DOMAIN rows = 1..n BY <1>1, VaultAssumption
<1>3. rows \in Seq(Origins \X Usernames) /\ Len(rows) = n BY <1>1, <1>2
<1> DEFINE pick == [i \in DOMAIN rows |-> [origin |-> rows[i][1], username |-> rows[i][2],
                                           password |-> fresh + i - 1]]
<1>4. /\ Types /\ Sound(backup, fresh) /\ Sound(staged.restore, fresh) /\ fresh \in Nat
      /\ staged \in [import : Seq(ImportRow), restore : Vaults]
  BY DEF IInv, Drawn, DrawnBefore, Types
<1>5. fresh' = fresh + n BY <1>3 DEF ImportPick, Draw
<1>6. fresh' \in Nat /\ fresh <= fresh' BY <1>2, <1>4, <1>5
<1>7. ASSUME NEW i \in 1..n
      PROVE  pick[i] \in ImportRow /\ pick[i].password < fresh'
  <2>1. rows[i][1] \in Origins /\ rows[i][2] \in Usernames BY <1>1
  <2>2. fresh + i - 1 \in Nat /\ fresh + i - 1 < fresh' BY <1>2, <1>4, <1>5
  <2>3. pick[i] = [origin |-> rows[i][1], username |-> rows[i][2], password |-> fresh + i - 1]
    BY <1>2
  <2> HIDE DEF pick
  <2> QED BY <2>1, <2>2, <2>3 DEF ImportRow
<1>8. DOMAIN pick = 1..n BY <1>2
<1>9. pick = [i \in 1..n |-> pick[i]] BY <1>2
<1>10. staged' = [staged EXCEPT !.import = pick] BY DEF ImportPick
<1> HIDE DEF pick
<1>11. pick \in Seq(ImportRow)
  <2>1. pick \in [1..n -> ImportRow] BY <1>7, <1>9
  <2> QED BY <1>2, <2>1
<1>12. staged' \in [import : Seq(ImportRow), restore : Vaults] BY <1>4, <1>10, <1>11
<1>13. staged'.import = pick /\ staged'.restore = staged.restore BY <1>4, <1>10
<1>14. \A i \in DOMAIN staged'.import : staged'.import[i].password < fresh' BY <1>7, <1>8, <1>13
<1>15. Sound(backup', fresh') /\ Sound(staged'.restore, fresh')
  BY <1>4, <1>6, <1>13, SoundGrows DEF ImportPick
<1>16. Unlocked /\ UNCHANGED <<records, disk, commit, batch, crashes, owed, raced>>
  BY DEF ImportPick
<1> QED BY <1>6, <1>12, <1>14, <1>15, <1>16, StagingKeeps

LEMMA RestorePickKeeps == IInv /\ RestorePick => IInv' /\ OwedStep
<1> SUFFICES ASSUME IInv, RestorePick PROVE IInv' /\ OwedStep OBVIOUS
<1>1. /\ Sound(backup, fresh) /\ fresh \in Nat /\ staged \in [import : Seq(ImportRow), restore : Vaults]
      /\ \A i \in DOMAIN staged.import : staged.import[i].password < fresh
  BY DEF IInv, Drawn, DrawnBefore, Types
<1>2. staged' = [staged EXCEPT !.restore = backup] BY DEF RestorePick
<1>3. backup \in Vaults BY <1>1 DEF Sound, Vaults
<1>4. /\ staged' \in [import : Seq(ImportRow), restore : Vaults]
      /\ staged'.restore = backup /\ staged'.import = staged.import
  BY <1>1, <1>2, <1>3
<1>5. /\ Unlocked /\ UNCHANGED <<records, disk, commit, batch, crashes, owed, raced>>
      /\ backup' = backup /\ fresh' = fresh
  BY DEF RestorePick
<1>6. fresh' \in Nat /\ fresh <= fresh' BY <1>1, <1>5
<1> QED BY <1>1, <1>4, <1>5, <1>6, StagingKeeps

LEMMA CancelStagedKeeps ==
  ASSUME IInv, NEW kind \in {"import", "restore"}, CancelStaged(kind)
  PROVE  IInv' /\ OwedStep
<1>1. /\ Sound(backup, fresh) /\ fresh \in Nat /\ staged \in [import : Seq(ImportRow), restore : Vaults]
      /\ \A i \in DOMAIN staged.import : staged.import[i].password < fresh
      /\ Sound(staged.restore, fresh)
  BY DEF IInv, Drawn, DrawnBefore, Types
<1>2. <<>> \in Vaults /\ <<>> \in Seq(ImportRow) /\ Sound(<<>>, fresh) /\ DOMAIN <<>> = {}
  BY EmptyIsSound DEF Vaults
<1>3. /\ Unlocked /\ UNCHANGED <<records, disk, commit, batch, crashes, owed, raced>>
      /\ backup' = backup /\ fresh' = fresh
  BY DEF CancelStaged
<1>4. fresh' \in Nat /\ fresh <= fresh' BY <1>1, <1>3
<1>5. CASE kind = "import"
  <2>1. staged' = [staged EXCEPT !.import = <<>>] BY <1>5 DEF CancelStaged
  <2>2. /\ staged' \in [import : Seq(ImportRow), restore : Vaults]
        /\ staged'.restore = staged.restore /\ staged'.import = <<>>
    BY <1>1, <1>2, <2>1
  <2> QED BY <1>1, <1>2, <1>3, <1>4, <2>2, StagingKeeps
<1>6. CASE kind = "restore"
  <2>1. staged' = [staged EXCEPT !.restore = <<>>] BY <1>6 DEF CancelStaged
  <2>2. /\ staged' \in [import : Seq(ImportRow), restore : Vaults]
        /\ staged'.restore = <<>> /\ staged'.import = staged.import
    BY <1>1, <1>2, <2>1
  <2> QED BY <1>1, <1>2, <1>3, <1>4, <2>2, StagingKeeps
<1> QED BY <1>5, <1>6

LEMMA ExportKeeps == IInv /\ Export => IInv' /\ OwedStep
<1> SUFFICES ASSUME IInv, Export PROVE IInv' /\ OwedStep OBVIOUS
<1>1. /\ Sound(records, fresh) /\ fresh \in Nat /\ staged \in [import : Seq(ImportRow), restore : Vaults]
      /\ \A i \in DOMAIN staged.import : staged.import[i].password < fresh
      /\ Sound(staged.restore, fresh)
  BY DEF IInv, Drawn, DrawnBefore, Types
<1>2. /\ Unlocked /\ UNCHANGED <<records, disk, commit, batch, crashes, owed, raced>>
      /\ backup' = records /\ fresh' = fresh /\ staged' = staged
  BY DEF Export
<1>3. fresh' \in Nat /\ fresh <= fresh' BY <1>1, <1>2
<1> QED BY <1>1, <1>2, <1>3, StagingKeeps

LEMMA ConfirmKeeps ==
  ASSUME IInv, NEW kind \in {"import", "restore"}, NEW policy \in Policies, Confirm(kind, policy)
  PROVE  IInv' /\ OwedStep
<1>1. Types /\ Drawn /\ InStep /\ Unlocked BY DEF IInv, Confirm
<1>2. /\ Sound(records, fresh) /\ Sound(disk, fresh) /\ Sound(backup, fresh) /\ fresh \in Nat
      /\ Sound(staged.restore, fresh) /\ staged \in [import : Seq(ImportRow), restore : Vaults]
      /\ \A i \in DOMAIN staged.import : staged.import[i].password < fresh
  BY <1>1 DEF Drawn, DrawnBefore, Types
<1>3. records \in Vaults /\ staged.import \in Seq(ImportRow) /\ staged.restore \in Vaults
  BY <1>2 DEF Sound, Vaults
<1>4. PICK b : b = [kind |-> kind, items |-> staged[kind], policy |-> policy,
                    snap |-> records, changed |-> FALSE]
  OBVIOUS
<1>5. /\ batch' = b /\ UNCHANGED <<records, disk, commit, backup, fresh, crashes, owed, raced>>
      /\ staged' = [staged EXCEPT ![kind] = <<>>]
  BY <1>4 DEF Confirm
<1>6. /\ b.kind = kind /\ b.items = staged[kind] /\ b.snap = records /\ ~b.changed
      /\ b.policy = policy
  BY <1>4
<1>7. b \in Batches
  <2>1. staged[kind] \in Seq(ImportRow) \cup Vaults BY <1>3
  <2> QED BY <1>3, <1>4, <2>1 DEF Batches
<1>8. b.items \in IF b.kind = "import" THEN Seq(ImportRow) ELSE Vaults BY <1>3, <1>6
<1>9. <<>> \in Vaults /\ <<>> \in Seq(ImportRow) /\ Sound(<<>>, fresh) /\ DOMAIN <<>> = {}
  BY EmptyIsSound DEF Vaults
<1>10. /\ staged' \in [import : Seq(ImportRow), restore : Vaults]
       /\ staged'.import \in {staged.import, <<>>} /\ staged'.restore \in {staged.restore, <<>>}
  <2>1. CASE kind = "import" BY <1>2, <1>5, <1>9, <2>1
  <2>2. CASE kind = "restore" BY <1>2, <1>5, <1>9, <2>2
  <2> QED BY <2>1, <2>2
<1>11. Types' BY <1>1, <1>5, <1>7, <1>8, <1>10 DEF Types
<1>12. Drawn'
  <2>1. Sound(batch'.snap, fresh) BY <1>2, <1>5, <1>6
  <2>2. Sound(staged'.restore, fresh) BY <1>2, <1>9, <1>10
  <2>3. \A i \in DOMAIN staged'.import : staged'.import[i].password < fresh BY <1>2, <1>9, <1>10
  <2>4. ASSUME NEW i \in DOMAIN batch'.items
        PROVE  /\ batch'.items[i].password < fresh
               /\ batch'.kind = "restore" => batch'.items[i].id > 0 /\ batch'.items[i].id < fresh
    <3>1. CASE kind = "import" BY <1>2, <1>5, <1>6, <3>1
    <3>2. CASE kind = "restore" BY <1>2, <1>5, <1>6, <3>2 DEF Sound
    <3> QED BY <3>1, <3>2
  <2>5. \A e \in Committers : Sound(commit'[e].snap, fresh)
    BY <1>1, <1>5 DEF Drawn, DrawnBefore
  <2> QED BY <1>2, <1>5, <2>1, <2>2, <2>3, <2>4, <2>5 DEF Drawn, DrawnBefore
<1>13. ~Unlocked' BY <1>5, <1>6 DEF Unlocked
<1>14. BatchGoesOn'
  <2>1. records' = batch'.snap BY <1>5, <1>6
  <2>2. Len(records') >= Len(batch'.snap)
    <3>1. Len(records) \in Nat BY <1>3 DEF Vaults
    <3> QED BY <1>5, <2>1, <3>1
  <2> QED BY <2>1, <2>2 DEF BatchGoesOn
<1>15. Base' = Base BY <1>1, <1>5, <1>6, <1>13 DEF Base
<1>16. InStep' BY <1>1, <1>5, <1>15 DEF InStep
<1>17. OwedStep BY <1>5, <1>15 DEF OwedStep, OwedKept
<1> QED BY <1>11, <1>12, <1>14, <1>16, <1>17 DEF IInv

(* What one record of a batch does, in the terms of Took.                  *)
LEMMA BatchItemTakes ==
  ASSUME IInv, BatchItem
  PROVE  LET hit == PosOfLogin(records, Head(batch.items).origin, Head(batch.items).username)
         IN /\ Took(records, records', batch.policy, hit, fresh)
            /\ fresh' = IF fresh \in Ids(records') THEN fresh + 1 ELSE fresh
<1> DEFINE item == Head(batch.items)
           hit == PosOfLogin(records, item.origin, item.username)
<1>1. /\ Sound(records, fresh) /\ fresh \in Nat /\ fresh > 0 /\ batch \in Batches
      /\ batch.items \in IF batch.kind = "import" THEN Seq(ImportRow) ELSE Vaults
      /\ batch.items # <<>> /\ batch.kind \in {"import", "restore"} /\ batch.policy \in Policies
  BY BatchFields DEF IInv, Drawn, DrawnBefore, Types, BatchItem, Unlocked
<1>2. 1 \in DOMAIN batch.items /\ item = batch.items[1]
  <2>1. CASE batch.kind = "import" BY <1>1, <2>1
  <2>2. CASE batch.kind = "restore" BY <1>1, <2>2 DEF Vaults
  <2> QED BY <1>1, <2>1, <2>2
<1>3. /\ item.password < fresh
      /\ batch.kind = "restore" => item.id > 0 /\ item.id < fresh
  BY <1>2 DEF IInv, Drawn, DrawnBefore
<1>4. /\ batch.kind = "import" => records' = ImportItem(records, item, batch.policy, fresh)
      /\ batch.kind = "restore" => records' = RestoreItem(records, item, batch.policy, fresh)
      /\ fresh' = IF fresh \in Ids(records') THEN fresh + 1 ELSE fresh
  BY <1>1 DEF BatchItem, Draw
<1>5. CASE batch.kind = "import"
  <2>1. item \in [origin : Origins, username : Usernames, password : Nat]
    <3>1. batch.items \in Seq(ImportRow) BY <1>1, <1>5
    <3>2. batch.items[1] \in ImportRow BY <1>2, <3>1
    <3> QED BY <1>2, <3>2 DEF ImportRow
  <2> HIDE DEF item
  <2>2. Took(records, ImportItem(records, item, batch.policy, fresh), batch.policy, hit, fresh)
    BY <1>1, <1>3, <2>1, ImportItemTakes
  <2> QED BY <1>4, <1>5, <2>2 DEF item
<1>6. CASE batch.kind = "restore"
  <2>1. item \in CredentialRecord BY <1>1, <1>6 DEF Vaults
  <2> HIDE DEF item
  <2>2. Took(records, RestoreItem(records, item, batch.policy, fresh), batch.policy, hit, fresh)
    BY <1>1, <1>3, <1>6, <2>1, RestoreItemTakes
  <2> QED BY <1>4, <1>6, <2>2 DEF item
<1> QED BY <1>1, <1>5, <1>6

LEMMA BatchItemKeeps == IInv /\ BatchItem => IInv' /\ OwedStep
<1> SUFFICES ASSUME IInv, BatchItem PROVE IInv' /\ OwedStep OBVIOUS
<1> DEFINE item == Head(batch.items)
           hit == PosOfLogin(records, item.origin, item.username)
<1>1. Types /\ Drawn /\ BatchGoesOn /\ InStep BY DEF IInv
<1>2. /\ Took(records, records', batch.policy, hit, fresh)
      /\ fresh' = IF fresh \in Ids(records') THEN fresh + 1 ELSE fresh
  BY BatchItemTakes
<1>3. /\ ~Unlocked /\ batch.items # <<>> /\ UNCHANGED <<disk, staged, backup, crashes, raced>>
      /\ batch' = [batch EXCEPT !.items = Tail(batch.items),
                                !.changed = @ \/ hit = 0 \/ batch.policy # "Skip"]
      /\ IF batch.policy = "Replace" /\ hit # 0
         THEN owed' = Forget(records[hit].id) /\ commit' = ForgetCommits(records[hit].id)
         ELSE UNCHANGED <<owed, commit>>
  BY DEF BatchItem
<1> HIDE DEF hit
<1>4. fresh \in Nat /\ fresh' \in Nat /\ fresh <= fresh' BY <1>1, <1>2 DEF Types
<1>5. DrawnBefore(fresh') BY <1>1, <1>4, DrawnGrows DEF Drawn
<1>6. Sound(records', fresh') BY <1>2 DEF Took
<1>20. PICK X : Forgets(X) /\ Retains(records, records', X)
  <2>1. CASE batch.policy = "Replace" /\ hit # 0
    <3>1. Retains(records, records', {records[hit].id}) BY <1>2, <2>1 DEF Took
    <3>2. Forgets({records[hit].id}) BY <1>1, <1>3, <2>1, ForgetsOne
    <3> QED BY <3>1, <3>2
  <2>2. CASE ~(batch.policy = "Replace" /\ hit # 0)
    <3>1. Retains(records, records', {}) BY <1>2, <2>2 DEF Took
    <3>2. Forgets({}) BY <1>1, <1>3, <2>2, ForgetsNothing
    <3> QED BY <3>1, <3>2
  <2> QED BY <2>1, <2>2
<1>7. /\ commit' \in [Committers -> Commits]
      /\ \A e \in Committers : commit'[e].pc = commit[e].pc /\ commit'[e].snap = commit[e].snap
  BY <1>20 DEF Forgets
<1>8. PICK b \in Batches : b = batch BY <1>1 DEF Types
<1>9. PICK rest : rest = Tail(b.items) OBVIOUS
<1>10. PICK ch \in BOOLEAN : ch = (b.changed \/ hit = 0 \/ b.policy # "Skip")
  OBVIOUS
<1>11. rest \in Seq(ImportRow) \cup Vaults /\ rest \in IF b.kind = "import" THEN Seq(ImportRow) ELSE Vaults
  <2>1. CASE b.kind = "import" BY <1>1, <1>3, <1>8, <1>9, <2>1 DEF Types
  <2>2. CASE b.kind # "import" BY <1>1, <1>3, <1>8, <1>9, <2>2 DEF Types, Vaults
  <2> QED BY <2>1, <2>2
<1>12. \A i \in DOMAIN rest : i + 1 \in DOMAIN b.items /\ rest[i] = b.items[i + 1]
  <2>1. CASE b.kind = "import" BY <1>1, <1>3, <1>8, <1>9, <2>1 DEF Types
  <2>2. CASE b.kind # "import" BY <1>1, <1>3, <1>8, <1>9, <2>2 DEF Types, Vaults
  <2> QED BY <2>1, <2>2
<1>13. batch' = [b EXCEPT !.items = rest, !.changed = ch] BY <1>3, <1>8, <1>9, <1>10
<1>14. /\ batch' \in Batches /\ batch'.kind = b.kind /\ batch'.items = rest
       /\ batch'.policy = b.policy /\ batch'.snap = b.snap /\ batch'.changed = ch
  BY <1>8, <1>10, <1>11, <1>13 DEF Batches
<1>15. Types'
  <2>1. staged' \in [import : Seq(ImportRow), restore : Vaults] BY <1>1, <1>3 DEF Types
  <2>2. batch'.items \in IF batch'.kind = "import" THEN Seq(ImportRow) ELSE Vaults BY <1>11, <1>14
  <2>3. fresh' > 0 /\ crashes' \in Nat /\ raced' \in BOOLEAN BY <1>1, <1>3, <1>4 DEF Types
  <2> QED BY <1>4, <1>7, <1>14, <2>1, <2>2, <2>3 DEF Types
<1>16. Drawn'
  <2>1. \A e \in Committers : Sound(commit'[e].snap, fresh') BY <1>5, <1>7 DEF DrawnBefore
  <2>2. \A i \in DOMAIN batch'.items :
          /\ batch'.items[i].password < fresh'
          /\ batch'.kind = "restore" => batch'.items[i].id > 0 /\ batch'.items[i].id < fresh'
    BY <1>5, <1>8, <1>12, <1>14 DEF DrawnBefore
  <2>3. /\ Sound(disk', fresh') /\ Sound(backup', fresh') /\ Sound(staged'.restore, fresh')
        /\ \A i \in DOMAIN staged'.import : staged'.import[i].password < fresh'
    BY <1>3, <1>5 DEF DrawnBefore
  <2>4. Sound(batch'.snap, fresh') BY <1>5, <1>8, <1>14 DEF DrawnBefore
  <2> QED BY <1>6, <2>1, <2>2, <2>3, <2>4 DEF Drawn, DrawnBefore
<1>17. ~Unlocked' BY <1>3, <1>8, <1>14 DEF Unlocked
<1>18. BatchGoesOn'
  <2>1. ASSUME ~ch PROVE records' = b.snap
    <3>1. ~b.changed /\ hit # 0 /\ b.policy = "Skip" BY <1>10, <2>1
    <3> QED BY <1>1, <1>2, <1>3, <1>8, <3>1 DEF Took, BatchGoesOn
  <2>2. Ids(b.snap) \subseteq Ids(records') BY <1>1, <1>2, <1>3, <1>8 DEF Took, BatchGoesOn
  <2>3. ASSUME b.policy # "Replace"
        PROVE  Len(records') >= Len(b.snap) /\ \A i \in DOMAIN b.snap : records'[i] = b.snap[i]
    <3>1. /\ Len(records) >= Len(b.snap) /\ \A i \in DOMAIN b.snap : records[i] = b.snap[i]
          /\ Len(records') >= Len(records) /\ \A i \in DOMAIN records : records'[i] = records[i]
      BY <1>1, <1>2, <1>3, <1>8, <2>3 DEF Took, BatchGoesOn
    <3>2. records \in Seq(CredentialRecord) /\ b.snap \in Seq(CredentialRecord)
          /\ records' \in Seq(CredentialRecord)
      BY <1>1, <1>6, <1>8 DEF Drawn, DrawnBefore, Sound
    <3>3. DOMAIN b.snap \subseteq DOMAIN records BY <3>1, <3>2
    <3> QED BY <3>1, <3>2, <3>3
  <2> QED BY <1>14, <1>17, <2>1, <2>2, <2>3 DEF BatchGoesOn
<1>19. Base = b.snap /\ Base' = Base BY <1>3, <1>8, <1>14, <1>17 DEF Base
<1>21. InStep' BY <1>1, <1>3, <1>7, <1>19 DEF InStep
<1>22. OwedStep
  <2> SUFFICES ASSUME OwedKept, Alone, Alone' PROVE OwedKept' BY DEF OwedStep
  <2>1. /\ OwedIn(owed, records) /\ OwedIn(owed, disk) /\ WrittenIn(commit, records)
        /\ OwedIn(owed, b.snap) /\ WrittenIn(commit, b.snap)
        /\ \A e \in Committers : commit[e].pc # "idle" => OwedIn(owed, commit[e].snap)
    BY <1>19 DEF OwedKept
  <2>2. /\ records \in Seq(CredentialRecord) /\ records' \in Seq(CredentialRecord)
        /\ disk \in Seq(CredentialRecord) /\ b.snap \in Seq(CredentialRecord)
        /\ \A e \in Committers : commit[e].snap \in Seq(CredentialRecord)
    BY <1>1, <1>6, <1>8 DEF Drawn, DrawnBefore, Sound
  <2>3. OwedIn(owed', records') /\ WrittenIn(commit', records')
    BY <1>1, <1>20, <2>1, <2>2, OwedRetained
  <2>4. Retains(disk, disk, X) /\ Retains(b.snap, b.snap, X) BY <2>2, KeepsItself
  <2>5. OwedIn(owed', disk) BY <1>1, <1>20, <2>1, <2>2, <2>4, OwedRetained
  <2>6. OwedIn(owed', b.snap) /\ WrittenIn(commit', b.snap)
    BY <1>1, <1>20, <2>1, <2>2, <2>4, OwedRetained
  <2>7. ASSUME NEW e \in Committers, commit'[e].pc # "idle" PROVE OwedIn(owed', commit'[e].snap)
    <3>1. commit[e].snap \in Seq(CredentialRecord) /\ OwedIn(owed, commit[e].snap)
      BY <1>7, <2>1, <2>2, <2>7
    <3>2. Retains(commit[e].snap, commit[e].snap, X) BY <3>1, KeepsItself
    <3> QED BY <1>1, <1>7, <1>20, <3>1, <3>2, OwedRetained
  <2> QED BY <1>3, <1>19, <2>3, <2>5, <2>6, <2>7 DEF OwedKept
<1> QED BY <1>15, <1>16, <1>18, <1>21, <1>22 DEF IInv

LEMMA NothingUnderWay ==
  /\ NoBatch \in Batches /\ NoBatch.kind = "none" /\ NoBatch.items = <<>> /\ NoBatch.snap = <<>>
  /\ NoCommit \in Commits /\ NoCommit.snap = <<>> /\ NoCommit.pc = "idle"
  /\ <<>> \in Vaults /\ <<>> \in Seq(ImportRow) /\ DOMAIN <<>> = {} /\ \A n : Sound(<<>>, n)
<1>1. <<>> \in Vaults /\ <<>> \in Seq(ImportRow) /\ "Skip" \in Policies BY DEF Vaults, Policies
<1>2. NoCommit \in Commits /\ NoCommit.snap = <<>> /\ NoCommit.pc = "idle"
  BY <1>1 DEF NoCommit, Commits
<1>3. NoBatch \in Batches /\ NoBatch.items = <<>> /\ NoBatch.kind = "none" /\ NoBatch.snap = <<>>
  BY <1>1 DEF NoBatch, Batches
<1> QED BY <1>1, <1>2, <1>3, EmptyIsSound

LEMMA BatchEndsEitherWay ==
  ASSUME IInv, BatchEnd
  PROVE  (records' = records /\ disk' = records) \/ (records' = batch.snap /\ disk' = disk)
<1>1. CASE batch.changed BY <1>1 DEF BatchEnd
<1>2. CASE ~batch.changed BY <1>2 DEF BatchEnd, IInv, BatchGoesOn
<1> QED BY <1>1, <1>2

LEMMA BatchEndKeeps ==
  ASSUME IInv, BatchEnd
  PROVE  IInv' /\ DiskKept /\ OwedStep
<1>1. Types /\ Drawn /\ BatchGoesOn /\ InStep BY DEF IInv
<1>2. /\ ~Unlocked /\ batch' = NoBatch
      /\ UNCHANGED <<commit, staged, backup, fresh, crashes, owed, raced>>
  BY DEF BatchEnd
<1>3. (records' = records /\ disk' = records) \/ (records' = batch.snap /\ disk' = disk)
  BY BatchEndsEitherWay
<1>4. /\ Sound(records, fresh) /\ Sound(disk, fresh) /\ Sound(batch.snap, fresh)
      /\ records \in Seq(CredentialRecord) /\ disk \in Seq(CredentialRecord)
  BY <1>1 DEF Drawn, DrawnBefore, Sound
<1>5. Types' BY <1>1, <1>2, NothingUnderWay DEF Types
<1>6. Drawn'
  <2>1. Sound(records', fresh') /\ Sound(disk', fresh') BY <1>2, <1>3, <1>4
  <2>2. /\ Sound(backup', fresh') /\ Sound(staged'.restore, fresh')
        /\ \A e \in Committers : Sound(commit'[e].snap, fresh')
        /\ \A i \in DOMAIN staged'.import : staged'.import[i].password < fresh'
    BY <1>1, <1>2 DEF Drawn, DrawnBefore
  <2>3. Sound(batch'.snap, fresh') /\ DOMAIN batch'.items = {} BY <1>2, NothingUnderWay
  <2> QED BY <2>1, <2>2, <2>3 DEF Drawn, DrawnBefore
<1>7. Unlocked' BY <1>2, NothingUnderWay DEF Unlocked
<1>8. BatchGoesOn' BY <1>7 DEF BatchGoesOn
<1>9. Base = batch.snap /\ Base' = records' BY <1>2, <1>7 DEF Base
<1>10. InStep'
  <2>1. CASE records' = records /\ disk' = records BY <1>4, <1>9, <2>1, KeepsItself DEF InStep
  <2>2. CASE records' = batch.snap /\ disk' = disk BY <1>1, <1>2, <1>9, <2>2 DEF InStep
  <2> QED BY <1>3, <2>1, <2>2
<1>11. OwedStep BY <1>2, <1>3, <1>9 DEF OwedStep, OwedKept
<1>12. DiskKept
  <2>1. CASE disk' = disk BY <2>1, DiskAlone
  <2>2. CASE disk' = records
    <3> SUFFICES ASSUME ~raced, NEW i \in DOMAIN disk
                 PROVE  \E j \in DOMAIN records : records[j].id = disk[i].id
      BY <1>2, <2>2 DEF DiskKept
    <3>1. Keeps(disk, batch.snap) BY <1>1, <1>9 DEF InStep
    <3>2. disk[i].id \in Ids(batch.snap) BY <3>1 DEF Keeps, Ids
    <3>3. disk[i].id \in Ids(records) BY <1>1, <1>2, <3>2 DEF BatchGoesOn
    <3> QED BY <3>3 DEF Ids
  <2> QED BY <1>3, <2>1, <2>2
<1> QED BY <1>5, <1>6, <1>8, <1>10, <1>11, <1>12 DEF IInv

(* What commit_store_mutation's first step leaves behind.                  *)
LEMMA CommitMutateWrites ==
  ASSUME IInv, NEW e \in Committers, NEW o \in Origins, NEW u \in Usernames, CommitMutate(e, o, u)
  PROVE  /\ fresh \in Nat /\ fresh' \in Nat /\ fresh < fresh'
         /\ Sound(records', fresh') /\ Keeps(records, records')
         /\ commit' \in [Committers -> Commits]
         /\ \A d \in Committers : d # e => commit'[d] = commit[d]
         /\ commit'[e].pc = "mutated" /\ commit'[e].snap = records /\ commit'[e].password = fresh
         /\ LET k == PosOfLive(records', o, u)
            IN /\ k # 0 /\ k \in DOMAIN records' /\ records'[k].id = commit'[e].id
               /\ records'[k].password = commit'[e].password
<1> DEFINE new == Upsert(records, o, u, fresh, fresh + 1)
           k == PosOfLogin(new, o, u)
           draws == IF PosOfLogin(records, o, u) = 0 THEN 2 ELSE 1
<1>1. Types /\ Sound(records, fresh) BY DEF IInv, Drawn, DrawnBefore
<1>2. fresh \in Nat /\ fresh > 0 /\ commit \in [Committers -> Commits] BY <1>1 DEF Types
<1>3. fresh' = fresh + draws BY DEF CommitMutate, Draw
<1>4. fresh' \in Nat /\ fresh < fresh' /\ fresh + 1 \in Nat /\ fresh <= fresh BY <1>2, <1>3
<1>5. PosOfLogin(records, o, u) = 0 => fresh + 1 >= fresh /\ fresh + 1 < fresh' BY <1>2, <1>3
<1>6. records' = new BY DEF CommitMutate
<1>7. commit' = [commit EXCEPT ![e] = [pc |-> "mutated", snap |-> records,
                                       id |-> new[k].id, password |-> fresh]]
  BY DEF CommitMutate
<1>8. /\ Sound(new, fresh') /\ Keeps(records, new)
      /\ k \in DOMAIN new /\ new[k].password = fresh /\ PosOfLive(new, o, u) = k /\ k # 0
  <2>1. PICK n \in Nat : n = fresh BY <1>2
  <2>2. PICK m \in Nat : m = fresh' BY <1>4
  <2>3. PICK id \in Nat : id = fresh + 1 BY <1>4
  <2>4. /\ Sound(records, n) /\ n <= n /\ n < m /\ n > 0
        /\ PosOfLogin(records, o, u) = 0 => id >= n /\ id < m
    BY <1>1, <1>2, <1>4, <1>5, <2>1, <2>2, <2>3
  <2>5. PICK v : v = Upsert(records, o, u, n, id) OBVIOUS
  <2>6. PICK l : l = PosOfLogin(v, o, u) OBVIOUS
  <2>7. /\ Sound(v, m) /\ Keeps(records, v)
        /\ l \in DOMAIN v /\ v[l].password = n /\ PosOfLive(v, o, u) = l /\ l # 0
    BY <2>4, <2>5, <2>6, UpsertKeeps
  <2> QED BY <2>1, <2>2, <2>3, <2>5, <2>6, <2>7
<1> HIDE DEF new, k, draws
<1>9. new \in Seq(CredentialRecord) BY <1>8 DEF Sound
<1>10. new[k].id \in Nat BY <1>8, <1>9, Fields
<1>11. records \in Vaults BY <1>1 DEF Sound, Vaults
<1>12. PICK c : c = [pc |-> "mutated", snap |-> records, id |-> new[k].id, password |-> fresh]
  OBVIOUS
<1>13. c \in Commits BY <1>2, <1>10, <1>11, <1>12 DEF Commits
<1>14. c.pc = "mutated" /\ c.snap = records /\ c.id = new[k].id /\ c.password = fresh BY <1>12
<1>15. commit' = [commit EXCEPT ![e] = c] BY <1>7, <1>12
<1>16. /\ commit' \in [Committers -> Commits] /\ commit'[e] = c
       /\ \A d \in Committers : d # e => commit'[d] = commit[d]
  BY <1>2, <1>13, <1>15
<1> QED BY <1>2, <1>4, <1>6, <1>8, <1>14, <1>16

LEMMA CommitMutateKeeps ==
  ASSUME IInv, NEW e \in Committers, NEW o \in Origins, NEW u \in Usernames, CommitMutate(e, o, u)
  PROVE  IInv' /\ OwedStep
<1>1. Types /\ Drawn /\ BatchGoesOn /\ InStep BY DEF IInv
<1>2. /\ Unlocked /\ UNCHANGED <<disk, batch, staged, backup, crashes, owed, raced>>
  BY DEF CommitMutate
<1>3. /\ fresh \in Nat /\ fresh' \in Nat /\ fresh < fresh'
      /\ Sound(records', fresh') /\ Keeps(records, records')
      /\ commit' \in [Committers -> Commits]
      /\ \A d \in Committers : d # e => commit'[d] = commit[d]
      /\ commit'[e].pc = "mutated" /\ commit'[e].snap = records
  BY CommitMutateWrites
<1>4. fresh <= fresh' BY <1>3
<1>5. DrawnBefore(fresh') BY <1>1, <1>3, <1>4, DrawnGrows DEF Drawn
<1>6. Types'
  <2>1. fresh' > 0 BY <1>1, <1>3 DEF Types
  <2> QED BY <1>1, <1>2, <1>3, <2>1 DEF Types
<1>7. Drawn'
  <2>1. /\ Sound(disk', fresh') /\ Sound(backup', fresh') /\ Sound(staged'.restore, fresh')
        /\ Sound(batch'.snap, fresh')
        /\ \A i \in DOMAIN staged'.import : staged'.import[i].password < fresh'
        /\ \A i \in DOMAIN batch'.items :
             /\ batch'.items[i].password < fresh'
             /\ batch'.kind = "restore" => batch'.items[i].id > 0 /\ batch'.items[i].id < fresh'
    BY <1>2, <1>5 DEF DrawnBefore
  <2>2. \A d \in Committers : Sound(commit'[d].snap, fresh') BY <1>3, <1>5 DEF DrawnBefore
  <2> QED BY <1>3, <2>1, <2>2 DEF Drawn, DrawnBefore
<1>8. Unlocked' BY <1>2 DEF Unlocked
<1>9. BatchGoesOn' BY <1>8 DEF BatchGoesOn
<1>10. Base = records /\ Base' = records' BY <1>2, <1>8 DEF Base
<1>11. /\ records \in Seq(CredentialRecord) /\ records' \in Seq(CredentialRecord)
       /\ disk \in Seq(CredentialRecord)
  BY <1>1, <1>3 DEF Drawn, DrawnBefore, Sound
<1>12. InStep'
  <2>1. ~raced' => Keeps(disk', Base')
    <3>1. ~raced => Keeps(disk, records) BY <1>1, <1>10 DEF InStep
    <3>2. ~raced => Keeps(disk, records') BY <1>3, <1>11, <3>1, KeepsChains
    <3> QED BY <1>2, <1>10, <3>2
  <2>2. ~\A d \in Committers : commit'[d].pc = "idle" BY <1>3
  <2> QED BY <2>1, <2>2 DEF InStep
<1>13. OwedStep
  <2> SUFFICES ASSUME OwedKept, Alone, Alone' PROVE OwedKept' BY DEF OwedStep
  <2>1. OwedIn(owed, records) /\ OwedIn(owed, disk) BY DEF OwedKept
  <2>2. \A d \in Committers : d # e => commit'[d].pc = "idle" BY <1>3 DEF Alone
  <2>3. Retains(records, records', {})
    <3>1. Retains(records', records', {}) BY <1>11, KeepsItself
    <3> QED BY <1>3, <1>11, <3>1, KeepsChains
  <2>4. OwedIn(owed, records')
    <3>1. \A id \in DOMAIN owed : owed[id] \in Nat /\ Has(records, id, owed[id])
      BY <2>1 DEF OwedIn
    <3>2. ASSUME NEW id \in DOMAIN owed PROVE Has(records', id, owed[id])
      <4>1. PICK p \in Nat : p = owed[id] /\ Has(records, id, p) BY <3>1
      <4>2. PICK X : X = {} OBVIOUS
      <4>3. Retains(records, records', X) /\ id \notin X BY <2>3, <4>2
      <4>4. Has(records', id, p) BY <1>11, <4>1, <4>3, HasRetained
      <4> QED BY <4>1, <4>4
    <3> QED BY <3>1, <3>2 DEF OwedIn
  <2>5. WrittenIn(commit', records')
    <3>1. PICK k \in DOMAIN records' : /\ records'[k].id = commit'[e].id
                                       /\ records'[k].password = commit'[e].password
      BY CommitMutateWrites
    <3>2. records'[k].password \in Nat BY <1>11, Fields
    <3>3. Has(records', commit'[e].id, commit'[e].password) BY <3>1, <3>2 DEF Has
    <3> QED BY <2>2, <3>3 DEF WrittenIn
  <2> QED BY <1>2, <1>3, <1>10, <2>1, <2>2, <2>4, <2>5 DEF OwedKept
<1> QED BY <1>6, <1>7, <1>9, <1>12, <1>13 DEF IInv

(* ... and after the on_write hook the commit is over or has failed.       *)
LEMMA CommitPersistEnds ==
  ASSUME Types, NEW e \in Committers, CommitPersist(e)
  PROVE  /\ commit' \in [Committers -> Commits]
         /\ \A d \in Committers : d # e => commit'[d] = commit[d]
         /\ commit'[e].pc \in {"idle", "failed"} /\ commit'[e].snap \in {<<>>, commit[e].snap}
         /\ commit'[e].pc = "idle" => disk' = records
         /\ commit'[e].pc = "failed" => commit'[e].snap = commit[e].snap /\ disk' = disk
<1>1. commit \in [Committers -> Commits] BY DEF Types
<1>2. \/ disk' = records /\ commit' = [commit EXCEPT ![e] = NoCommit]
      \/ commit' = [commit EXCEPT ![e].pc = "failed"] /\ disk' = disk
  BY DEF CommitPersist
<1>3. CASE disk' = records /\ commit' = [commit EXCEPT ![e] = NoCommit]
  <2>1. NoCommit \in Commits /\ NoCommit.pc = "idle" /\ NoCommit.snap = <<>> BY NothingUnderWay
  <2>2. commit'[e] = NoCommit /\ \A d \in Committers : d # e => commit'[d] = commit[d]
    BY <1>1, <1>3
  <2>3. commit' \in [Committers -> Commits] BY <1>1, <1>3, <2>1
  <2> QED BY <1>3, <2>1, <2>2, <2>3
<1>4. CASE commit' = [commit EXCEPT ![e].pc = "failed"] /\ disk' = disk
  <2>1. PICK c \in Commits : c = commit[e] BY <1>1
  <2>2. PICK f : f = [c EXCEPT !.pc = "failed"] OBVIOUS
  <2>3. f \in Commits /\ f.pc = "failed" /\ f.snap = c.snap BY <2>2 DEF Commits
  <2>4. commit' = [commit EXCEPT ![e] = f] BY <1>4, <2>1, <2>2
  <2> QED BY <1>1, <1>4, <2>1, <2>3, <2>4
<1> QED BY <1>2, <1>3, <1>4

LEMMA CommitPersistKeeps ==
  ASSUME IInv, NEW e \in Committers, CommitPersist(e)
  PROVE  IInv' /\ DiskKept /\ OwedStep
<1>1. Types /\ Drawn /\ BatchGoesOn /\ InStep BY DEF IInv
<1>2. /\ Unlocked /\ commit[e].pc = "mutated"
      /\ UNCHANGED <<records, batch, staged, backup, fresh, crashes, raced>>
  BY DEF CommitPersist
<1>3. \/ /\ disk' = records /\ commit' = [commit EXCEPT ![e] = NoCommit]
         /\ owed' = Owe(commit[e].id, commit[e].password)
      \/ /\ commit' = [commit EXCEPT ![e].pc = "failed"] /\ UNCHANGED <<disk, owed>>
  BY DEF CommitPersist
<1>4. commit \in [Committers -> Commits] BY <1>1 DEF Types
<1>5. /\ commit' \in [Committers -> Commits]
      /\ \A d \in Committers : d # e => commit'[d] = commit[d]
      /\ commit'[e].pc # "mutated" /\ commit'[e].snap \in {<<>>, commit[e].snap}
      /\ commit'[e].pc = "idle" \/ commit'[e].snap = commit[e].snap
  BY <1>1, CommitPersistEnds
<1>6. Types' BY <1>1, <1>2, <1>5 DEF Types
<1>7. /\ records \in Seq(CredentialRecord) /\ disk \in Seq(CredentialRecord)
      /\ Sound(records, fresh) /\ Sound(disk, fresh)
  BY <1>1 DEF Drawn, DrawnBefore, Sound
<1>8. Drawn'
  <2>1. Sound(records', fresh') /\ Sound(disk', fresh') BY <1>2, <1>3, <1>7
  <2>2. \A d \in Committers : Sound(commit'[d].snap, fresh')
    BY <1>1, <1>2, <1>5, EmptyIsSound DEF Drawn, DrawnBefore
  <2> QED BY <1>1, <1>2, <2>1, <2>2 DEF Drawn, DrawnBefore
<1>9. Unlocked' /\ Base = records /\ Base' = records BY <1>2 DEF Unlocked, Base
<1>10. BatchGoesOn' BY <1>9 DEF BatchGoesOn
<1>11. ~raced => Keeps(disk, records) BY <1>1, <1>9 DEF InStep
<1>12. InStep'
  <2>1. CASE disk' = records BY <1>7, <1>9, <2>1, KeepsItself DEF InStep
  <2>2. CASE commit' = [commit EXCEPT ![e].pc = "failed"] /\ UNCHANGED <<disk, owed>>
    <3>1. commit'[e].pc = "failed" BY <1>4, <2>2
    <3> QED BY <1>2, <1>9, <1>11, <2>2, <3>1 DEF InStep
  <2> QED BY <1>3, <2>1, <2>2
<1>13. OwedStep
  <2> SUFFICES ASSUME OwedKept, Alone, Alone' PROVE OwedKept' BY DEF OwedStep
  <2>1. \A d \in Committers : d # e => commit[d].pc = "idle" BY <1>2 DEF Alone
  <2>2. /\ OwedIn(owed, records) /\ OwedIn(owed, disk) /\ WrittenIn(commit, records)
        /\ OwedIn(owed, commit[e].snap)
    BY <1>2 DEF OwedKept
  <2>3. WrittenIn(commit', records) BY <1>5, <2>1 DEF WrittenIn
  <2>4. OwedIn(owed', records) /\ OwedIn(owed', disk')
    <3>1. CASE UNCHANGED <<disk, owed>> BY <2>2, <3>1
    <3>2. CASE disk' = records /\ owed' = Owe(commit[e].id, commit[e].password)
      <4>1. CASE commit[e].id = 0 BY <2>2, <3>2, <4>1 DEF Owe
      <4>2. CASE commit[e].id # 0
        <5>1. commit[e].password \in Nat BY <1>4, CommitFields
        <5>2. Has(records, commit[e].id, commit[e].password) BY <1>2, <2>2, <4>2 DEF WrittenIn
        <5>3. /\ DOMAIN owed' = (DOMAIN owed) \cup {commit[e].id}
              /\ \A k \in DOMAIN owed' :
                   owed'[k] = IF k = commit[e].id THEN commit[e].password ELSE owed[k]
          BY <3>2, <4>2 DEF Owe
        <5>4. \A k \in DOMAIN owed : owed[k] \in Nat /\ Has(records, k, owed[k])
          BY <2>2 DEF OwedIn
        <5>5. \A k \in DOMAIN owed' : owed'[k] \in Nat /\ Has(records, k, owed'[k])
          BY <5>1, <5>2, <5>3, <5>4
        <5> QED BY <3>2, <5>5 DEF OwedIn
      <4> QED BY <4>1, <4>2
    <3> QED BY <1>3, <3>1, <3>2
  <2>5. commit'[e].pc # "idle" => OwedIn(owed', commit'[e].snap)
    <3>1. CASE commit' = [commit EXCEPT ![e] = NoCommit] BY <1>4, <3>1, NothingUnderWay
    <3>2. CASE UNCHANGED <<disk, owed>> BY <1>5, <2>2, <3>2
    <3> QED BY <1>3, <3>1, <3>2
  <2> QED BY <1>2, <1>5, <1>9, <2>1, <2>3, <2>4, <2>5 DEF OwedKept
<1>14. DiskKept
  <2>1. CASE disk' = disk BY <2>1, DiskAlone
  <2>2. CASE disk' = records BY <1>11, <2>2 DEF Keeps, DiskKept
  <2> QED BY <1>3, <2>1, <2>2
<1> QED BY <1>6, <1>8, <1>10, <1>12, <1>13, <1>14 DEF IInv

LEMMA CommitRollbackKeeps ==
  ASSUME IInv, NEW e \in Committers, CommitRollback(e)
  PROVE  IInv' /\ OwedStep
<1>1. Types /\ Drawn /\ BatchGoesOn /\ InStep BY DEF IInv
<1>2. /\ Unlocked /\ commit[e].pc = "failed" /\ records' = commit[e].snap
      /\ raced' = (raced \/ commit[e].snap # disk) /\ commit' = [commit EXCEPT ![e] = NoCommit]
      /\ UNCHANGED <<disk, batch, staged, backup, fresh, crashes, owed>>
  BY DEF CommitRollback
<1>3. commit \in [Committers -> Commits] /\ raced \in BOOLEAN BY <1>1 DEF Types
<1>4. /\ commit' \in [Committers -> Commits] /\ commit'[e].pc = "idle" /\ commit'[e].snap = <<>>
      /\ \A d \in Committers : d # e => commit'[d] = commit[d]
  <2>1. NoCommit \in Commits /\ NoCommit.pc = "idle" /\ NoCommit.snap = <<>> BY NothingUnderWay
  <2> QED BY <1>2, <1>3, <2>1
<1>5. raced' \in BOOLEAN BY <1>2, <1>3
<1>6. Types' BY <1>1, <1>2, <1>4, <1>5 DEF Types
<1>7. Drawn'
  <2>1. Sound(records', fresh') BY <1>1, <1>2 DEF Drawn, DrawnBefore
  <2>2. \A d \in Committers : Sound(commit'[d].snap, fresh')
    BY <1>1, <1>2, <1>4, EmptyIsSound DEF Drawn, DrawnBefore
  <2> QED BY <1>1, <1>2, <2>1, <2>2 DEF Drawn, DrawnBefore
<1>8. Unlocked' /\ Base' = records' BY <1>2 DEF Unlocked, Base
<1>9. BatchGoesOn' BY <1>8 DEF BatchGoesOn
<1>10. InStep'
  <2>1. ASSUME ~raced' PROVE Base' = disk' BY <1>2, <1>8, <2>1
  <2>2. disk \in Seq(CredentialRecord) BY <1>1 DEF Drawn, DrawnBefore, Sound
  <2>3. Keeps(disk', disk') BY <1>2, <2>2, KeepsItself
  <2> QED BY <2>1, <2>3 DEF InStep
<1>11. OwedStep
  <2> SUFFICES ASSUME OwedKept, Alone, Alone' PROVE OwedKept' BY DEF OwedStep
  <2>1. \A d \in Committers : d # e => commit[d].pc = "idle" BY <1>2 DEF Alone
  <2>2. OwedIn(owed, disk) /\ OwedIn(owed, commit[e].snap) BY <1>2 DEF OwedKept
  <2>3. WrittenIn(commit', records') BY <1>4, <2>1 DEF WrittenIn
  <2> QED BY <1>2, <1>4, <1>8, <2>1, <2>2, <2>3 DEF OwedKept
<1> QED BY <1>6, <1>7, <1>9, <1>10, <1>11 DEF IInv

LEMMA CrashKeeps == IInv /\ Crash => IInv' /\ OwedStep
<1> SUFFICES ASSUME IInv, Crash PROVE IInv' /\ OwedStep OBVIOUS
<1>1. Types /\ Drawn BY DEF IInv
<1>2. /\ crashes' = crashes + 1 /\ records' = disk /\ batch' = NoBatch /\ raced' = FALSE
      /\ commit' = [e \in Committers |-> NoCommit]
      /\ staged' = [import |-> <<>>, restore |-> <<>>]
      /\ UNCHANGED <<disk, backup, fresh, owed>>
  BY DEF Crash
<1>3. /\ commit' \in [Committers -> Commits]
      /\ \A e \in Committers : commit'[e].pc = "idle" /\ commit'[e].snap = <<>>
  BY <1>2, NothingUnderWay
<1>4. staged' \in [import : Seq(ImportRow), restore : Vaults] BY <1>2, NothingUnderWay
<1>5. staged'.import = <<>> /\ staged'.restore = <<>> BY <1>2
<1>6. Types'
  <2>1. batch' \in Batches /\ batch'.items = <<>> /\ batch'.kind = "none"
    BY <1>2, NothingUnderWay
  <2>2. batch'.items \in IF batch'.kind = "import" THEN Seq(ImportRow) ELSE Vaults
    BY <2>1, NothingUnderWay
  <2>3. fresh' \in Nat /\ fresh' > 0 BY <1>1, <1>2 DEF Types
  <2>4. crashes' \in Nat
    <3>1. crashes \in Nat BY <1>1 DEF Types
    <3> QED BY <1>2, <3>1
  <2>5. raced' \in BOOLEAN BY <1>2
  <2> QED BY <1>3, <1>4, <2>1, <2>2, <2>3, <2>4, <2>5 DEF Types
<1>7. Drawn' BY <1>1, <1>2, <1>3, <1>5, NothingUnderWay DEF Drawn, DrawnBefore
<1>8. Unlocked' /\ Base' = disk' BY <1>2, NothingUnderWay DEF Unlocked, Base
<1>9. BatchGoesOn' BY <1>8 DEF BatchGoesOn
<1>10. InStep'
  <2>1. disk' \in Seq(CredentialRecord) BY <1>1, <1>2 DEF Drawn, DrawnBefore, Sound
  <2> QED BY <1>8, <2>1, KeepsItself DEF InStep
<1>11. OwedStep
  <2>1. WrittenIn(commit', disk') BY <1>3 DEF WrittenIn
  <2> QED BY <1>2, <1>3, <1>8, <2>1 DEF OwedStep, OwedKept
<1> QED BY <1>6, <1>7, <1>9, <1>10, <1>11 DEF IInv

LEMMA StepKeeps == IInv /\ [Next]_vars => IInv' /\ DiskKept /\ OwedStep
<1> SUFFICES ASSUME IInv, [Next]_vars PROVE IInv' /\ DiskKept /\ OwedStep OBVIOUS
<1>1. ASSUME NEW o \in Origins, NEW u \in Usernames, NEW c \in 0..(CARD_COLOR_COUNT - 1),
             SaveNew(o, u, c)
      PROVE  IInv' /\ DiskKept /\ OwedStep
  BY <1>1, ColorsAreNats, SaveNewKeeps
<1>2. ASSUME NEW e \in Committers, NEW o \in Origins, NEW u \in Usernames, CommitMutate(e, o, u)
      PROVE  IInv' /\ DiskKept /\ OwedStep
  <2>1. disk' = disk BY <1>2 DEF CommitMutate
  <2> QED BY <1>2, <2>1, CommitMutateKeeps, DiskAlone
<1>3. ASSUME NEW id \in 1..(fresh - 1), NEW u \in Usernames, NEW c \in 0..(CARD_COLOR_COUNT - 1),
             NEW keep \in BOOLEAN, EditSave(id, u, c, keep)
      PROVE  IInv' /\ DiskKept /\ OwedStep
  BY <1>3, ColorsAreNats, EditSaveKeeps
<1>4. ASSUME NEW id \in 1..(fresh - 1), NEW a \in BOOLEAN, Archive(id, a) PROVE IInv' /\ DiskKept /\ OwedStep
  BY <1>4, ArchiveKeeps
<1>5. ASSUME NEW id \in 1..(fresh - 1), DeleteForever(id) PROVE IInv' /\ DiskKept /\ OwedStep
  BY <1>5, DeleteForeverKeeps
<1>6. ASSUME NEW id \in 1..(fresh - 1), NEW c \in 0..(CARD_COLOR_COUNT - 1), ChangeColor(id, c)
      PROVE  IInv' /\ DiskKept /\ OwedStep
  BY <1>6, ColorsAreNats, ChangeColorKeeps
<1>7. ASSUME NEW rows \in Rows, ImportPick(rows) PROVE IInv' /\ DiskKept /\ OwedStep
  <2>1. disk' = disk BY <1>7 DEF ImportPick
  <2> QED BY <1>7, <2>1, ImportPickKeeps, DiskAlone
<1>8. CASE RestorePick
  <2>1. disk' = disk BY <1>8 DEF RestorePick
  <2> QED BY <1>8, <2>1, RestorePickKeeps, DiskAlone
<1>9. CASE Export
  <2>1. disk' = disk BY <1>9 DEF Export
  <2> QED BY <1>9, <2>1, ExportKeeps, DiskAlone
<1>10. ASSUME NEW kind \in {"import", "restore"}, CancelStaged(kind) PROVE IInv' /\ DiskKept /\ OwedStep
  <2>1. disk' = disk BY <1>10 DEF CancelStaged
  <2> QED BY <1>10, <2>1, CancelStagedKeeps, DiskAlone
<1>11. ASSUME NEW kind \in {"import", "restore"}, NEW policy \in Policies, Confirm(kind, policy)
       PROVE  IInv' /\ DiskKept /\ OwedStep
  <2>1. disk' = disk BY <1>11 DEF Confirm
  <2> QED BY <1>11, <2>1, ConfirmKeeps, DiskAlone
<1>12. CASE BatchItem
  <2>1. disk' = disk BY <1>12 DEF BatchItem
  <2> QED BY <1>12, <2>1, BatchItemKeeps, DiskAlone
<1>13. CASE BatchEnd BY <1>13, BatchEndKeeps
<1>14. ASSUME NEW e \in Committers, CommitPersist(e) PROVE IInv' /\ DiskKept /\ OwedStep
  BY <1>14, CommitPersistKeeps
<1>15. ASSUME NEW e \in Committers, CommitRollback(e) PROVE IInv' /\ DiskKept /\ OwedStep
  <2>1. disk' = disk BY <1>15 DEF CommitRollback
  <2> QED BY <1>15, <2>1, CommitRollbackKeeps, DiskAlone
<1>16. CASE Crash
  <2>1. disk' = disk BY <1>16 DEF Crash
  <2> QED BY <1>16, <2>1, CrashKeeps, DiskAlone
<1>17. CASE UNCHANGED vars
  <2>1. disk' = disk BY <1>17 DEF vars
  <2> QED BY <1>17, <2>1, StutterKeeps, DiskAlone
<1> QED
  BY <1>1, <1>2, <1>3, <1>4, <1>5, <1>6, <1>7, <1>8, <1>9, <1>10, <1>11, <1>12, <1>13, <1>14,
     <1>15, <1>16, <1>17 DEF Next

(* Only the end of a batch, or a crash, takes the lock from it.            *)
LEMMA WhoUnlocks ==
  ASSUME IInv, Next, ~Unlocked, Unlocked'
  PROVE  BatchEnd \/ Crash
<1>1. \/ BatchItem \/ BatchEnd \/ Crash
  BY DEF Next, SaveNew, EditSave, Archive, DeleteForever, ChangeColor, ImportPick, RestorePick,
         CancelStaged, Confirm, Export, CommitMutate, CommitPersist, CommitRollback
<1>2. CASE BatchItem
  <2>1. PICK b \in Batches : b = batch BY DEF IInv, Types
  <2>2. PICK i, c : batch' = [b EXCEPT !.items = i, !.changed = c] BY <1>2, <2>1 DEF BatchItem
  <2>3. batch'.kind = b.kind BY <2>2 DEF Batches
  <2> QED BY <2>1, <2>3 DEF Unlocked
<1> QED BY <1>1, <1>2

(* Only commit_store_mutation's first step starts a commit.                *)
LEMMA WhoMutates ==
  ASSUME IInv, Next, NEW e \in Committers, commit[e].pc = "idle", commit'[e].pc = "mutated"
  PROVE  \E o \in Origins, u \in Usernames : CommitMutate(e, o, u)
<1>1. commit \in [Committers -> Commits] /\ Types BY DEF IInv, Types
<1>2. ASSUME NEW id, commit' = ForgetCommits(id), owed' = Forget(id) PROVE FALSE
  <2>1. Forgets({id}) BY <1>1, <1>2, ForgetsOne
  <2> QED BY <2>1 DEF Forgets
<1>3. ASSUME NEW d \in Committers, NEW c, c.pc # "mutated", commit' = [commit EXCEPT ![d] = c]
      PROVE  FALSE
  BY <1>1, <1>3
<1>4. commit' # commit OBVIOUS
<1>5. ~\E id : DeleteForever(id)
  <2>1. ASSUME NEW id, DeleteForever(id)
        PROVE  (commit' = ForgetCommits(id) /\ owed' = Forget(id)) \/ commit' = commit
    BY <2>1 DEF DeleteForever
  <2> QED BY <1>2, <1>4, <2>1
<1>6. ~BatchItem
  <2> SUFFICES ASSUME BatchItem PROVE FALSE OBVIOUS
  <2>1. (\E id : commit' = ForgetCommits(id) /\ owed' = Forget(id)) \/ commit' = commit
    BY DEF BatchItem
  <2> QED BY <1>2, <1>4, <2>1
<1>7. ASSUME NEW d \in Committers, CommitPersist(d) PROVE FALSE
  <2>1. commit' = [commit EXCEPT ![d] = NoCommit] \/ commit' = [commit EXCEPT ![d].pc = "failed"]
    BY <1>7 DEF CommitPersist
  <2>2. PICK c \in Commits : c = commit[d] BY <1>1
  <2>3. PICK f : f = [c EXCEPT !.pc = "failed"] OBVIOUS
  <2>4. f.pc = "failed" BY <2>3 DEF Commits
  <2>5. commit' = [commit EXCEPT ![d] = NoCommit] \/ commit' = [commit EXCEPT ![d] = f]
    BY <2>1, <2>2, <2>3
  <2>6. NoCommit.pc # "mutated" /\ f.pc # "mutated" BY <2>4, NothingUnderWay
  <2> QED BY <1>3, <2>5, <2>6
<1>8. ASSUME NEW d \in Committers, CommitRollback(d) PROVE FALSE
  <2>1. commit' = [commit EXCEPT ![d] = NoCommit] BY <1>8 DEF CommitRollback
  <2>2. NoCommit.pc # "mutated" BY NothingUnderWay
  <2> QED BY <1>3, <2>1, <2>2
<1>9. ~Crash
  <2> SUFFICES ASSUME Crash PROVE FALSE OBVIOUS
  <2>1. commit'[e] = NoCommit BY DEF Crash
  <2> QED BY <2>1, NothingUnderWay
<1>10. \E d \in Committers, o \in Origins, u \in Usernames : CommitMutate(d, o, u)
  BY <1>4, <1>5, <1>6, <1>7, <1>8, <1>9
     DEF Next, SaveNew, EditSave, Archive, ChangeColor, ImportPick, RestorePick,
         CancelStaged, Confirm, BatchEnd, Export
<1>11. PICK d \in Committers, o \in Origins, u \in Usernames : CommitMutate(d, o, u) BY <1>10
<1>12. \A k \in Committers : k # d => commit'[k] = commit[k] BY <1>11, CommitMutateWrites
<1> QED BY <1>11, <1>12

LEMMA IInvTypes == IInv => TypeOK
<1> SUFFICES ASSUME IInv PROVE TypeOK OBVIOUS
<1>1. Types /\ Drawn BY DEF IInv
<1>2. batch.kind \in {"none", "import", "restore"} /\ batch.policy \in Policies
  BY <1>1, BatchFields DEF Types
<1>3. {records, disk, backup, batch.snap, staged.restore} \subseteq Vaults
  BY <1>1 DEF Drawn, DrawnBefore, Sound, Vaults
<1>4. staged.import \in Seq(ImportRow) BY <1>1 DEF Types
<1>5. commit \in [Committers -> [pc : {"idle", "mutated", "failed"}, snap : Vaults,
                                 id : Nat, password : Nat]]
  BY <1>1 DEF Types, Commits
<1> QED BY <1>1, <1>2, <1>3, <1>4, <1>5 DEF Types, TypeOK

LEMMA IInvUnique == IInv => UniqueIds
BY DEF IInv, Drawn, DrawnBefore, Sound, UniqueIds, Distinct

LEMMA IInvDrift == IInv => DriftOnlyByRace
BY DEF IInv, InStep, DriftOnlyByRace, Quiet, Base
-----------------------------------------------------------------------------
(* The inductive invariant: every vault that can come back (on disk, in a  *)
(* backup, in a snapshot) has distinct ids drawn before now, memory is     *)
(* ahead of the disk only by the commits under way, and what is owed is in *)
(* all of them.                                                            *)
THEOREM IInvInvariant == Spec => []IInv
<1>1. IInv /\ [Next]_vars => IInv' BY StepKeeps
<1> QED BY InitIInv, <1>1, PTL DEF Spec

(* Every state the keystore and the disk can be in is well typed.          *)
THEOREM VaultTypeCorrect == Spec => []TypeOK
BY IInvTypes, IInvInvariant, PTL

(* No import, restore, rollback or reload, in any order, puts two records  *)
(* with one id into the keystore, the disk or a snapshot that can come     *)
(* back (unique_record_id, restore_many, import_many).                     *)
THEOREM IdsStayUnique == Spec => []UniqueIds
BY IInvUnique, IInvInvariant, PTL

(* With nothing under way memory and disk agree, however many commits ran  *)
(* at once, unless a rollback put back a snapshot older than the disk      *)
(* (commit_store_mutation: "so UI state cannot drift from durable state"). *)
THEOREM DriftNeedsARace == Spec => []DriftOnlyByRace
BY IInvDrift, IInvInvariant, PTL

(* Skip and Keep both leave every record that was there as it was, at      *)
(* every moment of an import or restore of any length.                     *)
THEOREM BatchesOnlyAdd == Spec => []BatchOnlyAdds
<1>1. IInv => BatchOnlyAdds BY DEF IInv, BatchGoesOn, BatchOnlyAdds
<1> QED BY <1>1, IInvInvariant, PTL

(* An import or restore leaves memory and disk with all of it or as they   *)
(* were (on_import_confirm, on_backup_restore_confirm).                    *)
THEOREM BatchesAreAtomic == Spec => BatchAllOrNothing
<1>1. IInv /\ [Next]_vars =>
        [~Unlocked /\ Unlocked' => \/ records' = disk'
                                   \/ records' = batch.snap /\ disk' = disk]_vars
  <2> SUFFICES ASSUME IInv, Next, ~Unlocked, Unlocked'
               PROVE  (records' = disk') \/ (records' = batch.snap /\ disk' = disk)
    OBVIOUS
  <2>1. CASE BatchEnd BY <2>1, BatchEndsEitherWay
  <2>2. CASE Crash BY <2>2 DEF Crash
  <2> QED BY <2>1, <2>2, WhoUnlocks
<1> QED BY <1>1, IInvInvariant, PTL DEF Spec, BatchAllOrNothing

(* A record leaves the disk only if it was archived there, and outside a   *)
(* batch its password never goes back to an earlier one, unless a racing   *)
(* rollback came before.                                                   *)
THEOREM NothingDurableIsLost == Spec => DurableNotLost
<1>1. IInv /\ [Next]_vars => DiskKept BY StepKeeps
<1> QED BY <1>1, IInvInvariant, PTL DEF Spec, DurableNotLost, DiskKept

(* The password upsert has just stored for a login is the one a release    *)
(* finds, with any number of records for that login (upsert,               *)
(* find_by_origin).                                                        *)
THEOREM SavedLoginFills == Spec => SavedIsWhatFills
<1>1. IInv /\ [Next]_vars =>
        [\A e \in Committers : commit[e].pc = "idle" /\ commit'[e].pc = "mutated" =>
           \E o \in Origins, u \in Usernames :
             LET i == PosOfLive(records', o, u)
             IN i # 0 /\ records'[i].id = commit'[e].id
                      /\ records'[i].password = commit'[e].password]_vars
  <2> SUFFICES ASSUME IInv, Next, NEW e \in Committers,
                      commit[e].pc = "idle", commit'[e].pc = "mutated"
               PROVE  \E o \in Origins, u \in Usernames :
                        LET i == PosOfLive(records', o, u)
                        IN i # 0 /\ records'[i].id = commit'[e].id
                                 /\ records'[i].password = commit'[e].password
    OBVIOUS
  <2>1. PICK o \in Origins, u \in Usernames : CommitMutate(e, o, u) BY WhoMutates
  <2>2. LET i == PosOfLive(records', o, u)
        IN i # 0 /\ records'[i].id = commit'[e].id
                 /\ records'[i].password = commit'[e].password
    BY <2>1, CommitMutateWrites
  <2> QED BY <2>2
<1> QED BY <1>1, IInvInvariant, PTL DEF Spec, SavedIsWhatFills

(* What the host was told is saved is on the disk until the user deletes   *)
(* or replaces it, through failed writes, batches and crashes, as long as  *)
(* no two commits are under way at once (commit_store_mutation:            *)
(* "Persistence MUST succeed before we tell the host").  WebUSB, one       *)
(* request at a time, sees to that.  With two at once it is not so: the    *)
(* rollback of one can take back what the other has yet to persist.        *)
THEOREM SavedIsDurable == Spec /\ []Alone => []OwedIsDurable
<1>1. IInv /\ OwedKept /\ Alone /\ Alone' /\ [Next]_vars => OwedKept' BY StepKeeps DEF OwedStep
<1>2. OwedKept => OwedIsDurable BY DEF OwedKept, OwedIn, Has, OwedIsDurable
<1> QED BY <1>1, <1>2, InitOwed, IInvInvariant, PTL DEF Spec
=============================================================================
