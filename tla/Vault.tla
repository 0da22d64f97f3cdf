-------------------------------- MODULE Vault --------------------------------
(***************************************************************************)
(* The keystore in memory, the sealed blob on disk, and everyone who       *)
(* changes them: the UI callbacks of src/main.rs (one thread, each holding *)
(* the keystore lock from snapshot to persist or rollback), and the        *)
(* engine's commit_store_mutation, which releases the lock between the     *)
(* mutation, the on_write hook and the rollback.  A batch (import or       *)
(* restore) runs its loop one record per step with the lock held.          *)
(***************************************************************************)
EXTENDS Records

CONSTANTS Committers,   \* request tasks that may be inside a commit
          WriteMayFail, \* whether persist_keystore can fail
          FilePicker,   \* whether the build has one (hardware only)
          MaxFresh,     \* bound on ids and passwords drawn
          MaxItems,     \* bound on rows of an import file
          MaxCrashes    \* bound on crashes

ASSUME VaultAssumption ==
  /\ {WriteMayFail, FilePicker} \subseteq BOOLEAN
  /\ {MaxFresh, MaxItems, MaxCrashes} \subseteq Nat

VARIABLES records, \* Keystore.records
          disk,    \* the records sealed in passwords.bin
          commit,  \* per committer: where it is, its snapshot, what it wrote
          batch,   \* the import or restore that holds the lock
          staged,  \* pending import rows and pending restore records
          backup,  \* the records in the exported backup file
          fresh,   \* the next unused id or password
          crashes,
          owed,    \* history: id -> the password the host was told is saved
          raced    \* history: a rollback put back a snapshot older than the disk

vars == <<records, disk, commit, batch, staged, backup, fresh, crashes, owed, raced>>

NoBatch == [kind |-> "none", items |-> <<>>, policy |-> "Skip", snap |-> <<>>,
            changed |-> FALSE]
NoCommit == [pc |-> "idle", snap |-> <<>>, id |-> 0, password |-> 0]

Init == /\ records = <<>> /\ disk = <<>>
        /\ commit = [e \in Committers |-> NoCommit]
        /\ batch = NoBatch
        /\ staged = [import |-> <<>>, restore |-> <<>>]
        /\ backup = <<>>
        /\ fresh = 1 /\ crashes = 0
        /\ owed = [i \in {} |-> 0] /\ raced = FALSE

Unlocked == batch.kind = "none"

CanDraw(n) == fresh + n - 1 <= MaxFresh
Draw(n) == fresh' = fresh + n

Outcomes == IF WriteMayFail THEN {TRUE, FALSE} ELSE {TRUE}

(* The tail of every UI callback: persist the new records; on failure put  *)
(* the snapshot back.                                                      *)
PersistOrRollback(new) ==
  \E ok \in Outcomes : /\ records' = IF ok THEN new ELSE records
                       /\ disk' = IF ok THEN new ELSE disk

(* on_save_new: no look at existing logins, a second one may be added.     *)
SaveNew(o, u, c) ==
  /\ Unlocked /\ CanDraw(2) /\ Draw(2)
  /\ PersistOrRollback(Append(records, [NewRecord(records, fresh, o, u, fresh + 1)
                                        EXCEPT !.color = c]))
  /\ UNCHANGED <<commit, batch, staged, backup, crashes, owed, raced>>

(* on_edit_save: an empty password field keeps the current password.       *)
EditSave(id, u, c, keep) ==
  LET i == PosOfId(records, id)
  IN /\ Unlocked /\ i # 0
     /\ IF keep THEN UNCHANGED fresh ELSE CanDraw(1) /\ Draw(1)
     /\ PersistOrRollback(Edit(records, i, u,
                               IF keep THEN records[i].password ELSE fresh, c))
     /\ UNCHANGED <<commit, batch, staged, backup, crashes, owed, raced>>

(* on_archive, on_restore: persisted even when the id is gone.             *)
Archive(id, a) ==
  /\ Unlocked
  /\ PersistOrRollback(SetArchived(records, id, a))
  /\ UNCHANGED <<commit, batch, staged, backup, fresh, crashes, owed, raced>>

(* The user's own delete or Replace ends what is owed for a record, also   *)
(* for a commit whose answer is still to come.                             *)
Forget(id) == [i \in (DOMAIN owed) \ {id} |-> owed[i]]

ForgetCommits(id) ==
  [e \in Committers |-> IF commit[e].id = id THEN [commit[e] EXCEPT !.id = 0]
                        ELSE commit[e]]

DeleteForever(id) ==
  LET i == PosOfId(records, id)
  IN /\ Unlocked /\ MayDelete(records, i)
     /\ PersistOrRollback(RemovePos(records, i))
     /\ IF records' = records THEN UNCHANGED <<owed, commit>> \* it was rolled back
        ELSE owed' = Forget(id) /\ commit' = ForgetCommits(id)
     /\ UNCHANGED <<batch, staged, backup, fresh, crashes, raced>>

ChangeColor(id, c) ==
  LET i == PosOfId(records, id)
  IN /\ Unlocked /\ i # 0
     /\ PersistOrRollback(SetColor(records, i, c))
     /\ UNCHANGED <<commit, batch, staged, backup, fresh, crashes, owed, raced>>

(* pick_and_parse: rows of a chosen file are staged (its text is external).*)
ImportPick(logins) ==
  /\ FilePicker /\ Unlocked /\ logins # <<>>
  /\ CanDraw(Len(logins)) /\ Draw(Len(logins))
  /\ staged' = [staged EXCEPT !.import =
       [i \in DOMAIN logins |-> [origin |-> logins[i][1], username |-> logins[i][2],
                                 password |-> fresh + i - 1]]]
  /\ UNCHANGED <<records, disk, commit, batch, backup, crashes, owed, raced>>

(* pick_restore_backup: the exported backup is decrypted and staged.       *)
RestorePick ==
  /\ FilePicker /\ Unlocked /\ backup # <<>>
  /\ staged' = [staged EXCEPT !.restore = backup]
  /\ UNCHANGED <<records, disk, commit, batch, backup, fresh, crashes, owed, raced>>

(* on_import_cancel, on_backup_cancel.                                     *)
CancelStaged(kind) ==
  /\ Unlocked /\ staged[kind] # <<>>
  /\ staged' = [staged EXCEPT ![kind] = <<>>]
  /\ UNCHANGED <<records, disk, commit, batch, backup, fresh, crashes, owed, raced>>

(* on_import_confirm, on_backup_restore_confirm: take the staged records,  *)
(* lock, snapshot.                                                         *)
Confirm(kind, policy) ==
  /\ Unlocked /\ staged[kind] # <<>> /\ CanDraw(Len(staged[kind]))
  /\ batch' = [kind |-> kind, items |-> staged[kind], policy |-> policy,
               snap |-> records, changed |-> FALSE]
  /\ staged' = [staged EXCEPT ![kind] = <<>>]
  /\ UNCHANGED <<records, disk, commit, backup, fresh, crashes, owed, raced>>

(* One record of import_many or restore_many.                              *)
BatchItem ==
  LET item == Head(batch.items)
      new == IF batch.kind = "import"
             THEN ImportItem(records, item, batch.policy, fresh)
             ELSE RestoreItem(records, item, batch.policy, fresh)
      hit == PosOfLogin(records, item.origin, item.username)
  IN /\ ~Unlocked /\ batch.items # <<>>
     /\ IF fresh \in Ids(new) THEN Draw(1) ELSE UNCHANGED fresh
     /\ records' = new
     /\ batch' = [batch EXCEPT !.items = Tail(batch.items),
                               !.changed = @ \/ hit = 0 \/ batch.policy # "Skip"]
     /\ IF batch.policy = "Replace" /\ hit # 0
        THEN owed' = Forget(records[hit].id) /\ commit' = ForgetCommits(records[hit].id)
        ELSE UNCHANGED <<owed, commit>>
     /\ UNCHANGED <<disk, staged, backup, crashes, raced>>

(* Mutant: a batch that could not be persisted is not rolled back.         *)
BatchEndNoRollback ==
  /\ ~Unlocked /\ batch.items = <<>>
  /\ \E ok \in Outcomes : disk' = IF ok THEN records ELSE disk
  /\ batch' = NoBatch
  /\ UNCHANGED <<records, commit, staged, backup, fresh, crashes, owed, raced>>

(* The loop is over: persist if the summary counts a change, roll back if  *)
(* that fails, unlock.                                                     *)
BatchEnd ==
  /\ ~Unlocked /\ batch.items = <<>>
  /\ IF batch.changed
     THEN \E ok \in Outcomes : /\ records' = IF ok THEN records ELSE batch.snap
                               /\ disk' = IF ok THEN records ELSE disk
     ELSE UNCHANGED <<records, disk>>
  /\ batch' = NoBatch
  /\ UNCHANGED <<commit, staged, backup, fresh, crashes, owed, raced>>

(* on_backup_export.                                                       *)
Export == /\ FilePicker /\ Unlocked
          /\ backup' = records
          /\ UNCHANGED <<records, disk, commit, batch, staged, fresh, crashes, owed, raced>>

(* commit_store_mutation, first lock: snapshot and upsert, which draws an  *)
(* id only for a new record.                                               *)
CommitMutate(e, o, u) ==
  LET new == Upsert(records, o, u, fresh, fresh + 1)
      draws == IF PosOfLogin(records, o, u) = 0 THEN 2 ELSE 1
  IN /\ Unlocked /\ commit[e].pc = "idle"
     /\ CanDraw(draws) /\ Draw(draws)
     /\ records' = new
     /\ commit' = [commit EXCEPT ![e] =
          [pc |-> "mutated", snap |-> records,
           id |-> new[PosOfLogin(new, o, u)].id, password |-> fresh]]
     /\ UNCHANGED <<disk, batch, staged, backup, crashes, owed, raced>>

Owe(id, p) == IF id = 0 THEN owed
              ELSE [i \in (DOMAIN owed) \cup {id} |-> IF i = id THEN p ELSE owed[i]]

(* Mutant: the host is told "saved" and nothing was written.               *)
CommitPersistNoWrite(e) ==
  /\ Unlocked /\ commit[e].pc = "mutated"
  /\ commit' = [commit EXCEPT ![e] = NoCommit]
  /\ owed' = Owe(commit[e].id, commit[e].password)
  /\ UNCHANGED <<records, disk, batch, staged, backup, fresh, crashes, raced>>

(* ... the on_write hook: lock, persist what the keystore holds by now; Ok *)
(* is answered to the host.                                                *)
CommitPersist(e) ==
  /\ Unlocked /\ commit[e].pc = "mutated"
  /\ \E ok \in Outcomes :
       IF ok
       THEN /\ disk' = records
            /\ commit' = [commit EXCEPT ![e] = NoCommit]
            /\ owed' = Owe(commit[e].id, commit[e].password)
       ELSE /\ commit' = [commit EXCEPT ![e].pc = "failed"]
            /\ UNCHANGED <<disk, owed>>
  /\ UNCHANGED <<records, batch, staged, backup, fresh, crashes, raced>>

(* ... and after a failed write: lock again, restore_snapshot, "persist    *)
(* failed" is answered.                                                    *)
CommitRollback(e) ==
  /\ Unlocked /\ commit[e].pc = "failed"
  /\ records' = commit[e].snap
  /\ raced' = (raced \/ commit[e].snap # disk)
  /\ commit' = [commit EXCEPT ![e] = NoCommit]
  /\ UNCHANGED <<disk, batch, staged, backup, fresh, crashes, owed>>

(* The app stops at any point and is opened again: load_keystore.          *)
Crash ==
  /\ crashes < MaxCrashes /\ crashes' = crashes + 1
  /\ records' = disk
  /\ commit' = [e \in Committers |-> NoCommit]
  /\ batch' = NoBatch
  /\ staged' = [import |-> <<>>, restore |-> <<>>]
  /\ raced' = FALSE
  /\ UNCHANGED <<disk, backup, fresh, owed>>

Rows == UNION {[1..n -> Origins \X Usernames] : n \in 1..MaxItems}

Next ==
  \/ \E o \in Origins, u \in Usernames :
       \/ \E c \in 0..(CARD_COLOR_COUNT - 1) : SaveNew(o, u, c)
       \/ \E e \in Committers : CommitMutate(e, o, u)
  \/ \E id \in 1..(fresh - 1) :
       \/ \E u \in Usernames, c \in 0..(CARD_COLOR_COUNT - 1), keep \in BOOLEAN :
            EditSave(id, u, c, keep)
       \/ \E a \in BOOLEAN : Archive(id, a)
       \/ DeleteForever(id)
       \/ \E c \in 0..(CARD_COLOR_COUNT - 1) : ChangeColor(id, c)
  \/ \E rows \in Rows : ImportPick(rows)
  \/ RestorePick \/ Export
  \/ \E kind \in {"import", "restore"} :
       CancelStaged(kind) \/ \E policy \in Policies : Confirm(kind, policy)
  \/ BatchItem \/ BatchEnd
  \/ \E e \in Committers : CommitPersist(e) \/ CommitRollback(e)
  \/ Crash

Spec == Init /\ [][Next]_vars
-----------------------------------------------------------------------------
Vaults == Seq(CredentialRecord)

ImportRow == [origin : Origins, username : Usernames, password : Nat]

TypeOK ==
  /\ {records, disk, backup, batch.snap, staged.restore} \subseteq Vaults
  /\ staged.import \in Seq(ImportRow)
  /\ commit \in [Committers -> [pc : {"idle", "mutated", "failed"}, snap : Vaults,
                                id : Nat, password : Nat]]
  /\ batch.kind \in {"none", "import", "restore"} /\ batch.policy \in Policies
  /\ batch.items \in IF batch.kind = "import" THEN Seq(ImportRow) ELSE Vaults
  /\ {fresh, crashes} \subseteq Nat /\ raced \in BOOLEAN

Distinct(recs) == \A i, j \in DOMAIN recs : recs[i].id = recs[j].id => i = j

(* No two records of the keystore, of the disk or of a snapshot that can   *)
(* come back share an id, whatever is imported, restored from a backup of  *)
(* this vault, rolled back or reloaded: the UI addresses records by id     *)
(* (lib.rs unique_record_id, restore_many, import_many).                   *)
UniqueIds == /\ Distinct(records) /\ Distinct(disk) /\ Distinct(batch.snap)
             /\ \A e \in Committers : Distinct(commit[e].snap)

Quiet == Unlocked /\ \A e \in Committers : commit[e].pc = "idle"

(* When nobody is in the middle of a change, memory and disk agree         *)
(* (engine.rs commit_store_mutation: "so UI state cannot drift from        *)
(* durable state"), unless a commit's rollback put back a snapshot older   *)
(* than the disk: every UI callback, batch, commit and crash, and every    *)
(* other rollback, ends with memory and disk in step.                      *)
DriftOnlyByRace == Quiet /\ ~raced => records = disk

(* A record leaves the disk only if it was archived there (delete forever),*)
(* and outside a batch its password there is never replaced by an earlier  *)
(* one, unless such a rollback came before: nobody undoes what somebody    *)
(* else was told is saved.                                                 *)
DurableNotLost ==
  [][~raced => \A i \in DOMAIN disk :
       \/ disk[i].archived
       \/ \E j \in DOMAIN disk' :
            /\ disk'[j].id = disk[i].id
            /\ Unlocked => disk'[j].password >= disk[i].password]_vars

(* What the host was told is saved is on the disk, with that password or a *)
(* later one, until the user deletes it or a batch replaces it (engine.rs: *)
(* "Persistence MUST succeed before we tell the host").                    *)
OwedIsDurable ==
  \A id \in DOMAIN owed :
    \E i \in DOMAIN disk : disk[i].id = id /\ disk[i].password >= owed[id]

(* Skip and Keep both never change a record that was there before the      *)
(* import or restore began (lib.rs import_many, restore_many).             *)
BatchOnlyAdds ==
  ~Unlocked /\ batch.policy # "Replace"
     => /\ Len(records) >= Len(batch.snap)
        /\ \A i \in DOMAIN batch.snap : records[i] = batch.snap[i]

(* An import or a restore is all or nothing: when it lets go of the lock,  *)
(* memory and disk hold every record of it, or both are what they were     *)
(* before, also when a commit of the engine is waiting in between          *)
(* (main.rs on_import_confirm, on_backup_restore_confirm).                 *)
BatchAllOrNothing ==
  [][~Unlocked /\ Unlocked' => \/ records' = disk'
                               \/ records' = batch.snap /\ disk' = disk]_vars

(* The password just stored for a login is the one a release for that      *)
(* login finds, also when the login exists several times or only in the    *)
(* archive (lib.rs upsert, find_by_origin).                                *)
SavedIsWhatFills ==
  [][\A e \in Committers : commit[e].pc = "idle" /\ commit'[e].pc = "mutated" =>
       \E o \in Origins, u \in Usernames :
         LET i == PosOfLive(records', o, u)
         IN i # 0 /\ records'[i].id = commit'[e].id
                  /\ records'[i].password = commit'[e].password]_vars
=============================================================================
