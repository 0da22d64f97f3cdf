------------------------------- MODULE ListView -------------------------------
(***************************************************************************)
(* The locks of the app and the list on its screen.  The UI thread runs    *)
(* one callback or posted closure at a time; engine tasks run beside it.   *)
(* A callback is a program of small steps over the mutexes that main.rs    *)
(* and state.rs share: the app state, the keystore, the file store and the *)
(* staged rows.  The mutexes are std's: taking one twice never returns.    *)
(* The records are abstracted to a version, the list to the version and    *)
(* the filter (search text, archive mode) it was drawn with.               *)
(***************************************************************************)
EXTENDS Naturals, Sequences

CONSTANTS Engines,     \* threads that run engine requests
          UI,          \* the event loop
          Free,        \* no thread
          MaxChanges,  \* bound on changes to the records
          MaxFilters   \* bound on changes of the filter

ASSUME ListViewAssumption == /\ UI \notin Engines /\ Free \notin Engines \cup {UI}
                             /\ {MaxChanges, MaxFilters} \subseteq Nat

VARIABLES prog,       \* steps each thread still has to take
          holder,     \* the thread that holds each mutex
          version,    \* the keystore's records
          changes,    \* versions made so far
          snapshot,   \* each thread's snapshot of the records
          filter,     \* search text and archive mode
          view,       \* what the list was drawn from
          closures,   \* refreshes posted to the event loop
          rolledBack  \* history: an engine's rollback since the last drawing

vars == <<prog, holder, version, changes, snapshot, filter, view, closures, rolledBack>>

Threads == Engines \cup {UI}
Locks == {"state", "keystore", "store", "pending"}

Lock(l) == <<"lock", l>>
Unlock(l) == <<"unlock", l>>
Do(op) == <<op, "">>

(* refresh_credentials, called on the locked state.                        *)
Refresh == <<Lock("state"), Lock("keystore"), Do("render"), Unlock("keystore"), Unlock("state")>>

(* persist_keystore, called on the locked keystore.                        *)
PersistKeystore == <<Lock("store"), Do("write"), Unlock("store")>>

(* Mutant: the keystore is not dropped before the list is refreshed.       *)
ChangeNoDrop == <<Lock("keystore"), Do("mutate")>> \o PersistKeystore
                  \o Refresh \o <<Unlock("keystore")>>

(* save_new, edit_save, archive, restore, delete_forever and change_color. *)
Change == <<Lock("keystore"), Do("mutate")>> \o PersistKeystore
            \o <<Unlock("keystore")>> \o Refresh

(* import_confirm and backup_restore_confirm.                              *)
Confirm == <<Lock("pending"), Do("take"), Unlock("pending"), Lock("keystore"), Do("batch")>>
             \o PersistKeystore \o <<Unlock("keystore")>> \o Refresh

(* The pickers and cancels store into the staged rows.                     *)
Staging == <<Lock("pending"), Unlock("pending")>>

SearchChanged == <<Lock("state"), Do("filter"), Unlock("state")>> \o Refresh
ArchiveMode == <<Do("filter")>> \o Refresh

(* reveal_password and export; for an engine list, probe and release.      *)
Read == <<Lock("keystore"), Unlock("keystore")>>

(* Mutant: the refresh is posted before the change is made.                *)
CommitPostsFirst == <<Do("post"), Lock("keystore"), Do("mutate"), Unlock("keystore"),
                      Lock("keystore")>> \o PersistKeystore \o <<Unlock("keystore")>>

(* commit_store_mutation with the on_write hook.                           *)
Commit == <<Lock("keystore"), Do("mutate"), Unlock("keystore"), Lock("keystore")>>
            \o PersistKeystore \o <<Unlock("keystore"), Do("post")>>

(* ... when the hook fails.                                                *)
Rollback == <<Lock("keystore"), Do("rollback"), Unlock("keystore")>>

Init == /\ prog = [t \in Threads |-> <<>>]
        /\ holder = [l \in Locks |-> Free]
        /\ version = 0 /\ changes = 0 /\ snapshot = [t \in Threads |-> 0]
        /\ filter = 0 /\ view = [version |-> 0, filter |-> 0]
        /\ closures = 0 /\ rolledBack = FALSE

Idle(t) == prog[t] = <<>>
At(t, op) == ~Idle(t) /\ Head(prog[t])[1] = op
Advance(t) == prog' = [prog EXCEPT ![t] = Tail(@)]

(* A return drops the guards the thread holds.                             *)
ReturnWith(t, rest) ==
  /\ prog' = [prog EXCEPT ![t] = rest]
  /\ holder' = [l \in Locks |-> IF holder[l] = t THEN Free ELSE holder[l]]

(* The user does something; the event loop calls back.                     *)
Callback == /\ Idle(UI)
            /\ \E p \in {Change, Confirm, Staging, SearchChanged, ArchiveMode, Read} :
                 prog' = [prog EXCEPT ![UI] = p]
            /\ UNCHANGED <<holder, version, changes, snapshot, filter, view, closures,
                           rolledBack>>

(* Mutant: a posted refresh gives way to the engine's requests.            *)
RunClosureWhenQuiet ==
  /\ Idle(UI) /\ closures > 0 /\ \A e \in Engines : Idle(e)
  /\ closures' = closures - 1
  /\ prog' = [prog EXCEPT ![UI] = Refresh]
  /\ UNCHANGED <<holder, version, changes, snapshot, filter, view, rolledBack>>

(* The event loop runs a closure that on_write posted.                     *)
RunClosure == /\ Idle(UI) /\ closures > 0
              /\ closures' = closures - 1
              /\ prog' = [prog EXCEPT ![UI] = Refresh]
              /\ UNCHANGED <<holder, version, changes, snapshot, filter, view, rolledBack>>

(* An engine handles a request that touches the store.                     *)
Request(e) == /\ Idle(e)
              /\ \E p \in {Commit, Read} : prog' = [prog EXCEPT ![e] = p]
              /\ UNCHANGED <<holder, version, changes, snapshot, filter, view, closures,
                             rolledBack>>

Acquire(t) == /\ At(t, "lock") /\ holder[Head(prog[t])[2]] = Free
              /\ holder' = [holder EXCEPT ![Head(prog[t])[2]] = t]
              /\ Advance(t)
              /\ UNCHANGED <<version, changes, snapshot, filter, view, closures, rolledBack>>

Release(t) == /\ At(t, "unlock")
              /\ holder' = [holder EXCEPT ![Head(prog[t])[2]] = Free]
              /\ Advance(t)
              /\ UNCHANGED <<version, changes, snapshot, filter, view, closures, rolledBack>>

(* A snapshot is taken, then the records change.                           *)
Mutate(t) == /\ At(t, "mutate") \/ At(t, "batch")
             /\ changes < MaxChanges
             /\ changes' = changes + 1 /\ version' = changes + 1
             /\ snapshot' = [snapshot EXCEPT ![t] = version]
             /\ Advance(t)
             /\ UNCHANGED <<holder, filter, view, closures, rolledBack>>

(* No such record, or nothing is staged: an early return.                  *)
NothingToDo(t) ==
  /\ At(t, "mutate") \/ At(t, "take")
  /\ ReturnWith(t, <<>>)
  /\ UNCHANGED <<version, changes, snapshot, filter, view, closures, rolledBack>>

(* The change is made but leaves the records as they were (archive and     *)
(* restore ignore a missing record, an edit may repeat what is there).     *)
NoEffect(t) ==
  /\ t = UI /\ At(t, "mutate") /\ Advance(t)
  /\ snapshot' = [snapshot EXCEPT ![t] = version]
  /\ UNCHANGED <<holder, version, changes, filter, view, closures, rolledBack>>

(* Every row of the batch is skipped: there is nothing to persist.         *)
AllSkipped(t) ==
  /\ At(t, "batch")
  /\ prog' = [prog EXCEPT ![t] = <<Unlock("keystore")>> \o Refresh]
  /\ UNCHANGED <<holder, version, changes, snapshot, filter, view, closures, rolledBack>>

Take(t) == /\ At(t, "take") /\ Advance(t)
           /\ UNCHANGED <<holder, version, changes, snapshot, filter, view, closures,
                          rolledBack>>

WriteOk(t) == /\ At(t, "write") /\ Advance(t)
              /\ UNCHANGED <<holder, version, changes, snapshot, filter, view, closures,
                             rolledBack>>

(* The write fails: a callback puts its snapshot back under the lock it    *)
(* still holds and returns; the hook returns to commit_store_mutation.     *)
WriteFails(t) ==
  /\ At(t, "write")
  /\ IF t = UI THEN ReturnWith(t, <<>>) /\ version' = snapshot[t]
     ELSE ReturnWith(t, Rollback) /\ UNCHANGED version
  /\ UNCHANGED <<changes, snapshot, filter, view, closures, rolledBack>>

PutBack(t) == /\ At(t, "rollback") /\ Advance(t)
              /\ version' = snapshot[t] /\ rolledBack' = TRUE
              /\ UNCHANGED <<holder, changes, snapshot, filter, view, closures>>

SetFilter(t) == /\ At(t, "filter") /\ Advance(t)
                /\ filter' \in {filter} \cup {f \in {filter + 1} : f <= MaxFilters}
                /\ UNCHANGED <<holder, version, changes, snapshot, view, closures, rolledBack>>

Render(t) == /\ At(t, "render") /\ Advance(t)
             /\ view' = [version |-> version, filter |-> filter] /\ rolledBack' = FALSE
             /\ UNCHANGED <<holder, version, changes, snapshot, filter, closures>>

Post(t) == /\ At(t, "post") /\ Advance(t)
           /\ closures' = closures + 1
           /\ UNCHANGED <<holder, version, changes, snapshot, filter, view, rolledBack>>

(* What a thread does once it has begun.                                   *)
Step(t) == \/ Acquire(t) \/ Release(t) \/ Mutate(t) \/ NoEffect(t) \/ NothingToDo(t)
           \/ AllSkipped(t) \/ Take(t) \/ WriteOk(t) \/ WriteFails(t) \/ PutBack(t) \/ SetFilter(t)
           \/ Render(t) \/ Post(t)

Next == Callback \/ RunClosure \/ (\E e \in Engines : Request(e)) \/ \E t \in Threads : Step(t)

(* Threads that can run do run, a mutex that is free time and again is     *)
(* got, and the event loop runs its closures between the user's actions.   *)
Fairness == /\ SF_vars(RunClosure)
            /\ \A t \in Threads : WF_vars(Step(t)) /\ SF_vars(Acquire(t))

Spec == Init /\ [][Next]_vars /\ Fairness
-----------------------------------------------------------------------------
Waits(t) == At(t, "lock")
WaitsFor(t) == holder[Head(prog[t])[2]]

(* No thread waits for itself, no threads wait for each other in a ring,   *)
(* and none ends with a mutex in its hands: UI callbacks with their early  *)
(* returns, the on_write hook, posted closures and the engine take the     *)
(* state, keystore and store mutexes in one order and let go of the        *)
(* keystore before they take the state (main.rs drop(ks), state.rs).       *)
NoDeadlock ==
  /\ \A l \in Locks : holder[l] # Free => ~Idle(holder[l])
  /\ \A S \in (SUBSET Threads) \ {{}} : \E t \in S : ~Waits(t) \/ WaitsFor(t) \notin S

(* When the UI is at rest, nothing is posted and no engine is between its  *)
(* change and its post, the list shows the records as they are under the   *)
(* filter as it is, unless an engine's failed write has put old records    *)
(* back, after which nobody refreshes (main.rs on_write, engine.rs         *)
(* commit_store_mutation, state.rs refresh_credentials).                   *)
ListShowsVault ==
  Idle(UI) /\ closures = 0 /\ ~rolledBack
    /\ (\A e \in Engines : Idle(e) \/ prog[e] \in {Read, Tail(Read), Commit, Tail(Commit)})
  => view = [version |-> version, filter |-> filter]

Shown == view.version = version

(* What an engine or a callback changes is shown, or taken back, however   *)
(* many requests and callbacks contend for the mutexes (main.rs on_write's *)
(* posted refresh and the refresh at the end of each callback).            *)
ChangeIsShown == ~Shown ~> (Shown \/ rolledBack)
=============================================================================
