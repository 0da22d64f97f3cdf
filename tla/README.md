# A TLA+ model of Passport Passwords

Passport Passwords turns a Passport device into a password vault. A browser
extension asks the device, over WebUSB (hardware) or a local WebSocket
(simulator), to release, store or generate a credential; the owner approves
every such request on the device's screen. This directory models the device:
the session, the engine that dispatches requests, the approver, the credential
vault and its persistence, the USB transport, the import of other managers'
exports and the list on the screen; and the extension's half of the session.
Paths below are relative to the repository.

## 1. The system

| Component | State | Operations | Module | 
|---|---|---|---|
| `logic/vaults-bridge-core/src/session.rs` | state, key, last nonce, idle timer | accept (handshake), accept_nonce, check_idle, seal, open, expire | `Session`, `DeviceSession` |
| `logic/vaults-bridge-core/src/engine.rs` | one session, one store, one approver, behind one lock each | establish_session, list, release, store, generate, cancel | `Engine` (and `DeviceSession`) |
| `logic/vaults-bridge-core/src/approval.rs` | none | the `Approver` trait | `Approver` |
| `src/main.rs`, approver | slot with the pending sender and deadline, approval card, queue of UI closures | request, cancel_pending, Approve, Reject, timeout worker | `SlintApprover` |
| `logic/vaults-bridge-keystore` | sequence of records | add, edit, archive, delete, colour, upsert, probe, find, import, restore | `Records` |
| `src/main.rs` callbacks, `src/persist.rs`, `import_flow.rs`, `backup_flow.rs` | keystore in memory, sealed blob on disk, staged import and restore, exported backup | the UI callbacks, on_write, load_keystore | `Vault` |
| `src/transport/webusb.rs`, `logic/vaults-bridge-protocol/src/frame.rs` | the host's connection, the line being collected, the channel of requests, the response being written | registration, read loop, dispatch, chunked write | `WebUsb` |
| `src/transport/websocket.rs` | one task per connection | stamp and dispatch a request | the constant `SingleFlight` of `DeviceSession` and `Engine`; the tasks of closed connections in `Extension` |
| `logic/vaults-bridge-import`, `src/import_flow.rs` | the file's text, the row being cut, the staged records | detect, map columns, parse rows, stage | `Import` |
| `logic/vaults-bridge-core/src/origin.rs` | none | parse, registrable_domain, origin_match_key | `Origin` |
| `src/state.rs`, the mutexes of `src/main.rs` | state, keystore and store locks, the list model, queued refreshes | refresh, search, archive mode, on_write | `ListView` |
| `extension/background.js`, `offscreen.js`, `webusb-transport.js` | session key, nonce counter, RPC chain, pending call | save, list, fill, generate, ping, repair | `Extension` |

How they interact. A transport stamps a request with `now_ms()` and awaits
`Engine::handle`. The engine locks the session for the gate, unlocks it, locks
the store to look a record up, unlocks it, awaits the approver, and only then
commits to the store and seals the answer, each under a lock of its own. The
approver's `request` puts a sender into a shared slot and queues a closure for
the UI thread; the buttons, the timeout worker, `cancel_pending` and the next
`request` compete for that slot. A commit mutates the store, then calls the
`on_write` hook, which locks the same keystore again and writes it to disk. The
UI callbacks change the same keystore from the UI thread. At the other end, the
extension's handlers share one set of session variables across their awaits and
send their calls through one FIFO chain to the transport.

What is hard about it: everything that happens while an approval waits (another
handshake, an edit on the device, a second request, the timeout); UI closures
that run later than the decision they belong to; a commit that is not one
critical section; writes that fail and crashes between mutation and write;
duplicate and archived logins; lines cut into packets by a link that may go away
between two of them; quoting and line ends of other programs' files; mutexes
that are taken while another is held, on several threads. `PROJECT.json` lists these hazards at their
lines, each with the properties that cover it or the reason none does yet.

## 2. Modules

* **Session** has the methods of `Session` as functions on a record
  `[state, key, last_nonce, last_activity_ms]`. A key is a number; each
  successful handshake has a new one, 0 is `None`.
* **DeviceSession** is the session shared by request tasks. One action per lock
  scope of the engine: `EstablishSession`, `GateSession`, `GateActiveSession`,
  `OpenPayload`, `SealAnswer`; `Leave` is every way out of a handler between the
  gate and the seal. A task keeps the time stamp of its arrival, as `now_ms` is
  passed down the call chain. Real time (`now`) and the wall clock (`wall`),
  which `SystemTime` reads, are separate variables; `AdjustClock` sets the
  latter. `log`, `lastUse`, and a task's `at`, `key`, `sealKey` are history.
* **Approver** is the promise of the trait: asked once, answered once with
  Approve, Reject or Timeout, eventually answered.
* **SlintApprover** is the implementation, with `request` split where the lock
  is released (`RequestReplace`, then `RequestSchedule` or `RequestUnscheduled`,
  then `RequestReturn`) and the timeout worker and cancel split between taking
  the sender and queueing the closure that clears the card. `RunClosure` is the
  UI thread. `Trait == INSTANCE Approver WITH status <- statusOf` is the
  refinement mapping.
* **Records** has the keystore operations as functions on the sequence of
  records; `First` is `position`/`find`, which decides which of several
  duplicate logins is meant. Strings are model values; ids and passwords are
  numbers from one counter, so a later password is a larger one.
* **Vault** is who calls them and when: UI callbacks are atomic (they hold the
  keystore lock from snapshot to persist or rollback), an import or restore
  holds the lock for one step per record, and the engine's
  `commit_store_mutation` is three steps (`CommitMutate`, `CommitPersist`,
  `CommitRollback`) because it unlocks in between. `Crash` restarts the app from
  the disk. `owed` is history: what a host was told is saved; the user's delete
  ends it when it is persisted, a Replace of a batch already at its row.
* **Engine** composes `Vault`, `Session` and `Approver`: the three
  approval-gated requests from arrival to response, every error path, list,
  cancel, handshakes and the user's edits in between. `seen`, `did` and `moved`
  are history: how the login's records stood at the probe, what the commit did,
  told from the vault before and after it (`Effect`), and whether those records
  had changed by then.
* **Extension** is the browser side, with the device reduced to its `Session`
  and a queue of requests. A step of a handler runs from one await to the next:
  `EnsureSession`, `GenerateKey`, `SendPublicKey`, `DeriveBits`, `Established`,
  `Sealed`, `Finish` or `Fail`. `MakeCall`, `ReadLoop`, `RpcTimeout`,
  `ConnectFails` and `TearDown` are the transport; `Disconnect`, `StayIdle` and
  `RecycleWorker` the world around it. The device handles one connection's
  requests in order; over WebSocket the task of a closed connection goes on with
  what it has read (`stale`, `LeaveUnread`, `HandleStale`), before or after the
  requests of the next connection. Keys are numbers: `SharedKey` gives both
  ends the same one exactly if the host derives with the private key whose
  public half it sent. `overlap` is history.
* **WebUsb** is the line transport. A byte is `<<line, position>>`, so a request
  that mixes bytes of two lines is visible. The reader thread takes a packet
  (`ReadChunk`) and then goes through it a byte at a time (`ReadByte`), since the
  dispatcher may take a line before the packet is over; `ReadError` and
  `ReadDisconnected` are the other ways a read can end. The dispatcher takes a
  line from the channel, answers it and writes the answer in chunks, each of
  which may fail (`WriteOk`, `WriteError`, `WriteDisconnected`), and waits for
  the link after a disconnect (`WriterResumes`, `WaitFails`). `HostReads` is what
  the extension's read loop does with a packet. `LineSplitter`, which
  the repository defines and tests but the device does not call, is the
  reference the reader's own loop is compared with.
* **Origin** has `Origin::parse`, `registrable_domain` and `origin_match_key` as
  operators over URL texts reduced to what they tell apart: a blank in the host,
  which the `url` crate refuses, or in the path, which it encodes; a dot in the
  path; IPv4 and bracketed IPv6 hosts. The crate is external; the list of
  two-label suffixes is cut down to two, one of which ends in the other's
  characters. Tabs, escapes and non-ASCII hosts are not among the texts.
* **Import** is the import of a CSV file, a character per step: `RowIter` with
  its quoting states, `detect_source`, `column_mapping`, `build_record`,
  `canonicalise_origin` with its length limit (one host stands for those over it)
  and the staging that `import_flow.rs` does with the result. The initial states
  are the files.
* **ListView** is what runs under which mutex. Each thread runs a program, a
  sequence of lock, unlock and work steps that is read off the function it
  stands for; a mutex is not reentrant. The vault is a version number and the
  list is the version and filter it was drawn from, so staleness is a
  difference of numbers. An engine's `on_write` queues a closure; the UI thread
  runs callbacks and closures, one at a time.
* **DeviceSessionProofs**, **SlintApproverProofs**, **VaultProofs**,
  **EngineProofs**, **ListViewProofs**, **ExtensionProofs** and **WebUsbProofs**
  hold the theorems about the module each is named after; **RecordsProofs** holds the lemmas about
  the keystore operations that `VaultProofs` and `EngineProofs` cite.

Every module is small against its source because data is abstracted: no JSON,
hex, cipher, labels, notes or widgets. Control is kept: each guard, early return
and error path of the mapped lines is a conjunct, a disjunct or an action.

## 3. What the runs check

Passing runs:

| Run | Properties | Instance |
|---|---|---|
| `DeviceSession_usb` | `TypeOK`, `NoReplay`, `SealedForRequester`, `SteadyIdleBounded` | two lines of work, single flight, two handshakes, nonces 0..2, idle time 2 of 4 ticks, the clock set once: enough for a replay after a failed or second handshake and for a request on each side of the idle boundary |
| `SlintApprover_ws` | `TypeOK`, `NoLostRequest`, `FullWindow`, `EveryRequestAnswered`, `ImplementsTrait` | two overlapping requests, window 2 of 4 ticks, one cancel, the event loop may end: a replaced request, a timeout of the second and every race for the slot |
| `Vault_device` | `TypeOK`, `UniqueIds`, `DriftOnlyByRace`, `OwedIsDurable`, `BatchOnlyAdds`, `SavedIsWhatFills`, `DurableNotLost`, `BatchAllOrNothing` | one login (so every new record is a duplicate), one committer, two-row files, backups, one crash, every write may fail; four fresh numbers allow a save, a Keep-both restore and a remote update of the duplicates, or a whole two-row import, before, during or after a commit |
| `Engine` | `NothingWithoutConsent`, `ErrorHasNoEffect`, `ReportedIsDone` | one WebSocket request of any kind, two user names, every start vault of up to two records (live, archived, duplicate), writes may fail; a user who saves, edits, archives and deletes, and other connections that shake hands (two keys), list and cancel between any two of its steps. Two requests at once are too many states for TLC beside such a user; the theorems are about any number |
| `Extension` | `TypeOK`, `AnswerIsMine`, `OneAtATimeWorks`, `EveryActionResponds` | two handlers of any kind, overlapping or one after the other, both transports, one lost link, device restart or idle period; timeouts, late answers, recycling and requests left to the task of a closed WebSocket without bound. `OneAtATimeWorks` is about WebUSB. Each handler makes up to two calls, so two handshakes can be under way at once and an answer can be late for the next call |
| `WebUsb` | `TypeOK`, `NothingSpliced`, `ReaderAgainstLineSplitter`, `DamageIsLocal`, `EveryLineAnswered` | three request lines, empty, of the cap's size (3) and over it (5), packets of 2 bytes, answers of one or two chunks, one disconnect and one other USB error: lines that end inside, at and after a packet's end, a line on each side of the cap, a link that goes away in the middle of a line, an answer or neither |
| `Import` | `RoundTrip`, `RowsAreParity`, `MappingAsDocumented`, `StagedFillsItsSite`, `RegistrableIsByLabel` | every text of up to five characters (letter, comma, quote, CR, LF) after a header, tables written in each quoting and line end, the headers the module's comments document, URLs of every form (bare or with a scheme, port, credentials, a blank in host or path, a dot in the path) with hosts of up to six characters, an IPv6 and an over-long one, and an empty, an unreadable and an oversize file |
| `ListView` | `NoDeadlock`, `ListShowsVault`, `ChangeIsShown` | the UI thread and two engine threads, two changes, one search; every write may fail. Two engines are what it takes to hold the store lock and wait for it |

Runs that show where the code does something else than its documentation says:

| Run | What TLC finds |
|---|---|
| `SlintApprover_usb_shown` | A times out; B takes the slot; the user, still looking at A's card, taps Approve: B is approved although its card was never drawn. |
| `Extension_expired` | The device's session ends (idle, or its app was reopened); over WebUSB `session_expired` arrives as code 99 with a message that `shouldResetSession` does not know, so the worker keeps its key and the next action fails again. Over WebSocket the code survives and the worker forgets the key. |
| `Extension_nonce` | Two actions start without a session and both shake hands; the end of the second handshake sets the counter to 0 after the first action has drawn nonce 1; the device refuses the second nonce 1. |
| `WebUsb_overcap` | The reader drops what it has collected when a line passes the cap, goes on collecting, and dispatches the end of that line as a request, where `docs/PROTOCOL.md` says that such a line is rejected. |

Some observations have no run of their own. With several WebSocket clients
(`SingleFlight` FALSE in `DeviceSession`) another client's handshake between
gate and seal makes an answer sealed for somebody else: `SealedForRequester`
needs the single-flight transport, and its mutant `FreeAnyTime` shows why. When
the wall clock is set back, an idle session outlives its idle time, although
`session.rs` speaks of monotonic time: hence the condition of
`SteadyIdleBounded`. The seal after an approval
writes the arrival's time stamp into the idle timer, so it does not count as
activity although `session.rs` says so. `generate_password` answers `Updated`
for a live login although `message.rs` says "always Saved or
RestoredAndUpdated". And on the WebSocket simulator a handshake by another
client during the approval makes `handle_generate` fail to seal after it has
committed: that answer, `session_expired`, is the one error that
`ErrorHasNoEffect` leaves out.

Of the extension over WebSocket: `websocket.rs` says that the listener accepts
one client at a time, but line 35 starts a task for each connection. So a
handshake that a closed connection left behind can be handled after that of the
next one and replace the device's key; and `ws.onclose` resets the session under
a handler that is in the middle of using it. `OneAtATimeWorks` therefore speaks
of WebUSB only.

Of the approver and the engine: the closure that clears a timed-out approval's
card does not look whose card is shown (`src/main.rs:695`), so it can take down
the next request's card, which then stays pending unseen. When the user deletes
or (un)archives a record while its approval waits, the action on the card and in
the response may not be the one that was done (`engine.rs:303`), although
`message.rs` calls it "What the device actually did": `ReportedIsDone` exempts
the requests whose own login changed so (`moved`), and no others. A failed write
puts back a snapshot that may be older than the user's edit, which stays on disk (`engine.rs:458`,
simulator only: on hardware `write` always returns `Ok`); `DriftOnlyByRace`
says that this is the only way memory and disk part, and `ErrorHasNoEffect` is
about behaviours without it (`raced`). In the model a write may fail in every
build, which allows more than the code does on hardware. That rollback does not
refresh the list either (`engine.rs:459`), hence the condition of
`ListShowsVault` and `ChangeIsShown`.

Of the transport: once a line has passed the cap it is dropped, and its rest is
collected as a new line and dispatched (`webusb.rs:321`), where the repository's
own splitter rejects the stream. `ReaderAgainstLineSplitter` says exactly that:
up to the first line over the cap both cut the same requests, and from there the
splitter has stopped and the reader goes on with the rest of the line; the run
`WebUsb_overcap` refutes what the documentation says. `NothingSpliced` is about
bytes of two lines in one request and allows that rest (`TailOf`). A failed read keeps the line
collected so far (`webusb.rs:295`), which is harmless as long as no bytes were
lost with it; a chunk that cannot be written is skipped (`webusb.rs:251`) and
joins its response to the next one: `DamageIsLocal` bounds the harm to those
two.

Of the import: a Proton export is labelled Google and an Apple one 1Password
(the mapping they get is right); a Proton login with an email and no user name
is skipped; so are bare `localhost:3000` and `user@host` texts, which the
parser reads as URLs with a scheme or credentials, and a bare text with a blank
anywhere, although the same blank is encoded in the path of one with a scheme. A
bare word becomes a site if there is a dot in its path.

Deadlock is checked in all runs but those of `SlintApprover`, where the finite
set of requests is used up and the approver then rests, of `WebUsb`, whose host
may stop sending, and of `Import`, which ends. In `ListView` it is TLC's
deadlock check and the invariant `NoDeadlock`, which also sees a deadlock of
two threads while the third goes on.

**Bounds.** Every bound is a named constant of the module that uses it (`Max...`)
and appears only in guards. Bounds on numbers of tasks, requests, keys and times
are lifted for the proved properties (section 4). `Engine` uses symmetry in the
user names, which the code only compares with one another; that run checks
invariants only.

**Fairness.** `SlintApprover`: weak fairness of the steps of a request after it
took the slot, of the timeout worker and of time: these are threads that only
wait for a lock. Nothing is assumed of the user, of cancels, nor even of the UI
thread.
`Extension`: weak fairness of the handlers, of making the next call and of the
call's timer, all run by the browser's event loop; none of the device, the link
or the read loop. `WebUsb`: weak fairness of the reader and the dispatcher, two
threads that wait for the link or the channel; the host is not assumed to come
back, the property is about behaviours in which it does. `ListView`: weak fairness of a thread that holds
what it needs, strong fairness of taking a mutex, which the scheduler gives if
nobody starves, and of running a queued closure, since the event loop is FIFO;
none of the user or of an engine's next request.

**Mutants.** For each property of a passing run there is a mutated definition
(marked *Mutant* in the modules, never used by the specifications) that TLC
refutes, so that each property is known to depend on the code it is about.

## 4. What is proved

With TLAPS, for every value of the constants: any number of tasks, requests,
committers and handlers, vaults, files and queues of any length, lines, packets
and responses of any size.

**Session and approver.**

* `SessionTypeOK`, `SessionNoReplay`. `NoReplay` is not inductive; `ReplayInv`
  adds that nonces logged under the current key are at most `last_nonce`
  (`LogBelow`) and that keys still to come are in neither the log nor the session
  (`KeyOld`). It needs that a failed handshake keeps both the key and the nonce
  counter, which is exactly what `accept` does.
* `SealedForItsRequester`, assuming `SingleFlight`. The invariant says that at
  most one task is past its arrival, that a gated task's key is the session's,
  and that a busy task has sealed nothing yet. The assumption is needed:
  the mutant `FreeAnyTime` refutes the statement without it.
* `SessionIdleBounded`, as long as the clock was never set: stamps are real
  arrival times and the idle timer is never ahead of the last real use
  (`ClockInv`). Once the clock is set it is false.
* `ApproverTypeOK`, `ApproverNoLostRequest`, `ApproverFullWindow`, from `ApproverInv`: what is in the slot is unanswered and
  its request waits; a waiting request is in the slot or answered; the deadline
  in the slot is that of its request; nothing was sent to a request that was not
  made.
* `ApproverImplementsTraitSafety`: initial states and steps of `SlintApprover`
  map to those of `Approver`, which is the approver `Engine` is composed with.

**Vault.** The lemmas of `RecordsProofs` say of each keystore operation which ids
it leaves distinct (`Sound`), which records it retains, and that no password
goes back (`Retains`, `Keeps`). On them rests one invariant, `IInv`:

* `Drawn`: every vault that can come back, on disk, in the backup, staged for a
  restore, in a snapshot of a batch or of a commit, has distinct ids, all drawn
  before `fresh`. `UniqueIds` alone is not inductive, because a rollback or a
  reload makes any of these the keystore.
* `BatchGoesOn`: a batch that counted no change made none, and under Skip and
  Keep both what was there is a prefix of what is there.
* `InStep`: unless a rollback raced, the vault that stays if the batch fails has
  everything the disk has, and is the disk when no commit is under way.

From it follow `VaultTypeCorrect`, `IdsStayUnique`, `DriftNeedsARace`,
`BatchesOnlyAdd`, and the action properties `BatchesAreAtomic`,
`NothingDurableIsLost` and `SavedLoginFills`. `SavedIsDurable` adds `OwedKept`:
every record a host was told of is in every vault that can come back. It has the
hypothesis `[]Alone`, no two commits under way at once, and the code needs it:
`commit_store_mutation` unlocks between its change and its persist, so of two
overlapping commits one can roll back to a snapshot without the other's record,
which is then acknowledged and not on disk. On the WebSocket transport requests
can overlap; on WebUSB they cannot.

**Engine.** `EInv` says what a request at each program point has behind it: its
fields are filled in (`WellFormed`), past the question it has an Approve of its
own (`Consented`), and its `pc` and its commit agree (`InCommit`). With `IInv` it
is inductive.

* `ConsentComesFirst` and `EngineKeepsVault` have no hypothesis: either
  transport, any overlap, the user editing meanwhile.
* `SavedIsDurableOverUsb` assumes `SingleFlight` and derives from it that commits
  never overlap (`OneFlightAlone`), the hypothesis of `SavedIsDurable`.
* `ReportIsTrue` and `FailedIsUndone` have no hypothesis either. Their invariant
  is `GInv`. `Foreseen`: what the probe found is what it finds in any vault in
  which the login's records stand as they did, so if they still do at the commit,
  the effect of the upsert is the action that goes with the finding. `Clean`: a
  password that was written is in no snapshot taken before it, and after an error
  it is in neither vault. That it does not come back later
  (`NothingComesBack`) is a fact about every step of `Vault`: a step other than a
  racing rollback puts nothing back that is in neither memory nor on disk.
* `AtomicOverUsb` assumes `SingleFlight` and drops the exception for
  `session_expired`: by `SInv` the session that admitted a request is there when
  its answer is sealed (`SessionKept`), so no request is told of an expired
  session after its commit. On the WebSocket simulator another handshake makes the
  seal of a `generate` fail after its write.
* `ErrorsLeaveNoTrace` assumes `~UserEdits` too and drops the exception for a
  racing rollback: a snapshot that may be put back is what is on the disk
  (`Calm`). With the user editing, an edit between the commit's change and its
  persist writes that change to disk, and a later failure of the commit reports
  an error for what is there.

**List and locks.** The programs of `ListView` are annotated with what is held
and what is still to be shown after each step (`Runs`); one lemma per program
checks the annotation. `IInv` says that every thread's remaining program is
annotated from what it holds now. `MutexesNeverDeadlock` follows by the rank
pending < state < keystore < store: among threads that all wait, each waits for
one that waits for a lock of higher rank, and there are four ranks.
`RestingListShowsVault` follows because a thread that changed the vault still has
its refresh or its post to do.

**Extension.** `XInv` says that the chain, the call being made and the handlers'
states agree: a handler waits if and only if the chain has exactly one call of
its own, for the method it waits for, and the pending call is the head of the
chain (`Chained`). `ExtensionTypeCorrect` and `AnswersReachTheirCaller` follow.
The latter is not inductive alone: it needs that the entry an answer is matched
with is the call of the handler that is settled.

`HandlersInTurnWork` is about handlers that do not overlap, over WebUSB, with any
number of faults. Its invariant `SInv` relates the two ends through what is on
the wire:

* a call or answer on the wire is from its handler's last call or from its
  handshake (`Wired`), so the pending call is told apart from late ones;
* while the worker has a key, an active session of the device has the same one
  and no handshake is on its way that could replace it (`SameKey`). It holds
  because the queue is FIFO, as one USB pipe is: when the answer to a handshake comes back, nothing
  older is left on its way to the device (`Shaken`, `Flight`);
* nonces on the wire rise above the device's counter, and the one
  drawn last is `requestNonce` (`Nonces`), so that a request that timed out and is
  handled late makes no later one look like a replay;
* a handler shakes hands only without a session key, and with its own private
  key (`Handler`); a handler that uses the session still has it (`UsbHandler`).

With overlapping handlers it is false, which is what the run `Extension_nonce`
shows. Over WebSocket it is false as well (section 3).

**USB transport.** `TypeSafety` needs `TInv`: what is in the channel and what
was dispatched has its size already when it is in `line`, and the count of
answers is one behind while the dispatcher is busy.

`LinesAreWhole` proves `NothingSpliced`. A line, or a request, says nothing of
where the reader is, so `SInv` says it: the reader has come to byte `p` of line
`r`, its packet ends at byte `e` of that line, and what the host has left to send
is the rest of line `r`, or the whole of the line after it, or nothing because the
cable was pulled (`Stream`); or nothing is on its way at all (`Idle`). What `line`
must then hold (`LineAt`) is arithmetic: the last `(p - 1) % (MAX_LINE_BYTES + 1)`
bytes of the text before `p`, since the cap drops a byte along with each
`MAX_LINE_BYTES` collected; unless a read of this line or of the one before failed.
At the newline that is `TailOf`: the whole text, or what the cap left of it
(`Kept`). Bytes accepted so far are of earlier lines
(`Earlier`), which gives the order.

`DamageStaysLocal` proves `DamageIsLocal`. `WInv` says what the host's buffer
holds while the dispatcher is at byte `p` of response `d`: exactly the first
`p - 1` bytes of `d`, and `d` has lost nothing (`Clean`); or a byte of a response
that lost a chunk, and then `d` is hurt or its predecessor lost its newline
(`Spoilt`); or nothing, and `d` is hurt (`Cleared`). Between responses the buffer
is empty or holds such a byte of a response without its newline. The last chunk of
a response makes the host cut a line in each of the three cases.

The assumptions are those on the constants (`SessionAssumption`,
`ApproverAssumption`, `RecordsAssumption`, `VaultAssumption`, `EngineAssumption`,
`ListViewAssumption`, `ExtensionAssumption`, `WebUsbAssumption`): types, a
positive idle time, cap and packet size, no empty response, and the null values not being a request, a thread, a task or a call. TLC evaluates
them in every run.

Only model-checked:

* the liveness properties (`EveryRequestAnswered`, `EveryActionResponds`,
  `EveryLineAnswered`, `ChangeIsShown`, the fairness half
  of `ImplementsTrait`), which the prover cannot do;
* what `Import` and `Origin` compute, and `ReaderAgainstLineSplitter`: they compare a
  loop over bytes or characters with a fold or with another loop, and need
  induction over texts.

## 5. Not modelled, and the plan

Not modelled: the cipher, key derivation and the backup container (a sealed blob
is its contents), the UI pages, theme and master key (no state of their own),
which characters `generate_password` draws, JSON (a response that cannot be
serialised does not exist), status texts and the USB setup packet. Malformed
frames do not change the device's state.
Whether opening an existing backup file truncates it (`backup_flow.rs:217`) is
decided by the KeyOS file system, which is not in the repository.

Left, in this order:

1. `UsbTransport`: the extension's claim, probe, read loop and teardown as
   separate steps (a stale read loop against a new connection,
   `extension/webusb-transport.js:321`). It needs an external assumption about
   the browser: whether a pending transfer is rejected before or after
   `releaseInterface` and `close` settle.
2. The options page's change of transport while handlers run, as an action of
   `Extension`; three handlers.
3. The import and backup modals (what "Try again" does after a failed write).
