# Verification of the secure flashing simulation

TLA+ models of the Python program in `src/sim` and `src/api`, the TLC runs that
check them on small instances, and TLAPS proofs of what matters most for every
instance. Paths below are relative to `src/`.

## 1. The system

The program simulates the flashing stack of an ECU (`sim/`) and offers it over
REST and a WebSocket (`api/`). Everything runs in one asyncio process; the only
thing that outlives it is the NvM file.

| Component | State it keeps | Operations | What makes it correct |
|---|---|---|---|
| Flash manager (`flash_manager.py`, `version_manager.py`, `failure_handler.py`) | RAM: `_state`, `_staging_buffer`, `_hash_ctx`, `_pending_version`, target, `_flash_store`. NvM: `flash_pending`, `active_bank`, `last_valid_bank`, `bank_A/B`, `sw_version_counter` | begin_download, transfer_block, finalize, abort | an update is all or nothing; the counter only rises; what is committed was verified |
| Bootloader (`bootloader.py`) and recovery manager (`recovery_manager.py`) | the same NvM keys | boot (trigger_reset), recover | only the newest verified image starts; an interrupted update is undone |
| Security access (`security_access.py`) | RAM: challenge, role, authenticated, locked. NvM: retry counter | get_challenge, verify_response, reset | a challenge authenticates once; the lockout holds; the role is known |
| Session manager (`session_manager.py`) | RAM: activity time. NvM: transaction counter | create, validate_freshness, touch, destroy | no counter is accepted twice |
| UDS dispatcher (`dcm.py`, `ecu_state.py`) | ECU mode and active role | six services, reset | mode, role and authentication agree; every request ends |
| Crypto (`hsm.py`, `cryif.py`, `csm.py`) | keys, failure mode, hash contexts | verify, hash, nonce | modelled as its callers see it |
| NvM (`nvm.py`) | `_store`, a JSON file and its `.tmp` | read, write, increment_counter, reset_to_defaults, the load at start | the file is always a complete state; what a call was told is in it |
| Event bus (`api/websocket.py`, `api/main.py`) | the list of connections | connect, broadcast, endpoint loop | clients are reached once and see the current state |
| REST routers (`api/routers/`) | none of their own; the handlers suspended in a broadcast | act, broadcast, answer | the answer tells what was done; interleaved clients cannot lower the counter |
| VTC scenario runner (`api/routers/test_scenarios.py`) | results | the preamble, sixteen scenarios | every scenario passes after whatever was done before, and leaves the HSM available |
| Diagnostic event manager (`dem.py`) and live monitor (`docs/..._monitor.html`) | the event log; the page's cursor and entries | log, clear, fetch, render | the view has no gap and catches up |
| PKI manager (`pki_manager.py`) | none | validate_chain, build_test_chain | a chain is accepted when all of it is good and anchored |
| Demo page, launcher, tests | browser state | | not modelled, section 9 |

Interaction. The DCM and the REST handlers call security access, session
manager, flash manager and bootloader directly. These share no state but the NvM
keys and the HSM. A call never gives up the thread, so two calls do not
interleave, but each NvM write is flushed on its own: **the process can die
between two writes of one call**, and inside one, and a flush can fail while the
memory has already changed; the next start finds what the file holds. The event
bus awaits once per client of each broadcast, and a REST handler awaits its
broadcasts between what it does and what it answers: there, coroutines
interleave. The monitor's fetches overtake each other. Hard behaviours: the power
loss inside commit, boot and recovery; a failed or torn flush; state that outlives
the operation it was checked for (pending version, hash context, role); state held
twice by objects that are changed separately; legal calls, of one client or of
several, in an order nobody wrote a test for; the changing list under a broadcast.
`PROJECT.json` lists these as hazards with their lines.

## 2. The modules

| Module | Models | Correspondence |
|---|---|---|
| `MemoryMap` | `_validate_address`, `MEMORY_MAP` | pure operator; regions and roles are constants |
| `EcuStore` | the shared NvM keys, the signing key, the thread | one variable per key; `pc` names the next NvM write of the running call |
| `FlashManager` | flash, version and failure managers, CSM hash contexts | one action per method; `finalize` is one action per way out, its commit one action per NvM write |
| `Bootloader` | bootloader and recovery manager | boot and recover at their writes |
| `UpdateSystem` | the three over one store, HSM failure, power loss | `PowerLoss` = process death and `build_simulation` |
| `ABUpdate` | what an update promises | abstract: one step installs an image |
| `SecurityAccess` | challenge, response, lockout | one action per outcome of each method; restart and HSM failure included |
| `SessionManager` | session, timeout, transaction counter | one action per method, `Tick` for time |
| `NvmFile` | `nvm.py` below one write | memory, file, `.tmp`; a write is memory, tmp, rename, return, and each can fail or be the last |
| `AtomicStore` | what the store promises | abstract: the file takes a whole state in one step |
| `SessionStore` | the session manager and the bootloader's default keys over `NvmFile` | EXTENDS `SessionManager`, instantiates `NvmFile` with the memory made of the counter and the bank keys; each call is split at its write |
| `DCM` | dispatcher and ECU mode | EXTENDS `UpdateSystem`, instantiates `SecurityAccess` and `SessionManager` over shared variables |
| `EventBus` | connection manager, endpoint loop, handlers as callers | a step is what a coroutine does between two awaits |
| `RestApi` | REST handlers and VTC scenarios | EXTENDS `UpdateSystem`, instantiates `SecurityAccess` over its HSM; a handler acts, is suspended, answers; a scenario is a script of calls with the outcome it expects of each; `Expects` names what a call needs to have it |
| `DemMonitor` | event log, `GET /ecu/events`, the page's `refreshEvents` | one action per log, clear, fetch, arrival and failure |
| `PkiChain` | `validate_chain`, `build_test_chain` | pure operators of chain and clock |
| `MC*` | constants for TLC; `MCValidators` is a small machine that picks requests and chains for the two pure checks | |
| `*Proofs` | theorems | `UpdateProofs` (with and without power loss), `SecurityAccessProofs`, `DCMProofs`, `SessionStoreProofs` (with `NvmFile`), `DemMonitorProofs`, `ValidatorProofs`, `RestApiProofs`, `EventBusProofs` |

Abstractions. A signature is the number of the process start whose
`oem_signing_key` made it (0: nobody's), because `build_simulation` makes new keys
at every start; it verifies when that is the current start and the HSM is
available. A signature handed to finalize is over the image handed with it or
counts as nobody's. SHA-256 is injective: the digest of a hash context is the
sequence of bytes it was fed. Each stored bank carries the version of its image
as the model's own label; the code stores none. `begin_download`, `transfer_block`
and `abort` have at most one NvM write, their last effect that outlives the
process, and are one action. DEM entries are left out of all modules but `DemMonitor`,
where an event is its number and the number of the log it belongs to. Roles' tester
keys are told apart by role; an authentication signature is the pair of key and
nonce. 32-byte nonces do not repeat.

In several modules a definition is preceded by a *mutant* of it, the form a
plausible bug would give it. No specification uses them: substituted for the
definition they show that a property notices the bug.

## 3. The runs

| Run | Question | Result |
|---|---|---|
| `update_crash` | update path with power loss anywhere | 1.4 million states. Counter monotonic and backed by an image, staged bytes are hashed bytes, boot starts only the newest of the images that verify |
| `update_running` | the same without power loss | 53 thousand states. Implements `ABUpdate`; a commit that begins takes effect |
| `validators` | first-match loop against the meaning of the table; `validate_chain` against the meaning of a chain | 6.6 thousand states: every request at every border of the repository's own table, every chain of up to two certificates at every hour around its end |
| `security_access` | guesses, roles, resets, restarts | 3.7 thousand states. Single use, role known, lockout excludes authentication, guesses bounded by limit plus restarts |
| `session_store` | counters through failing flushes and process deaths | 26 thousand states. No counter is accepted twice, what a call was told is on disk, a started server has both bank keys on disk; the file implements `AtomicStore` |
| `dcm` | six services over all of it | 293 thousand states. Mode, role and lockout agree; a lockout stops a flash; every request ends |
| `event_bus` | two endpoint loops and a handler over one list | 230 thousand states. At most once, undisturbed walks reach all, only dead entries removed, clients see the current state |
| `rest_api` | two requests under way, scenarios under live downloads | 783 thousand states (up to the symmetry of the two slots). Scenarios pass, stored images verify, only a scenario lowers the counter, an undisturbed answer is current |
| `dem_monitor` | two fetches that overtake each other while the log grows and is emptied | 11 thousand states. The view has no gap; a log at rest is counted |
| `viol_recovery_target`, `viol_commit_after_abort`, `viol_dcm_exit_commit` | statements of the user manual | refuted by the code, section 8 |

`update_crash` checks `StagedIsVerified`: each staged block is a stretch of what the
hash has seen, so nothing is programmed that was not verified, though not
necessarily in the verified order. `CounterBacked` is what the order of the writes in
finalize (bank before counter) is for. `BootedIsCurrent` rests on all of commit, fallback
and verification: it fails when the fallback takes the wrong bank, when
`last_valid_bank` is not written, when the version is not compared, and when boot
accepts a signature of an earlier start. It says nothing of which bank a boot falls
back to after a power loss: the new key verifies nothing then, so no boot succeeds
before the next commit. That side is `viol_recovery_target`.

`ImplementsABUpdate` maps the abstract step to the write of the bank: the flipped
`active_bank` before it is shown as the old one, the counter after it as already
raised. With power losses it does not hold (section 8).

`ImplementsAtomicStore` maps the store's promise to the file's data: a rename saves,
everything else leaves the file alone, a start reads it back. `intact` is the
history that says whether a start has taken an unreadable file for an empty one;
the session properties are claimed as long as none has.

In `RestApi`, `overtaken` records that a scenario wrote the version counter since the
last begin_download. `RollbackNeedsScenario` says that this is the only way to lower
it: two clients that share the one pending version cannot. `AnswerIsCurrent` is claimed
of a finalize during whose broadcasts no other handler acted; what the others are
answered is in section 8.

## 4. Bounds

- `update_*`: three versions (install, update, and one refused or one more), two
  blocks, two sequence numbers (order and repetition), two one-byte images of
  which the hash distinguishes either, two bytes per hash. Three process starts:
  an image of the first can be updated in the second and found stale in the
  third. The memory map has one region open to the tester's role and one closed;
  its own arithmetic is the subject of `validators`, where addresses are in units
  of 32 KiB, so that every region border is an integer and one unit around it is
  tried.
- `security_access`: the repository's limit of three retries, four nonces (a spent
  one, and three more under which guesses can be made), two restarts, two roles
  with a key each.
- `session_store`: a counter that fills at 3, received values from below it to one
  above, two ticks to the timeout, three starts: a value can be lost by one start
  and asked for again in another, and a start can be cut before the first key,
  between the keys and after them.
- `validators`: the repository's memory table; chains of up to two certificates with
  every combination of names, marks and two dates, and the test chains; hours 0 to 4
  around both dates. One name is on the list of revoked subjects, which the repository
  leaves empty, so that both ways of being revoked are met.
- `rest_api`: two requests under way (one suspended, one acting), one retry, two
  challenges, one tester role and one start; versions 2 (the scenarios') and 3 (one
  above); a region that is open and one that is closed. Two slots suffice for a
  handler to be disturbed; what a third could do, the second can do after it has
  answered. With one retry the scenario of the lockout, VTC-13, meets no partly used retry
  counter; its theorem is for every limit.
- `dem_monitor`: two fetches under way, logs of up to three events, two times
  emptied: an old response can arrive after a newer one, and a log can regrow to
  the cursor.
- `dcm`: limit of two retries, two nonces, one restart, one version, an empty and
  a one-byte block, one region that only one of the two roles may program.
- `event_bus`: two clients suffice for every kind of disturbance (one that is
  removed, one behind it); with the request three broadcasts are suspended at
  once.

Bounds are constants named `Max...` or the sets of inputs; a bound is always a
guard (`issued < MaxChallenges`, `keyGen < MaxKeyGen`, `Len(...) <= MaxBytes`). Deadlock
is checked except in `event_bus`, where the server is idle once every endpoint has
ended, and in `session_store`, where a failed start after the last permitted one is
the end.

## 5. Fairness

`RunningCall` (update path) and `RunningRequest` (dispatcher) are weakly fair: a Python
call that has started runs to its end. Nothing forces a tester to call, time to
pass or power to fail. In `event_bus` each coroutine is weakly fair: asyncio
resumes whatever can run, and `asyncio.sleep(1)` ends. Sockets need not break and
clients need not come. In `dem_monitor`, `setInterval` goes on fetching (`Serve` is weakly
fair) and a backend that can be reached answers in the end (`Arrive` is strongly fair:
a fetch may fail any number of times, not for ever).

## 6. What is proved

Every safety property that a passing run checks, and the two refinements, for every
alphabet, set of images, blocks and versions, memory map, retry limit, set of
clients and number of restarts, from the named assumptions on the constants only:

- `UpdateProofs`, with power losses: `TypeCorrect` (`TypeOK`), `CounterRises`
  (`VersionMonotonic`), `CounterAlwaysBacked` (`CounterBacked`), `BootsOnlyCurrent`
  (`BootedIsCurrent`), `StagedAlwaysVerified` (`StagedIsVerified`); without power loss:
  `ActiveStaysCurrent` (`ActiveIsCurrent`), `PendingOnlyInFlight` (`PendingMeansInFlight`) and
  the refinement `UpdateIsAtomic` (`ImplementsABUpdate`).
- `SecurityAccessProofs`: type correctness, `LockedNotAuthenticated`,
  `AuthenticatedHasRole`, `LockoutBudget`, `ChallengeSingleUse`.
- `SessionStoreProofs`: `FileIsAtomicStore`, the refinement of `AtomicStore` by `NvmFile` for
  every set of contents; `CallsKeepStoreAtomic`, the same of the composed system; and
  `SessionTypes`, `GrantsAreDurable` (`GrantedIsDurable`), `ReplayRefused` (`NoReplay`),
  `BankKeysAlwaysDurable` (`BankKeysDurable`).
- `DemMonitorProofs`: `MonitorTypes`, `ViewIsGapless` (`GaplessView`), for any number of
  fetches under way.
- `DCMProofs`, with power losses: `DispatcherTypes` (`DCMTypeOK`), `LockedModeAgrees`
  (`LockedModeIsLocked`), `RoleShownAgrees` (`RoleAgrees`), `LockoutStops`
  (`LockoutStopsFlash`); `DispatcherIsBoth`: a run of the dispatcher is one of the update path
  and one of security access, and with it `DispatcherKeepsCounter` (`VersionMonotonic`,
  `CounterBacked`) and `DispatcherKeepsLockout` (`LockoutBudget`, `ChallengeSingleUse`).
- `RestApiProofs`, for any number of suspended handlers: `RestTypes` (`RestTypeOK`),
  `StoredVerify` (`StoredImagesVerify`), `RollbackOnlyByScenario`
  (`RollbackNeedsScenario`), `AnswersCurrent` (`AnswerIsCurrent`), `AllScenariosPass`
  (`ScenariosPass`); `RoutersUseAccess` and `RoutersKeepLockout`, the same of security access as
  for the dispatcher.
- `EventBusProofs`, for any number of clients and broadcasts: `EventBusTypes`
  (`EventBusTypeOK`), `SentAtMostOnce` (`AtMostOnce`), `UndisturbedTriesAll`
  (`UndisturbedReachesAll`), `RemovesOnlyDead` (`OnlyDeadRemoved`).
- `ValidatorProofs`: `AcceptsOneRegion`, `AcceptedIsAllowed` and `ChainAcceptedExactly` about
  the two checks by themselves, for every table of disjoint regions, every chain and
  every time, and `AdmitsOnlyAllowed` (`AcceptedBytesAllowed`), `AdmitsExactly`
  (`AcceptsExactly`), `ValidatesExactly` (`ChainValidExactly`) about the machine of the run.

The argument for the update path. `VersionMonotonic` is not inductive: commit_version
does not compare, and between the comparison in begin_download and the write lie
any number of calls. What carries it is `VersionAhead`: whenever a commit can still
happen (a download runs, or *a hash context is left over*, or a commit is under
way) the pending version exceeds the counter. The hash context has to be in it
because abort keeps it and finalize asks for no state. It stays true because only
a commit raises the counter, and a commit uses the context up (`CommitState`).
`Written` says how far a commit has come, which gives `CounterBacked` at the write of the
counter. `BootedIsCurrent` needs `FreshIsCurrent`: an image whose signature verifies now
was committed by this process; none of them is ahead of the counter, but for the one
a commit is about to count, and if there is one, the active bank holds one at the
counter's version and is the last valid bank. A power loss makes it true at once,
because the new key verifies nothing that is stored.

`StagedIsVerified` is carried by `Staged`: outside a commit every staged block is a
stretch of what the hash context was fed, inside one of the image being committed,
which equals the hashed bytes when finalize goes on. Two lemmas say that a stretch
survives an append and that what was appended last is one.

Without power loss `RunningInv` adds that every stored image verifies (the key is
never replaced), that the two bank keys differ only between their own writes, and
that what a commit installs comes from a request. The refinement then has two
lemmas: the write of the bank is the abstract `Install`, any other step a stutter.

Security access: `LockedNotAuthenticated` needs that a guess is possible only with
a challenge open and that an open challenge excludes an authentication;
`ChallengeSingleUse` that the pending challenge is never a spent one.

The dispatcher: `DispatcherStep` shows that every step of it is a step of the update
path and one of security access, so their inductive invariants, `IInv` of `UpdateProofs`
and of `SecurityAccessProofs` (by INSTANCE, with the assumptions on its constants
discharged in `AccessAssumption`), hold of the composition without a new proof.
`Agreement` adds mode and role, and that no commit is about to begin under a lockout:
only TransferExit begins one, it asks for an authentication, and a lockout excludes
that.

The session store: `FileFollows` says that a `.tmp` about to be renamed is complete and
has the memory's counter, that the file of a write that has returned has it too, and
that the file is never ahead of the memory. `CallInWrite` says that a call waits for
its write and that the counter it will accept is above every granted one. Only
together with `GrantedIsDurable` are they inductive: after a start the memory is the
file, and the comparison of the next validate_freshness is with what is on disk.
`BanksFollow` says the same of the two bank keys, without a history: a started server
has both, in memory and on disk.

The monitor: a response is a log from its first event on (`WholeLogs`), so the slice
behind the cursor continues the numbers shown, also when it is the slice of another
log.

The routers. `IInv` of the update path does not survive a scenario, which writes the
version counter and the bank keys by itself (`Rewrites`). `SharedInv` is what is left of
it: a hash context is used up by its commit, every stored image verifies, and the
pending version is ahead of the counter *or a scenario has overtaken it*. `RestStep` shows
once that a handler, a suspended call or a scenario does nothing else to the update
path than a call of it or such a write; everything about the counter and the banks
follows from that. `ThreadInv` says what a finalize that has the thread has reached and
`AnswerInv` that its outcome is still there as long as nobody else has acted: a handler
that acts marks all others as disturbed in the same step, so the two can only be
kept together.

`AllScenariosPass` needs to know of every place of every script what the calls before it
have achieved: the counter at 1 before a download, the digest before finalize, the
flag before recover (`BeforeCall`), and for VTC-13 that before the k-th guess the retry
counter is k - 1 and enough challenges are left (`Guessing`, for every retry limit). `InCall` says
which scenario may stand in the middle of a commit, a recovery or a boot. From it
`CallExpected` shows that no call fails and `CallAchieves` that each leaves what the next
one needs; `PreambleAchieves` that the preamble does so from any state, which is why sa.reset()
must be in it. The assumptions on the scenarios' constants say what
`test_scenarios.py` takes for granted: its download lies in a region open to the
manufacturing role, the one of VTC-06 does not, and the tampered image differs.

The event bus. What list.remove leaves of the list (`Remains`: the others in their order,
each no further back than it was, nobody twice) is proved by induction over the list,
first that the recursion of `Without` has a solution (`KeepsExists`), then what it returns
(`WithoutRemains`). `SetInduction` is the induction these two use: over a set of naturals,
obtained from the well-foundedness of the natural numbers, because the induction
theorems of the library take a predicate as a parameter, which the provers cannot
instantiate. `NotYetSent` (what a walk has before it, it was not sent to) carries
`AtMostOnce`: it survives a removal because entries only move to the front, and a new
connection because its client was in no list before (`NewUnknown`). `BehindTried` carries
`UndisturbedReachesAll`, and needs that an undisturbed walk is never more than one past the
end of the list.

## 7. What is only model-checked

Liveness under fairness, which is outside the prover: `CommitTakesEffect`,
`RequestsComplete`, `StateIsShown`, `CatchesUp`. All safety properties of the passing runs
are proved as well as checked. What a run of kind `viol_*` shows is a counterexample and
has nothing to prove.

## 8. Behaviour to know about

Refuted by a run:

- `viol_recovery_target`: finalize writes `last_valid_bank` before the bank. A power
  loss between them makes the next boot fall back to a bank never written.
- `viol_commit_after_abort`: download, block, abort, finalize: the commit begins and the
  bank switches. `NoCommitAfterAbort` recognises the abort by the state: nothing else
  that leads to IDLE leaves a hash context. After a refused finalize (state ABORTED) a
  second one with a good signature commits in the same way.
- `viol_dcm_exit_commit`: RequestTransferExit verifies the empty image, so a non-empty
  transfer is never committed over UDS.

Part of the models, without a property, because the code has nothing that could
keep one:

- The bank is written before the counter. A power loss between them leaves a counter
  under which an image older than the installed one is accepted.
- An ECU reset in a download clears `flash_pending` and the flash manager goes on:
  the commit that may follow is not protected by the flag. A scenario does the same,
  and makes bank A the active one whichever was.
- Every scenario sets the counter to 1 and VTC-09 raises it to 3: the commit of a live
  download of version 2 that was begun before VTC-09 lowers it.
- After a power loss inside a commit an abort, or a refused finalize, made before any
  boot clears `flash_pending`: the recovery it stood for never runs, and the active bank
  may be one that was never written.
- The REST handlers of block, finalize and abort ask for no authentication; only begin
  does. A lockout therefore stops a flash in the dispatcher, not over REST.
- A removal in front of a suspended broadcast makes it skip a connected client.
- `auth.py` catches the ValueError that a broadcast raises when it removes an entry that
  another has removed, as if it came from verify_response and answers 400 after a successful authentication.
- The same ValueError in an endpoint's own broadcast is taken for its disconnection: a
  client whose socket works is dropped. The dead entries behind the one that raised stay
  until a later broadcast.
- finalize reads its answer after its broadcasts: it can show another client's
  download, begun meanwhile.
- A failed flush leaves the memory ahead of the file (in finalize: section 9). The running process goes on
  with the new value, and create_session with a running session.
- A store file that cannot be read is an empty store: counters start again at 0.
- A log that is cleared and has grown to the monitor's cursor before the next fetch
  is not noticed: old and new entries are shown as one log with consecutive numbers.
- After a restart no stored image verifies: the keys are new.
- finalize without a block raises CSMError and leaves VERIFYING and `flash_pending`.
- The declared size of a download is never compared with what arrives.
- A download needs an authentication but no programming session, no live session
  and no renewed check of the role: returning to the default session, a timeout or
  a new role do not stop it. The timeout has no reader in the dispatcher.
- A restart opens a lockout; the next wrong guess closes it again, which is what
  `LockoutBudget` says precisely.
- HSMError, CSMError and NvMError leave the dispatcher as exceptions
  (`reply = "exception"`). A counter that is full raises after the session started.

## 9. Not modelled

- A flush that fails without ending the process, anywhere but in `NvmFile` and
  `SessionStore`. The update path, `DCM` and `RestApi` take each NvM write for successful
  or for the last thing the process does, and their properties are claimed for that. In
  the code an OSError of `flush` leaves finalize between two of its writes with the memory
  changed: when it is the write of the bank, `active_bank`, `last_valid_bank` and the
  bank are the new ones in memory, the counter is not raised and `flash_pending` is set.
  The next ECU reset of that process boots the new bank, above the counter, which
  `BootedIsCurrent` excludes.
- HSM, CryIf and CSM are modelled as their callers see them: AES key wrapping has no
  caller and `CSM._state` no reader. Cryptography itself is assumed (section 2).
- `Bootloader.commit_bank` has no caller; `_register_role_key` is a test hook; the DEM's
  severity filter has no caller.
- `GET /ecu/state` is a read. The routes that sign for the tester are the choice of
  signatures among the inputs.
- Of VTC-03, VTC-12 and VTC-16 `RestApi` has the preamble; their calls to the session
  manager and the PKI touch nothing of its state and are in `SessionStore` and `PkiChain`.
- `PkiChain`: `valid_from`, signatures and links between certificates are not looked at
  by the code, so not by the model.
- The dashboards but for the monitor's event view: presentation. `docs/index.html` is a
  scripted animation and contains no part of the simulation.
- Launcher, dependency lists, test fixtures: no logic of the ECU.

## 10. Plan

Done, in this order: `MemoryMap`; `EcuStore`, `FlashManager`, `Bootloader`,
`UpdateSystem` with `ABUpdate`; `SecurityAccess`; `SessionManager`; `DCM`; `EventBus`;
`NvmFile` with `AtomicStore`, `SessionStore`; `RestApi`; `DemMonitor`; `PkiChain`; the
proofs of section 6.

Left: power loss under the dispatcher's clients and the REST handlers at once (the
update path, the dispatcher, security access and the store have it each by itself).
