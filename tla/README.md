# TLA+ verification of g502x-onboard

g502x-onboard programs the onboard memory of a Logitech G502 X mouse over HID++ and
promises to be hard to brick: it writes a sector only after a review, a typed confirmation
and a safety backup, on the exact unit its local baseline was captured from, and classifies
every failed write from bytes it reads back. The modules in this directory model that
machinery from the Python source, TLC checks them on small instances and TLAPS proves their
safety properties for every value of the constants.

Check a module with `tlc -config MCTransaction.cfg MCTransaction`, its proofs with
`tlapm Transaction_proofs.tla`. `PROJECT.json` lists the runs, the mutants that show each
property can fail, the source lines of every definition, the hazards and the theorems.

## 1. The system and what is modelled

Paths are relative to `src/g502x_onboard/`.

| part | state it keeps | operations | module |
|---|---|---|---|
| sector transaction (`device.py` `fresh_write_sector`, `write_sector`) | one HID handle, the image read before the write, the attempt | connect, read, WRITE_START/DATA/END, readback, reconcile, retry | `SectorWrite` |
| persistent device operations (`device.py` `apply_plan`, `restore_backup`, `restore_baseline`; `application/_persistent_backend.py`) | the mouse, the safety backup on disk, the operation lock, two completion flags | authorize, revalidate, arm, back up, write 12 sectors, verify, reconcile, post-validate | `Transaction` |
| preparation registry and coordinator (`application/persistent.py`, `coordinator.py`) | `_PREPARATIONS`, `_TOMBSTONES`, `_REGISTRY_LOCK`, `_PROCESS_LOCK` | prepare (apply, restores), execute, evict, reclaim | `PreparationRegistry` |
| baseline store and private state (`baseline.py`, `private_io.py`) | baseline directories, active pointer, OS lock | stage, commit, replace, recover, activate | `BaselineStore` |
| TUI state engine (`tui/model.py`, `update.py`) | route, foreground operation, review, payload | one reducer over some twenty events | `TuiUpdate` |
| TUI runner and app (`tui/runner.py`, `app.py`) | claimed effects, tokens, pending cancellations, workers | run, retire, cancel, quit | `Tui` |
| configuration schema (`config.py` `validate_config`) | none | accept or refuse actions, layers, settings, profiles | `Actions`, `ProfilePlan` |
| macro compiler (`codec.py` `compile_binding`, `build_plan`) | none | compile, deduplicate, tables, settings, directory | `Actions`, `ProfilePlan` |
| allocator (`codec.py` `allocate_unique_macros`) | cursor over the macro pages, counters of the report | cut, jump, move on, seal | `MacroPages`, `MacroAllocator` |
| macro VM and validator (`codec.py` `walk_macro`, `validator.py`) | addresses read so far; defects | decode, walk, validate images | `MacroVm`, `ProfilePlan` |
| page I/O (`device.py` `read_page`, `read_all`, `setup_device`, `probe_device`) | offset, bytes so far, pages | read in 16-byte steps, give up or go on | `PageRead` |
| HID++ library (`libs/LogiHPP20.py`) | the reports a handle has received | call, wait for the header | `HidChannel` |
| facade, profile switch, real backend reads (`application/`) | none of their own | one claim, one backend call, error mapping | claim only |
| CLI, view, host guard, fake backend, report privacy, release tools | none | parsing, printing, redaction, packaging | not modelled |

How the parts meet. The CLI and the TUI call an `ApplicationFacade`. A persistent operation is
first *prepared*: under the process-wide claim the backend observes the mouse, the target is
compiled or loaded, and the result is registered as a preparation. After review and typed
confirmation it is *executed*: the registry accepts it at most once, under the claim,
and `execute_real_persistent` runs it under the cross-process operation lock. That revalidates
everything that was reviewed and calls one of three device operations, which write the same
sectors in the same order with `fresh_write_sector`. The hard behaviour is what can happen
between any two of these steps: the transport loses commands or replies, the HID library
raises, mice are swapped, the user presses the profile button, edits the reviewed file or asks
for cancellation, the process dies, another thread prepares or executes, a facade is collected.

What makes each part correct:

- *sector transaction*: however it returns, it tells the truth about the sector; nothing else on
  any mouse changes; a retry is never blind; it ends.
- *device operation*: in every state a crash can leave, no profile is enabled over half-written
  data; the backup is the exact image before the first write and can be restored; only reviewed bytes are written;
  nothing is written before WRITING is reported; the final report is true.
- *registry*: a preparation is executed at most once and by its owner, one at a time;
  bounds are kept without disturbing an execution; nothing of a collected facade stays.
- *baseline store*: the last complete baseline survives any crash; a reader never sees a partial
  one; a success of `setup` is true; a baseline is replaced only on request.
- *TUI*: the screen shows what the worker does; WRITING cannot be cancelled or quit; a fault after
  WRITING is never shown as "nothing happened"; an acknowledged cancellation has reached its token;
  nothing above the class of the surface stays in the model.
- *compiler, allocator and VM*: what the schema accepts is built; what is built plays exactly the
  compiled instructions, leaves no key held, and nothing else points into the rewritten store; a full
  store is refused only when it is full; the walker ends and calls each macro what it is.
- *page reads*: a page that is returned is the page that was asked for, or the reader was told that
  the handle had already failed.

## 2. The modules

### SectorOutcomes, SectorPromise, SectorWrite

`SectorPromise` is the contract of one call: while it is pending, only the requested sector of
the bound unit may change, and only if it is programmable; when it returns,
`Permitted` (in `SectorOutcomes`, shared with `Transaction`) relates the outcome to the bytes:
*committed* means the target is there, *unchanged* the image found at entry, *indeterminate*
neither; *raised* (any other exception) promises nothing.

`SectorWrite` is the code, one action per HID command or decision: `Accept`/`RefuseSector`,
`Connect`/`ConnectFails`, `ReadBefore`, `StartRefused`/`WriteStart`, `WriteData` (one chunk),
`WriteEnd`, `Readback`, `Reconcile`/`ReconcileFails`. The mouse and the transport are external:
a command may not arrive, may be executed with its reply lost, or the library may raise
(`Escapes`). A session cut short leaves each chunk as it was, erased or, if delivered,
programmed (`Mixtures`). `Replug` swaps or unplugs the mouse at any time. A handle whose mouse
was unplugged never reaches one again.

### Transaction

One operation on the exact unit, from `execute_real_persistent` through the device operation.
`flash` maps a sector to an abstract content: a directory is its enable flags, any other sector
belongs to a *generation* (one consistent programming: the baseline, a plan, something older)
or is `Torn`. `pc` follows the code: `Authorize`, `CheckTarget` (source loaded again and its
digest compared), `Recheck`, `Arm`, `Open` (the preamble of the device operation),
`CreateBackup`, `BeforeFirstWrite` (last look at the token, then WRITING), then `WriteSector` and
`VerifyRecovery` once per entry of `Order`, `Reconcile`, `PostValidate`, `Succeed`. `Raise` is any
other exception: the host guard, the disk, the transport. `WriteSector` is the contract of
`SectorWrite` as one step: outcome and bytes related by `Permitted`. The environment crashes the
process (also in the middle of a write), switches the profile, unplugs the mouse, edits the source
and requests cancellation.

The exact unit is the only mouse of this module: that another one is never written is
`ImplementsPromise` of `SectorWrite`. A next operation starts from whatever the last one left.
The operation lock is implicit: one operation at a time.

### PreparationTickets, PreparationRegistry

`PreparationTickets` is the abstract promise: a ticket is issued, may be dropped unused, is
executed at most once, and one is executed at a time. `PreparationRegistry` is the code: every
critical section of `_REGISTRY_LOCK` is a step, what runs under the non-blocking process claim is
not. A preparation is named by its issuance serial (the suffix the code appends), so the oldest
record of the ordered dictionary is the smallest name. `StartExecute` is the first look,
`Claim`/`Contend` the claim and its busy handler, `Accept` the second look, `Finish` the
`finally` block. Callers may present any preparation ever issued, altered or belonging to another
facade. `OwnerDies` is the garbage collector dropping a facade no call refers to.

### BaselineRegister, BaselineStore

`BaselineRegister` is what the store of one unit's baseline promises: the baseline that is there
changes in one step to a new capture, or back to what it was when the replacement began; once
there is one, there always is. `BaselineStore` is the code, several processes over one file
system. `root` is the baseline directory: a capture (`Images`), nothing (`Absent`) or a directory
its manifest hashes do not validate (`Broken`, a half-removed one). `previous` holds the
`.previous-*` directories in the order of their creation. `setup` goes through `Check`, then
`Commit` (no directory) or `Displace`, `Publish`, `Cleanup`, and on a failure `Unpublish` and
`Rollback`; then `Activate`. Whoever asks for the active baseline goes through `Look`, `Choose`,
`Recover` and `Load`. `StartSetup`, `StartUse` and `StartRead` try the operation lock once;
`StartShow` stands for `baseline show` and the other callers of `active_baseline_root` that do
without it (`probe` before it locks, `report device`). Every rename, removal and fsync may fail
and every process may die between any two of them (`Crash`).

`Designated` is the refinement mapping: the directory if it validates, else the newest copy that
does. `LockedSpec` leaves `StartShow` out, `Spec` is the whole program. Staging directories are
never read and are left out; so are the directories of other units.

### TuiUpdate, Tui

`TuiUpdate` is the reducer: `model` is the frozen `TuiModel` with the fields some guard reads, and
one operator per event returns the next model and the effects. Privacy classes are ordered
numbers and a payload is the set of its class, so that filtering for a surface is `Visible`.
`model.terminal` also names its operation, for `HonestTerminal`.

`Tui` is the shell. An event handled by the event loop is one step (`AcceptEvent`: the reducer, the
abandonment of an acknowledged preparation, the retirement of the operation that left the screen,
the dispatch of effects). A worker is a record of `jobs`; `call_from_thread` waits for the event
loop, so a hand-over is a step of both. The lock sections of the runner (`ClaimEffect`,
`RequestCancellation`, `RegisterToken`, `PopToken`, `RetireWorker`) are steps of their own, and so are the
application's looks at the token (`CheckToken`), the first write (`WriteMemory`) and the reports
of the phases (`ReportProgress`). Facade calls answer or fail in every way the runner
distinguishes. The user presses every key at any time, including those of a disabled button that
have a key binding. Identical effects still queued are one record of `jobs`: the runner
claims an effect once. Nothing moves after the exit.

### Actions, MacroPages, MacroAllocator, MacroVm, ProfilePlan

`MacroPages` is the macro store: a byte of a page is the instruction that would start there (`op`),
the target of a jump and, for the properties, the compiled instruction it came from (`src`). 0xFF
is at once the END of a macro and an erased byte, and so they are one `op`. `Actions` gives what the schema accepts
of an action and what `codec.py` compiles it to, a direct binding or a sequence of
instructions. `MacroAllocator` is `allocate_unique_macros`, one action per turn of its loops:
`BeginMacro` (a macro never begins in the last five bytes), `PlaceRest`, `PlaceFragment` (cut
between two instructions, jump to the next page), `MoveOn`, `Seal`. `MacroVm` is `walk_macro`, one instruction
a step; `Machine` is the reference it is compared with, the device that remembers nothing.

`ProfilePlan` composes them: `ValidateConfig`, `Build`, the allocation, `Assemble` (tables,
settings, directory), `ValidateImages`, and the walk of every start the enabled profiles reach.
The same validation also reads memories of other writers (`Foreign`), with a jump into the middle of an
instruction, beyond the data of a page, into a page already visited. `Kept` slots of the
baseline, disabled profiles with defects and both settings of DPI are in the baselines (`Goldens`).

### HidChannel, PageRead

`HidChannel` is one handle of the library: a call writes a request and takes the oldest report of the handle,
whatever call that report answers; only the header is compared, and all page
reads have the same header. `PageRead` is `read_page` over it (the last read of a page whose
size is not a multiple of the chunk begins early) and its callers: `strict` ones stop at the first failure,
a probe goes on.

## 3. The runs

| run | instance | result |
|---|---|---|
| `sector_write` | 2 units, 3 sectors (recovery, programmable, unmanaged), 2 chunks of 3 values, 3 attempts | passes, 27,128 states |
| `sector_write_escape` | the same | violated: finding 1 |
| `transaction` | 2 macro sectors, profile 3 (optional) and 2, 3 generations, 2 plans, 2 starting mice, 2 operations | passes, 226,032 states |
| `transaction_cancel` | the same | violated: finding 2 |
| `registry` | 2 threads, 2 facades, 2 records, 1 tombstone, 3 issued | passes, 269,010 states up to symmetry |
| `baseline_store` | 2 processes, 2 captures, 3 setups, all readers locked | passes, 293,627 states |
| `baseline_store_lost` | 2 setups, unlocked readers too | violated: finding 3 |
| `baseline_store_replaced` | the same with 3 setups | violated: finding 4 |
| `tui` | 2 operations, persistent, probe or refresh | passes, 3,118,362 states |
| `tui_ends` | 1 operation of any kind | passes, 16,482 states |
| `plan` | 3 macro pages of 11 bytes and one before them, 2 profiles, 3 targets; some hundreds of configurations, 5 baselines, some thousands of foreign memories | passes, 103,843 states |
| `page_read` | pages of 2 to 5 bytes read by 2; one factory copy and two sectors; 2 unasked reports, 2 calls before | passes, 86,971 states |

Why the bounds suffice. *Sector*: two chunks tell a torn image (one chunk written, one erased or
old) from the old and the new one; three attempts are the code's own number; two units show a hot swap;
values 0 and 1 are programmed, 2 is the erased cell, and the targets include the image already there.
*Transaction*: two macro sectors and an optional profile let a write stop between the macros, between macros
and profile and before the directory; two operations let the second start from every ruin of the
first, a torn sector 0, a disabled directory and a half-written store included; three
generations keep the baseline, the plan and what was there apart. *Registry*: three issued
preparations overflow two records and then one tombstone, so evicted, forgotten and executing
preparations occur together; two threads race on the same one. *Baseline store*: two captures tell
the old baseline from the new one; three setups allow one that installs and two replacements that
are interrupted, which is what it takes for two intact copies. *Plan*: a page of eleven bytes takes three
instructions of three bytes and leaves each remainder from 0 to 10 to the next macro, so the cut, the
give-up, the exact fit and every distance to the five bytes of a jump occur; three pages make a macro
cross two boundaries and make the store overflow; 53 instructions are one more than the bytes of four pages, as the 4096 of the code are more than
its ten pages hold. *Page read*: sizes 4 and 2 are multiples of the chunk, 3 and 5 are not, and 3 makes the overlapping read the
second; a late answer of one page can meet any read of the next. *TUI*: two operations let late
workers of the first meet the second; the properties about one operation's end need one. `Requests`
names the kinds the user asks for in a run. Bounded counters are
`MaxOperations`, `MaxIssued`, `MaxSetups` and `MaxOps`; they are guards of the actions that begin something
new. The history variable `accidents` saturates at 2, since the properties ask for none or one.

Symmetry (threads and owners) is used in `registry` only, which checks no liveness: that a call
always returns is checked there as `NobodyWaits`, an invariant that some step of every pending call is enabled.

Deadlock is checked everywhere but in `plan` and `page_read`, whose pipeline ends in a report, a refusal or a
set of pages. The mouse can always be plugged in or out, and the registry and the
baseline store always answer a call. The user of the TUI always has a key to press, until the exit,
which is a state the program may stay in.

Fairness. `SectorWrite` and `Transaction` assume weak fairness of the calling thread only: each HID command
has a timeout, so a step of the code always returns. The mouse, the user and crashes are
under no fairness, and no success is assumed. Each process's work is weakly fair in the
baseline store, whose lock is tried without waiting; starting a call is not. In `PageRead` the reader is weakly
fair, because `ping_device` waits five seconds at most; the delivery of a report is not.

The worker threads of the TUI are weakly fair until the exit; the user is not.

Every property of a passing run has a mutant, a copy of one definition with a plausible bug in
it (`RetryBlindly`, `DirectoryFirst`, `EvictAny`, ...). They stand beside the definition they
change and nothing else uses them.

## 4. Findings

1. `fresh_write_sector` catches `RuntimeError` only (`device.py:855`). `write_sector` turns a
   missing reply into one, but an exception of the HID library out of WRITE_END or the readback
   passes by, and the reconciliation that `docs/SAFETY.md` promises for an ambiguous error after
   WRITE_END does not happen. The sector is safe in the sense of `SectorPromise`, because the call
   raises; its state stays unclassified. That the library's exception is not a `RuntimeError` is an assumption
   on `hid`, which is external.
2. Both restores switch the mouse to profile 1 (`ensure_safe_profile`) during revalidation, before the last
   two looks at the cancellation token. An operation that ends as cancelled may thus have changed
   the active profile, although `docs/TUI_SAFETY_MODEL.md` says that cancellation before WRITING
   abandons it without hardware mutation. No sector is written: that is `CancelledWroteNothing`.
3. The rollback of a replacement removes whatever stands at the target before it renames the
   previous copy back (`private_io.py:383`). `baseline show` takes no operation lock: it may find
   the directory renamed away, take the copy for the remnant of a crash and move it back. The
   rename of the stage then fails on that directory, the rollback removes it, and the baseline
   is gone although nothing failed but that rename. With all readers under the lock it cannot happen: that
   is `KeepsBaseline`.
4. `create_baseline` looks for the baseline directory only. When a replacement died between its
   two renames, the directory is missing and the baseline is in its copy; a `setup` without
   `--replace` then installs a capture that differs, which it refuses otherwise. The copy is kept but, with
   the directory back, no code looks at it again.

## 5. The proofs

All theorems hold for every value of the constants that satisfies the named assumptions of the
modules, which TLC evaluates on the instances of section 3. `<component>_proofs` holds the proofs
of a component.

Two kinds of theorem go beyond what the runs repeat. Where a run checks that a call ends, a theorem states the half of it
that needs no fairness: a count of the steps that are left, bounded in the constants, which every step of the call lowers and
no step of its environment raises. With a thread that goes on running, that is why the call ends, and it gives the number of steps for
every instance. The other kind says that what somebody waits for has somebody at work on it.

*SectorWrite.* The inductive invariant adds to `TypeOK` what the code knows at each position: a
handle is the bound unit's or none; every attempt begins with the sector as it was at entry and
`before` is that image; a result satisfies `Permitted`. `TypeCorrect` and `Refinement`
(`ImplementsPromise`) follow; `RetriesAreNotBlind` uses the same invariant at `WriteStart`.
`CallIsBounded`: a call makes at most `Attempts * (Chunks + 6) + 1` steps, 67 for the three attempts and the sixteen chunks of the code.

*Transaction.* `EnabledProfilesUsable` is not inductive: it needs to know which sectors are already
written at which step. `WrittenInv` says that the sectors before `step` in `Order` hold their
payload (and while writing the directory is the staging one), `UsableInv` that a
directory that enables something was there before the first write or is the last write of a
complete programming, `LoadedInv` that what is written is what was reviewed, `PhaseInv` that
the phase, the position and the flags agree, `BackupInv` and `ReportInv` what the two reports mean,
`StrayInv` that a stray write is followed by a check that stops. `Inv` is their conjunction. TLC checked it before it was proved.
`Invariance` proves it with one step per action; each safety invariant follows from it, and
so does `CancelledWroteNothing` (`CancellationIsClean`), for which `CancelInv` says that
no operation ends as cancelled in a phase that writes and `UnwrittenBeforeWriting` that nothing is written before. The order of the
writes enters through lemmas about the sequence `Order`.

`GateInv` adds that from the first check on the mouse passes the recovery check, and that the recovery sectors are
what they were when the operation began. It gives the recovery half of `BackupIsRestorePoint` (`BackupIsExact`): once WRITING is
reported the backup is valid, and so is the mouse, unless its directory was cut short. `RecoveryIsUntouched`: no step,
a torn write or a crash included, changes a recovery sector. `OthersAreLeftAlone`: bytes are written only onto a
mouse that passes the check, so one with a torn directory stays as it is. `OperationIsBounded`: an operation makes at most `2 * Len(Order) + 10` steps.

*PreparationRegistry.* The inductive invariant relates `pc`, the claim and the flags: the holder of
the claim is the only thread under it, an executing record is the one a running thread was accepted
for, and accepted preparations are consumed. `Exclusion` and `ExecutionIsKept` follow, and
`Refinement` maps every step to a step of `PreparationTickets` or a stutter. `Books` adds the
bookkeeping: `StoneInv` (a tombstone stands for a preparation that is no longer active, and what it says of it is
true), `RoomInv`, `OwnerInv` (a call keeps its facade alive) and `AnswerInv` (what a caller has been told). It is stronger
than the properties because the tombstones are trimmed one by one and reclaimed with their owners: what is
left must stay true of what is gone. The loops that make room are recursive functions; that they end with room, and
take nothing but what they may, is proved by induction on the oldest record (`Bounded`, `ToldTheTruth`, `Forgotten`).
`CallsAreShort`: a call makes at most four steps, and no other thread and no dying facade takes one back.

*BaselineStore.* `Inv` is `TypeOK` with what a position says of a process's slot and call; it holds
of `Spec`, so beside unlocked readers (`TypeCorrect`). `InstalledInv` adds that a setup at work
holds the lock and that its capture is in place from its rename on: the only step of another process
that changes the directory is a recovery, and that needs the directory to be absent (`SetupIsTruthful`).
`ReplaceInv` is about `LockedSpec`: whoever is at work is alone, the slot of a replacement is the last
copy, and until the new directory is in place the newest intact copy is what it displaced. `BaselineKept` follows, one step
per action, from four lemmas on how the newest intact copy changes when one is added, damaged or moved.
`AccidentInv` counts the intact copies with the accidents: before the first one there is none but the slot of a
replacement at work, and after it one exactly when the directory is missing (`Settled` between replacements, `Midway` at each
position of one). `OneAccidentIsSurvived` follows for any number of setups.
`CallsAreShort` is about `Spec`: at most six steps, beside unlocked readers too.

*PageRead.* As long as nothing has failed on the handle, at most one answer to a page read is on its way or in the
inbox, it is the one `read_page` waits for, and what is filled in so far is true. After a first failure
nothing is claimed but that the failed page comes before those returned later (`ReadersAreTrue`, for
every chunk, size and number of pages). `ReadingIsBounded`: `Last` pages take at most `Last * (2 * (size - Chunk) + 2)` steps,
and each call before them two, whatever arrives late or not at all.

*MacroAllocator, MacroVm, ProfilePlan.* The induction is over the steps of `Spec`; only `Build` and `AllocateStep` touch the store.
`CountInv` strengthens `HonestRefusal`: a page that was left holds at least `PageData - 7` bytes of macros (`DenseInv`),
placed, wasted and remaining bytes add up to the store (`BalanceInv`), and a macro that was cut goes on at the start of a
page (`SplitInv`), which is why the allocator is never stuck. `OccupiedInv` makes the counters speak of the bytes: a write fills exactly the
stretch behind the cursor, all erased until then (`StoreIsAccounted`). `LayoutInv` is about the links: where an instruction
ends the next one of its macro begins, or a JUMP to the page that begins with it, or the cursor stands there (`LinkInv`); `Lays` says
that a write keeps the old cells and adds its own. A walk of a finished macro therefore stands, after `n - 1` instructions, where
the `n`-th begins or is jumped to, and everything it has read lies before: it never meets a cycle, a fault or the bound
of its loop (`Walking`, `WalkOn`), and `CompiledMacrosPlay` follows, for every configuration, size of the pages and list of
macros. `MacroAllocator_proofs` holds what concerns the store and the walk apart from the plan.

`TraceInv` is for memories that nobody knows: the places the walk has read lead to one another, but for `at`, and the
machine that remembers nothing stands there after as many steps. When the walk meets a place again the machine
goes round for ever; when it stops, so does the machine. There are fewer places to walk than steps of the machine, since
nothing that goes on begins in the last byte of a page (`Corner`, `FewPlaces`), and fewer than the bound of the loop. `VerdictsAreTrue` follows.
`MemoryTypeOK`, which it needs, is inductive with the writes of the allocator (`MemoryStaysTyped`).

`RoutesStayOwn` rests on the list of unique macros: the routes are totally ordered by their ranks (`Order`), the ranks of the
first routes are `0 .. n - 1` (`Counting`, `EachRank`), so every macro route finds its macro in the list (`Found`) and its
pointer is where that macro begins (`Pointer`); `Entries` lists what else can stand in a table.

`MacrosRelease` is about what the compiler writes. `Codes` are the sequences that release what they press after they have
pressed it; they are closed under concatenation (`CodesJoin`), keys, hotkeys, texts and consumers are among them, and
`CodeReleases` shows it for an action of any depth. `Finished` adds the END, and `CodeInv` says that
the allocator is given nothing else, which is also why it never finds anything malformed.
`SchemaSuffices` compares two recursive functions, the schema and the compiler (`AcceptedCompiles`), and keeps in `RefusalInv`
what each refusal says of the configuration. `RefusalsAreKnown` needs to know what stands in the image:
`SettledInv` says of each setting and slot whether it is the configuration's or the baseline's, `Judged` that the validation
then finds a defect exactly in the two cases, `VerifiedInv` that the walks that follow start at macros of the plan and add none.

`PlanningIsBounded`: the compiler and the validator end on whatever they are given. The stages only go forward; in the allocation each turn
begins or ends a macro or leaves a page, `2 * Len(macros) + Cardinality(Global)` turns at most; in the validation each
start is walked once and each walk reads a place once, `MachineSteps + 2` steps at most. `CountedInv` keeps the sets finite that this counts.

`SchemaAccepts`, `Compiles`, `HasUntypable` and `ActionCode` are recursive functions over the steps of an action. `Recursion`
proves of any such function, given as a set of values and a table of one level, that it satisfies
its equation: each action has a finite depth (`Depth`), solutions up to a depth exist and agree, by
induction on the least depth that would have none. The run of the machine (`RunExists`) is treated in the same way.

The constants are assumed to be what the program can be given. `BindingsAssumption`: an action in a file is finite, so
its nesting has a depth. `FieldsAssumption` and `ConfigsAssumption`: a field has the JSON type that the schema
looks at before anything else. `ControlsAssumption`: the names of keys and controls are in `Controls`. `TargetsAssumption`,
`ProfilesAssumption` and `MemoriesAssumption` are the types of the tables of `constants.py` and of a decoded
memory, with any contents. `GoldensAssumption`: a baseline has no invalid checksum and an intact recovery image,
because the setup takes no capture with defects (`device.py:586`); its disabled profiles may hold anything else.

*Tui.* The reducer is a function from model to model. One lemma per event says what that function may change, as one of a few
abstract steps of the operation on the screen (`BeginStep`, `AdvanceStep`, `CancelStep`, `AcknowledgeStep`, `LeaveStep`, ...);
the shell is proved from these steps alone. `IInv` is `TypeOK` with, of the model, `ModelInv` (kind, phase
and what is held agree, and nothing above the class of the surface is kept) and `Tidy` (a preparation whose cancellation is
acknowledged is not kept); of the workers, `JobInv` (where each kind of worker can be), `AgeInv` (all they name has been issued,
and nothing is younger than the screen) and `LiveInv` (at most one worker is not retired and not abandoned: it serves the
operation on the screen and the screen shows its phase); of the cancellation, `TokenInv` and `AckInv`; and `WroteInv` and `ScreenInv`. The
properties are not inductive without `LiveInv` and `AgeInv`: it takes the past of a worker to know that a late
hand-over is not about the operation now on the screen. TLC checked `IInv` on the instance of `tui` before it
was proved, one lemma per action.

`WorkersGoOn`: a worker makes at most 16 steps, all its own; the user and the other workers neither take it away nor set it back.
`ExecutionIsServed`: while the screen shows an execution that has not been given up, its worker is there and has not delivered its end.
`CancellationIsCarried`: a cancellation the screen has taken before the execution has a worker that carries it and will not be
dropped as a repetition, or is acknowledged and the preparation at work is about to be put away. For it `CarryInv` says of each `asked` which worker
carries it, and `ActiveInv` that a cancellation is deferred in the phases that write only.

Only model-checked: the liveness properties (`CallReturns`, `OperationEnds`, `CallsReturn`,
`ReadingEnds`, `ExecutionEnds`, `CancelledPreparationEnds`) and `NobodyWaits`. Fairness and ENABLED, which the prover does
not handle, are what is missing: that a step is taken as long as one is left. That few are left, and that they are somebody's, is proved above.
Every other safety property of the passing runs is stated by a theorem. The other way round, `SetupTellsTruth` beside unlocked readers and the
type invariants (`TypeCorrect`, `StoreTypeCorrect`, `MemoryStaysTyped`) are shown by their theorems and no run repeats them.
The theorems of the library that take an operator are out of the provers' reach; the inductions above are over a least
element instead (`Least` in `MacroAllocator_proofs` and `PreparationRegistry_proofs`), in first-order terms, one for each use.

## 6. Assumptions and what is left out

- One writer: no other program writes the mouse while the interlock says so. The interlock is a
  snapshot of the process list, and its answer is a nondeterministic refusal.
- A rename is atomic and survives a crash once it has returned; the active pointer is written
  through a temporary file and is whole or absent. Nothing else writes the state directory.
- `SectorWrite` and `Transaction` read what the flash holds. What late replies do to a read is
  `PagesAreTrue`: nothing until a read has failed on the handle, and both open a new handle after a failure.
  `probe_device` (`device.py:477-485`) goes on with the same handle, and a late answer may then be taken for the next page's: a
  weakness of a report that nothing is written from, which the property states and does not hide. `get_device_information`
  likewise goes on after a failed call of another function.
- The flash of an interrupted session is torn in whole chunks, and an erased chunk differs from a
  programmed one. `Transaction` needs only that a torn sector equals neither image, or one of them.
- What the compiler and the validator accept is `Usable` in `Transaction`, the assumption `UsableAssumption`;
  `ProfilePlan` is where it is shown, and the two are not composed.
- G HUB may start between the interlock check and the commands that follow it (`device.py:850`). The code has nothing that
  closes that window, and no model looks through it.
- `Consumer` on a wheel slot is taken by the schema without regard to case (`config.py:162-169`) and compiled as a macro by
  `compile_action` because the direct binding compares the name exactly (`codec.py:436`); `Mouse` is refused there altogether. `RoutesAreOwn` and `SchemaIsEnough` name
  the two exceptions.
- An empty text and a defect inherited from a profile that the baseline had disabled pass `build_plan` and are
  found by the validation that follows the writes: `OnlyKnownRefusals` says that nothing else is. A `dpi` list without
  `default_dpi` keeps the baseline's index, which may select an empty slot; the validator does not look at it.
- `validate_recovery_images` validates sector 0 along with the recovery sectors. After a write of
  sector 0 that was cut short every later operation is therefore refused, the baseline restore
  included. `BackupIsRestorePoint` says that the safety backup of the interrupted operation is valid and that the torn directory is all that is
wrong with the mouse, and `OthersAreLeftAlone` that such a mouse is never written; that the program
offers a way out of this state cannot be stated, because it has none.
- A cancellation of the TUI that was claimed just before its operation ended is recorded after the
  retirement and stays in `_pending_cancellation`. Issuances are never used twice: it misleads nobody.
- A macro page that is torn but reached by no enabled profile is only a warning to the validator,
  so `Targets` allows it in a backup.
- Rendering, argument parsing, redaction, process listing, DLL loading and packaging are not modelled.

## 7. Plan

1. The step from the bounded steps of section 5 to the liveness properties, once ENABLED can be reasoned about.
2. Facade, profile switch and operation lock composed with the registry.
3. `Transaction` over the images of `ProfilePlan`, in place of `UsableAssumption`.
