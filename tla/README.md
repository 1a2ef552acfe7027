# A TLA+ development of simple_ftl

simple_ftl is a page-mapped flash translation layer: it offers its host a block
device of `NUM_LPN` logical pages and keeps them on NAND flash, which is
programmed page by page in order and erased block by block. It runs on a
simulator (`src/hw`) as four cooperative tasks on one CPU; a test program
(`src/test`) is the host on a second CPU.

The modules here model the FTL (`src/ftl`) with its scheduler and the host on
top, the flash controller under it, the lists and rings of `src/com`, and the
simulator that all of it runs on. TLC checks them on small instances; TLAPS
proves the theorems of section 5 for every size.

## 1. The system

| part | source | state it keeps | operations |
|---|---|---|---|
| scheduler | `com/scheduler.cpp` | ready and waiting tasks, pending events, timeouts | `Sched_Run`, `Sched_Wait`, `Sched_Yield`, `Sched_Trig*Evt` |
| command layer | `ftl/io.cpp` | pool of 8 commands, a done queue per issuer | `IO_Alloc`, `IO_Read/Program/Erase`, `IO_PopDone`, `IO_Free`, interrupt `io_CbDone` |
| controller | `hw/nfc.cpp` | the queue of the die, step and chunks of the running command | `NFC_Issue`, `nfc_HandleEvt` and the steps it calls |
| flash | `hw/die.cpp` | page contents, next page of each block, registers | read, program and erase of a cell, DMA |
| buffers | `hw/buf.cpp` | ring of free buffers, contents | `BM_Alloc`, `BM_Free` |
| queues | `com/templ.h` | head, tail, count; `pNext` of an element | `Queue`, `LinkedQueue` |
| meta data | `ftl/page_meta.cpp` | map, valid page counts, block states, open blocks, journal, save position | `META_Update`, `META_SetOpen`, ..., the META task: open, format, save |
| garbage collection | `ftl/page_gc.cpp` | free pool, erase and move in progress | the GC task, `GC_ReqFree`, `GC_BlkErase_SM`, `GC_Stop` |
| requests | `ftl/page_req.cpp` | the request in work | the tasks REQ (fetch, map, issue) and REQ_RESP (answer) |
| entry points | `ftl/page_ftl.cpp` | request queue | `FTL_Request`, `FTL_Main` |
| host | `test/test.cpp` | number of the last write per page | fill, rewrite, read, shut down, power off |
| simulator | `hw/sim.cpp`, `cpu.cpp`, `timer.cpp`, `power.cpp`, `coroutine.cpp` | event pool and queue, time, which CPU runs, the tick | `SIM_Run`, `CPU_TimePass`, `CPU_Sleep`, `CPU_Wakeup`, `POWER_SwitchOff` |

How they interact. The host submits a request and triggers `EVT_USER_CMD`. REQ
maps the page, issues the command and forgets the request; REQ_RESP answers when
the command is in the user done queue. A write needs room in the open user
block: REQ takes one from the pool, erases it and waits until META has saved the
journal with the erase. GC, when the pool is low, does the same for its own
block and then moves the valid pages of victims there. Each map change is an
entry of the journal; when the journal is full, META saves it with the next
slice of the map in the next page of a ring of meta blocks, and everybody who
needs the journal waits for `EVT_META`. At power on META finds the end of the
ring, loads the last `NUM_MAP_SLICE` pages, replays their journals and scans the
open block of each stream for pages written after the last save. Below, a
command waits in the queue of its die; the controller walks it through the bus
and cell steps, each started by an event of the simulator, and the last one is
the interrupt that puts it into a done list.

What is hard here:

* three tasks change the map; a page can be read, moved and overwritten at the
  same time, and the map changes before the page is programmed;
* the same pools (commands, blocks, journal entries) are shared by all, and a
  task that does not get its share waits for an event that another triggers;
* an event is lost if nobody waits for it at that moment, a trigger of the
  controller if the die already has one, a wake-up if the CPU is about to sleep;
* counters are kept by increments and decrements in different tasks;
* a command has one `pNext` for all lists, a buffer passes from a read to a
  program and is freed by a third party;
* after a power cut the map is put together from pages of different ages, and
  what no initialisation resets (`gbRequest`, the journal, `gaDone`) survives.

What makes each part correct: flash pages are programmed in order, never twice
(flash); the die always has exactly one thing to do next, and it does what was
asked (controller); every command and buffer is in one place (queues, buffers);
no command is asked for when none is left (command layer); counts and map agree,
the map leads to the last acknowledged write, what a save writes is what it
takes out of the journal, an erase is journaled before the block is used (meta
data); no block with a valid page is erased, the accounts of a move agree with
its commands, a victim gains a page and there is always a free block (GC);
nothing is under way when the power goes (requests); no wake-up is lost
(simulator, scheduler); to the host all this is a device that remembers (whole).
`PROJECT.json` lists the hazards with the line where each bites and the
properties that cover it.

## 2. Modules

Three groups. In the first, each module extends the one before it.

| module | models |
|---|---|
| `FtlSched` | scheduler: `Round` (one pass of `Sched_Run`), `Turn`, and how a turn ends: `WaitFor`, `Yield`, `Finish` |
| `FtlIo` | commands, done queues, the die, in one step per command |
| `FtlMeta` | map, counts, journal, `META_*`, the save |
| `FtlOpen` | META after power on: block scan, page scan, load, scan of open blocks, format |
| `FtlGc` | free pool, block erase, move, the GC task |
| `FtlReq` | the tasks REQ and REQ_RESP |
| `Ftl` | everything with host, power cycle, properties, fairness |
| `BlockDev` | the abstract device the host sees |
| `MCFtl` | the module TLC runs |

| module | models |
|---|---|
| `Nfc` | the controller, the cells and the buffers, with the firmware's side of a GC move (read, program of the same buffer, free) |
| `MCNfc` | the chunk masks TLC uses |
| `IoQueues` | the pool and the done lists as `LinkedQueue`s over one `pNext`, the queue of the die and the free buffers as rings |
| `Sim` | the simulator: event pool, time, the two CPUs, the tick timer |
| `SimFtl` | the loop of `Sched_Run` and a host as programs on `Sim`, in microseconds |

| module | proves |
|---|---|
| `MapProofs` | `MapIntegrity`; lemmas: what issuing, completing and collecting do to the commands under way |
| `TaskProofs` | types of the scheduler; `QuietAtPowerOff`, `NoStaleSave`, `ErasePopsErase`, `MoveAccounts`, `TaskArmed` |
| `AllocProofs` | `NoEraseOfValid`, `PoolBlocks`, `BusyIsRequested`, `SavedIsJournal`, `IoPoolSuffices` |
| `FlashProofs` | `ProgramsInOrder`, `NoBlockLost` |
| `DevProofs` | `LatestIsMapped`, `ImplementsDev`, `EraseSavedBeforeUse`, `PoolLasts` |
| `NfcProofs` | `OneEvent`, `BuffersOwned`, `DataWait`, `ImplementsIo` |
| `QueueProofs` | `QueuesHold`, `OnePlace` |
| `SimProofs` | `OneCpuEvent`, `QueueSound`, `NobodyOversleeps`, `NoTurnBeforePowerOff`, and that the loop implements `FtlSched` |

`MapProofs`, `TaskProofs`, `AllocProofs`, `FlashProofs` and `DevProofs` extend
each other in this order.

The groups meet in refinements. `Nfc` implements the die of `FtlIo`
(`ImplementsIo`: every step is a stutter, an `Issue`, a `NandDone` or a
`PopDone`), so what the FTL modules assume of the flash is what the controller
does. `SimFtl` implements `FtlSched` (`ImplementsSched`), and its `LoopGoesOn`
is the fairness section 4 assumes. `Ftl` implements `BlockDev`.

`PROJECT.json` maps every definition to its lines. Correspondences that are not
obvious from the names:

* **Turns.** A task function runs to its end without interruption: simulated
  time passes only in `CPU_TimePass` after it. Most turns are one action. A turn
  that drains a done queue in a loop takes one action per command; `mid` stays
  TRUE meanwhile and no interrupt, host call or other task comes between.
* **Events.** An event wakes the tasks that wait when the next round starts; if
  none waits it is gone. In `Ftl` a timeout (`LONG_TIME`, 3 s) may expire in any
  round, for the tasks in `TimeoutTasks`; `SimFtl` counts the ticks.
* **Commands** are records in `nq` (issued) and `done` (completed, per issuer).
  The pool is the number of those that are neither; `IoQueues` has it as a list.
* **Overlays.** The `*Stk` structures share memory, as children follow their
  parent. `os`, `us`, `mv`, `erb` hold them; a dead one has its idle value.
* **Data.** A data page is its logical page and a version, the number
  `_FillData` writes; an erased page reads as `MARK_ERS`. A meta page is its
  age, slice, journal entries and part of the map. The block table is saved with
  the map in the code but rebuilt at load, so the model does not save it.
* **FF32** is a `VAddr` with all bits set: block 1023, page 32767. The count
  loops of the code skip it because it is no user block.
* **Two shortcuts**, both commented at the definition: the start of a scan of a
  stream without open block fixes `nWL` twice in the code and once here; the
  reads of a phase that a turn issues in a loop are one `Issue`.
* **Power.** `PowerCycle` is possible once a shutdown is answered. `gfCbf` wakes
  the host 2 us later, which switches the power off, and the FTL task that
  answered only returns 50 us later: no task and no interrupt comes between.
  `Ftl` takes this for granted; `NoTurnBeforePowerOff` of `SimFtl` checks it.
* **Simulator.** The whole state is one record, and each operation an operator
  from record to record, because a handler calls several and the code between
  two events is one step. Times are relative: an event is due in so many us.
* **History.** `seq`, `dieSeq` and `bufSeq` of `IoQueues` are what the lists and
  rings should hold; no action reads them.

`BlockDev` knows a page by the number of its last write; `Ftl` instantiates it
with `latest <- dict` and the host variables for themselves. Every internal step
of the FTL must be a stutter of the device and every answer its `DevAnswer`.

## 3. Runs

All small devices have two pages per block, two meta blocks, four logical pages
and a journal of three entries unless said otherwise: with these a block fills,
the journal fills, the ring wraps, the pool runs low and GC goes through several
victims in some ten writes. The host fills the device in order (`tc_SeqWrite`)
and then rewrites pages in any order.

| run | question | bounds | states |
|---|---|---|---|
| `core` | the safety of normal work from the first power on | 10 writes, 2 pages rewritten, 3 meta blocks, 4 commands, no timeouts | 88k |
| `iopool` | do the commands suffice, do the accounts of GC hold? | 5 pages per block, 9 logical pages, 6 commands, GC timeouts at any time | 113k |
| `device` | does the host see a correct device, does every request end? | 9 writes, reads of two pages at any time, META timeouts | 273k |
| `restart` | a safe shutdown and restart | 9 writes, shutdown after the 9th, while GC is active; reads | 286k |
| `sudden` | a sudden shutdown and restart | 6 blocks, 3 logical pages, shutdown from the 5th of 8 writes on | 532k |
| `nfc` | the controller | 3 buffers, pages of two chunks, a GC move in every order, 3 commands | 339k |
| `queues` | lists and rings | 3 commands, 2 keys, ring of 3, 1 buffer, a restart | 859k |
| `sim` | wake-ups, time, and the scheduler's loop | two read times, timeout of 2 ticks, requests and power cycles without bound | 87k |

Why these bounds are enough to mean something.

* `core`: every action of GC and of the save fires, with moves across several
  victims, stale reads, a full journal in the middle of a move, and a user block
  opened while GC erases its own. With three meta blocks the scan after power on
  takes several turns, and the saves still go round the ring.
* `iopool` needs larger blocks, because the overlap of two reads, two programs,
  a save and a host command only arises when a destination takes several pages:
  with `NUM_NAND_CMD = 5` the invariant fails, with 6 it holds, and the code has
  8. `gc_HandleRead` allocates the program while it still holds the read;
  `AllocsForMove` counts that.
* `restart`, `sudden`: the shutdown comes between any two events, so during an
  erase, a move and a save, and GC goes on after the start. In `sudden` it also
  comes before GC has done anything. A mark of two (`GC_TRIG_BLK_CNT`) lets GC work
  early enough for that in eight writes. Both have two map slices and one power cycle, which
  is what they claim. What goes wrong after several in a row is run `age`; it
  reaches further than that run shows: where META loads the older of two blocks
  of the same age, the scan after several sudden shutdowns can find as many pages
  as the journal takes, so `ScanFitsJournal` does not hold without a bound on the
  cycles (TLC's simulation finds a run of five user blocks and two slices).
  `restart` has safe shutdowns only, to stay small; with sudden ones as well
  `RequestAnswered` also holds, but takes longer.
* Over-provisioning. A victim gains a page only if some closed block has one that
  is not valid: the closed blocks, at worst `NUM_USER_BLK - 2 - GC_TRIG_BLK_CNT`,
  must be more than `NUM_LPN / NUM_WL`. The code has 25 user blocks against 13
  blocks of data. With five blocks and four pages the margin is nil, and after
  some restarts, which leave scanned blocks open, GC copies full blocks for ever;
  hence six blocks and three pages in `sudden`.
* `nfc`: two chunks are the least that make the order of transfers matter; three
  buffers, so that one is reused while another is in flight. A bus step may take
  any time, which covers all NAND times.
* `queues`: a ring of exactly as many slots as commands wraps and is full.
* `sim`: reads of 98 and 127 us (the two kinds of pages) against turns of 50 us
  and ticks of 300 us put interrupts and ticks at every place of a turn. The host
  has no bound; the state space is finite because time is relative.

Deadlock is checked in `device`, `nfc` and `sim`. The other runs end when the
host has no more writes or restarts, and say so with `CHECK_DEADLOCK FALSE`.

The properties:

* `MapIntegrity`, `LatestIsMapped`: counts and map, map and flash. The second
  looks through the command queue (`PageAt`), as the map is ahead of the flash,
  and through power cycles, as the host's record survives them.
* `NoEraseOfValid`, `ProgramsInOrder`: the discipline of flash.
* `MoveAccounts`, `ErasePopsErase`, `PoolBlocks`, `PoolLasts`, `VictimGains`,
  `NoBlockLost`:
  what GC takes for granted in each turn about earlier ones, and that each block
  is free, open, a victim some time, or about to become one of these, also after
  a scan.
* `LoadsLatest`, `ResumeSound`: what a start makes of the saves. When META opens
  the map is that of the last writes answered, and nothing else is mapped; the two
  streams resumed are two blocks, written up to the address saved, whose pages fill up
  from there. The
  theorems of section 5 take these two for granted and prove the rest.
* `BusyIsRequested`, `SavedIsJournal`, `ScanFitsJournal`,
  `EraseSavedBeforeUse` (an action property): a full journal has somebody to save
  it; the journal a save empties is the one it wrote; the scan after power on
  does not fill it; when a block is opened its erase is in flash.
* `IoPoolSuffices`, `TaskArmed`: resources and the assertion of the scheduler, with
  the one exception it has (section 6).
* `QuietAtPowerOff`, `NoStaleSave`, `SafeLoadsLatest`, `LoadsSavedPages`: what a
  shutdown leaves behind and a start finds.
* `ImplementsDev`, `RequestAnswered`: the device and its progress.
* `OneEvent`, `DataWait`, `BuffersOwned`, `CommandsEnd`, `ImplementsIo`: the die
  has one trigger; a program finds its data; a buffer has one owner; every
  command completes; the die of `FtlIo`.
* `QueuesHold`, `OnePlace`: lists and rings hold what was put in, in order, and
  nothing is in two of them.
* `OneCpuEvent`, `QueueSound`, `NobodyOversleeps`, `NoTurnBeforePowerOff`,
  `HostGoesOn`, `LoopGoesOn`, `ImplementsSched`: the simulator and the loop.

Each property of a passing run has a mutant: a definition next to the one it
replaces, marked "Mutant of", with a plausible mistake that breaks the property.

### Disagreements found

* `age`: `open_PageScan_SM` sets `nAge` to the age of the last page, not to the
  next one (`page_meta.cpp:489`), and `open_BlkScan_SM` needs a strictly greater
  age (`:691`). After `NUM_WL` power cycles with one save each, the first pages
  of two meta blocks tie and the older block is loaded.
* `early`: a device shut down safely before `NUM_MAP_SLICE` saves fails
  `ASSERT(nSlice < NUM_MAP_SLICE)` (`:602`) at the next start. With the sizes of
  the code `NUM_MAP_SLICE` is 6.
* `openlost`: the open block of a stream is known only from the journals of the
  last `NUM_MAP_SLICE` saves. If these hold GC entries only, a sudden shutdown
  loses acknowledged user writes. The run has `NUM_MAP_SLICE = 1`; the code
  needs six such saves in a row. `anActBlk`, which page_meta.h:50 describes as
  the open block information, is never read.
* `stalesave`: `JR_Busy` means "On Jnl saving" (page_meta.h:41), but after a sudden
  shutdown an entry can be added while the journal is being saved, and is dropped at
  the end of the save. GC has added an erase entry and asked for a save; REQ answers
  the shutdown in the same round, before META has run; `META_Init` does not reset
  `gbRequest` (`page_meta.cpp:967`), so META saves a journal that is not full right
  after the start. The run has the bounds of `sudden`. Only the stale request does
  it: without the states that leave one at power off, the property holds there.

## 4. Fairness

`FairSpec` of `Ftl` assumes:

* weak fairness of the tasks and of the rounds: `Sched_Run` is an endless loop.
  `LoopGoesOn` of `SimFtl` shows it of the loop itself, sleeping and waking CPU
  included, from the weak fairness of the simulator alone;
* strong fairness of `Nand`: the die completes its commands in simulated time,
  whatever the CPU does (`CommandsEnd` of `Nfc`). It must be strong because the
  action is disabled inside a turn (`mid`);
* weak fairness of `PowerCycle`: `SIM_Run` powers up again;
* strong fairness of the timeouts in `TimeoutTasks`, if any: every `Sched_Wait`
  gives a timeout and the tick timer never stops. Strong, because a wait
  disables and enables it again and again.

`Nfc` assumes weak fairness of the controller only: the simulator handles each
event in the end. `SimFtl` assumes it of its whole next-state relation: the
program does not stop.

Nothing is assumed of the host of `Ftl`: it may stop submitting. Only META has
timeouts in the liveness runs, so every wait of REQ, REQ_RESP and GC is shown to
be ended by its event. META needs them: `open_UserScan_SM` collects one completed
read per turn (`page_meta.cpp:396`) and then waits for an event that has already
come.

## 5. Proofs

| theorem | says |
|---|---|
| `SchedTypeCorrect` | `Spec => []SchedTypeOK`, of the whole `Ftl` |
| `MapIntegrityHolds` | `Spec => []MapIntegrity`, the assertion of `dbg_MapIntegrity` |
| `QuietAtPowerOffHolds` | when the power may go off no NAND command is under way, also after a GC that was stopped in the middle |
| `NoStaleSaveHolds` | a safe shutdown leaves no request for a save behind |
| `ErasePopsEraseHolds` | who waits for an erase finds that erase, and nothing else, in its done queue |
| `MoveAccountsHolds` | the counters of a GC move are the commands it has under way |
| `TaskArmedHolds` | no task returns without a wait (the assertion of `Sched_Run`), but for META when one turn of its block scan collected both reads |
| `AllArmedInTime` | and nobody at all if no turn of the scan does (`OneByOne`) |
| `NoEraseHolds`, `NoEraseFirst` | no erase of a block with a mapped page is queued |
| `PoolBlocksHolds` | the blocks of the free pool are distinct, free, and hold no valid page |
| `ProgramsInOrderHolds`, `ProgramsInOrderFirst` | a program finds its page and those after it erased: the assertion of die.cpp:83, and more |
| `NoBlockLostHolds`, `NoBlockLostFirst` | a block that is neither closed nor written to is free, being erased or the source of the move, and at most the two full ones the scan found are open for nobody |
| `LatestIsMappedHolds`, `LatestIsMappedFirst` | the map leads to the last write of every page the host was told of |
| `ImplementsDevHolds`, `ImplementsDevFirst` | `Ftl` implements `BlockDev`: every step is one of the device or a stutter |
| `EraseSavedHolds`, `EraseSavedFirst` | a block is opened for writing only when a meta page tells of its erase: comparing ages is enough |
| `PoolLastsFirst` | GC never pops a destination from an empty pool |
| `BusyIsRequestedHolds`, `BusyIsRequestedFirst` | a journal that takes no more entries is being saved or waits to be |
| `SavedIsJournalHolds` | the page a save writes has all the entries that the end of the save removes |
| `IoPoolHolds` | the command pool is never empty when a command is wanted |
| `OneEventAlways` | the die has exactly one event to go on with |
| `BuffersOwnedAlways` | a buffer has one owner, and is not free while it has one |
| `DataWaitAlways` | the data of a program wait for the bus in its buffer |
| `ImplementsIoHolds` | `Nfc` implements the die of `FtlIo` |
| `QueuesHoldAlways`, `OnePlaceAlways` | lists and rings hold what was put in; every command and buffer is in one place |
| `OneCpuEventAlways` | a CPU has at most one event, and none while it runs |
| `QueueSoundAlways` | with five events the pool is never empty when one is wanted, and there is always one to come |
| `NobodyOversleepsAlways` | no CPU sleeps while there is something for it |
| `NoTurnBeforePowerOffAlways` | no turn of a task between the answer to a shutdown and the power cut |
| `ImplementsSchedHolds` | the loop of `Sched_Run` on the simulator implements `FtlSched` |

Some of them have a hypothesis, and it is one the code needs.

* `NoEraseHolds`, `PoolBlocksHolds`, `ProgramsInOrderHolds`, `NoBlockLostHolds` and
  `EraseSavedHolds` say `Spec /\ []ResumeSound => ...`. What a start resumes is put together from
  journals of different ages, and that it is sound is a statement about the
  history of all saves. Run `sudden` checks `ResumeSound`; the theorems say that,
  given it, nothing else the FTL does breaks the discipline of the flash or drops
  a block.
* `LatestIsMappedHolds` and `ImplementsDevHolds` take `[]LoadsLatest` as well:
  each start finds the last writes. Everything after a start, up to the next, is
  proved: writes, moves, erases and saves in any order, with the commands not yet
  executed, the answers, and the power going off in the middle of a move. `sudden`
  checks `LoadsLatest`; over many power cycles or saves it fails, as the runs `age`
  and `openlost` show, and so does what follows from it.
* `BusyIsRequestedHolds` says the same with `[]ScanFitsJournal`, of which
  section 3 tells how far it holds.
* `NoEraseFirst`, `ProgramsInOrderFirst`, `NoBlockLostFirst`, `LatestIsMappedFirst`,
  `BusyIsRequestedFirst`, `EraseSavedFirst`, `PoolLastsFirst` need none of these up to
  the first power off (`cycle = 0`), nor does `ImplementsDevFirst` for a device that is never switched
  off: there is nothing to resume or to load yet, which is itself proved.
* `QueueSoundAlways` and `NobodyOversleepsAlways` want `NUM_EVENT >= 5`; the code
  has `NUM_HW * 2`, that is 14. `NoTurnBeforePowerOffAlways` also wants
  `TASK_TIME > 6`, the 5 us of `FTL_Request` and the 1 us of `POWER_SwitchOff`; the
  code has 50.
* `IoPoolHolds` wants `NUM_NAND_CMD >= 2 * MAX_GC_READ + 2`, which is 6; the code has
  8. Run `iopool` checks the property with exactly 6.
* `SavedIsJournalHolds` holds as long as `cycle = 0 \/ NoSudden`, the host never
  shutting down suddenly. It is false otherwise: GC asks for a save, REQ answers
  a sudden shutdown in the same round before META has run, and `META_Init` clears
  no `gbRequest`. After the restart the stale request saves a journal that is
  being filled, and what is added before the save is done is dropped: run
  `stalesave`.
  `EraseSavedHolds` takes `NoSudden` for the same reason: the entry dropped may be
  that of an erase somebody waits for, and the age advances all the same. It also
  wants `NUM_META_BLK >= 2`, as the code has: with one block META would erase the
  page that tells of the erase.

`TaskProofs`, first part. `SchedTypeOK` is inductive by itself. Four lemmas say what the
ways to end or interrupt a turn do to the scheduler, then one step per action
says which one it takes, with which events.

`MapProofs`. The invariant is not inductive. `MapInv` adds that the map is a
function on `LPN`; that REQ and GC are in `WaitOpen` while META opens, so that
they do not touch a map whose counts are not rebuilt; and that in `BlkScan` the
map is still empty, so that `meta_Format`, which zeroes the counts without
touching the map, makes them agree. `CountMoved` is the core: if two maps differ
in one logical page, the counts of its old and new block differ by one, and
those of all others agree (with the cardinality facts of FiniteSetTheorems).
`UpdateKeepsCounts` applies it to `META_Update`, for any address; `MapKept` and
`MapUpdated` reduce the steps of the tasks to it.

`TaskProofs`, second part. Each of the four theorems after it is a small part of what has to be
known to prove it, so they share one invariant, `MapInv /\ RestInv`. Nothing is under way at power off because `req_Shutdown_SM`
waits until the pool is full; but that the answer of a safe shutdown then still
leaves the pool full is a matter of all tasks: META has issued nothing new but
the save, and GC does not move. The parts of `RestInv`:

* `IoTypes`: a command is in the done list of its issuer; what is, or would be,
  programmed into a meta block is a meta page.
* `AddrInv`: the addresses that get into programs and erases of user blocks
  (next of a stream, pool, block being erased, journal) are of user blocks. What
  a load reads back from a meta page is again a journal of such entries, which
  is why `IoTypes` also speaks of the contents of the meta blocks and of the
  programs on their way there.
* `MetaInv`: for each phase of META, how many of its commands are under way: the
  reads issued and not collected in a scan or a load (`ReadInv`), those of the
  scan of an open block (`ScanInv`), one erase or one program in a save
  (`SaveInv`), and none in `Ready`.
* `ErbInv`, `MigInv`: the same for the erases and for GC. An erase is under way
  only while its `GC_BlkErase_SM` waits for it, and a move has `rd` reads and
  `pg` programs, which never exceed the room in the destination.
* `DownInv`: while REQ waits for the end of the IO, GC is in `Stop`; while it
  waits for the last save, no other task has a command, and the save is
  requested, or runs, or is done and its age is the one REQ waits for.

`Cnt[k][o]`, the number of commands of issuer `k` and kind `o` in the queue of
the die and in the done list, is what these parts have in common. It is a
cardinality over sequences, so the second half of `MapProofs` begins with what
Append, concatenation and Tail do to such a count, then says what a turn does that
issues some commands and collects at most one of an issuer. Every step preserves
`RestInv` by the same argument: the part of the task that moves by counting, the
other parts because their variables and the counts of their issuers are the same
(the frame lemmas).

`TaskArmed` has an invariant of its own, `ArmedInv`: each task can run (`Armed`),
or it is META in the block scan, with blocks left to read and no read under way
(`ScanStranded`). Every way to end a turn leaves its task armed (`TurnEnds`), and a
turn that goes on keeps it so (`MidTurn`); the one `WaitFor` whose set of events may
be empty is that of `BlkScanReturn`. `AllArmedInTime` takes the time of the reads as
a hypothesis, `OneByOne`: no turn of META finds both reads of the scan done. Then
one is under way as long as blocks remain (`ScanWaits`), so META is never stranded.

`AllocProofs`. `AllocInv` is `MapInv` and `RestInv` carried to the blocks. A free
block is in the pool once or is being erased for one stream, and no page is
mapped to it (`PoolInv`); the open blocks of the two streams are different, and
neither is free (`OpenInv`); the programs and erases under way go where their
issuer writes (`UserCmds`), so a program cannot reach a block that was freed and
handed out again meanwhile. For this one has to know that the host has one
request outstanding (`HostInv`): REQ opens a new user block while the last program
of the old one may still be under way. `MapIntegrity` closes the circle: a block
becomes free because its count is zero, and the count is exact. A start breaks
none of it except by what it resumes; there `ResumeSound` is used, once for each
stream, and `ScanAddr` carries it through the two scans. Up to the first power
off `FirstInv` says that all pages META reads are erased, so it formats.

`BusyInv` and `SavedInv` rest on `JnlStep`: what a turn of REQ, REQ_RESP or GC
does to the journal is nothing, or one entry and the request for a save if that
fills it, or the request of a shutdown when no command is under way. `SaveRules`
adds when a request may be pending: only with a full journal or for a shutdown.
So nobody adds an entry while a save runs, as the journal is full or the host
has stopped; and that a safe shutdown leaves no request (`NoStaleSave`, with
`RestInv` under it) brings the rules over a power cycle.

`IoPoolHolds` adds up the commands of the four issuers. `gc_Move_SM` counts its
programs but limits only its reads, to `MAX_GC_READ`, so why are there not as many
programs as the destination has pages? Because the commands of GC are executed and
collected in the order of issue, and a read is issued only in a turn that found less
than `MAX_GC_READ` reads under way. `MoveOrder` says it of every cut through that order, the
done list followed by the queue: the reads before the cut and the programs and
erases behind it are at most `MAX_GC_READ`. With the cut at one end it bounds the
programs, at the other the reads. A read collected at the head turns into a program
at the tail, so it moves from one side of every cut to the other; a read issued comes
behind all programs and has to fit only in the cut at the end, where the reads of the
move are all that is counted. While GC holds the command of the read it handles, that
read is at the head, and one program less is under way. The host has one command
under way (`HostInv`, here inductive by itself, since no hypothesis on the start is
wanted) or the erase of a write, META one, or two reads while it opens, and then
GC and the host have none; `MetaFew` says the same of META once it has stopped in an
assertion.

`FlashProofs`. `FlashInv` follows a page through its life. A block is erased while
it waits to be opened (`RoomInv`, `DoneInv`), from its next address on while it is
open (`RoomInv`), and from the page of each queued program on, the programs of a
block being queued in the order of their pages (`OrderInv`). The ring of META has
its own part (`RingInv`): its blocks fill up, the context points to the first
erased page, and the search that finds it again after a power cycle
(`PageScanInv`) reads the pages in order. `LookInv` is the same of the scan of the
open blocks: what was read is what is in flash, so the first erased page found is
the next to write. `AllocInv` is what keeps the streams apart.

`NoBlockLost` adds `UseInv` to that. `VictimsKnown`: a block is in state `Victim`
only as the source of the move, while GC moves or has stopped in the middle. `FreeKnown`: each free block is in the pool or being erased for a stream.
`LeftFew`: the open blocks that belong to no stream (`Left`) are two at most, full,
and none before the first power off. These are lost or made only in few steps: the
end of a move (its source becomes free, its destination closed), the last page of a
stream (`LastPgm`: the block is closed with it), the taking of a free block (which
is then being erased), and the scan of the pool, which collects every free block
(`ScanFreePool`). The rest is the start. `OPEN_Init` opens every block that is in
neither state for the scans, and the scan of each stream has to leave it closed or with
the stream: `ScanSeen` says that as long as the scan has found no erased page all it
was to look at are written or its reads are under way, so a block for which it finds
none is full (`Full`), which with `WrittenTo` and `FillsUp` of `ResumeSound` makes it
one of the two of `Left`.

`DevProofs`. A write is mapped before it is in flash, a GC move changes the map
before it programs the copy, and a read of the host may be in the queue while
both happen to its page. `DevInv` says what stays true:

* `MapSound`: the map of page `l` leads to version `Ver(l)` of it, looked at
  through the queue (`PageAt`: the last command in the queue that touches the
  page, or the flash). `Ver(l)` is `dict[l]`, or one less while REQ holds the
  write the host waits for (`Held`): it is not mapped yet. A page of version 0 is
  not mapped. `MapsLatest` follows, as the version mapped is at least the one the
  host was told of; and an unmapped page may be answered as erased.
* `PendInv`: whoever works on a request, in the queue of requests, in REQ, or as
  a command, works on the one the host waits for.
* `SrcInv`: the reads of a move are reads of its source, and carry what is in
  flash there, so what a move programs is what is mapped (`GcReadMovedDev`, with
  `StillValid` and `FlashInv`: nothing is programmed in a victim).
* `QueuedReads`: the read of the host, at place `i` of the queue, is of an
  address where no later command has been queued, or its block is the source of
  a move that is still going on and has a later program in the queue. So the
  block is not erased before the read is executed: the move ends only after that
  program, which the die executes after the read. `DoneReads`: what a read
  brought back is the last write.
* `ErbPages`: `PageAt` takes the contents of an erased page from the command.

Most steps are `Calm`: their commands touch only pages that are free or erased
(`Spares`), hence no page that is mapped or awaited (`HoldsNotFree`,
`AwaitedNotFree`, from `AllocInv` and `FlashInv`). Left are the program of REQ
and that of a move, which change the map with it, and the device, which executes
the head of the queue: `PageNand` says that `PageAt` does not notice. At the end
of a start, `LoadsLatest` gives `MapSound` (`LoadedSound`). Before the first
power off `FirstDev` replaces it: META finds all meta pages erased, formats, and
no write is mapped. The refinement maps a submission of the host to one of the
device, the answers of REQ and REQ_RESP to `DevAnswer` with the contents
`DoneReads` and `MapSound` give, and the power to itself; every other step is a
stutter.

`DevProofs`, second part. `EraseSavedBeforeUse` follows the entry of an erase while
its opener is in `WaitMtSave` (`ErsInv`). At first it is `Unsaved`: the age is
still that of the request, and the entry is in the journal, which is busy. A save
that was under way when the entry was added would break this, but then the journal
takes no entry (`JnlAccepts`, and `SavedInv` of `AllocProofs`): the page that ends the
wait has all of the journal. After that it is `JustSaved`: some page of the ring tells
of the erase and is not in the block META erases next (`EntryKept`). Why META cannot
get round the ring before the opener looks is a matter of the scheduler: the end of
the save triggers `META`, for which the opener waits, so it runs in the next round;
META can start a save in that round, but end none. `SavePages` says that the program
is in flash when META collects it.

`DevProofs`, third part. GC pops its destination without looking (`GcGetDst`), and the
pool may have been empty all through the move before. `PoolLastsFirst` shows that the
move has made a free block by then, whatever the sizes are (`LastInv`):

* `Fits`: an erased destination has room for all the valid pages of a victim, since a
  block has no more of them than pages (`FewValid`: two logical pages never share
  one). A page moved is one less in the victim and one more in the destination; a
  write of the host only takes pages from the victim. So when the destination is
  full, the victim is empty.
* `SrcRest`: a page of the victim that is behind the read position and still valid has
  its read under way. So when all reads and programs are done at the end of the
  victim, nothing is left in it: a page that was dropped (`GcReadDropped`) was valid
  no more, as what a read brings back names the page mapped there (`ReadFound`, from
  `SrcInv` and `MapSound`).
* `Spare`: in both cases the victim is closed without a valid page, nobody but
  `gc_ScanFree` takes such a block (`DrainsLast`), and it finds one if there is one
  (`ScanTakes`). REQ leaves the last block of the pool to GC.
* `AtStart`: after the format all blocks are spare, and no move is resumed.

After a power cycle a move is resumed in the middle, with another victim perhaps; then
`Fits` depends on what the start loaded. Run `restart` checks `PoolLasts` there.

`NfcProofs`. `OneEvent` needs to know where the commands are: a running command
is one that was issued, so its transfer has a chunk to start with, and the event
of a step is not the trigger of a new command. The commands are of "some set of
good ones", since the model bounds none of their fields. `LeastChunk` is the bit
scan of the controller (the least member of a set exists, from
WellFoundedInduction).

The other three follow from `BufInv`. `OwnInv` says who owns a buffer: the
commands in the queue, the running one, and those in the done lists, each its own
and all different. `DataInv` says where the page of a command is at each step of
the controller: still in the buffer, in part in the latch of the die, in the
cells; and for a read, the chunks that have arrived so far. `DataWait` is one part
of it. The refinement maps the running command and the queue to `nq`, and the
effect of a command happens, for `FtlIo`, in the step that ends it: by `DataInv`
what the cells and the buffer hold then is what `NandDone` says, and all steps
before it change nothing `FtlIo` sees.

`QueueProofs`. `IInv` has a part for each container: `ListInv` (each
`LinkedQueue` with its head, tail, count and the links between is the sequence
it should be), `DieInv` and `BufInv` (the same of the rings, with their types),
`KeyInv`, and `Apart` of `OnePlace`. Neither property stands without the other.
The links of one list survive an operation on another only because no command
is in both; and a ring is not overwritten only because there is room: the
commands elsewhere are distinct, so those in the ring are fewer than
`NUM_NAND_CMD <= NUM_QUE` (a pigeonhole argument with the cardinalities of
FiniteSetTheorems), and `BM_Free` finds the slot of the buffer it frees.

`SimProofs`. `SimOk` says that the CPU events are exactly those the CPUs
remember, of a simulator state rather than of the variable. A lemma for each
operation of the simulator keeps it, and each action of `SimFtl` is a
composition of them. `OneCpuEvent` is part of it.

The next three theorems share `LoopInv`.

* `EventsOk`: there is at most one event of each of five kinds (the two CPUs, the
  tick, the controller, the power switch), none of them overdue. Whoever adds an
  event adds one of a kind that is missing while a second kind is missing too (the
  controller and the power switch never both have one), so with five events a slot
  is left, even while the one in hand is not yet returned (`Room`, by the
  pigeonhole principle).
* `HostInv`: the one request of the host is in the queue of requests, with the
  controller, in the done queue or answered, and in only one of these. That makes
  the event of the controller single, and from the first turn of CPU_FTL on there
  is a tick to come, so the queue never runs dry.
* `WakeInv`: if CPU_FTL has an event, a tick or a ready task to see, it runs, or
  has an event of its own, or the host is about to wake it (`FTL_Request`); if
  CPU_WORK waits and has its answer, it runs or has an event. This is
  `NobodyOversleeps` without `Asleep`, and with what it rests on.

`TimeInv` compares times. Once a shutdown is answered, the event of CPU_FTL is
more than 1 us behind that of CPU_WORK, or than what is left of the 1 us of the
power switch. It begins with the turn that answers: the event of CPU_WORK is then
due within 5 us, or at once, and that of CPU_FTL `TASK_TIME` later. To follow the
times, every operation of the simulator has a lemma that says what it adds to or
takes from `Due(s, k)`, the time left to the event of kind `k`. The theorem is
about each step, so it follows: CPU_FTL does not run, and only CPU_FTL runs tasks.

`LinkInv` makes the refinement work: a task that is neither ready nor to run in
this round waits for something, and the bitmap of the round is empty in the outer
loop. A pass of the loop is then a `Round` (`GatherView`), and the end of a turn
is `Finish` (`FinishView`), whatever the simulator does meanwhile.

Assumptions: `SizeAssumption` (positive sizes; block and page numbers below the
bits of FF32, so that an unmapped page is in no block), `MetaAssumption`,
`GcAssumption` (with the `static_assert` of page_gc.h), `HostAssumption`,
`NfcAssumption` (a mask has the first chunk, a block a page), `QueuesAssumption` (the ring of the
die takes all commands), `SimAssumption` and `SimFtlAssumption`.

Only model-checked:

* `LoadsLatest`, `SafeLoadsLatest`, `ResumeSound`: what a start makes of the
  journals needs an invariant that relates flash, journals and command queue over
  all saves since a block was opened; and without bounds they do not hold: runs
  `openlost` and `age`.
* `ScanFitsJournal` holds over one power cycle only, see section 3.
* `VictimGains` depends on the sizes: how many blocks and pages there are in proportion
  to the logical pages, and how much the host writes between the scan of the pool and
  the choice of the victim. `PoolLasts` after a power cycle, see above.
* `TypeOK` of `Ftl`: that the journal keeps its bound is `ScanFitsJournal`, and that
  versions do needs the sum of `Submitted`, an induction over the logical pages. The
  theorems have the part they need in `MapInv`, `AddrInv` and `AllocInv`.
* Out of the prover's reach: liveness and anything with ENABLED
  (`RequestAnswered`, `CommandsEnd`, `LoopGoesOn`, `HostGoesOn`); and what
  recursive definitions compute (the models use none).

## 6. Not modelled

* More than one outstanding host request: the tests wait for each. The slots of
  `gaIssued` are therefore left out.
* More than one die or plane: `NUM_DIE` and `NUM_PLN` are 1, and the code leaves the
  rest open.
* The erase counts, `anActBlk`, and the `Mt_Format` step, which nothing reads or
  reaches; run modes of the scheduler (`Sched_SetMode` is never called), `LRU`,
  `TMR_Remove`, `IO_RegCbf`.
* A power cut without a shutdown request: the tests always send one first.
* The context switch of the coroutines (fibers or threads): it is one step.
* Printing, random numbers, and the stand-alone programs of `lib_sim`,
  `test_code` and `build`.

Two hazards at the edge. `open_BlkScan_SM` would stop, without a wait, if both
its reads were collected in one turn and blocks remained (`page_meta.cpp:705`).
The untimed `Ftl` reaches this with three or more meta blocks, as in `core`; the
code has seven. There the reads are serial, at least 98 us each, and a turn follows
every 50 us, so no turn finds both. `TaskArmed` therefore names the case as the
only exception, and `AllArmedInTime` proves that there is none under the timing,
which is a hypothesis: `Ftl` and `Nfc` are not composed with their times.

And `gbRequest` can be set when a sudden shutdown is answered, in `Ftl` and in the
code, if an erase of GC is collected in the round of the answer. `NoStaleSave` is
therefore asked of safe shutdowns, `SavedIsJournal` is proved for them, and
`stalesave` shows the rest.

## 7. Plan

Done: the FTL with restarts, the controller, the queues, the simulator, and the
refinements between them. Left, in this order:

1. `MetaLog`: the ring of meta pages by itself, with `NUM_META_BLK >= 3`,
   `NUM_MAP_SLICE` above `NUM_WL`, and many power cycles: what a load finds
   against what was saved.
2. Times in `Nfc` and `Ftl` together, to discharge `OneByOne`.
3. Several outstanding requests.

Proofs: `PoolLasts` over a power cycle from `LastInv` and `LoadsLatest`; `ResumeSound`
from an invariant of the saves, as far as it can be had without the history of the
ring, and `LoadsLatest` for one power cycle from it.
