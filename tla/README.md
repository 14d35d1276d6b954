# rvwasm in TLA+

rvwasm is a RISC-V (RV64GC, up to eight harts) system emulator in Go that is
compiled to WebAssembly and runs in a browser page.  This directory holds the
TLA+ models of its core logic, the TLC configurations that check them, and
proofs checked by TLAPS.

## 1. The system

The page (`web/index.html`) calls functions exported by `cmd/rvwasm/main.go`.
Everything runs on the browser's main thread: an exported function, a timer
callback or a guest instruction is never interrupted by another.  Concurrency is
therefore of three kinds: user operations and timer callbacks that arrive in any
order (run loop), harts that are stepped round-robin and meet in devices and
memory, and devices that change a hart's `mip` between two of its instructions.

| Component | State | Operations | Talks to |
|---|---|---|---|
| Run loop, `main.go` | `running`, `runToken`, `runPending`, `stopReason`, breakpoints | run, pause, reset, step, load firmware, set hart count; timer callback; guest power-off/reboot | harts (step, halt, reset), browser timers |
| Hart, `internal/cpu` | registers, CSRs, privilege mode, `Waiting`, `Halted`, reservation | `Step`: tick, interrupt, wait, fetch, execute; trap, mret, sret; CSR access | bus, SBI shim; CLINT/PLIC set its `mip` |
| PLIC, `dev/plic.go` | priority, pending, enables, thresholds | `SetIRQ`, register writes, claim, complete | notifies `mip.MEIP`/`SEIP` of each hart |
| CLINT, `dev/clint.go` | `msip`, `mtimecmp`, `mtime` | register writes, `Tick`, SBI timer/IPI | sets `mip.MSIP`/`MTIP` |
| SBI shim, `main.go` | `hsmState` | timer, IPI, hart start/stop/suspend, reset | CLINT, harts, run loop |
| virtio devices, `dev/virtio_*.go` | status, features, queues, interrupt status, payload (disk, packets, ...) | MMIO writes, queue notify, host injection | guest memory over the bus, PLIC sources 1 to 6 |
| UART, `dev/uart.go` | receive queue, IER, LCR | register access, host injection | PLIC source 10 |
| Syscon, `dev/syscon.go` | none | one register: power-off, reboot | run loop |
| Bus, `mem/bus.go` | DRAM, regions, watchpoints, access ring | read, write, tick | devices |
| MMU and PMP, `cpu/mmu.go`, `cpu/pmp.go` | satp, pmp CSRs, `PMPActive` cache | translate, check | bus |
| Machine set-up, `main.go`, `mem/elf.go`, `boot/` | images, addresses, boot arguments, initrd range, manifest, uploaded tree | load and install images, tree and record; reset, rebuild, reboot | DRAM, harts, run loop |
| Smoke runner, `cmd/rvsmoke`, and the reports it makes, `analyze/ci_*.go` | files, verdicts, exit code | thirteen stages from bundle to release evidence | the file system |
| Trace, symbols, other analysis | rings and text | pure read-out | none |

What makes each part correct, and hard to test:

* **Run loop.** A `setTimeout` callback cannot be taken back.  Pause, reset and
  guest shutdowns cancel by bumping `runToken`.  A run must have exactly one
  driver at every moment, whatever callbacks are still under way, and stop at
  breakpoints whatever the chunking of the tick.
* **Hart.** Traps are precise; nested traps over two modes lose no context;
  lower modes cannot write machine state through the registers that alias it;
  interrupts obey masks and delegation; a waiting hart wakes.
* **PLIC and CLINT.** Interrupt lines are copies, refreshed on each operation or
  skipped for speed.  They must equal what the registers say, one raise must be
  claimed once, and no expired timer may be missed.
* **Wiring.** `mip` has several writers that do not know of each other, and a
  reboot resets the harts but not the controllers.
* **virtio, UART.** Completions and input race with the driver's last look.  Six
  copies of a register file and of a chain walk must agree.  A device writes only
  what a chain lends it, loses and doubles no data when a buffer is short, malformed
  or unmapped, and a disk keeps what it acknowledged.
* **MMU/PMP, LR/SC, bus rings.** Boundary arithmetic, a cached flag, and a
  reservation that other harts' stores do not see.
* **Machine set-up.** Tree, record, manifest, initrd range and memory are copies of
  one configuration, changed by loads that can fail half way, by rebuilds and by two
  kinds of restart.
* **Smoke runner.** Stages abstract the findings of earlier ones and read files
  that other stages, or an earlier run, wrote; no failure may get lost.

`PROJECT.json` lists the hazards at their lines with the properties on them.

## 2. Modules

| Module | Models | Notes |
|---|---|---|
| `Plic` | `internal/dev/plic.go` | `Update` is part of every action, as `update()` is of every method; `line` is the last value notified; `raises` and `claims` are history |
| `Clint` | `internal/dev/clint.go` | `mtime` modulo `TimeMod` (2^64); `Tick` takes the shortcut around `update()`; `wrapped` is history |
| `Platform` | `initMachine`'s wiring, `csrw mip`/`sip`, `resetHarts` | is both `Plic` and `Clint`, which it extends; their lines are the `mip` bits themselves |
| `HartOps` | `trap.go`, `csr.go`, the checks of `exec_system.go` | a hart is a record; pure operators |
| `Hart` | `Hart.Step` and `execSystem` | one action per outcome of a step; `Machine` is what the rest of the emulator does to the hart; `mctx`, `sctx` and `event` are history |
| `Runner` | what Run and Pause promise | abstract specification |
| `RunLoop` | the scheduler of `main.go` | refines `Runner` by `RunState`; one step per hart step of a slice |
| `Pmp`, `Mmu`, `Bus` | `cpu/pmp.go`, `cpu/mmu.go`, the observation half of `mem/bus.go` | pure operators on records, one module per file |
| `Memory` | loads, stores, fetches, the atomic instructions of `exec_amo.go`, protection register writes, device DMA, the viewer | composes the three; `added`, `touched` and the rings' `log` are history |
| `VirtioRegs` | `Read` and `Write` of the six devices | pure operators; a word is four bytes, a write a tuple of any length at any offset |
| `Requests` | chain walk and request handling of the six devices | pure operators; a handler takes the device's side and the descriptors and gives the new side and the used length |
| `Uart` | `dev/uart.go` | pure operators |
| `Devices` | one of the six devices, or the serial port, between driver and host | composes the three; `given`, `got`, `typed`, `believed`, `lent` and `shadow` are history |
| `BootData` | `boot/fdt.go`, `boot/dynamic.go` | a tree is the record of what its nodes say |
| `Machine` | `initMachine`, the loaders, resets and restarts of `main.go`, `mem/elf.go`, `dev/syscon.go` | one action per exported function; the guest is any program |
| `Reports`, `Release` | the verdicts of `analyze/ci_*.go`: bundle half and release half | pure operators; a report is the set of its checks |
| `Smoke` | `cmd/rvsmoke/main.go` | one action per stage of `main`; the input is chosen at the start |
| `RequestQueue` | what a virtio queue promises its driver | abstract specification: `posted`, `done` and whether the device is able to serve |
| `Virtqueue` | the common protocol of `internal/dev/virtio_*.go`, a guest driver, the PLIC's pending bit | refines `RequestQueue`; `kind` says which of the six devices this is |
| `MC*` | instances for TLC | values of the constants |
| `*Proofs` | theorems | see section 5 |

Operators that no specification uses, named `X_Something` after an operator
`X`, are plausible slips of that operator, each used by `PROJECT.json`'s
"mutants" to show that a property can fail.

### Correspondence

* In **Plic** a device call, a register write or a register read with an effect
  is one action.  Sources are ids, an enable register is a `Word` of sources.
  The id written to the complete register is ignored by the code and so by
  `Complete`.
* In **Clint** a write of half a 64-bit register leaves some value, which
  `WriteMtimecmp` and `WriteMtime` choose freely.
* In **Hart** interrupts are sets of cause numbers, an address is an instruction
  slot modulo `NPc`, one register stands for x1..x31.  Everything outside the
  SYSTEM opcode is `Complete` (any next pc, any result) or `Fault` (any fault
  cause).  A shim call may halt the hart, make it wait or move its pc, not two
  of them.  `cause`, `tval` and floating-point state are left out, and
  `LastError`, which the code never sets in a step, is too.
* In **RunLoop** a slice is stepped hart by hart; the time box is the free choice
  between `EndChunk` and `EndTick`; the guest is a free choice of next pc,
  watchpoint hit, halt, start of a hart, power-off and reboot.  The mode filter
  of breakpoints is left out, the number of harts is fixed (`SetHartCount`
  rebuilds a machine of the same size).  Injected input runs outside a slice and
  may hit a watchpoint.  `runSmokePreset` is not modelled.

* In **Virtqueue** a register write or a host call is one step, with the whole loop
  over the queue that it starts: the device runs inside the guest's store, on the
  browser's one thread.  `Visit` computes what the loop leaves: how many chains are
  `Served`, the data `Consumed`, the used entries published, `FAILED` if a chain was
  malformed, and whether any completion interrupts.  `QueuesOf`, `ReceiveQueues`,
  `ReadyScans` and `StatusScans` hold the differences between the devices; the
  receive loops' three ways to end are in `ReceiveServed`.  `pending` follows
  `SetIRQ`: set with the line, cleared by a claim and when the line drops.
* In **Memory** an instruction is one action, made of the bus accesses of the code in
  their order: the walk reads entries over the bus and writes the accessed and dirty
  bits back before protection is checked, protection is checked before the bus is
  asked, and an atomic instruction is a load and a store.  `Outcome` is what an
  instruction leaves behind, with the fault it met.  Memory is a function from units to
  numbers; one unit is a word, a table entry, an instruction parcel and a protection
  grain at once, and `Fan` units make a page and a table.  `Walk` is a recursive function
  over levels; `AccessesFollowTables` compares it with `Leaves` and `Grants`, which say
  what the tables map without walking.  As in the code, the walk's own accesses are not
  subject to protection.  A device register answers 0, so a table that lies in one maps
  nothing (section 6).  Instructions of a function the code does not know and LR with
  a second operand are left out, as are the access histogram (counts only; `bus.go:58`
  says it counts DRAM accesses, which it does only while tracing is on), register
  names, and the values of the hart's own registers but for the outcome.
* In **Devices** a register write is one step, which names the queues the device then
  looks at (`visiting`); `Serve` handles one request of such a visit and `Done` ends
  it.  In the code the visit is part of the write, so the driver and the host do
  nothing while `visiting` is not empty.  Available and used rings are the sequences
  `posted` and `used`: their indices and the suppression of interrupts are
  `Virtqueue`'s.  A unit of memory stands for a byte, a pixel or a header field, a
  bus error is an address outside `DOMAIN mem`.  A transfer stops at the first unit
  it cannot reach and leaves the earlier ones, as the byte loops of the code do.
  The scenarios in `MCDevices` give the chains.  `Meant` and `Ends` read a chain the
  way its driver means it, without the walk; `KeepsTo` compares the two.  The guest's
  interrupt handler (`Claim`, `Complete`, `handling`) reads until it saw the port
  empty.  Typed characters go to the serial port and to the virtio console
  (`main.go:752`).
* Six devices, one definition: `Selected` holds the differences in what a queue
  register refers to (the disk answers for queue 0 whatever is selected when it is
  read, and the one-queue devices do for addresses), `Readied`, `Visits` and the six
  `*Write` the differences in who looks at its queues when.  The disk ignores
  unaligned offsets, the others take the word around any.
* In **Machine** a unit of memory is a cell that says which image, structure or
  writer it holds.  Loads write the segments up to the one that fails, as
  `LoadELFOrRaw` does.  `installDTB` drops the error of a tree that does not fit, so an
  older one may stay; `TreeDescribesMachine` holds it to that case and to the same
  board.  A rebuild loses the initrd that the tree goes on announcing; `InitrdIntact`
  allows zeros there, and only then.  A guest step may write cells,
  start and stop harts, power off and reboot; `rebuilt` is history: memory was made
  anew since the initrd was loaded.
* In **Smoke** a stage is one action with all files it reads and writes.  A file that
  cannot be read or written ends the process with code 2 and leaves what was written.
  `Release` and `Reports` keep every check that decides a status, and no wording;
  a digest is the value it stands for.  A stop cause is a category of `RankStopCauses`;
  `Says` and `RunSays` hold which patterns of a policy or a summary occur in its text.
  `PolicyTemplate` follows the fields of the policies, not their descriptions.
  `IndexMatchesDisk` says exactly where the index may differ from the disk: at a file
  of an earlier run that a later stage writes, with the earlier file's entry, and never
  in a dry run.
* The virtio driver is external.  `ring` is guest memory, `driver` what the driver keeps to
  itself.  One hart posts and notifies, any hart takes the interrupt, acknowledges it
  and has the queues drained; draining re-arms the interrupt and looks once more
  before it sleeps, while the device may complete requests between any two of these
  steps.  A notification of a queue that is not set up does nothing; the driver repeats it,
  or leaves it at that where the device looks at the queue itself when the missing part,
  `QueueReady` or the status, arrives (`MayNotifyEarly`).  It is quiet before it stops or
  resets a queue, and after `QueueReset`, which withdraws the interrupt of every
  queue, looks at its other queues.  A sloppy driver skips the negotiation and posts
  malformed chains.  A queue size of 0 is a queue the driver does not set up.
* Ring indices count modulo `IdxMod`, in the code 2^16, and slots modulo the queue
  size, which divides it.  A chain takes `Room` bytes or events, a network chain one
  frame.

## 3. Runs

| Run | Bounds | Shows |
|---|---|---|
| `plic` | 2 contexts, 2 sources, priorities 0..2, 2 raises | ties, masked and unmasked sources, two contexts racing for a claim |
| `clint` | 2 harts, 2-bit timer | every order of writes and ticks including wraps |
| `platform` | 1 hart, 1 source, timer modulo 3 | forged and reset `mip` becomes right again |
| `hart_traps` | 2 pcs, 2 values, one fault | exceptions and returns through all modes, nested |
| `hart_interrupts` | interrupts 7 and 9, delegation, shim, writes of the enables, pending bits and `mepc` | the first open interrupt is taken, lower modes leave machine state alone, a sleeper wakes from WFI |
| `runloop` | 1 hart, 2 pcs, chunk 3 of 5 steps, hit limit 2, 3 tokens | one driver, refinement of `Runner`, stale callbacks drain, runs stop at due breakpoints |
| `memory` | 16 units of memory, two-unit pages, rings of 2, 2 protection entries, 2 harts; 3 recorded accesses | translation, protection and its cache, faults, dirty bits, atomics, rings |
| `virtio` | 7 device/driver pairs, queues of 1 or 2, indices modulo 2 or 4, 2 host items | requests once and in order, no lost completion, set-up in any order, refinement of `RequestQueue` with liveness: no data and no request waits for ever |
| `virtio_event` | block device, queue of 2 | a used event at its standard place loses a completion (violation) |
| `devices` | 12 scenarios of up to 23 descriptors, 2 to 4 posts per queue, 2 to 4 host items, 2 or 3 notifications; 30 groups of three registers under 3 writes of 1, 4 and 8 bytes | registers read back, streams whole and in order, chains respected, disk keeps writes |
| `machine` | 10 units of DRAM, addresses modulo 16, 4 calls of the page between any guest steps | tree, initrd and manifest agree with the machine, page restarts are complete |
| `smoke` | about 800 command lines around one that passes everywhere | exit code, decision, manifest and index agree with what was found |

Why the bounds are enough: each guard of the code compares at most two ids, priorities,
times or tokens, and two values per comparison give every order of them; two contexts or
harts give every race between an actor and another; the timer's width only decides when
it wraps, and all values are visited.  The chunk and tick sizes keep the shape of 1024
and 50000: the tick is no whole number of chunks.  A virtio queue of two slots with
indices modulo four wraps slots and indices at different places and lets one visit
complete several requests; queues of one suffice where two queues share the interrupt.
All six devices are covered, with and without event indices, and sloppy drivers on a
console, a network and an entropy device (the last also with features the device does
not offer).  Tokens are bounded by `MaxToken` (in the code 2^64), raises by `MaxRaises`,
breakpoint hits saturate at `MaxHits` above every limit.

The state space of `runloop` with one hart has every order of buttons, callbacks and
slices; more harts only lengthen a round (and expose the breakpoint check of section 4),
and the theorems of section 5 hold for any number.  `devices` gives each shape of
chain a scenario: direct, indirect, looping, nested, of odd size, with unmapped, empty,
short and wrongly directed buffers, and lets any two to four of them follow each other.
Registers are taken three at a time, since a write can disturb another only through
the word, the selection or the reset they share.  `machine` needs three calls to set up
and one to spoil; addresses are chosen so that images touch, overlap, end behind DRAM and
wrap.  `smoke` varies one or two parts of an input that passes everywhere, since verdicts
combine by the worst.

Type invariants are proved for `Plic`, `Clint`, `Platform`, `Hart`, `RunLoop`,
`Virtqueue`, `Memory` and `Smoke` (section 5) and not run: a run spends its properties on what a type does not say.

Fairness.  `Clint` and `Hart`: `Step` ticks the bus first and `runSlice` steps each hart
that is not halted in each round, so ticks and steps never cease while the machine runs
(weak fairness).  `RunLoop`: code inside a slice always goes on (weak fairness of
`InSlice`) and the browser delivers each timer it was given even if the user keeps
clicking (strong fairness of `Fire`).  `Virtqueue`: the harts of the driver keep
running, so that it sends the notification it owes, takes the interrupt and goes on
collecting (weak fairness of `Notify`, `Handler`, `Collector`); it need not post, set up
or reset anything, and the host need not send.  `Memory`, `Devices`, `Machine` and
`Smoke` state safety only.  `Devices`, `Machine` and `Smoke` may stop: a scenario's
posts and writes, the calls of the page and the stages come to an end.  Nothing is
assumed of users, devices or guest code.

## 4. What the violation means, and other observations

* `virtio_event`: `README.md:60` offers interrupt suppression by used event.  Every
  `shouldInterrupt` reads it behind the used ring; in a split virtqueue it lies
  behind the available ring, and the place the devices read is the one they would
  themselves write.  A driver that follows the standard is interrupted when the
  used index passes 0, and then no more until it wraps.

Met while modelling, stated by no run:

* `exec_system.go:48` says the scheduler wakes a hart from WFI on interrupt.  It wakes
  only when a trap is taken, so WFI with the interrupt enabled in `mie` and the mode's
  global enable off never ends; `SleeperWakes` speaks of takeable interrupts.
* `README.md:179` says Run stops at a breakpoint.  `runSlice(1)` never checks
  breakpoints, and with several harts a tick may end in a chunk of one round.
* Interrupts are taken in the order of their causes, external, software, timer, machine
  before supervisor, whatever their delegation (`trap.go:127`): a delegated machine
  external interrupt is taken before a machine software interrupt that is not delegated.
  `MaskedStep` states that order.
* `csr.go:229` keeps UXL and SXL at 2 in writes of `mstatus`; a write of `sstatus` can
  clear UXL.  A software write of `mip.MSIP` lasts until the next tick that updates.
* `hart_start` on a running hart moves it in the middle of its code, and `hsmState`
  says suspended until the next start although an interrupt woke the hart.
* The end of an access or region wraps modulo 2^64: an access at the very top matches
  the first region (`InRegion`).
* virtio: `QueueReset` of one queue withdraws the interrupt of every queue.  Driver
  features may change after FEATURES_OK.  `fillEvent` keeps one offset over the
  descriptors of a chain, so events in a chain of several buffers go astray; an event
  is taken off the queue before it is copied, so a bus error loses it; the scenarios
  therefore use event buffers of one mapped descriptor.  A frame larger than the
  buffer at the head keeps the receive queue waiting.  Transmit queues report the
  length they read as used, and a malformed disk request reports 1 with nothing
  writable.  Display memory attached in several entries is read as its first.
* UART: the transmitter interrupt is raised by writes of the enable register and by
  received characters, not after a byte was sent; a driver that claimed the source and
  sent one byte hears no more of it.
* Machine: a change of the number of harts makes memory anew and keeps entry, next
  address, initrd range and manifest; a reboot by the guest does not install the tree
  again; loading firmware overwrites a0 to a2 of harts that run; a failed ELF image
  leaves its earlier segments; an initrd of more than 32 MiB reaches the framebuffer
  unguarded, and its range check wraps.
* rvsmoke: a dry run with a release zip reads back the zip it did not write and exits
  with 2; `writeZip` leaves a truncated file; an absent zip comparison scores in full
  and its empty status still blocks a go; a waiver file that does not parse does
  not block when there are no issues.  The default gate also fails on oops
  (`ci_gate.go:55`), of which its description (`ci_matrix.go:67`) says nothing.  The
  patterns `illegal instruction`, `page fault` and `access fault` of `linux-boot`
  (`ci_matrix.go:55`) have spaces where `RankStopCauses` writes hyphens (`page-fault`)
  and so match no category.

## 5. Proofs

All theorems hold for every value of the constants under the named assumptions
(`PlicAssumption`, `ClintAssumption`, `PlatformAssumption`, `HartAssumption`,
`CsrWritesAssumption`, `RunLoopAssumption`, `VirtqueueAssumption`, `PmpAssumption`,
`MmuAssumption`, `BusAssumption`, `MemoryAssumption`, `MachineAssumption`, which puts the
record and the tree in DRAM behind the start of the reserved area as `main.go` does and
gives images their fields, `RequestsAssumption`, that headers, events and descriptors
have a size, `DevicesAssumption`, that a register write is a sequence of bytes and a
table holds descriptors, `DriverAssumption`, below, and `SmokeAssumption`, that an input
has its fields, names outputs rvsmoke knows and holds no waiver rule where it has no
waiver text), which TLC also evaluates.
Facts about powers of two that a proof needs (2 ^ PmpBits is positive) are among them,
as the provers know no powers.

* `PlatformProofs` also holds the theorems of the two controllers:
  - PLIC: `PlicTypes`, `LinesCorrect`, `ClaimedOnce`.  `BestExists` (by least-element
    arguments on priorities and ids) makes the CHOOSE of `Best` well defined; then each
    action re-establishes the lines because each calls `PlicUpdate`.
  - CLINT: `ClintTypes`, `TimersDelivered`, `EarlyMeansWrapped`, inductive with the
    types.  The interesting case is a tick that skips `update()`: no compare is
    reached, so no line is missing.
  - Both: `PlatformTypes`, `ExternalLinesResync`, `ExpiredTimersReturn`.  No invariant
    relates the `mip` bits to the controllers, since `csrw mip` knows nothing of them;
    each controller's next operation rewrites its bits from its registers, which need
    only be well typed.
* `MachineProofs`, for any memory, images, addresses and boards of 1 to 8 harts:
  - `TreeDescribes` from `Typed` and `TreeSound`: the tree and the record in memory, if
    there are such, are exactly those of the configuration, and a tree left by an upload
    that is too large was built for this board (`BuiltFor`).  Every call that changes it
    installs them anew (`TreeInstalled`, `InfoInstalled`), and everything else that
    writes there leaves no tree (`OverwrittenTellsTruth`).  `BuiltTreeFits` shows that a
    tree built for a board has distinct phandles and lists the PLIC's contexts in order.
  - What a loader writes, even one that fails half way, is cells of its image
    (`ImageOverlays`, by `Recursion` over the segments).
  - `ManifestMatches`, by role (`ManifestParts`): a load changes the listing of its own
    role and the one field of the configuration it stands for.
  - `InitrdStaysIntact` from `ManifestMatches` and the initrd's place below the reserved
    area (`InitrdAccepted`): the sum the code checks modulo 2^64 does not wrap once the
    image lies in DRAM.
  - `RestartsComplete`: each restart ends in an installation and a reset of all harts.
* `HartProofs`: `TypeCorrect`, `ContextsAreKept`, `TrapsPrecise`, `MachineProtected`,
  `ReturnsCorrect`, `MasksRespected`.  Each step is of one of six kinds
  (`StepKinds`: a trap, a plain retirement, mret, sret, a CSR write, a reset) that
  say what is written; the properties follow by kind.  `MasksRespected` compares the
  code's choice with `Open` and `Before`, which say by mode and cause what may be taken
  and what comes first: `TakeableIsOpen` for the two levels of masks, `RankIsOrder` for
  the list of `checkInterrupt`.
* `RunLoopProofs`: `RunHasOneDriver` and `ImplementsRunnerSafely` from
  `IInv == TypeOK /\ OneDriver /\ NothingAhead /\ RoomToBump`.  `OneDriver` alone
  is not inductive: a pause that bumps the token could meet a callback that
  already carries the new token; `NothingAhead` says none does, `RoomToBump`
  that a running machine's token can still be bumped within the bound.
  `RunStops` states `RunStopsAtBreakpoint` where it holds (section 4): for one hart
  (`OneHart`) and a tick that is no multiple of the chunk plus one
  (`LeavesMoreThanOne`, true of 50000 and 1024).  Its invariant `WholeChunks` says that
  the hart has run in every round unless it halted or was stopped, so a tick goes on
  only behind whole chunks and never comes to a chunk of one round.

* `VirtqueueProofs`, for any number of queues of any size that divides the index modulus:
  - `TypeCorrect`.
  - `RequestsOnce` from `InPlace`.  The indices of the code wrap, and so cannot be
    ordered; `InPlace` says that there are three numbers that never wrap, `s <= u <= a`,
    for what the driver has seen, the device has used and the driver has posted, at
    most a queue's size apart (`Counts`), whose remainders are the indices, and that the
    slots between them hold each request in flight once (`Placed`).  A burst of the
    device moves `u`, a post `a`, a collection `s`, a reset chooses new ones.
  - `CompletionsNotLost` from `AllAlert`: per phase of the driver, a completion it has
    not seen is announced, is about to be looked for, or lies behind the event index it
    asked for.  The hypothesis `~StandardLayout` is the layout the devices read; for
    the standard's the run `virtio_event` finds the violation (section 4).
  - `QueuesRefine`: every step is a step of `RequestQueue` or leaves it alone.
    `StepOfAKind` reduces the actions to four effects on a queue's requests; `Part`
    gives the abstract sequences by the three numbers, so that appending, taking the
    head and moving a prefix are lemmas about intervals.

* `MemoryProofs`, for any tables, contexts, programs, devices, ring and page sizes and
  any number of harts and protection entries:
  - `TypeCorrect`, `RingsInOrder`, `CacheIsSound`, `LocksHold` and `PagesMarked` from
    `IInv`: the types, both rings `InOrder` (the log is what lies in the slots behind
    `pos`, from which each read-out follows), the cache of each hart sound and the marks
    of used entries kept.
  - An instruction is one action of many bus accesses, so the step `Execute` is proved
    through `InProgress(p)`, the states an instruction may pass through on a hart with
    protection registers p: every operator of the instruction, from `BusRead` to `Amo`,
    stays in it.  Only the cache of p may change (`FillingTheCache`).
  - `FaultsSpareMemory` needs nothing more of the reachable states: an instruction stays
    in `Sparing(p, m)` while it has stored nothing, and `After` says that it faults only
    there.
  - `TablesFollowed`: `WalkIs` unrolls the walk into its three slots and the level where
    it stops, `LeavesAre` shows that this is the one level where there can be a leaf.
  - `AdditionsKept` from `CounterInv`: the counter's word is the sum (`WordSum`).  Every
    operator of an instruction is `Quiet`, leaving the word alone, unless the access is an
    addition to it, and then the read and the write of the AMO are one step of one hart.
    It is about setups whose counter is `CounterApart`: untranslated, and apart from what
    devices and all other stores touch, but for an SC that no LR precedes; programs keep
    such a word so.
  - Recursive functions (a walk's reads, a device's writes, a fetch over a page's end,
    the bits of a word) are unrolled by `Recursion` and `Carried`, which rest on the
    least element of a set of naturals.
* `SmokeProofs`, for any command lines and any files:
  - `TypeCorrect`, `ExitTellsFailure`, `GoIsNotContradicted` from `Found`: what a stage
    has not looked at yet is blank (`Blank`), so the verdict is exactly that of the
    stages so far (`VerdictSoFar`); what failed before the release manifest is in its
    status (`ReleaseTells`), and from there in the gate and the decision (`GoIsClean`).
    The exit code alone is not inductive: nothing in it says which stage failed.
  - `IndexTellsDisk` from `IndexSoFar`: until the index is made the outputs of later
    stages are as an earlier run left them, and from then on only those are written.
    `StageKeeps` reads off a stage's events which files it may write.  That every entry
    stems from a file on disk rests on `InOrderHolds`: the fold that puts a finite set
    in order yields its elements only (`ListingExists` shows that there is such a
    fold, by the least size for which there would be none).
  - `GoIsCovered`, with `Found`: only the audit decides and nothing it judges is written
    later, so what remains is a chain from a part's status to its issue
    (`PartsAreIssues`), from the issue to a rule and from a valid calendar to a rule whose
    date lies ahead (`NothingLeft`).  Score and gate need not be opened.
* `DevicesProofs`, for any machines whose writes are bytes: `ReadsWhatWasWritten` from
  `RegsInv`: at every place (a page of features, a queue, the device) and every word the
  driver's record is what the registers hold there (`Recorded`).  A write is taken by the
  word it goes to: `NoteIs` shows that the driver notes the word the device stores
  (`partialWrite32`), `SelectedIs` that the queue the device selects is the one at the
  driver's place, or none, and `KeepElsewhere` that no other byte of the record changes.
* `DevicesProofs` also holds `StreamsKept`, `StreamsInOrder` for the console, the network
  card, the entropy source, the input device and the serial port, with any chains, tables
  and memory, any queue size and any units per header and event.
  - `DriverAssumption` says what the driver owes a device: buffers it lends to be written
    overlap neither each other within a chain nor anything it sends (what a completion
    reported could otherwise be changed by the next), a frame has its header, and an
    event's buffer is one descriptor, in memory.  The last is needed: `fillEvent` takes
    an event from the queue before it copies it and drops it when the copy fails
    (`virtio_input.go:390` to `398`), where the console and the network card keep theirs.
    Buffers of the console and the card may lie outside memory, in part or altogether,
    and chains may loop, nest or be cut short.
  - The invariant is `StreamInv`: with `RegsInv` and the port's `PortOK`, `Flows`: what was
    fed is what the driver found and what still waits (`InOrder`), and what was sent is,
    piece by piece, what lies in the buffers that completions name (`SentOK`).  The
    second is not inductive alone: it needs that every completion names a chain the
    driver posted on that queue and no more units than it has (`Reported`), so that a
    buffer filled later leaves the piece alone (`PiecesStay`).
  - `Laid` lists the units of a chain in order, by descriptor; along it every transfer is a
    carried invariant of its recursive function (`RecursionAlong`): `ConsoleFills`,
    `NetFills`, `RandomFills`, `InputFills`, `ConsoleSends`, `NetSends`, `InputSends`.
    `FlattenConcat` makes `FlattenSeq` a homomorphism, for frames and events.
  - A reset drops what waits in the card or the input device, and `given` forgets just
    that; that the remaining events are those found is an argument about lengths
    (`EventsForgotten`).

Model-checked only: liveness (`ArmedTimerFires`, `SleeperWakes`, `StaleCallbacksDrain`,
`RequestsFinish`, the fairness half of `ImplementsRunner`), which the provers do not
reach, and two action properties of `Devices`.  `DeviceKeepsToChains` compares the walk
of a chain with `Meant`, a fold over a set whose order a proof would have to fix, and
`DiskKeepsWrites` follows each sector of a request of the disk through several
descriptors; both hold for drivers whose buffers do not overlap.

## 6. Not modelled

* Arithmetic of instructions, decoding, floating point: data without control
  that the properties would tell apart.
* virtio: contents of packets and pictures, bus errors on rings (the driver's rings are
  in DRAM), the avail event, which no device writes, `SetSeed`, and the counters and texts
  for display.  Wraps of `sector * 512` and of a pixel's offset, and display memory that
  overlaps the screen.
* The bytes of device tree, ELF and zip files: a conversion appears as what it says.
* rvsmoke: audit diff, changelog, checklist and trend (they decide nothing), printed
  templates, and the wording of reports.  Files an earlier run left that a later stage
  overwrites are indexed as they were, as `IndexMatchesDisk` says.
* Page tables in device registers that read as valid entries, such as the timer's
  compare registers: the walk would use them, and write accessed and dirty bits to them.
* The SBI table `hsmState`, console and fence calls.
* Symbols and DWARF, trace and profile, the interactive analyses of
  `internal/analyze`: read-outs that nothing reads back.
* The page's own script.

## 7. Plan

1. Proofs: `DeviceKeepsToChains` and `DiskKeepsWrites`, by the lemmas about `Laid`.
2. SBI hart states against `hsmState`; reseeding of the entropy device.
