# A verification of the ncpu32k emulator

`src/` is an instruction-level emulator of the ncpu32k, a 32-bit RISC core with
a privileged mode, software-managed TLBs, a timer, an interrupt controller and
one ATA disk. The repository has no tests and no documents; the comments in the
sources and the code itself are the reference. This directory holds TLA+ modules
that model it, TLC configurations that check them on small instances, and
theorems about them that TLAPS checks for every value of the constants.

## Inventory

| Component | Source | State | Operations | Correct when |
|---|---|---|---|---|
| Emulation loop, exceptions | `exec.c` | `cpu_pc`, PS bank of `msr` | one iteration: timer edge, interrupt poll, fetch, execute; `cpu_raise_exception`, SYSCALL, RET | exceptions lose nothing of the interrupted program; user code cannot gain privileges or escape the timer |
| Registers and arithmetic | `exec.c` | `cpu_regfile` | ALU, CMP, MHI, widening of loads | agrees with 32-bit arithmetic; r0 is zero |
| MSRs | `msr.c`, `ncpu32k-msr.h` | `msr` | WMSR, RMSR by index, packing of fields | written values read back; root mode only |
| Timer | `tsc.c` | TSR, TCR | edge, update of TCR | line in IRR agrees with TCR |
| Interrupt controller | `irqc.c` | IMR, IRR | set or withdraw a line, poll | enabled unmasked line taken before the next instruction |
| MMUs | `i-mmu.c`, `d-mmu.c` | ITLB, DTLB | translate: hit, miss, fault | accesses follow the page tables the kernel loads |
| Physical memory, MMIO | `memory-mmio.c` | RAM, three lists of ranges | read and write of 8, 16, 32 bits, registration | each device address has one handler; little-endian; the image arrives whole |
| ATA disk | `device-ata.c` | task file, buffer window, disk | register reads and writes, commands, soft reset | data transferred in order, one interrupt a block |
| Device tree | `device-tree.c` | - | creates the disk, gives it its addresses and its line | the ranges do not collide |
| Call trace | `trace-runtime-stack.c` | array of 8192 frames | call, return | mirrors the guest's call stack |
| Symbol table | `parse-symtable.c` | list | load, look up | finds the symbol of an address |
| Debug port, start-up, build | `debug.c`, `main-loop.c`, `Makefile` | - | host I/O | - |

How they interact. There is one host thread: `cpu_exec()` calls the timer, the
interrupt controller, the MMUs, the memory and the MSR file; the memory calls
device handlers; the timer and the disk set lines of IRR. Everything shared is
shared through `msr`. So there are no data races; what is hard is the *order*
inside an iteration and the interleaving of three parties that do not know of
each other: the program outside root mode, the kernel's handlers, and the
asynchronous events (timer, disk). An exception may strike between any two
instructions, and the core has one slot (EPC, EPSR, ELSA), not a stack, to
remember what it interrupted. TLB entries are two registers written by two
instructions. The timer's line is a second copy of two bits of TCR. `panic()`
ends the process; nothing is persisted, so there is no crash recovery.

## Modules

| Module | What it is |
|---|---|
| `Cpu` | the core: loop, exceptions, MSRs as the core uses them, timer, interrupt controller, MMUs |
| `CpuContext` | `Cpu` with a history variable for the saved context |
| `UserProgram` | abstract: what a program outside root mode may rely on |
| `UserMode` | `Cpu` under a kernel that refills TLBs and serves the timer; implements `UserProgram` |
| `Ata` | the disk controller under any guest |
| `PioTransfer` | abstract: what a driver may expect of the disk |
| `AtaDriver` | `Ata` under a driver that follows the protocol; implements `PioTransfer` |
| `System` | `Cpu` and `Ata` together, under a kernel with a timer tick and a disk driver |
| `WordFile` | abstract: numbered words that keep what is written |
| `Msr` | WMSR and RMSR as words, with packing and unpacking; implements `WordFile` |
| `Memory` | the RAM byte by byte, the lists of device ranges, and the dispatch of an access |
| `AtaIdentify` | the identification block that `dev_ata_init()` fills |
| `Startup` | `main()`: `Memory` with `AtaIdentify` before the registration |
| `Alu` | the register file, the arithmetic, and the jumps as they compute addresses |
| `CallTrace` | the call trace under any guest |
| `CallGuest` | `CallTrace` under a guest in call/return normal form |
| `Symtab` | the symbol table |
| `DebugAids` | `Symtab`, then `CallTrace` under either guest |
| `CpuProofs`, `ProgramProofs`, `AtaProofs`, `SystemProofs`, `MsrProofs`, `StartupProofs`, `AluProofs`, `CallTraceProofs` | the theorems: of `Cpu`; of `CpuContext` and `UserMode`; of `Ata` and `AtaDriver`; of `System`; of `Msr`; of `Memory` and `Startup`; of `Alu`; of `CallTrace` and `DebugAids` |
| `MCCpu`, `MCContext`, `MCUser`, `MCSystem`, `MCMsr`, `MCStartup`, `MCDebugAids` | instances for TLC (the others need only numbers, in their .cfg files) |

### Cpu

One iteration of the loop in `cpu_exec()` is three steps, named by `at`: `"tsc"`
(`tsc_clk()`: `TscOff`, `TscTick`), `"irq"` (`irqc_handle_irqs()`: `NoIrq`,
`TakeIrq`) and `"insn"` (translation, fetch and one opcode). Each opcode, or group
of opcodes with the same effect on the state below, is one action that includes
everything up to the end of the iteration. `"exited"` is the host process after
`panic()` or a fatal signal.

* `Raise` is `cpu_raise_exception()` *with* the `goto handle_exception` its comment
  demands: the vector minus one instruction, then the common increment, both
  modulo the address space.
* The guest's text is the constant `Image`: a *set* of instructions for each
  physical address. An instruction carries the values of its operands (a jump its
  target, a load its address, a WMSR its value). General registers and memory
  contents therefore need no state, self-modifying code is covered, and a
  theorem about `Cpu` holds for every guest.
* Words are numbers below `PAGE_SIZE * PAGE_COUNT`; `INSN_LEN`, the sizes of the
  TLBs, of TSR and of TCR.CNT, and the device lines are constants too. Named
  assumptions (`SizeAssumption`, `TimerAssumption`, `IrqAssumption`,
  `ImageAssumption`) say what the proofs need: the address space reaches beyond
  the last vector, TSR's period is a multiple of CNT's (2^32 and 2^28), the timer
  has a line of its own. The masks and shifts of the code (`va >> 13`,
  `vpn & 127`, `TSR & CNT_MASK`) become quotients and remainders; the code's
  values are the powers of two.
* An access to the device range may move a device's line or end the process; an
  access between the RAM and the devices is an out-of-bounds access of the host
  buffer (undefined behaviour): it ends the process or goes unnoticed, and a fetch
  there finds any instruction `Image` allows. A 32-bit fetch from a device
  always panics in the code.
* Left out: PSR's CY, OV, OE, ICAE, DCAE and the TLB entries' P, D, A, NC, S,
  which the emulator stores and never consults; the debug output.

Deviation worth knowing: RET is not a privileged instruction in the code. Outside
root mode it reloads PSR and PC from EPSR and EPC. The model has it so, and the
properties say what that means.

### CpuContext

`ctx` records, at each exception, where and with which PSR the interrupted
program has to continue; a RET or a write to the PS bank gives it up. The
properties compare it with EPC and EPSR, which the code computes.

### UserMode and UserProgram

`UserProgram` has a program counter, a condition flag, the last data access, and
page tables; no exceptions, no modes. `UserMode` is `Cpu` with a kernel of which
only this is asked: it does not leave root mode with a TLB entry that disagrees
with the page tables, starts the program at `ENTRY` with both MMUs on, and its
handlers neither write the PS bank nor trap. Which handlers, in which order they
write the halves of an entry, whether they refill at all, how they treat the
timer and the devices, is free. The refinement mapping shows the program at
`pc` outside root mode and at `epc` inside a handler. `UserProgram` gives the
program's own RET no more than a jump inside its address space.

### Ata, AtaDriver and PioTransfer

`Ata` has the task file, the window (`buf_base`, `buf_pos`, `buf_len`), DRV and
the line in IRR; each action is one access of a guest, split by the branches of the
handlers: `WriteDriverHead`, `SoftReset`, `ResetDone`, `WriteControl`,
`WriteTaskFile`, the commands, `ReadStatus`, and a data read that stays in its
block (`ReadWord`), ends the transfer (`ReadFinalWord`) or opens the next sector
(`ReadIntoNextSector`). A word of data is known by its place, so no contents are
needed. `buf_pos` is an `int` (`ToInt`): a sector number beyond the disk may make it
negative, and a read outside the buffer returns something or kills the host
(`ReadDataOutside`). 32-bit accesses, unknown registers and commands, and 16-bit
writes, for which the disk registers no handler, end in `panic()`; so WRITE SECTOR
can be started and never fed. RegError and RegFeature decide nothing and are left
out. The identification block is `AtaIdentify`'s.

The driver of `AtaDriver` is the guest's, external to the repository. It plans a
request, writes its registers in any order, issues the command, waits by interrupt
or by polling, reads the status once per interrupt and then a block, and may give up
at any point with a soft reset. `PioTransfer` knows ranges of words only; the
refinement says the words that arrive are those of the range, in order.

### System

`System` is the machine: `Cpu` unchanged, and `Ata` as an instance whose line is the
membership of `irq_ata` in `Cpu`'s IRR, so that timer and disk really rewrite one
word. Each load or store to a device address is one step of both. The kernel is a
text at fixed addresses (`KernelImage`), because what is asked is about the
*instructions* between which an edge may fall: its thread re-arms the timer with any
compare value or starts a read at any time, with the disk's line masked around the
register writes; its handler reads IRR once, acknowledges and serves the timer,
then the disk, and returns. `Taken` is the kernel's use of its registers.

The code gives a guest no way to acknowledge a timer expiry other than WMSR to TCR,
which writes P along with CNT and EN (`msr.c:132`): a thread that re-arms with P = 0
would lose an expiry that came since it last looked. The kernel of the model re-arms
with P = 1, which costs it a spurious interrupt and no tick; with that, nothing is lost.

`ReadInOrder` relates the two sides of a read: the registers the thread wrote, one
instruction each and interrupted at will, and the words that the handler takes, block by
block. The guards `head.L` and `InBuffer`, which would end the process, are always met.

### Msr and WordFile

A word is the set of its bits, so that masks, shifts and flags are what they are in
`ncpu32k-msr.h`. `msr` is `struct msr_s`: for each register the flags that are on and the
number in its field. `Wmsr` and `Rmsr` go through `Decode`, `Unpack` and `Pack`;
indices wrap as `msr_index_t` does, so that an instruction may reach any register.
The hardware's writes (exceptions, RET, the timer) are there too, and outside root
mode a WMSR is ignored and an RMSR answers 0. `WordFile` only says that a word is
read as it was last written, less the bits that have no storage.

### Memory, AtaIdentify and Startup

`phase` is where `main()` is. The image is loaded in chunks of any length that
`fread()` may return; the disk fills its block (`AtaIdentify`) and registers its
ranges; the guest's accesses then go, after a translation of their first byte, to
the RAM byte by byte (`Parts`) or to one handler. An access to the hole between RAM and
devices is past the end of `cpu_memory`: it dies or yields anything. Only one board
exists, the disk's (`AtaOffers`); `Boards` holds others as well, to see what the overlap
check lets through.

`AtaIdentify` copies the strings by the loop of `id16_fill_string()`, which tests every
other byte for the terminating 0 and so goes on behind a string of odd length.

### Alu

Words are numbers, `Signed` reads one as `int32_t`, and `Bits` is the set of the bits of
a word, of which AND, OR and XOR are the intersection, the union and the difference
(`Results` takes the word that has those bits). `Power` doubles, for the shifts. All operations of `exec.c` on registers
are there with the C semantics the build has: division truncates and traps on the
host, DIVU and MODU are DIV and MOD (the code has one body for both), a shift by the
word's width or more is undefined and gives any word. `last` is a history of the idioms the
properties are about.

### CallTrace, CallGuest, Symtab and DebugAids

`CallTrace` is what JMP, JMP_I and JMP_I_LNK tell `trace-runtime-stack.c` (`Record`), under
any guest. The comment there promises a useful trace only for programs in call/return
normal form without tasks; `CallGuest` is such a guest, with interrupts: `acts` is
its stack. `Symtab` takes the file as tokens, since `fscanf("%s%s%s")` ignores lines;
a file that ends inside a group leaves a symbol with what the group before it left
in the buffers. The table and the trace share no state, so the run of
`DebugAids` looks at tables and at guests one after the other (`MAX_RUN_TOKENS`).

## Runs

| Run | Instance | Shows | Distinct states |
|---|---|---|---|
| `cpu_timer` | `MCCpu`, arbitrary kernel and program around the timer; the program may start with an MMU on and no page of its own mapped | `TypeOK`, `TscIrqCoherent`, `InterruptBeforeInsn`, with fairness `UserPreempted` | 1,085,280 |
| `context_paging` | `MCContext`, both MMUs, one-entry TLBs, timer, device and hole, with the history | `SavedContext`, `NoAsyncNesting`, `Resumed`, `UserConfined` | 7,887,893 |
| `user_program` | `MCUser`, four pages, alias and read-only pages, a device page, refill handlers | `Carried`, `Transparent` (refinement) | 1,301,235 |
| `system_irq` | `MCSystem`, the machine under a kernel with tick and disk driver | `NoLostWakeup`, `ReadInOrder`, with fairness `Served` | 23,934 |
| `ata_guest` | `Ata`, one-bit registers, an `int` smaller than the sectors' range | `TypeOK`, `DriveCoherent` | 1,538,048 |
| `ata_driver` | `AtaDriver`, registers of three values, eleven sectors of two words | `InterruptMeansBlock`, `AddressFollowsData`, `Transfers` (refinement with fairness) | 3,416,382 |
| `ata_absent` | `Ata` | violates `AbsentDriveSilent` | - |
| `msr_words` | `MCMsr`, a register of each layout with fields, an index beyond 16 bits, a read-only and a debug register | `TypeOK`, `WordsKept` (refinement) | 28,859 |
| `msr_dtlbl` | the same | violates `DtlblKept` | - |
| `startup` | `MCStartup`, bytes of two values, five of RAM, three pages, fifteen boards | `TypeOK`, `ImageLoaded`, `OneSharedAddress`, `Addressable`, `ByteOrder`, `AlignedInFrame` | 136,710 |
| `alu` | `Alu`, words of three bits, three registers | `TypeOK`, `ConstantBuilt`, `SignRecovered`, `Division`, `ThereAndBack`, `CallReturns` | 175,792 |
| `debug_aids` | `MCDebugAids`, files of up to seven tokens, a trace of two frames | `DepthReflects`, `NormalFormTraced`, `LastDefinition` | 1,243,329 |

Where the code disagrees with itself. Two runs show it:

* with the absent drive 0 selected a data read consumes drive 1's data, though
  "DRIVER 0 is not presented" (`device-ata.c:306`, `:428`);
* RMSR of DTLBL returns 0 whatever was written, because `msr.c:315` leaves the switch
  where every other register returns its word ("MSR.DTLBL R/W", `ncpu32k-msr.h:122`).
  `WordsKept` leaves it out.

Others were met while modelling and are stated by passing properties or here only:

* the "sanity check" of registration (`memory-mmio.c:158`) compares strictly although
  ranges are inclusive; `OneSharedAddress` says exactly what gets through;
* under "Firmware revision (8 ASCII chars)" (`device-ata.c:160`) the string goes to word
  27 instead of 23, where the model number overwrites it, and the copy of the model
  number, of odd length, takes along what lies behind it (`:111`); `Addressable` says
  that the rest of the block survives this;
* bits 7 and 5 of the drive/head register, "hardcoded to 1" (`device-ata.c:231`), are
  stored as the guest writes them (`:272`);
* DIVU and MODU divide as signed numbers, and LDB and LDH do not extend the sign
  (`exec.c:292`, `:309`); `Division` and `SignRecovered` say what a guest may rely on.

Bounds and why they are enough. Instructions of the core are one address long (the code's
four bytes only scale the vectors). TSR has up to four values and CNT two (in
`system_irq` eighteen and nine, the length of a pass of the handler), so that TSR
wraps several times and the compare value is met more than once in a
wrap. TLBs have one entry: the look-up is direct-mapped, so two pages that share
an entry are all the interference there is. Two interrupt lines, the timer and
one device, are what the code has. In `cpu_timer` the kernel's text is *any* order
of privileged writes with both values of each flag, at three addresses; user text
is one address with every kind of instruction, so every interleaving of them
with timer edges occurs. In `context_paging` user text loads, stores, jumps, tries
privileged writes and traps into mapped, unmapped, forbidden, missing and device
addresses while handlers write any half of a TLB entry and the timer runs. In
`user_program` virtual pages 0 and 2 are the same frame with different rights and page
1 is the device, so a stale or untagged entry shows. In `system_irq` reads have two
or three sectors, and the timer is re-armed with four compare values, so that an edge falls between any two instructions of thread and handler.
In `ata_guest` any register takes any value at any time and half of the sector
numbers overflow. In `ata_driver` requests have one to three
sectors, so that there is a first, a middle and a last one, three sectors are named
by a count of 0, and the sector number carries into both cylinder registers. In
`msr_words` one word written has every bit set but PSR.RM's, the reserved ones included,
and one the bits at both ends of every group of four; registers of the same layout
differ by their index only. In `startup` the RAM is one page and a byte, so that accesses cross from page to page, into the hole,
out of it into the devices, and over the end of a device's range; two ranges lie in
any way to each other. In `alu` every pair of words is an operand; three bits have a
most negative word without opposite, and displacements in both directions wrap. In
`debug_aids` the trace is full after two calls, activations nest four deep, and any
number of the tokens of a group may be missing. Every
property has a mutant of the code (the definitions commented "Mutant of") under which
the same run reports it violated.

Fairness. `Cpu!Spec` assumes weak fairness of `Next` only: the host runs the
`for(;;)` of its single thread. No fairness among the guest's instructions is
assumed: the program may choose the worst order for ever. `UserPreempted` needs
no more, since the timer's edge is part of each iteration. `System!SSpec` has the same
fairness and no other: that every read completes follows from the kernel's text and
the interrupts, though its thread may do as it likes.

`AtaDriver!DSpec` assumes weak fairness of `ServeInterrupt`, `Poll` and `Take`: a
driver whose interrupt is raised, whose status asks for data, or which is in the
middle of a block goes on (`System` and the loop of the host give it the
processor). Nothing is assumed of starting or giving up requests, and the disk,
which only reacts, needs no fairness. The other modules have safety properties only.

No run disables the deadlock check: after `panic()` the models stutter (`Exited`).

## Proofs

All with TLAPS, for every value of the constants that satisfies the named
assumptions.

| Theorem | Says | Argument |
|---|---|---|
| `TypeCorrect` | `Spec => []TypeOK` | inductive; one lemma per group of actions, on `VectorEntry` (the vector arithmetic), `FetchedType` (only instructions of `Image` run) and `InsnFields` |
| `TimerLineCoherent` | `Spec => []TscIrqCoherent` | every action that changes P or I ends in `UpdateTcr`; no device has the timer's line |
| `InterruptTaken` | `Spec => []InterruptBeforeInsn` | only `NoIrq` leads to `"insn"` |
| `UserIsConfined` | `Spec => UserConfined` | step by step, from `TypeOK` |
| `ContextIsSaved` | `CSpec => []SavedContext` | inductive with `TypeOK`: the part that says interrupts and MMUs are off is what makes the rest survive |
| `NoNestingUnasked` | `CSpec => NoAsyncNesting` | from `SavedContext`: each asynchronous exception needs one of the flags that are off |
| `ProgramResumed` | `CSpec => Resumed` | from `SavedContext` |
| `ProgramCarried` | `USpec => []Carried` | the inductive invariant of the refinement: EPSR always describes a program once one was started, handlers run with interrupts and MMUs off, and outside root mode the TLBs agree with the page tables |
| `CoreImplementsUserProgram` | `USpec => Transparent` | step simulation from `TypeOK` and `Carried`: exceptions, handlers and RET from a handler stutter, each completed instruction is a step, `SYSCALL` a step when it traps |
| `AtaProofs!TypeCorrect` | `Spec => []TypeOK` of `Ata` | inductive; `IntRange` for the conversions to `int`, `Digits` for `set_sector()` |
| `DriveSelected` | `Spec => []DriveCoherent` | the two places that rewrite RegDriverHead alone keep bit 4 |
| `NoInterruptLost` | `DSpec => []InterruptMeansBlock` | part of `DriverInv`, below |
| `AddressesFollow` | `DSpec => []AddressFollowsData` | from `WindowFollowsJob` and, for the carries, `RegistersNameJob` with `SectorDigits` |
| `WordsInOrder` | `DSpec => Pio!Init /\ [][Pio!Next]_(Pio!vars)` | step simulation from `DriverInv`: a command that is issued starts a transfer, a word that is taken delivers one, a soft reset gives up, all else stutters |
| `ComponentsKept` | `SSpec => Init /\ [][Next]_vars /\ Disk!Spec` | each step of the machine is a step or a stutter of `Cpu` and of `Ata`, IRR being shared |
| `WakeupsKept` | `SSpec => []NoLostWakeup` | from `SystemInv`, below, and `TscIrqCoherent` |
| `ReadsKeepOrder` | `SSpec => []ReadInOrder` | from `SystemInv`: its window is the rest of the sectors that the thread named |
| `CoreInherited` | `SSpec => [](TypeOK /\ TscIrqCoherent /\ InterruptBeforeInsn)` | from `ComponentsKept` and the steps proved for `Cpu` |
| `RegistersFit` | `Spec => []TypeOK` of `Msr` | `MsrInv`: what `Unpack` leaves fits its layout; the hardware's writes one by one |
| `RegistersAreWords` | `Spec => WordsKept` | step simulation: `PackAfterUnpack` gives back the bits with storage, `DecodeDocumented` and `RegisterKey` that two indices are two registers |
| `StartupImplementsMemory` | `StartupSpec => Spec` of `Memory` | step simulation: the disk's steps stutter; it carries the next five over to start-up |
| `RamHoldsImage` | `StartupSpec => []ImageLoaded` | inductive: the RAM is the part of the image read so far (`ChunkExtends`) |
| `RangesShareOneAddress` | `StartupSpec => []OneSharedAddress` | inductive: `AcceptedShareEnd` for two ranges, `RegisterApart` for a range in front of the list |
| `MemoryTyped` | `StartupSpec => []TypeOK` of `Memory` | inductive: a word is put together from bytes and taken apart into bytes |
| `BytesOrdered` | `StartupSpec => ByteOrder` | step by step: the digits of a number in base `BYTE` are unique, so each load gives what was stored |
| `AccessesFramed` | `StartupSpec => AlignedInFrame` | step by step: page and RAM bounds are multiples of 4 |
| `DiskAddressable` | `StartupSpec => []Addressable` | `BlockInv`: how far the copy of each string may have come, and what the words behind hold |
| `RegistersHoldWords` | `Spec => []TypeOK` of `Alu` | part of `AluInv`, below |
| `ConstantsBuilt` | `Spec => []ConstantBuilt` | the bits of a multiple of a power of two and of a number below it are disjoint, and their union is the sum |
| `SignsRecovered` | `Spec => []SignRecovered` | shifts as products and quotients by powers |
| `DivisionsTruncate` | `Spec => []Division` | the remainder of C from the one of the magnitudes; the two operands that trap are the only ones whose quotient is no word |
| `JumpsOpposite` | `Spec => []ThereAndBack` | two displacements that add up to the width of the field extend to opposite numbers |
| `CallsReturn` | `Spec => []CallReturns` | `Linked`: the register still holds the link |
| `TraceDepthReflects` | `Spec => []DepthReflects` of `CallTrace` | inductive once the least balance is known to be at most 0; a call, a return and every other instruction in a lemma each |
| `TraceDepthInterrupted` | `AidsSpec => []DepthReflects` | the same invariant, under the guest with interrupts and while the symbols are loaded |
| `NormalFormMirrored` | `AidsSpec => []NormalFormTraced` | `GuestInv`, below |
| `LastDefinitionFound` | `AidsSpec => []LastDefinition` | `SymbolInv`, below |

The inductive invariants, where the property itself is not one:

* `DriverInv` (the disk under its driver): the registers named so far are the
  request's (`RegistersNameJob`), a driver that polls gets no interrupt
  (`PolledSilent`), and the window is the part of the request that is left, with the
  task file naming the sector it is in (`WindowFollowsJob`). Without the last, a command
  could find a window of another one.
* `SystemInv` (the machine): at which instruction of its text the kernel is, with which
  PSR and mask, and where the handler will return to (`Where`); an expiry is
  pending, or the handler that serves it is before the instruction that does
  (`TimerServed`); while the thread writes the registers they name its request
  (`ReadNamed`); the window holds the words the kernel counts (`WindowLeft`), the last ones of
  the sectors it asked for (`ReadPlaced`); while words are left, the
  disk's line is raised or the handler is reading the block (`BlockServed`).
* `GuestInv` (call/return normal form): the depth is the number of calls among the
  activations, the frame of each names the address it will return to (`LinksTrue`), a
  handler keeps the link register at once, and nothing but a handler runs on top of a
  function that has not stored its own (`LinkKept`).
* `SymbolInv`: each group of three tokens read so far is an entry of the list, newest
  first (`Tabled`), and the buffers hold what was read last (`Buffered`); a look-up is
  then a statement about the first match of a sequence.
* `AluInv`: what the first instruction of each idiom leaves for the second (`Upper`,
  `Part`, `There`, `Linked`).

What a recursive function yields for every number (`Power`, the bits of a word) is proved
by induction over a *set*: `AluProofs!Induction` says that a set with 0 and all successors
is `Nat`, from the least element that well-foundedness gives (`WFMin`).

The assumptions say of the code's constants what the code has, with its numbers as one
case: PAGE_SIZE and the address space are multiples of what they are divided into
(`PageAssumption`); every sector has a 28-bit number (`LbaAssumption`); the model's name
fits its 40 bytes and the disk has whole cylinders, at most 65535 (`StringAssumption`,
`DiskAssumption` of `Startup`); the link register is not register 0 (`WidthAssumption`,
`TraceAssumption`). What is assumed of a guest is said where the guest is modelled:
`KernelAssumption` that the image is `System`'s kernel, at addresses below the ports, and
`GuestAssumption` that functions and handler have addresses.

Only model-checked: `UserPreempted`, `Served` and the fairness part of `Transfers`.
Liveness under fairness is out of the prover's reach. Every other property of a
passing run is proved.

## Plan

Every component is modelled as far as it has behaviour, and every safety property
of a passing run is proved. What could still be added:

1. Lemmas that several modules state for themselves (division, sequences) in one module.
2. The writing commands of the disk in `AtaDriver`: the code accepts them and has no
   handler for the data, so that a driver's write ends in `panic()`.
3. A guest of `System` with the MMUs on, so that `Transparent` is stated of the machine too.

## Not modelled

The debug port (`debug.c`), the text of messages and the printing of the call trace: output.
The command line, files that cannot be opened, symbols that do not fit their buffer
and the Makefile. In the MSRs and the TLB entries, the flags that the emulator
stores and never consults (PSR's CY, OV, OE, ICAE, DCAE, the entries' P, D, A, NC,
S) appear in `Msr` only; in the disk RegError and RegFeature, which decide nothing, not at all.
