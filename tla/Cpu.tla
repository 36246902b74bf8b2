-------------------------------- MODULE Cpu --------------------------------
(***************************************************************************)
(* The ncpu32k core: the emulation loop of exec.c with its exceptions, the *)
(* privileged state of msr.c, the timer of tsc.c, the interrupt controller *)
(* of irqc.c and the two MMUs of i-mmu.c and d-mmu.c.                      *)
(*                                                                         *)
(* One iteration of the loop in cpu_exec() is three steps, named by `at':  *)
(* the timer edge ("tsc"), the interrupt poll ("irq") and the fetch and    *)
(* execution of one instruction ("insn").  "exited" is the host process    *)
(* after panic().                                                          *)
(*                                                                         *)
(* The guest's text is the constant Image: the instructions that may be    *)
(* found at each physical address.  An instruction carries the values its  *)
(* operands have when it runs (a jump its target, a load its address, a    *)
(* WMSR its value), so that general registers need no state here and the   *)
(* model covers every guest that draws its instructions from Image.        *)
(***************************************************************************)
EXTENDS Integers

CONSTANTS
  PAGE_SIZE,      \* bytes of a page: 2^13 (VPN_SHIFT, PPN_SHIFT)
  PAGE_COUNT,     \* pages of the 32-bit address space: 2^19
  INSN_LEN,       \* bytes of an instruction: 4
  ITLB_COUNT,     \* entries of the instruction TLB: immu_tlb_count = 128
  DTLB_COUNT,     \* entries of the data TLB: dmmu_tlb_count = 128
  MEMORY_SIZE,    \* bytes of RAM, from address 0: 32 MB
  MMIO_PHY_BASE,  \* first physical address that belongs to devices
  TSR_PERIOD,     \* values of the counter TSR: 2^32
  CNT_PERIOD,     \* values of the compare field TCR.CNT: 2^28
  IRQ_TSC,        \* interrupt line of the timer: 0
  DeviceIrqs,     \* interrupt lines of the devices: {3}, the ATA disk
  RESET_VECT,     \* where main() makes the core start
  Image           \* the instructions each physical address may hold

ADDR_SPACE == PAGE_SIZE * PAGE_COUNT
Word == 0 .. (ADDR_SPACE - 1)
PageNumber == 0 .. (PAGE_COUNT - 1)
Irq == {IRQ_TSC} \cup DeviceIrqs

(* The exception vectors, one instruction slot each.                       *)
VECT_EINSN    == 1 * INSN_LEN
VECT_EIRQ     == 2 * INSN_LEN
VECT_ESYSCALL == 3 * INSN_LEN
VECT_EIPF     == 5 * INSN_LEN
VECT_EDPF     == 6 * INSN_LEN
VECT_EITM     == 7 * INSN_LEN
VECT_EDTM     == 8 * INSN_LEN

(***************************************************************************)
(* Model-specific registers.  Flags the emulator only stores (CY, OV, OE,  *)
(* ICAE, DCAE of the PSR; P, D, A, NC, S of a TLB entry) are left out.     *)
(***************************************************************************)
Psr   == [CC : BOOLEAN, RM : BOOLEAN, IRE : BOOLEAN, IMME : BOOLEAN, DMME : BOOLEAN]
Tcr   == [CNT : 0 .. (CNT_PERIOD - 1), EN : BOOLEAN, I : BOOLEAN, P : BOOLEAN]
Tsr   == 0 .. (TSR_PERIOD - 1)
TlbL  == [V : BOOLEAN, VPN : PageNumber]
ItlbH == [UX : BOOLEAN, RX : BOOLEAN, PPN : PageNumber]
DtlbH == [UW : BOOLEAN, UR : BOOLEAN, RW : BOOLEAN, RR : BOOLEAN, PPN : PageNumber]
ISlots == 0 .. (ITLB_COUNT - 1)
DSlots == 0 .. (DTLB_COUNT - 1)

(***************************************************************************)
(* Instructions.  "next" stands for every opcode whose effect is confined  *)
(* to the general registers (the ALU, MHI, BARR, VENTER, VLEAVE);          *)
(* "invalid" for an opcode or a CMP attribute the switch does not know;    *)
(* "panic" for one the host does not survive (a register index above 31, a *)
(* division by zero, a call deeper than the call trace).  A WMSR to "DBGR" *)
(* stands for the debug ports, to "CACHE" for ICINV, ICFLS, DCINV and      *)
(* DCFLS, to "UNDEF" for any other index.                                  *)
(***************************************************************************)
Insn ==
       [op : {"next", "syscall", "ret", "invalid", "panic"}]
  \cup [op : {"jump", "bt", "bf"}, to : Word]
  \cup [op : {"cmp"}, cc : BOOLEAN]
  \cup [op : {"load", "store"}, va : Word]
  \cup [op : {"rmsr"}, known : BOOLEAN]
  \cup [op : {"wmsr"}, reg : {"PSR", "EPSR"}, val : Psr]
  \cup [op : {"wmsr"}, reg : {"EPC", "ELSA"}, val : Word]
  \cup [op : {"wmsr"}, reg : {"TSR"}, val : Tsr]
  \cup [op : {"wmsr"}, reg : {"TCR"}, val : Tcr]
  \cup [op : {"wmsr"}, reg : {"IMR"}, val : SUBSET Irq]
  \cup [op : {"wmsr"}, reg : {"ITLBL"}, slot : ISlots, val : TlbL]
  \cup [op : {"wmsr"}, reg : {"ITLBH"}, slot : ISlots, val : ItlbH]
  \cup [op : {"wmsr"}, reg : {"DTLBL"}, slot : DSlots, val : TlbL]
  \cup [op : {"wmsr"}, reg : {"DTLBH"}, slot : DSlots, val : DtlbH]
  \cup [op : {"wmsr"}, reg : {"DBGR", "CACHE", "UNDEF"}]

ASSUME SizeAssumption ==
  /\ PAGE_SIZE \in Nat \ {0} /\ PAGE_COUNT \in Nat \ {0}
  /\ INSN_LEN \in Nat \ {0} /\ VECT_EDTM \in Word
  /\ ITLB_COUNT \in Nat \ {0} /\ DTLB_COUNT \in Nat \ {0}
  /\ MMIO_PHY_BASE \in Word /\ MEMORY_SIZE \in 0 .. MMIO_PHY_BASE
  /\ RESET_VECT \in Word
ASSUME TimerAssumption ==
  /\ CNT_PERIOD \in Nat \ {0} /\ TSR_PERIOD \in Nat \ {0}
  /\ TSR_PERIOD % CNT_PERIOD = 0
ASSUME IrqAssumption == IRQ_TSC \notin DeviceIrqs
ASSUME ImageAssumption == Image \in [Word -> SUBSET Insn]

VARIABLES
  pc,     \* cpu_pc
  at,     \* where cpu_exec() is in its loop
  psr,    \* msr.PSR
  epsr,   \* msr.EPSR
  epc,    \* msr.EPC
  elsa,   \* msr.ELSA
  itlbl,  \* msr.ITLBL
  itlbh,  \* msr.ITLBH
  dtlbl,  \* msr.DTLBL
  dtlbh,  \* msr.DTLBH
  tsr,    \* msr.TSR
  tcr,    \* msr.TCR
  imr,    \* msr.IMR, the set of masked lines
  irr     \* msr.IRR, the set of asserted lines

loopVars == <<pc, at>>
psVars   == <<psr, epsr, epc, elsa>>
immVars  == <<itlbl, itlbh>>
dmmVars  == <<dtlbl, dtlbh>>
tscVars  == <<tsr, tcr>>
irqVars  == <<imr, irr>>
vars == <<loopVars, psVars, immVars, dmmVars, tscVars, irqVars>>

ResetPsr ==
  [CC |-> FALSE, RM |-> TRUE, IRE |-> FALSE, IMME |-> FALSE, DMME |-> FALSE]

(* cpu_reset(): the MSRs are cleared and only PSR.RM is set.               *)
Init ==
  /\ pc = RESET_VECT /\ at = "tsc"
  /\ psr = ResetPsr /\ epsr = [ResetPsr EXCEPT !.RM = FALSE]
  /\ epc = 0 /\ elsa = 0
  /\ itlbl = [s \in ISlots |-> [V |-> FALSE, VPN |-> 0]]
  /\ itlbh = [s \in ISlots |-> [UX |-> FALSE, RX |-> FALSE, PPN |-> 0]]
  /\ dtlbl = [s \in DSlots |-> [V |-> FALSE, VPN |-> 0]]
  /\ dtlbh = [s \in DSlots |-> [UW |-> FALSE, UR |-> FALSE, RW |-> FALSE, RR |-> FALSE, PPN |-> 0]]
  /\ tsr = 0
  /\ tcr = [CNT |-> 0, EN |-> FALSE, I |-> FALSE, P |-> FALSE]
  /\ imr = {} /\ irr = {}

-----------------------------------------------------------------------------
(* Helpers.                                                                *)

(* `cpu_pc += INSN_LEN' under the label handle_exception.                  *)
NextPc(addr) == (addr + INSN_LEN) % ADDR_SPACE

(* Mutant of SetInterrupt: withdraws the whole word.                       *)
SetInterruptClear(lines, line, raise) == IF raise THEN lines \cup {line} ELSE {}

(* irqc_set_interrupt(): the lines after `line' is raised or withdrawn.    *)
SetInterrupt(lines, line, raise) ==
  IF raise THEN lines \cup {line} ELSE lines \ {line}

(* Mutant of UpdateTcr: raises the line and never withdraws it.            *)
UpdateTcrNoWithdraw(lines, t) == IF t.P /\ t.I THEN lines \cup {IRQ_TSC} ELSE lines

(* tsc_update_tcr(): the lines after TCR became `t'.                       *)
UpdateTcr(lines, t) == SetInterrupt(lines, IRQ_TSC, t.P /\ t.I)

(* Mutant of Pending: reads IMR as the set of enabled lines.               *)
PendingEnableMask == psr.IRE /\ irr \cap imr # {}

(* Mutant of Pending: waits for every asserted line to be unmasked.        *)
PendingAllUnmasked == psr.IRE /\ irr # {} /\ irr \cap imr = {}

(* The condition of irqc_handle_irqs().                                    *)
Pending == psr.IRE /\ irr \ imr # {}

(* Mutant of Raise: takes the copy of the PSR after setting up the new one. *)
RaiseLateSave(vector, lsa, syscall) ==
  /\ epc' = IF syscall THEN (pc + INSN_LEN) % ADDR_SPACE ELSE pc
  /\ elsa' = lsa
  /\ epsr' = [psr EXCEPT !.RM = TRUE, !.IMME = FALSE, !.DMME = FALSE, !.IRE = FALSE]
  /\ psr' = epsr'
  /\ pc' = NextPc((vector - INSN_LEN) % ADDR_SPACE)
  /\ at' = "tsc"
  /\ UNCHANGED <<immVars, dmmVars, tscVars, irqVars>>

(* Mutant of Raise: the handler starts with the data MMU still on.         *)
RaiseKeepDmme(vector, lsa, syscall) ==
  /\ epc' = IF syscall THEN (pc + INSN_LEN) % ADDR_SPACE ELSE pc
  /\ elsa' = lsa
  /\ epsr' = psr
  /\ psr' = [psr EXCEPT !.RM = TRUE, !.IMME = FALSE, !.IRE = FALSE]
  /\ pc' = NextPc((vector - INSN_LEN) % ADDR_SPACE)
  /\ at' = "tsc"
  /\ UNCHANGED <<immVars, dmmVars, tscVars, irqVars>>

(***************************************************************************)
(* cpu_raise_exception() followed by the `goto handle_exception' that      *)
(* every caller owes: the handler's address is entered one instruction     *)
(* early and advanced by the common exit of the switch.                    *)
(***************************************************************************)
Raise(vector, lsa, syscall) ==
  /\ epc' = IF syscall THEN (pc + INSN_LEN) % ADDR_SPACE ELSE pc
  /\ elsa' = lsa
  /\ epsr' = psr
  /\ psr' = [psr EXCEPT !.RM = TRUE, !.IMME = FALSE, !.DMME = FALSE, !.IRE = FALSE]
  /\ pc' = NextPc((vector - INSN_LEN) % ADDR_SPACE)
  /\ at' = "tsc"
  /\ UNCHANGED <<immVars, dmmVars, tscVars, irqVars>>

(* panic(): the emulator's process exits.                                  *)
Panic ==
  /\ at' = "exited"
  /\ UNCHANGED <<pc, psVars, immVars, dmmVars, tscVars, irqVars>>

(* The instruction ends with the core at `addr'.                           *)
Retire(addr) == pc' = addr /\ at' = "tsc"

(***************************************************************************)
(* immu_translate_vma() and dmmu_translate_vma(): direct-mapped look-up,   *)
(* permission by mode, and the physical address.                           *)
(***************************************************************************)
Vpn(va) == va \div PAGE_SIZE
ISlot(va) == Vpn(va) % ITLB_COUNT
DSlot(va) == Vpn(va) % DTLB_COUNT

IHit(va) == itlbl[ISlot(va)].V /\ itlbl[ISlot(va)].VPN = Vpn(va)
IMay(va) == IF psr.RM THEN itlbh[ISlot(va)].RX ELSE itlbh[ISlot(va)].UX
IMiss(va)  == psr.IMME /\ ~IHit(va)
IFault(va) == psr.IMME /\ IHit(va) /\ ~IMay(va)
IPa(va) == IF psr.IMME
           THEN itlbh[ISlot(va)].PPN * PAGE_SIZE + (va % PAGE_SIZE)
           ELSE va

(* Mutant of DHit: does not compare the tag.                               *)
DHitUntagged(va) == dtlbl[DSlot(va)].V

DHit(va) == dtlbl[DSlot(va)].V /\ dtlbl[DSlot(va)].VPN = Vpn(va)
DMay(va, store) ==
  LET h == dtlbh[DSlot(va)]
  IN  IF psr.RM THEN IF store THEN h.RW ELSE h.RR
                ELSE IF store THEN h.UW ELSE h.UR
DMiss(va)         == psr.DMME /\ ~DHit(va)
DFault(va, store) == psr.DMME /\ DHit(va) /\ ~DMay(va, store)
DPa(va) == IF psr.DMME
           THEN dtlbh[DSlot(va)].PPN * PAGE_SIZE + (va % PAGE_SIZE)
           ELSE va
-----------------------------------------------------------------------------
(* The top of the loop: tsc_clk(), then irqc_handle_irqs().                *)

TscOff ==
  /\ at = "tsc" /\ ~tcr.EN
  /\ at' = "irq"
  /\ UNCHANGED <<pc, psVars, immVars, dmmVars, tscVars, irqVars>>

TscExpired == tcr.I /\ tsr % CNT_PERIOD = tcr.CNT

(* Mutant of TsrAfterEdge: a counter wider than its word.                  *)
TsrAfterEdgeWide == tsr + 1

(* `++msr.TSR' on a 32-bit word.                                           *)
TsrAfterEdge == (tsr + 1) % TSR_PERIOD

TscTick ==
  /\ at = "tsc" /\ tcr.EN
  /\ IF TscExpired
     THEN /\ tcr' = [tcr EXCEPT !.P = TRUE]
          /\ irr' = UpdateTcr(irr, tcr')
     ELSE UNCHANGED <<tcr, irr>>
  /\ tsr' = TsrAfterEdge
  /\ at' = "irq"
  /\ UNCHANGED <<pc, psVars, immVars, dmmVars, imr>>

NoIrq ==
  /\ at = "irq" /\ ~Pending
  /\ at' = "insn"
  /\ UNCHANGED <<pc, psVars, immVars, dmmVars, tscVars, irqVars>>

TakeIrq ==
  /\ at = "irq" /\ Pending
  /\ Raise(VECT_EIRQ, 0, FALSE)
-----------------------------------------------------------------------------
(* Instruction fetch.                                                      *)

FetchMiss  == at = "insn" /\ IMiss(pc) /\ Raise(VECT_EITM, pc, FALSE)
FetchFault == at = "insn" /\ IFault(pc) /\ Raise(VECT_EIPF, pc, FALSE)

(* The fetch reaches a physical address.                                   *)
Mapped == at = "insn" /\ ~IMiss(pc) /\ ~IFault(pc)

(* phy_readm32() from the device range ends in a panic: no device serves   *)
(* 32-bit reads.  Between the RAM and the devices it reads beyond the      *)
(* buffer cpu_memory: the process dies, or any word is found there.        *)
FetchOutside == Mapped /\ IPa(pc) >= MEMORY_SIZE /\ Panic

(* The instructions phy_readm32() may return.                              *)
Fetched == IF Mapped /\ IPa(pc) < MMIO_PHY_BASE THEN Image[IPa(pc)] ELSE {}
-----------------------------------------------------------------------------
(* The opcodes; `i' is the fetched instruction.                            *)

(* ALU, MHI, BARR, VENTER, VLEAVE.                                         *)
Plain(i) ==
  /\ i.op = "next"
  /\ Retire(NextPc(pc))
  /\ UNCHANGED <<psVars, immVars, dmmVars, tscVars, irqVars>>

(* JMP, JMP_I, JMP_I_LNK.                                                  *)
Jump(i) ==
  /\ i.op = "jump"
  /\ Retire(i.to)
  /\ UNCHANGED <<psVars, immVars, dmmVars, tscVars, irqVars>>

Cmp(i) ==
  /\ i.op = "cmp"
  /\ psr' = [psr EXCEPT !.CC = i.cc]
  /\ Retire(NextPc(pc))
  /\ UNCHANGED <<epsr, epc, elsa, immVars, dmmVars, tscVars, irqVars>>

(* BT, BF.                                                                 *)
Branch(i) ==
  /\ i.op \in {"bt", "bf"}
  /\ Retire(IF psr.CC = (i.op = "bt") THEN i.to ELSE NextPc(pc))
  /\ UNCHANGED <<psVars, immVars, dmmVars, tscVars, irqVars>>

(***************************************************************************)
(* LDWU, LDB, LDBU, LDH, LDHU, STW, STB, STH.  An access to the device     *)
(* range runs a handler that may move its own interrupt line or panic; one *)
(* beyond the RAM leaves the buffer cpu_memory, unnoticed or fatally.      *)
(***************************************************************************)
Access(i) ==
  /\ i.op \in {"load", "store"}
  /\ ~DMiss(i.va) /\ ~DFault(i.va, i.op = "store")
  /\ \/ irr' = irr
     \/ /\ DPa(i.va) >= MMIO_PHY_BASE
        /\ \E line \in DeviceIrqs, raise \in BOOLEAN :
             irr' = SetInterrupt(irr, line, raise)
  /\ Retire(NextPc(pc))
  /\ UNCHANGED <<psVars, immVars, dmmVars, tscVars, imr>>

AccessPanic(i) ==
  /\ i.op \in {"load", "store"}
  /\ ~DMiss(i.va) /\ ~DFault(i.va, i.op = "store")
  /\ DPa(i.va) >= MEMORY_SIZE
  /\ Panic

AccessMiss(i) ==
  /\ i.op \in {"load", "store"} /\ DMiss(i.va)
  /\ Raise(VECT_EDTM, i.va, FALSE)

AccessFault(i) ==
  /\ i.op \in {"load", "store"} /\ DFault(i.va, i.op = "store")
  /\ Raise(VECT_EDPF, i.va, FALSE)

Syscall(i) == i.op = "syscall" /\ Raise(VECT_ESYSCALL, 0, TRUE)

InvalidInsn(i) == i.op = "invalid" /\ Raise(VECT_EINSN, pc, FALSE)

(* Mutant of Ret: the condition flag of the handler survives.              *)
RetKeepCC(i) ==
  /\ i.op = "ret"
  /\ psr' = [epsr EXCEPT !.CC = psr.CC]
  /\ Retire(epc)
  /\ UNCHANGED <<epsr, epc, elsa, immVars, dmmVars, tscVars, irqVars>>

Ret(i) ==
  /\ i.op = "ret"
  /\ psr' = epsr
  /\ Retire(epc)
  /\ UNCHANGED <<epsr, epc, elsa, immVars, dmmVars, tscVars, irqVars>>

(* RMSR; an index rmsr() does not know panics in root mode only.           *)
Rmsr(i) ==
  /\ i.op = "rmsr" /\ (i.known \/ ~psr.RM)
  /\ Retire(NextPc(pc))
  /\ UNCHANGED <<psVars, immVars, dmmVars, tscVars, irqVars>>

HostPanic(i) ==
  /\ \/ i.op = "panic"
     \/ i.op = "rmsr" /\ psr.RM /\ ~i.known
     \/ i.op = "wmsr" /\ psr.RM /\ i.reg = "UNDEF"
  /\ Panic

(* A WMSR to a debug port, to a cache register, or outside root mode.      *)
WmsrNop(i) ==
  /\ i.op = "wmsr" /\ (i.reg \in {"DBGR", "CACHE"} \/ ~psr.RM)
  /\ Retire(NextPc(pc))
  /\ UNCHANGED <<psVars, immVars, dmmVars, tscVars, irqVars>>

(* The value of register `reg' after the write `i'.                        *)
Written(i, reg, old) == IF i.reg = reg THEN i.val ELSE old

WmsrPS(i) ==
  /\ i.op = "wmsr" /\ psr.RM /\ i.reg \in {"PSR", "EPSR", "EPC", "ELSA"}
  /\ psr'  = Written(i, "PSR", psr)
  /\ epsr' = Written(i, "EPSR", epsr)
  /\ epc'  = Written(i, "EPC", epc)
  /\ elsa' = Written(i, "ELSA", elsa)
  /\ Retire(NextPc(pc))
  /\ UNCHANGED <<immVars, dmmVars, tscVars, irqVars>>

(* The two halves of a TLB entry are two registers, written one at a time. *)
WmsrIMM(i) ==
  /\ i.op = "wmsr" /\ psr.RM /\ i.reg \in {"ITLBL", "ITLBH"}
  /\ itlbl' = IF i.reg = "ITLBL" THEN [itlbl EXCEPT ![i.slot] = i.val] ELSE itlbl
  /\ itlbh' = IF i.reg = "ITLBH" THEN [itlbh EXCEPT ![i.slot] = i.val] ELSE itlbh
  /\ Retire(NextPc(pc))
  /\ UNCHANGED <<psVars, dmmVars, tscVars, irqVars>>

WmsrDMM(i) ==
  /\ i.op = "wmsr" /\ psr.RM /\ i.reg \in {"DTLBL", "DTLBH"}
  /\ dtlbl' = IF i.reg = "DTLBL" THEN [dtlbl EXCEPT ![i.slot] = i.val] ELSE dtlbl
  /\ dtlbh' = IF i.reg = "DTLBH" THEN [dtlbh EXCEPT ![i.slot] = i.val] ELSE dtlbh
  /\ Retire(NextPc(pc))
  /\ UNCHANGED <<psVars, immVars, tscVars, irqVars>>

WmsrTSC(i) ==
  /\ i.op = "wmsr" /\ psr.RM /\ i.reg \in {"TSR", "TCR"}
  /\ tsr' = Written(i, "TSR", tsr)
  /\ tcr' = Written(i, "TCR", tcr)
  /\ irr' = IF i.reg = "TCR" THEN UpdateTcr(irr, tcr') ELSE irr
  /\ Retire(NextPc(pc))
  /\ UNCHANGED <<psVars, immVars, dmmVars, imr>>

(* Mutant of WmsrIRQC: forgets the check of PSR.RM.                        *)
WmsrIRQCUnchecked(i) ==
  /\ i.op = "wmsr" /\ i.reg = "IMR"
  /\ imr' = i.val
  /\ Retire(NextPc(pc))
  /\ UNCHANGED <<psVars, immVars, dmmVars, tscVars, irr>>

WmsrIRQC(i) ==
  /\ i.op = "wmsr" /\ psr.RM /\ i.reg = "IMR"
  /\ imr' = i.val
  /\ Retire(NextPc(pc))
  /\ UNCHANGED <<psVars, immVars, dmmVars, tscVars, irr>>
-----------------------------------------------------------------------------
(***************************************************************************)
(* The steps, by what they do to the context an exception saved: replace   *)
(* it (Exception), consume or rewrite it (ContextStep), or leave it alone. *)
(***************************************************************************)
AsyncException ==
  \/ TakeIrq \/ FetchMiss \/ FetchFault
  \/ \E i \in Fetched : AccessMiss(i) \/ AccessFault(i)

SyncException == \E i \in Fetched : Syscall(i) \/ InvalidInsn(i)

ContextStep == \E i \in Fetched : Ret(i) \/ WmsrPS(i)

OtherInsn(i) ==
  \/ Plain(i) \/ Jump(i) \/ Cmp(i) \/ Branch(i)
  \/ Access(i) \/ AccessPanic(i)
  \/ Rmsr(i) \/ HostPanic(i) \/ WmsrNop(i)
  \/ WmsrIMM(i) \/ WmsrDMM(i) \/ WmsrTSC(i) \/ WmsrIRQC(i)

(* The loop between two instructions, and a fetch that fails the host.     *)
LoopStep == TscOff \/ TscTick \/ NoIrq \/ FetchOutside

OtherStep == LoopStep \/ \E i \in Fetched : OtherInsn(i)

(* After panic() nothing happens any more.                                 *)
Exited == at = "exited" /\ UNCHANGED vars

Next == AsyncException \/ SyncException \/ ContextStep \/ OtherStep \/ Exited

(* The host runs the loop `for(;;)' of its only thread.                    *)
Spec == Init /\ [][Next]_vars /\ WF_vars(Next)
-----------------------------------------------------------------------------
(* Properties.                                                             *)

TypeOK ==
  /\ pc \in Word /\ at \in {"tsc", "irq", "insn", "exited"}
  /\ psr \in Psr /\ epsr \in Psr /\ epc \in Word /\ elsa \in Word
  /\ itlbl \in [ISlots -> TlbL] /\ itlbh \in [ISlots -> ItlbH]
  /\ dtlbl \in [DSlots -> TlbL] /\ dtlbh \in [DSlots -> DtlbH]
  /\ tsr \in Tsr /\ tcr \in Tcr
  /\ imr \in SUBSET Irq /\ irr \in SUBSET Irq

(***************************************************************************)
(* The timer's line in IRR is asserted exactly while TCR.P and TCR.I are   *)
(* both set, whichever of tsc_clk() and wmsr() touched TCR last and        *)
(* whatever the devices did to their own lines of the same word.           *)
(***************************************************************************)
TscIrqCoherent == IRQ_TSC \in irr <=> tcr.P /\ tcr.I

(***************************************************************************)
(* No instruction starts while an enabled, unmasked interrupt is waiting:  *)
(* a timer that expires at the top of an iteration is taken in that very   *)
(* iteration, before the fetch.                                            *)
(***************************************************************************)
InterruptBeforeInsn ==
  at = "insn" => ~(psr.IRE /\ \E line \in irr : line \notin imr)

(* The handlers' addresses.                                                *)
Vectors == {VECT_EINSN, VECT_EIRQ, VECT_ESYSCALL,
            VECT_EIPF, VECT_EDPF, VECT_EITM, VECT_EDTM}

(***************************************************************************)
(* Code outside root mode cannot touch what root mode set up: the mask,    *)
(* the TLBs and the timer's programme stay, a timer interrupt once raised  *)
(* stays raised, and root mode is gained only at a vector, with the        *)
(* interrupted PSR saved, or by a RET to what EPSR and EPC already hold.   *)
(***************************************************************************)
Confined ==
  ~psr.RM =>
    /\ UNCHANGED <<imr, immVars, dmmVars>>
    /\ tcr' \in {tcr, [tcr EXCEPT !.P = TRUE]}
    /\ IRQ_TSC \in irr => IRQ_TSC \in irr'
    /\ psr'.RM => \/ pc' \in Vectors /\ epsr' = psr
                  \/ pc' = epc /\ psr' = epsr
UserConfined == [][Confined]_vars

(***************************************************************************)
(* Preemption: a program that runs outside root mode with interrupts       *)
(* enabled, a running timer and the timer's line unmasked always comes     *)
(* back to root mode, whatever it executes, unless the host process exits. *)
(* A RET outside root mode reloads PSR from EPSR, so EPSR must enable      *)
(* interrupts too (or name root mode), as it does when root mode entered   *)
(* the program by a RET.                                                   *)
(***************************************************************************)
Preemptible ==
  /\ ~psr.RM /\ psr.IRE /\ (epsr.IRE \/ epsr.RM)
  /\ tcr.EN /\ tcr.I /\ IRQ_TSC \notin imr
UserPreempted == Preemptible ~> (psr.RM \/ at = "exited")
=============================================================================
