----------------------------- MODULE CpuProofs -----------------------------
(* Theorems about Cpu, for every value of its constants.                   *)
EXTENDS Cpu, TLAPS

(* The address space is not empty.                                         *)
LEMMA AddrSpaceType == ADDR_SPACE \in Nat \ {0}
BY SizeAssumption DEF ADDR_SPACE, Word, VECT_EDTM

(* The core wraps around at the end of the address space.                  *)
LEMMA NextPcType == \A addr \in Int : NextPc(addr) \in Word
<1> TAKE addr \in Int
<1>1. addr + INSN_LEN \in Int
  BY SizeAssumption
<1> QED BY <1>1, AddrSpaceType DEF NextPc, Word

(* The two's complement subtraction and the common exit cancel out.        *)
LEMMA VectorEntry ==
  \A v \in Vectors : v \in Word /\ NextPc((v - INSN_LEN) % ADDR_SPACE) = v
<1> DEFINE L == INSN_LEN
           A == ADDR_SPACE
<1>1. /\ L \in Nat \ {0} /\ A \in Nat \ {0} /\ 8 * L <= A - 1
  BY SizeAssumption, AddrSpaceType DEF VECT_EDTM, Word
<1>2. ASSUME NEW v \in Vectors
      PROVE  v \in Nat /\ v - L \in 0 .. (A - 1) /\ v \in 0 .. (A - 1)
  BY <1>1 DEF Vectors, VECT_EINSN, VECT_EIRQ, VECT_ESYSCALL, VECT_EIPF,
              VECT_EDPF, VECT_EITM, VECT_EDTM
<1>3. \A x \in 0 .. (A - 1) : x % A = x
  BY <1>1
<1> HIDE DEF L, A
<1>4. ASSUME NEW v \in Vectors
      PROVE  v \in Word /\ NextPc((v - INSN_LEN) % ADDR_SPACE) = v
  <2>1. ((v - L) % A) + L = v
    BY <1>1, <1>2, <1>3
  <2> QED BY <1>2, <1>3, <2>1 DEF NextPc, Word, L, A
<1> QED BY <1>4

(* What an instruction carries.                                            *)
LEMMA InsnFields ==
  ASSUME NEW i \in Insn
  PROVE  /\ i.op \in {"jump", "bt", "bf"} => i.to \in Word
         /\ i.op = "cmp" => i.cc \in BOOLEAN
         /\ i.op \in {"load", "store"} => i.va \in Word
         /\ i.op = "wmsr" =>
              /\ i.reg \in {"PSR", "EPSR"} => i.val \in Psr
              /\ i.reg \in {"EPC", "ELSA"} => i.val \in Word
              /\ i.reg = "TSR" => i.val \in Tsr
              /\ i.reg = "TCR" => i.val \in Tcr
              /\ i.reg = "IMR" => i.val \in SUBSET Irq
              /\ i.reg = "ITLBL" => i.slot \in ISlots /\ i.val \in TlbL
              /\ i.reg = "ITLBH" => i.slot \in ISlots /\ i.val \in ItlbH
              /\ i.reg = "DTLBL" => i.slot \in DSlots /\ i.val \in TlbL
              /\ i.reg = "DTLBH" => i.slot \in DSlots /\ i.val \in DtlbH
BY DEF Insn

(* Only instructions of the image are executed.                            *)
LEMMA FetchedType == TypeOK => Fetched \subseteq Insn
<1> SUFFICES ASSUME TypeOK, Mapped, IPa(pc) < MMIO_PHY_BASE
             PROVE  Image[IPa(pc)] \subseteq Insn
  BY DEF Fetched
<1>1. pc \in Nat /\ PAGE_SIZE \in Nat \ {0} /\ MMIO_PHY_BASE \in Word
  BY SizeAssumption, AddrSpaceType DEF TypeOK, Word
<1>2. ISlot(pc) \in ISlots
  BY <1>1, SizeAssumption DEF ISlot, Vpn, ISlots
<1>3. itlbh[ISlot(pc)].PPN \in Nat
  BY <1>2, SizeAssumption DEF TypeOK, ItlbH, PageNumber
<1>4. pc % PAGE_SIZE \in Nat
  BY <1>1
<1>5. itlbh[ISlot(pc)].PPN * PAGE_SIZE \in Nat
  BY <1>1, <1>3
<1>6. IPa(pc) \in Nat
  BY <1>1, <1>4, <1>5 DEF IPa
<1>7. IPa(pc) \in Word
  BY <1>1, <1>6, AddrSpaceType DEF Word
<1> QED BY <1>7, ImageAssumption
-----------------------------------------------------------------------------
(* The parts of a step that several actions share.                         *)

LEMMA InitTypeOK == Init => TypeOK
<1> SUFFICES ASSUME Init PROVE TypeOK
  OBVIOUS
<1>1. 0 \in Word /\ RESET_VECT \in Word /\ 0 \in PageNumber
  BY SizeAssumption, AddrSpaceType DEF Word, PageNumber
<1>2. psr \in Psr /\ epsr \in Psr
  BY DEF Init, ResetPsr, Psr
<1>3. itlbl \in [ISlots -> TlbL] /\ itlbh \in [ISlots -> ItlbH]
  BY <1>1 DEF Init, TlbL, ItlbH
<1>4. dtlbl \in [DSlots -> TlbL] /\ dtlbh \in [DSlots -> DtlbH]
  BY <1>1 DEF Init, TlbL, DtlbH
<1>5. tsr \in Tsr /\ tcr \in Tcr
  BY TimerAssumption DEF Init, Tsr, Tcr
<1> QED BY <1>1, <1>2, <1>3, <1>4, <1>5 DEF Init, TypeOK

LEMMA RaiseType ==
  ASSUME TypeOK, NEW v \in Vectors, NEW lsa \in Word, NEW sys \in BOOLEAN,
         Raise(v, lsa, sys)
  PROVE  TypeOK'
<1>1. epc' \in Word
  <2>1. CASE sys
    BY <2>1, NextPcType DEF Raise, TypeOK, NextPc, Word
  <2>2. CASE ~sys
    BY <2>2 DEF Raise, TypeOK
  <2> QED BY <2>1, <2>2
<1>2. elsa' \in Word /\ epsr' \in Psr /\ at' = "tsc"
  BY DEF Raise, TypeOK
<1>3. psr' \in Psr
  BY DEF Raise, TypeOK, Psr
<1>4. pc' \in Word
  BY VectorEntry DEF Raise
<1>5. UNCHANGED <<immVars, dmmVars, tscVars, irqVars>>
  BY DEF Raise
<1> QED
  BY <1>1, <1>2, <1>3, <1>4, <1>5 DEF TypeOK, immVars, dmmVars, tscVars, irqVars

LEMMA PanicType == TypeOK /\ Panic => TypeOK'
BY DEF Panic, TypeOK, psVars, immVars, dmmVars, tscVars, irqVars

(* The lines stay lines.                                                   *)
LEMMA SetInterruptType ==
  \A lines \in SUBSET Irq, line \in Irq, raise \in BOOLEAN :
    SetInterrupt(lines, line, raise) \in SUBSET Irq
BY DEF SetInterrupt

LEMMA UpdateTcrType ==
  \A lines \in SUBSET Irq, t \in Tcr : UpdateTcr(lines, t) \in SUBSET Irq
BY DEF UpdateTcr, SetInterrupt, Irq, Tcr

-----------------------------------------------------------------------------
(* One lemma per group of actions.                                         *)

LEMMA TickType == TypeOK /\ (TscOff \/ TscTick \/ NoIrq) => TypeOK'
<1>1. TypeOK /\ (TscOff \/ NoIrq) => TypeOK'
  BY DEF TscOff, NoIrq, TypeOK, psVars, immVars, dmmVars, tscVars, irqVars
<1>2. ASSUME TypeOK, TscTick PROVE TypeOK'
  <2>1. tcr' \in Tcr
    BY <1>2 DEF TscTick, TypeOK, Tcr
  <2>2. irr' \in SUBSET Irq
    BY <1>2, <2>1, UpdateTcrType DEF TscTick, TypeOK
  <2>3. tsr' \in Tsr
    BY <1>2, TimerAssumption DEF TscTick, TsrAfterEdge, TypeOK, Tsr
  <2> QED
    BY <1>2, <2>1, <2>2, <2>3 DEF TscTick, TypeOK, psVars, immVars, dmmVars
<1> QED BY <1>1, <1>2

LEMMA AsyncType == TypeOK /\ AsyncException => TypeOK'
<1> SUFFICES ASSUME TypeOK, AsyncException PROVE TypeOK'
  OBVIOUS
<1>1. {VECT_EIRQ, VECT_EITM, VECT_EIPF, VECT_EDTM, VECT_EDPF} \subseteq Vectors
  BY DEF Vectors
<1>2. 0 \in Word /\ pc \in Word
  BY AddrSpaceType DEF Word, TypeOK
<1>3. CASE TakeIrq
  BY <1>1, <1>2, <1>3, RaiseType DEF TakeIrq
<1>4. CASE FetchMiss
  BY <1>1, <1>2, <1>4, RaiseType DEF FetchMiss
<1>5. CASE FetchFault
  BY <1>1, <1>2, <1>5, RaiseType DEF FetchFault
<1>6. ASSUME NEW i \in Fetched, AccessMiss(i) \/ AccessFault(i) PROVE TypeOK'
  <2>1. i.va \in Word
    BY <1>6, FetchedType, InsnFields DEF AccessMiss, AccessFault
  <2> QED BY <1>1, <1>6, <2>1, RaiseType DEF AccessMiss, AccessFault
<1> QED BY <1>3, <1>4, <1>5, <1>6 DEF AsyncException

LEMMA SyncType == TypeOK /\ SyncException => TypeOK'
<1> SUFFICES ASSUME TypeOK, NEW i \in Fetched, Syscall(i) \/ InvalidInsn(i)
             PROVE  TypeOK'
  BY DEF SyncException
<1>1. {VECT_ESYSCALL, VECT_EINSN} \subseteq Vectors
  BY DEF Vectors
<1>2. 0 \in Word /\ pc \in Word
  BY AddrSpaceType DEF Word, TypeOK
<1> QED BY <1>1, <1>2, RaiseType DEF Syscall, InvalidInsn

(* What an instruction that retires leaves behind.                         *)
LEMMA RetireType ==
  \A addr \in Word : Retire(addr) => pc' \in Word /\ at' = "tsc"
BY DEF Retire

LEMMA ContextType == TypeOK /\ ContextStep => TypeOK'
<1> SUFFICES ASSUME TypeOK, NEW i \in Fetched, Ret(i) \/ WmsrPS(i)
             PROVE  TypeOK'
  BY DEF ContextStep
<1>1. i \in Insn
  BY FetchedType
<1>2. NextPc(pc) \in Word
  BY NextPcType DEF TypeOK, Word
<1>3. CASE Ret(i)
  BY <1>3 DEF Ret, Retire, TypeOK, immVars, dmmVars, tscVars, irqVars
<1>4. CASE WmsrPS(i)
  <2>1. psr' \in Psr /\ epsr' \in Psr /\ epc' \in Word /\ elsa' \in Word
    BY <1>1, <1>4, InsnFields DEF WmsrPS, Written, TypeOK
  <2> QED
    BY <1>2, <1>4, <2>1 DEF WmsrPS, Retire, TypeOK, immVars, dmmVars, tscVars, irqVars
<1> QED BY <1>3, <1>4

LEMMA InsnType ==
  ASSUME TypeOK, NEW i \in Fetched, OtherInsn(i)
  PROVE  TypeOK'
<1>1. i \in Insn
  BY FetchedType
<1>2. NextPc(pc) \in Word
  BY NextPcType DEF TypeOK, Word
<1> USE DEF TypeOK, Retire
<1>3. CASE Plain(i)
  BY <1>2, <1>3 DEF Plain, psVars, immVars, dmmVars, tscVars, irqVars
<1>4. CASE Jump(i)
  BY <1>1, <1>4, InsnFields DEF Jump, psVars, immVars, dmmVars, tscVars, irqVars
<1>5. CASE Cmp(i)
  BY <1>1, <1>2, <1>5, InsnFields DEF Cmp, Psr, immVars, dmmVars, tscVars, irqVars
<1>6. CASE Branch(i)
  BY <1>1, <1>2, <1>6, InsnFields DEF Branch, psVars, immVars, dmmVars, tscVars, irqVars
<1>7. CASE Access(i)
  <2>1. irr' \in SUBSET Irq
    BY <1>7, SetInterruptType DEF Access, Irq
  <2> QED BY <1>2, <1>7, <2>1 DEF Access, psVars, immVars, dmmVars, tscVars
<1>8. CASE AccessPanic(i) \/ HostPanic(i)
  BY <1>8, PanicType DEF AccessPanic, HostPanic
<1>9. CASE Rmsr(i) \/ WmsrNop(i)
  BY <1>2, <1>9 DEF Rmsr, WmsrNop, psVars, immVars, dmmVars, tscVars, irqVars
<1>10. CASE WmsrIMM(i)
  <2>1. itlbl' \in [ISlots -> TlbL] /\ itlbh' \in [ISlots -> ItlbH]
    BY <1>1, <1>10, InsnFields DEF WmsrIMM
  <2> QED BY <1>2, <1>10, <2>1 DEF WmsrIMM, psVars, dmmVars, tscVars, irqVars
<1>11. CASE WmsrDMM(i)
  <2>1. dtlbl' \in [DSlots -> TlbL] /\ dtlbh' \in [DSlots -> DtlbH]
    BY <1>1, <1>11, InsnFields DEF WmsrDMM
  <2> QED BY <1>2, <1>11, <2>1 DEF WmsrDMM, psVars, immVars, tscVars, irqVars
<1>12. CASE WmsrTSC(i)
  <2>1. tsr' \in Tsr /\ tcr' \in Tcr
    BY <1>1, <1>12, InsnFields DEF WmsrTSC, Written
  <2>2. irr' \in SUBSET Irq
    BY <1>12, <2>1, UpdateTcrType DEF WmsrTSC
  <2> QED BY <1>2, <1>12, <2>1, <2>2 DEF WmsrTSC, psVars, immVars, dmmVars
<1>13. CASE WmsrIRQC(i)
  BY <1>1, <1>2, <1>13, InsnFields DEF WmsrIRQC, psVars, immVars, dmmVars, tscVars
<1> QED
  BY <1>3, <1>4, <1>5, <1>6, <1>7, <1>8, <1>9, <1>10, <1>11, <1>12, <1>13 DEF OtherInsn

LEMMA StepTypeOK == TypeOK /\ [Next]_vars => TypeOK'
<1> SUFFICES ASSUME TypeOK, [Next]_vars PROVE TypeOK'
  OBVIOUS
<1>1. CASE AsyncException
  BY <1>1, AsyncType
<1>2. CASE SyncException
  BY <1>2, SyncType
<1>3. CASE ContextStep
  BY <1>3, ContextType
<1>4. CASE OtherStep
  BY <1>4, TickType, InsnType, PanicType DEF OtherStep, LoopStep, FetchOutside
<1>5. CASE UNCHANGED vars
  BY <1>5 DEF vars, loopVars, psVars, immVars, dmmVars, tscVars, irqVars, TypeOK
<1> QED BY <1>1, <1>2, <1>3, <1>4, <1>5 DEF Next, Exited

(***************************************************************************)
(* Every register keeps its width, through every instruction, exception    *)
(* and clock edge of exec.c, msr.c, tsc.c and irqc.c.                      *)
(***************************************************************************)
THEOREM TypeCorrect == Spec => []TypeOK
BY InitTypeOK, StepTypeOK, PTL DEF Spec
-----------------------------------------------------------------------------
(* The timer's line.                                                       *)

LEMMA RaiseLeaves ==
  ASSUME NEW v, NEW lsa, NEW sys, Raise(v, lsa, sys)
  PROVE  /\ UNCHANGED <<itlbl, itlbh, dtlbl, dtlbh, tsr, tcr, imr, irr>>
         /\ at' = "tsc"
BY DEF Raise, immVars, dmmVars, tscVars, irqVars

(* Exceptions do not touch the MMUs, the timer or the interrupt lines.     *)
LEMMA ExceptionLeaves ==
  AsyncException \/ SyncException =>
    /\ UNCHANGED <<itlbl, itlbh, dtlbl, dtlbh, tsr, tcr, imr, irr>>
    /\ at' = "tsc"
BY RaiseLeaves
DEF AsyncException, SyncException, TakeIrq, FetchMiss, FetchFault,
    AccessMiss, AccessFault, Syscall, InvalidInsn

(* Neither do RET and the writes to the PS bank.                           *)
LEMMA ContextLeaves ==
  ContextStep =>
    /\ UNCHANGED <<itlbl, itlbh, dtlbl, dtlbh, tsr, tcr, imr, irr>>
    /\ at' = "tsc"
BY DEF ContextStep, Ret, WmsrPS, Retire, immVars, dmmVars, tscVars, irqVars

(* tsc_update_tcr() makes the line what TCR says.                          *)
LEMMA UpdateTcrCoherent ==
  \A lines, t : IRQ_TSC \in UpdateTcr(lines, t) <=> (t.P /\ t.I)
BY DEF UpdateTcr, SetInterrupt

(* An access to a device leaves the timer's line alone.                    *)
LEMMA AccessLeavesTimer ==
  ASSUME NEW i, Access(i)
  PROVE  (IRQ_TSC \in irr' <=> IRQ_TSC \in irr) /\ tcr' = tcr
BY IrqAssumption DEF Access, SetInterrupt, tscVars

LEMMA TscIrqCoherentStep ==
  ASSUME TypeOK, TscIrqCoherent, [Next]_vars
  PROVE  TscIrqCoherent'
<1>1. CASE AsyncException \/ SyncException \/ ContextStep
  BY <1>1, ExceptionLeaves, ContextLeaves DEF TscIrqCoherent
<1>2. CASE OtherStep
  <2>1. CASE TscOff \/ NoIrq \/ FetchOutside
    BY <2>1 DEF TscOff, NoIrq, FetchOutside, Panic, TscIrqCoherent, tscVars, irqVars
  <2>2. CASE TscTick
    <3>1. CASE TscExpired
      BY <2>2, <3>1, UpdateTcrCoherent DEF TscTick, TscIrqCoherent
    <3>2. CASE ~TscExpired
      BY <2>2, <3>2 DEF TscTick, TscIrqCoherent
    <3> QED BY <3>1, <3>2
  <2>3. ASSUME NEW i \in Fetched, OtherInsn(i) PROVE TscIrqCoherent'
    <3>1. CASE Access(i)
      BY <3>1, AccessLeavesTimer DEF TscIrqCoherent
    <3>2. CASE WmsrTSC(i)
      BY <3>2, UpdateTcrCoherent DEF WmsrTSC, Written, TscIrqCoherent
    <3>3. CASE ~Access(i) /\ ~WmsrTSC(i)
      <4>1. UNCHANGED <<tcr, irr>>
        BY <2>3, <3>3
        DEF OtherInsn, Plain, Jump, Cmp, Branch, AccessPanic, Rmsr, HostPanic,
            WmsrNop, WmsrIMM, WmsrDMM, WmsrIRQC, Panic, tscVars, irqVars
      <4> QED BY <4>1 DEF TscIrqCoherent
    <3> QED BY <3>1, <3>2, <3>3
  <2> QED BY <1>2, <2>1, <2>2, <2>3 DEF OtherStep, LoopStep
<1>3. CASE UNCHANGED vars
  BY <1>3 DEF vars, tscVars, irqVars, TscIrqCoherent
<1> QED BY <1>1, <1>2, <1>3 DEF Next, Exited

(***************************************************************************)
(* The timer's line in IRR always agrees with TCR, whatever the guest      *)
(* writes and whatever the devices do to their lines of the same word      *)
(* (tsc.c, irqc.c, wmsr() in msr.c).                                       *)
(***************************************************************************)
THEOREM TimerLineCoherent == Spec => []TscIrqCoherent
<1>1. Init => TscIrqCoherent
  BY DEF Init, TscIrqCoherent
<1>2. TypeOK /\ TscIrqCoherent /\ [Next]_vars => TscIrqCoherent'
  BY TscIrqCoherentStep
<1> QED BY <1>1, <1>2, TypeCorrect, PTL DEF Spec

-----------------------------------------------------------------------------
(* The order of the loop.                                                  *)

(* Only the poll leads to the fetch.                                       *)
LEMMA InsnOnlyAfterPoll ==
  ASSUME Next, at' = "insn", ~NoIrq
  PROVE  UNCHANGED vars
<1>1. ~AsyncException /\ ~SyncException /\ ~ContextStep
  BY ExceptionLeaves, ContextLeaves
<1>2. ~TscOff /\ ~TscTick /\ ~FetchOutside
  BY DEF TscOff, TscTick, FetchOutside, Panic
<1>3. \A i \in Fetched : ~OtherInsn(i)
  BY DEF OtherInsn, Plain, Jump, Cmp, Branch, Access, AccessPanic, Rmsr, HostPanic,
         WmsrNop, WmsrIMM, WmsrDMM, WmsrTSC, WmsrIRQC, Panic, Retire
<1> QED BY <1>1, <1>2, <1>3 DEF Next, OtherStep, LoopStep, Exited

LEMMA InterruptBeforeInsnStep ==
  ASSUME InterruptBeforeInsn, [Next]_vars
  PROVE  InterruptBeforeInsn'
<1>1. CASE UNCHANGED vars
  BY <1>1 DEF InterruptBeforeInsn, vars, loopVars, psVars, irqVars
<1>2. CASE NoIrq
  BY <1>2 DEF NoIrq, Pending, InterruptBeforeInsn, psVars, irqVars
<1>3. CASE at' # "insn"
  BY <1>3 DEF InterruptBeforeInsn
<1> QED BY <1>1, <1>2, <1>3, InsnOnlyAfterPoll

(***************************************************************************)
(* No instruction is fetched past an enabled, unmasked interrupt           *)
(* (tsc_clk(), irqc_handle_irqs() and the fetch in cpu_exec()).            *)
(***************************************************************************)
THEOREM InterruptTaken == Spec => []InterruptBeforeInsn
<1>1. Init => InterruptBeforeInsn
  BY DEF Init, InterruptBeforeInsn
<1>2. InterruptBeforeInsn /\ [Next]_vars => InterruptBeforeInsn'
  BY InterruptBeforeInsnStep
<1> QED BY <1>1, <1>2, PTL DEF Spec
-----------------------------------------------------------------------------
(* What code outside root mode cannot do.                                  *)

LEMMA RaiseEnters ==
  ASSUME NEW v \in Vectors, NEW lsa, NEW sys, Raise(v, lsa, sys)
  PROVE  pc' \in Vectors /\ epsr' = psr
BY VectorEntry DEF Raise

(* An exception enters one of the vectors and saves the PSR.               *)
LEMMA ExceptionEnters ==
  AsyncException \/ SyncException => pc' \in Vectors /\ epsr' = psr
<1>1. {VECT_EIRQ, VECT_EITM, VECT_EIPF, VECT_EDTM, VECT_EDPF,
       VECT_ESYSCALL, VECT_EINSN} \subseteq Vectors
  BY DEF Vectors
<1> QED
  BY <1>1, RaiseEnters
  DEF AsyncException, SyncException, TakeIrq, FetchMiss, FetchFault,
      AccessMiss, AccessFault, Syscall, InvalidInsn

LEMMA OtherConfined ==
  ASSUME TypeOK, OtherStep, ~psr.RM
  PROVE  /\ UNCHANGED <<imr, itlbl, itlbh, dtlbl, dtlbh>>
         /\ tcr' \in {tcr, [tcr EXCEPT !.P = TRUE]}
         /\ IRQ_TSC \in irr => IRQ_TSC \in irr'
         /\ ~psr'.RM
<1>1. CASE TscOff \/ NoIrq \/ FetchOutside
  BY <1>1 DEF TscOff, NoIrq, FetchOutside, Panic, psVars, immVars, dmmVars, tscVars, irqVars
<1>2. CASE TscTick
  <2>1. CASE TscExpired
    <3>1. tcr' = [tcr EXCEPT !.P = TRUE] /\ irr' = UpdateTcr(irr, tcr')
      BY <1>2, <2>1 DEF TscTick
    <3>2. tcr'.P /\ tcr'.I
      BY <2>1, <3>1 DEF TscExpired, TypeOK, Tcr
    <3>3. IRQ_TSC \in irr'
      BY <3>1, <3>2, UpdateTcrCoherent
    <3> QED BY <1>2, <3>1, <3>3 DEF TscTick, psVars, immVars, dmmVars
  <2>2. CASE ~TscExpired
    BY <1>2, <2>2 DEF TscTick, psVars, immVars, dmmVars
  <2> QED BY <2>1, <2>2
<1>3. ASSUME NEW i \in Fetched, OtherInsn(i)
      PROVE  /\ UNCHANGED <<imr, itlbl, itlbh, dtlbl, dtlbh>>
             /\ tcr' \in {tcr, [tcr EXCEPT !.P = TRUE]}
             /\ IRQ_TSC \in irr => IRQ_TSC \in irr'
             /\ ~psr'.RM
  <2>1. CASE Access(i)
    BY <2>1, AccessLeavesTimer DEF Access, psVars, immVars, dmmVars, tscVars
  <2>2. CASE Cmp(i)
    BY <2>2 DEF Cmp, TypeOK, Psr, immVars, dmmVars, tscVars, irqVars
  <2>3. CASE ~Access(i) /\ ~Cmp(i)
    <3>1. ~WmsrIMM(i) /\ ~WmsrDMM(i) /\ ~WmsrTSC(i) /\ ~WmsrIRQC(i)
      BY DEF WmsrIMM, WmsrDMM, WmsrTSC, WmsrIRQC
    <3> QED
      BY <1>3, <2>3, <3>1
      DEF OtherInsn, Plain, Jump, Branch, AccessPanic, Rmsr, HostPanic, WmsrNop,
          Panic, psVars, immVars, dmmVars, tscVars, irqVars
  <2> QED BY <2>1, <2>2, <2>3
<1> QED BY <1>1, <1>2, <1>3 DEF OtherStep, LoopStep

LEMMA ConfinedStep == ASSUME TypeOK, [Next]_vars PROVE Confined \/ UNCHANGED vars
<1>1. CASE AsyncException \/ SyncException
  BY <1>1, ExceptionLeaves, ExceptionEnters DEF Confined, immVars, dmmVars
<1>2. CASE ContextStep
  <2>1. ~psr.RM => \E i \in Fetched : Ret(i)
    BY <1>2 DEF ContextStep, WmsrPS
  <2>2. (\E i \in Fetched : Ret(i)) => pc' = epc /\ psr' = epsr
    BY DEF Ret, Retire
  <2> QED BY <1>2, <2>1, <2>2, ContextLeaves DEF Confined, immVars, dmmVars
<1>3. CASE OtherStep
  BY <1>3, OtherConfined DEF Confined, immVars, dmmVars
<1>4. CASE UNCHANGED vars
  BY <1>4
<1> QED BY <1>1, <1>2, <1>3, <1>4 DEF Next, Exited

(***************************************************************************)
(* Code outside root mode leaves the interrupt mask, the TLBs and the      *)
(* timer's programme alone, cannot withdraw a timer interrupt, and gains   *)
(* root mode only at a vector or through RET (wmsr(), cpu_exec()).         *)
(***************************************************************************)
THEOREM UserIsConfined == Spec => UserConfined
<1>1. TypeOK /\ [Next]_vars => [Confined]_vars
  BY ConfinedStep
<1>2. Spec => [][Confined]_vars
  BY <1>1, TypeCorrect, PTL DEF Spec
<1> QED BY <1>2 DEF UserConfined
=============================================================================
