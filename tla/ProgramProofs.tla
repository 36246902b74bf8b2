---------------------------- MODULE ProgramProofs ----------------------------
(***************************************************************************)
(* What the core does to the program that an exception interrupts, for     *)
(* every value of the constants: its context is saved and restored         *)
(* (CpuContext), and under a kernel as UserMode describes it the core      *)
(* implements UserProgram.                                                 *)
(***************************************************************************)
EXTENDS CpuContext, UserMode, CpuProofs

-----------------------------------------------------------------------------
(* What the groups of actions do to the PS bank and to the TLBs.           *)

LEMMA ModeType ==
  TypeOK => /\ psr.RM \in BOOLEAN /\ psr.CC \in BOOLEAN
            /\ epsr.RM \in BOOLEAN /\ epsr.CC \in BOOLEAN
BY DEF TypeOK, Psr

LEMMA RaiseSaves ==
  ASSUME TypeOK, NEW v, NEW lsa, NEW sys \in BOOLEAN, Raise(v, lsa, sys)
  PROVE  /\ epc' = IF sys THEN NextPc(pc) ELSE pc
         /\ epsr' = psr
         /\ psr'.RM /\ ~psr'.IRE /\ ~psr'.IMME /\ ~psr'.DMME
BY DEF Raise, NextPc, TypeOK, Psr

LEMMA AsyncSaves ==
  TypeOK /\ AsyncException =>
    /\ epc' = pc /\ epsr' = psr
    /\ psr'.RM /\ ~psr'.IRE /\ ~psr'.IMME /\ ~psr'.DMME
BY RaiseSaves
DEF AsyncException, TakeIrq, FetchMiss, FetchFault, AccessMiss, AccessFault

LEMMA SyncSaves ==
  TypeOK /\ SyncException =>
    /\ epsr' = psr
    /\ psr'.RM /\ ~psr'.IRE /\ ~psr'.IMME /\ ~psr'.DMME
BY RaiseSaves DEF SyncException, Syscall, InvalidInsn

LEMMA LoopKeeps == LoopStep => UNCHANGED <<pc, psVars, immVars, dmmVars>>
BY DEF LoopStep, TscOff, TscTick, NoIrq, FetchOutside, Panic

(* An instruction keeps the mode and the saved context; outside root mode  *)
(* it keeps the TLBs.                                                      *)
LEMMA InsnKeeps ==
  ASSUME TypeOK, NEW i \in Fetched, OtherInsn(i)
  PROVE  /\ epc' = epc /\ epsr' = epsr
         /\ psr'.RM = psr.RM /\ psr'.IRE = psr.IRE
         /\ psr'.IMME = psr.IMME /\ psr'.DMME = psr.DMME
         /\ psr.RM \/ UNCHANGED <<immVars, dmmVars>>
<1>1. CASE Cmp(i)
  BY <1>1 DEF Cmp, TypeOK, Psr
<1>2. CASE ~Cmp(i)
  BY <1>2
  DEF OtherInsn, Plain, Jump, Branch, Access, AccessPanic, Rmsr, HostPanic,
      WmsrNop, WmsrIMM, WmsrDMM, WmsrTSC, WmsrIRQC, Panic, psVars
<1> QED BY <1>1, <1>2

-----------------------------------------------------------------------------
(* The saved context.                                                      *)

(* The history variable does not restrict the core.                        *)
LEMMA ContextRefinesCpu ==
  /\ CInit => Init
  /\ [CNext]_cvars => [Next]_vars
<1>1. CInit => Init
  BY DEF CInit
<1>2. CNext => Next
  BY DEF CNext, Interrupted, Trapped, Released, Undisturbed, Next, SyncException
<1> QED BY <1>1, <1>2 DEF cvars

LEMMA ContextTypeOK == CSpec => []TypeOK
BY InitTypeOK, StepTypeOK, ContextRefinesCpu, PTL DEF CSpec

(* No other step touches EPC, EPSR or the mode.                            *)
LEMMA OtherKeeps ==
  ASSUME TypeOK, OtherStep
  PROVE  /\ epc' = epc /\ epsr' = epsr
         /\ psr'.RM = psr.RM /\ psr'.IRE = psr.IRE
         /\ psr'.IMME = psr.IMME /\ psr'.DMME = psr.DMME
<1>1. CASE LoopStep
  BY <1>1, LoopKeeps DEF psVars
<1>2. ASSUME NEW i \in Fetched, OtherInsn(i)
      PROVE  /\ epc' = epc /\ epsr' = epsr
             /\ psr'.RM = psr.RM /\ psr'.IRE = psr.IRE
             /\ psr'.IMME = psr.IMME /\ psr'.DMME = psr.DMME
  BY <1>2, InsnKeeps
<1> QED BY <1>1, <1>2 DEF OtherStep

LEMMA SavedContextStep ==
  ASSUME TypeOK, SavedContext, [CNext]_cvars
  PROVE  SavedContext'
<1>1. CASE Interrupted
  BY <1>1, AsyncSaves DEF Interrupted, SavedContext, Context
<1>2. CASE Trapped
  <2>1. ASSUME NEW i \in Fetched, Syscall(i), ctx' = Context(NextPc(pc))
        PROVE  SavedContext'
    BY <2>1, RaiseSaves DEF Syscall, SavedContext, Context
  <2>2. ASSUME NEW i \in Fetched, InvalidInsn(i), ctx' = Context(pc)
        PROVE  SavedContext'
    BY <2>2, RaiseSaves DEF InvalidInsn, SavedContext, Context
  <2> QED BY <1>2, <2>1, <2>2 DEF Trapped
<1>3. CASE Released
  BY <1>3 DEF Released, SavedContext, NoContext
<1>4. CASE Undisturbed /\ OtherStep
  BY <1>4, OtherKeeps DEF Undisturbed, SavedContext
<1>5. CASE UNCHANGED cvars \/ (Undisturbed /\ Exited)
  BY <1>5 DEF cvars, vars, psVars, Undisturbed, Exited, SavedContext
<1> QED BY <1>1, <1>2, <1>3, <1>4, <1>5 DEF CNext, Undisturbed

(***************************************************************************)
(* Until the handler gives it up, the one saved context is the one of the  *)
(* last exception, and the handler runs in root mode with interrupts and   *)
(* both MMUs off (cpu_raise_exception() and every instruction).            *)
(***************************************************************************)
THEOREM ContextIsSaved == CSpec => []SavedContext
<1>1. CInit => SavedContext
  BY DEF CInit, NoContext, SavedContext
<1>2. TypeOK /\ SavedContext /\ [CNext]_cvars => SavedContext'
  BY SavedContextStep
<1> QED BY <1>1, <1>2, ContextTypeOK, PTL DEF CSpec

(* With interrupts and the MMUs off nothing strikes asynchronously.        *)
LEMMA NoAsyncWhileHeld == SavedContext /\ ctx.held => ~AsyncException
BY DEF SavedContext, AsyncException, TakeIrq, Pending, FetchMiss, IMiss, FetchFault,
       IFault, AccessMiss, DMiss, AccessFault, DFault

LEMMA NestingStep ==
  ASSUME TypeOK, SavedContext, [CNext]_cvars
  PROVE  Nesting \/ UNCHANGED cvars
<1>1. CASE Interrupted
  BY <1>1, NoAsyncWhileHeld DEF Interrupted, Nesting
<1>2. CASE Trapped
  <2>1. {VECT_ESYSCALL, VECT_EINSN} \subseteq Vectors
    BY DEF Vectors
  <2>2. pc' \in {VECT_EINSN, VECT_ESYSCALL}
    BY <1>2, <2>1, VectorEntry DEF Trapped, Syscall, InvalidInsn, Raise
  <2> QED BY <2>2 DEF Nesting
<1>3. CASE Released
  BY <1>3 DEF Released, NoContext, Nesting
<1>4. CASE Undisturbed
  BY <1>4, OtherKeeps DEF Undisturbed, Exited, vars, psVars, Nesting
<1>5. CASE UNCHANGED cvars
  BY <1>5
<1> QED BY <1>1, <1>2, <1>3, <1>4, <1>5 DEF CNext

(***************************************************************************)
(* A held context is replaced only by code that asks for it: no interrupt, *)
(* page fault or TLB miss strikes inside a handler                         *)
(* (cpu_raise_exception(), irqc_handle_irqs(), the two MMUs).              *)
(***************************************************************************)
THEOREM NoNestingUnasked == CSpec => NoAsyncNesting
<1>1. TypeOK /\ SavedContext /\ [CNext]_cvars => [Nesting]_cvars
  BY NestingStep
<1>2. CSpec => [][Nesting]_cvars
  BY <1>1, ContextTypeOK, ContextIsSaved, PTL DEF CSpec
<1> QED BY <1>2 DEF NoAsyncNesting

LEMMA ResumptionStep ==
  ASSUME SavedContext, [CNext]_cvars
  PROVE  Resumption \/ UNCHANGED cvars
<1>1. (\E i \in Fetched : Ret(i)) => pc' = epc /\ psr' = epsr
  BY DEF Ret, Retire
<1> QED BY <1>1 DEF Resumption, SavedContext

(***************************************************************************)
(* The RET that ends a handler resumes the interrupted program where it    *)
(* was and with the status it had (cpu_raise_exception() and RET).         *)
(***************************************************************************)
THEOREM ProgramResumed == CSpec => Resumed
<1>1. SavedContext /\ [CNext]_cvars => [Resumption]_cvars
  BY ResumptionStep
<1>2. CSpec => [][Resumption]_cvars
  BY <1>1, ContextIsSaved, PTL DEF CSpec
<1> QED BY <1>2 DEF Resumed

-----------------------------------------------------------------------------
(* The user program.                                                       *)

LEMMA TlbsKept ==
  TlbsMatch /\ UNCHANGED <<itlbl, itlbh, dtlbl, dtlbh>> => TlbsMatch'
BY DEF TlbsMatch

-----------------------------------------------------------------------------
(* The invariant.                                                          *)

LEMMA InitCarried == UInit => Carried
BY DEF UInit, Init, ResetPsr, Carried

(* No asynchronous exception strikes a handler.                            *)
LEMMA HandlerUndisturbed == Carried /\ started /\ psr.RM => ~AsyncException
BY DEF Carried, AsyncException, TakeIrq, Pending, FetchMiss, IMiss, FetchFault,
       IFault, AccessMiss, DMiss, AccessFault, DFault

LEMMA CarriedStep ==
  ASSUME TypeOK, Carried, [UNext]_uvars
  PROVE  Carried'
<1> USE ModeType
<1>1. CASE UNCHANGED uvars
  BY <1>1, TlbsKept
  DEF uvars, vars, psVars, immVars, dmmVars, Carried
<1>2. ASSUME UNext, AsyncException, UNCHANGED bus PROVE Carried'
  BY <1>2, AsyncSaves, HandlerUndisturbed DEF Carried, UNext
<1>3. ASSUME UNext, LoopStep \/ Exited, UNCHANGED bus PROVE Carried'
  BY <1>3, LoopKeeps, TlbsKept
  DEF UNext, Exited, vars, psVars, immVars, dmmVars, Carried
<1>4. ASSUME UNext, Trap PROVE Carried'
  BY <1>4, SyncSaves DEF Trap, Carried, UNext
<1>5. ASSUME UNext, NEW i \in Fetched, BootWrite(i) PROVE Carried'
  BY <1>5 DEF BootWrite, Carried, UNext
<1>6. ASSUME UNext, NEW i \in Fetched, Return(i) PROVE Carried'
  <2>1. /\ psr' = epsr /\ epsr' = epsr /\ bus' = bus
        /\ UNCHANGED <<itlbl, itlbh, dtlbl, dtlbh>>
    BY <1>6 DEF Return, Ret, immVars, dmmVars
  <2>2. CASE psr.RM /\ ~epsr.RM
    <3>1. Ready
      BY <1>6, <2>1, <2>2 DEF Return
    <3> QED BY <1>6, <2>1, <2>2, <3>1, TlbsKept DEF Ready, Carried, UNext
  <2>3. CASE psr.RM /\ epsr.RM
    BY <1>6, <2>1, <2>3 DEF Carried, UNext
  <2>4. CASE ~psr.RM
    BY <1>6, <2>1, <2>4, TlbsKept DEF Carried, UNext
  <2> QED BY <2>2, <2>3, <2>4
<1>7. ASSUME UNext, NEW i \in Fetched, Other(i) PROVE Carried'
  <2>1. /\ epsr' = epsr
        /\ psr'.RM = psr.RM /\ psr'.IRE = psr.IRE
        /\ psr'.IMME = psr.IMME /\ psr'.DMME = psr.DMME
        /\ psr.RM \/ UNCHANGED <<itlbl, itlbh, dtlbl, dtlbh>>
    BY <1>7, InsnKeeps DEF Other, immVars, dmmVars
  <2>2. psr.RM => bus' = bus
    BY <1>7 DEF Other
  <2> QED BY <1>7, <2>1, <2>2, TlbsKept DEF Carried, UNext
<1> QED BY <1>1, <1>2, <1>3, <1>4, <1>5, <1>6, <1>7 DEF UNext

LEMMA UserRefinesCpu ==
  /\ UInit => Init
  /\ [UNext]_uvars => [Next]_vars
<1>1. UInit => Init
  BY DEF UInit
<1>2. UNext => Next
  BY DEF UNext, Trap, BootWrite, Return, Other, Next, ContextStep, OtherStep
<1> QED BY <1>1, <1>2 DEF uvars

LEMMA UserTypeOK == USpec => []TypeOK
BY InitTypeOK, StepTypeOK, UserRefinesCpu, PTL DEF USpec

(***************************************************************************)
(* The program's context and its address space are carried through every   *)
(* exception (cpu_raise_exception(), RET, the MMUs).                       *)
(***************************************************************************)
THEOREM ProgramCarried == USpec => []Carried
<1>1. TypeOK /\ Carried /\ [UNext]_uvars => Carried'
  BY CarriedStep
<1> QED BY <1>1, InitCarried, UserTypeOK, PTL DEF USpec

-----------------------------------------------------------------------------
(* The step simulation.                                                    *)

(* What the core fetches outside root mode is the program's text.          *)
LEMMA FetchIsText ==
  ASSUME TypeOK, Carried, started, ~psr.RM
  PROVE  Fetched \subseteq Program!Text
<1> SUFFICES ASSUME NEW i \in Fetched PROVE i \in Program!Text
  OBVIOUS
<1>1. Mapped /\ IPa(pc) < MMIO_PHY_BASE /\ i \in Image[IPa(pc)]
  BY DEF Fetched
<1>2. psr.IMME /\ TlbsMatch
  BY DEF Carried
<1>3. IHit(pc) /\ itlbh[ISlot(pc)].UX
  BY <1>1, <1>2 DEF Mapped, IMiss, IFault, IMay
<1>4. pc \in Nat /\ PAGE_SIZE \in Nat \ {0} /\ ITLB_COUNT \in Nat \ {0}
  BY SizeAssumption, AddrSpaceType DEF TypeOK, Word
<1>5. ISlot(pc) \in ISlots
  BY <1>4 DEF ISlot, Vpn, ISlots
<1>6. itlbh[ISlot(pc)] = ITable[Vpn(pc)]
  BY <1>2, <1>3, <1>5 DEF TlbsMatch, IHit
<1>7. IPa(pc) = Program!Physical(ITable, pc)
  BY <1>2, <1>6 DEF IPa, Program!Physical, Program!Page, Vpn
<1>8. ITable[Program!Page(pc)].UX
  BY <1>3, <1>6 DEF Program!Page, Vpn
<1> QED BY <1>1, <1>7, <1>8 DEF Program!Text

(* A data access that succeeds has the page table's address and permission. *)
LEMMA AccessIsMapped ==
  ASSUME TypeOK, Carried, started, ~psr.RM, NEW i \in Fetched, Access(i)
  PROVE  /\ DPa(i.va) = Program!Physical(DTable, i.va)
         /\ \/ i.op = "load" /\ DTable[Program!Page(i.va)].UR
            \/ i.op = "store" /\ DTable[Program!Page(i.va)].UW
<1>1. psr.DMME /\ TlbsMatch
  BY DEF Carried
<1>2. i.op \in {"load", "store"} /\ DHit(i.va) /\ DMay(i.va, i.op = "store")
  BY <1>1 DEF Access, DMiss, DFault
<1>3. i.va \in Nat /\ PAGE_SIZE \in Nat \ {0} /\ DTLB_COUNT \in Nat \ {0}
  BY <1>2, FetchedType, InsnFields, SizeAssumption, AddrSpaceType DEF Word
<1>4. DSlot(i.va) \in DSlots
  BY <1>3 DEF DSlot, Vpn, DSlots
<1>5. dtlbh[DSlot(i.va)] = DTable[Program!Page(i.va)]
  BY <1>1, <1>2, <1>4 DEF TlbsMatch, DHit, Program!Page, Vpn
<1>6. DPa(i.va) = Program!Physical(DTable, i.va)
  BY <1>1, <1>5 DEF DPa, Program!Physical
<1> QED BY <1>2, <1>5, <1>6 DEF DMay

LEMMA NextIsFollowing == NextPc(pc) = Program!Following(pc)
BY DEF NextPc, Program!Following, ADDR_SPACE

(* An instruction of the program is a step of UserProgram, or the host's   *)
(* process dies on it.                                                     *)
LEMMA InsnSimulated ==
  ASSUME TypeOK, Carried, started, started', ~psr.RM,
         NEW i \in Fetched, Other(i)
  PROVE  Program!Next \/ UNCHANGED Program!uvars
<1> DEFINE Simulated == Program!Next \/ UNCHANGED Program!uvars
<1>1. i \in Program!Text
  BY FetchIsText
<1>2. OtherInsn(i) /\ ~psr'.RM /\ psr.RM \in BOOLEAN
  BY InsnKeeps, ModeType DEF Other
<1>3. CASE Plain(i) \/ Rmsr(i) \/ WmsrNop(i)
  <2>1. Program!Step(i)
    BY <1>2, <1>3, NextIsFollowing
    DEF Other, Plain, Rmsr, WmsrNop, Retire, psVars, Program!Step
  <2> QED BY <1>1, <2>1 DEF Program!Next
<1>4. CASE Jump(i)
  <2>1. Program!Jump(i)
    BY <1>2, <1>4 DEF Other, Jump, Retire, psVars, Program!Jump
  <2> QED BY <1>1, <2>1 DEF Program!Next
<1>5. CASE Branch(i)
  <2>1. Program!Jump(i) \/ Program!FallThrough(i)
    BY <1>2, <1>5, NextIsFollowing, ModeType
    DEF Other, Branch, Retire, psVars, Program!Jump, Program!FallThrough
  <2> QED BY <1>1, <2>1 DEF Program!Next
<1>6. CASE Cmp(i)
  <2>1. psr'.CC = i.cc
    BY <1>6 DEF Cmp, TypeOK, Psr
  <2>2. Program!Compare(i)
    BY <1>2, <1>6, <2>1, NextIsFollowing DEF Other, Cmp, Retire, Program!Compare
  <2> QED BY <1>1, <2>2 DEF Program!Next
<1>7. CASE Access(i)
  <2>1. i.op \in {"load", "store"} /\ at' # "exited"
    BY <1>7 DEF Access, Retire
  <2>2. bus' = [op |-> i.op, pa |-> Program!Physical(DTable, i.va)]
    BY <1>7, <2>1, AccessIsMapped DEF Other
  <2>3. Program!Access(i)
    BY <1>2, <1>7, <2>2, AccessIsMapped, NextIsFollowing
    DEF Access, Retire, psVars, Program!Access
  <2> QED BY <1>1, <2>3 DEF Program!Next
<1>8. CASE AccessPanic(i) \/ HostPanic(i)
  BY <1>2, <1>8 DEF Other, AccessPanic, HostPanic, Panic, psVars, Program!uvars
<1>9. ~WmsrIMM(i) /\ ~WmsrDMM(i) /\ ~WmsrTSC(i) /\ ~WmsrIRQC(i)
  BY DEF WmsrIMM, WmsrDMM, WmsrTSC, WmsrIRQC
<1> QED BY <1>2, <1>3, <1>4, <1>5, <1>6, <1>7, <1>8, <1>9 DEF OtherInsn

(* Outside root mode: an exception saves what the mapping then shows.      *)
LEMMA UserSimulated ==
  ASSUME TypeOK, Carried, UNext, started, ~psr.RM
  PROVE  Program!Next \/ UNCHANGED Program!uvars
<1>1. started'
  BY DEF UNext
<1>2. CASE AsyncException /\ UNCHANGED bus
  BY <1>1, <1>2, AsyncSaves DEF Program!uvars
<1>3. CASE (LoopStep \/ Exited) /\ UNCHANGED bus
  BY <1>1, <1>3, LoopKeeps DEF Exited, vars, loopVars, psVars, Program!uvars
<1>4. CASE Trap
  <2>1. ASSUME NEW i \in Fetched, Syscall(i) PROVE Program!Next
    <3>1. epc' = Program!Following(pc) /\ epsr' = psr /\ psr'.RM
      BY <2>1, RaiseSaves, NextIsFollowing DEF Syscall
    <3>2. Program!Step(i)
      BY <1>1, <1>4, <2>1, <3>1 DEF Trap, Syscall, Program!Step
    <3> QED BY <3>2, FetchIsText DEF Program!Next
  <2>2. ASSUME NEW i \in Fetched, InvalidInsn(i) PROVE UNCHANGED Program!uvars
    <3>1. epc' = pc /\ epsr' = psr /\ psr'.RM
      BY <2>2, RaiseSaves DEF InvalidInsn
    <3> QED BY <1>1, <1>4, <3>1 DEF Trap, Program!uvars
  <2> QED BY <1>4, <2>1, <2>2 DEF Trap, SyncException
<1>5. ASSUME NEW i \in Fetched, Return(i) PROVE Program!Next
  <2>1. pc' = epc /\ psr' = epsr /\ bus' = bus /\ i.op = "ret"
    BY <1>5 DEF Return, Ret, Retire
  <2>2. epc \in Program!Space /\ psr'.CC \in BOOLEAN /\ ~psr'.RM
    BY <2>1, ModeType DEF TypeOK, Word, ADDR_SPACE, Program!Space, Carried
  <2>3. Program!Return(i)
    BY <1>1, <2>1, <2>2 DEF Program!Return
  <2> QED BY <2>3, FetchIsText DEF Program!Next
<1>6. ASSUME NEW i \in Fetched, BootWrite(i) PROVE FALSE
  BY <1>6 DEF BootWrite
<1> QED BY <1>1, <1>2, <1>3, <1>4, <1>5, <1>6, InsnSimulated DEF UNext

(* In a handler the program does not move.                                 *)
LEMMA HandlerSimulated ==
  ASSUME TypeOK, Carried, UNext, started, psr.RM
  PROVE  UNCHANGED Program!uvars
<1>1. started' /\ ~epsr.RM
  BY DEF UNext, Carried
<1>2. CASE (LoopStep \/ Exited) /\ UNCHANGED bus
  BY <1>1, <1>2, LoopKeeps DEF Exited, vars, loopVars, psVars, Program!uvars
<1>3. ASSUME NEW i \in Fetched, Return(i) PROVE UNCHANGED Program!uvars
  BY <1>1, <1>3 DEF Return, Ret, Retire, Program!uvars
<1>4. ASSUME NEW i \in Fetched, Other(i) PROVE UNCHANGED Program!uvars
  BY <1>1, <1>4, InsnKeeps DEF Other, Program!uvars
<1>5. ~AsyncException /\ ~Trap /\ \A i \in Fetched : ~BootWrite(i)
  BY HandlerUndisturbed DEF Trap, BootWrite
<1> QED BY <1>2, <1>3, <1>4, <1>5 DEF UNext

(* Before the start the program waits at ENTRY.                            *)
LEMMA BootSimulated ==
  ASSUME TypeOK, Carried, UNext, ~started
  PROVE  UNCHANGED Program!uvars
<1>1. psr.RM
  BY DEF Carried
<1>2. bus' = bus
  BY <1>1 DEF UNext, Trap, BootWrite, Return, Other
<1>3. CASE psr'.RM
  BY <1>2, <1>3 DEF UNext, Program!uvars
<1>4. CASE ~psr'.RM
  <2>1. \E i \in Fetched : Return(i)
    <3>1. ~AsyncException /\ ~Trap /\ ~LoopStep /\ ~Exited
      BY <1>1, <1>4, AsyncSaves, SyncSaves, LoopKeeps
      DEF Trap, Exited, vars, psVars
    <3>2. \A i \in Fetched : ~BootWrite(i) /\ ~Other(i)
      BY <1>1, <1>4, InsnKeeps DEF BootWrite, Other
    <3> QED BY <3>1, <3>2 DEF UNext
  <2>2. pc' = epc /\ psr' = epsr /\ Ready
    BY <1>1, <1>4, <2>1 DEF Return, Ret, Retire
  <2>3. pc' = ENTRY /\ psr'.CC = FALSE
    BY <2>2, ModeType DEF Ready
  <2> QED BY <1>2, <1>4, <2>3 DEF UNext, Program!uvars
<1> QED BY <1>3, <1>4

LEMMA Simulated ==
  ASSUME TypeOK, Carried, [UNext]_uvars
  PROVE  [Program!Next]_(Program!uvars)
<1>1. CASE UNCHANGED uvars
  BY <1>1 DEF uvars, vars, loopVars, psVars, Program!uvars
<1>2. CASE UNext
  BY <1>2, UserSimulated, HandlerSimulated, BootSimulated
<1> QED BY <1>1, <1>2

(***************************************************************************)
(* Whatever the program, the page tables and the kernel's handlers, the    *)
(* core runs the program as if it were alone on a machine of its own       *)
(* (cpu_exec(), cpu_raise_exception(), immu_translate_vma(),               *)
(* dmmu_translate_vma()).                                                  *)
(***************************************************************************)
THEOREM CoreImplementsUserProgram == USpec => Transparent
<1>1. UInit => Program!Init
  BY DEF UInit, NoAccess, Program!Init, Program!NoAccess
<1>2. TypeOK /\ Carried /\ [UNext]_uvars => [Program!Next]_(Program!uvars)
  BY Simulated
<1> QED
  BY <1>1, <1>2, UserTypeOK, ProgramCarried, PTL DEF USpec, Transparent, Program!Spec
=============================================================================
