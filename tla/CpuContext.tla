----------------------------- MODULE CpuContext -----------------------------
(***************************************************************************)
(* The core with a history variable: `ctx' remembers, from the moment an   *)
(* exception is raised, where and in which processor status the            *)
(* interrupted program has to be resumed.  The core itself has one slot    *)
(* for this, EPC and EPSR, and no stack: an exception inside a handler     *)
(* that has not saved the slot yet would lose the interrupted program.     *)
(***************************************************************************)
EXTENDS Cpu

VARIABLE ctx

Context(addr) == [held |-> TRUE, pc |-> addr, psr |-> psr]
NoContext == [held |-> FALSE, pc |-> 0, psr |-> ResetPsr]

cvars == <<vars, ctx>>

CInit == Init /\ ctx = NoContext

(* A fault, a TLB miss or an interrupt resumes at the same instruction.    *)
Interrupted == AsyncException /\ ctx' = Context(pc)

(* A SYSCALL resumes after itself, an invalid instruction at itself.       *)
Trapped ==
  \E i \in Fetched :
    \/ Syscall(i) /\ ctx' = Context(NextPc(pc))
    \/ InvalidInsn(i) /\ ctx' = Context(pc)

(* RET, or root mode writing the PS bank: the context is given up.         *)
Released == ContextStep /\ ctx' = NoContext

Undisturbed == (OtherStep \/ Exited) /\ UNCHANGED ctx

CNext == Interrupted \/ Trapped \/ Released \/ Undisturbed

CSpec == CInit /\ [][CNext]_cvars

(***************************************************************************)
(* From an exception to the handler's RET (or its first write to the PS    *)
(* bank) EPC and EPSR hold exactly the place and the status to resume      *)
(* with, whatever else the handler executes, and the core stays in root    *)
(* mode with interrupts and both MMUs off.                                 *)
(***************************************************************************)
SavedContext ==
  ctx.held => /\ epc = ctx.pc /\ epsr = ctx.psr
              /\ psr.RM /\ ~psr.IRE /\ ~psr.IMME /\ ~psr.DMME

(***************************************************************************)
(* A saved context is never overwritten behind the handler's back: no      *)
(* interrupt, page fault or TLB miss can strike while it is held; only     *)
(* code that executes SYSCALL or an invalid instruction replaces it.       *)
(***************************************************************************)
Nesting ==
  ctx.held /\ ctx' # ctx => pc' \in {VECT_EINSN, VECT_ESYSCALL} \/ ~ctx'.held
NoAsyncNesting == [][Nesting]_cvars

(***************************************************************************)
(* A handler that leaves the PS bank alone returns to the interrupted      *)
(* program, at the place and with all of the status it had: nothing the    *)
(* handler executed, its compares included, shows in the PSR.              *)
(***************************************************************************)
Resumption ==
  ctx.held /\ (\E i \in Fetched : Ret(i)) => pc' = ctx.pc /\ psr' = ctx.psr
Resumed == [][Resumption]_cvars
=============================================================================
