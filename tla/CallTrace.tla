----------------------------- MODULE CallTrace -----------------------------
(***************************************************************************)
(* The call trace of trace-runtime-stack.c and the jumps of exec.c that    *)
(* feed it, under any guest.  It is compiled in with TRACE_CALL_STACK.     *)
(***************************************************************************)
EXTENDS Integers

CONSTANTS
  ADDR_SPACE,             \* addresses: 2^32
  INSN_LEN,               \* bytes of an instruction: 4
  RLNK,                   \* the link register, ADDR_RLNK
  Registers,              \* the registers a JMP may name; 0 is always zero
  MAX_STACK_TRACE_DEPTH,  \* 8192
  MAX_UNMATCHED           \* bound of the runs: returns without a call

Address == 0 .. (ADDR_SPACE - 1)
Frame == [insn_pc : Address, lnk_pc : Address, target_pc : Address]

ASSUME TraceAssumption ==
  /\ ADDR_SPACE \in Nat \ {0} /\ INSN_LEN \in Nat
  /\ 0 \in Registers /\ RLNK \in Registers \ {0}
  /\ MAX_STACK_TRACE_DEPTH \in Nat

VARIABLES
  pc, reg,
  depth,    \* stack_depth
  damaged,  \* stack_damaged
  frames,   \* stack_traces
  host,     \* "running", or "exited" after panic()
  balance,  \* history: calls minus returns
  low       \* history: the least balance so far

trace == <<depth, damaged, frames>>
history == <<balance, low>>
vars == <<pc, reg, trace, host, history>>

Init ==
  /\ pc = 0 /\ reg = [r \in Registers |-> 0]
  /\ depth = 0 /\ damaged = FALSE
  /\ frames = [k \in 0 .. (MAX_STACK_TRACE_DEPTH - 1) |-> [insn_pc |-> 0, lnk_pc |-> 0, target_pc |-> 0]]
  /\ host = "running" /\ balance = 0 /\ low = 0
-----------------------------------------------------------------------------
NextPc(addr) == (addr + INSN_LEN) % ADDR_SPACE

(* cpu_set_reg(): register 0 stays zero.                                   *)
SetReg(regs, r, value) == IF r = 0 THEN regs ELSE [regs EXCEPT ![r] = value]

(* trace_call_stack_jmp().                                                 *)
TraceJmp(insn, lnk, target) ==
  /\ depth < MAX_STACK_TRACE_DEPTH
  /\ frames' = [frames EXCEPT ![depth] = [insn_pc |-> insn, lnk_pc |-> lnk, target_pc |-> target]]
  /\ depth' = depth + 1
  /\ UNCHANGED damaged
  /\ balance' = balance + 1 /\ UNCHANGED low

(* Mutant of TraceReturn: stops at the bottom, and forgets to say so.      *)
TraceReturnSilent ==
  /\ low > -MAX_UNMATCHED
  /\ depth' = IF depth = 0 THEN 0 ELSE depth - 1
  /\ UNCHANGED <<damaged, frames>>
  /\ balance' = balance - 1
  /\ low' = IF balance' < low THEN balance' ELSE low

(* trace_call_stack_return().                                              *)
TraceReturn ==
  /\ low > -MAX_UNMATCHED
  /\ depth' = IF depth - 1 < 0 THEN 0 ELSE depth - 1
  /\ damaged' = (damaged \/ depth - 1 < 0)
  /\ UNCHANGED frames
  /\ balance' = balance - 1
  /\ low' = IF balance' < low THEN balance' ELSE low

(* Mutant of Record: a call through a register is not recorded.            *)
RecordNoIndirect(rd, rs1, target) ==
  IF rs1 = RLNK THEN TraceReturn ELSE UNCHANGED <<trace, history>>

(* What JMP tells the trace.                                               *)
Record(rd, rs1, target) ==
  IF rs1 = RLNK THEN TraceReturn
  ELSE IF rd = RLNK THEN TraceJmp(pc, NextPc(pc), target)
  ELSE UNCHANGED <<trace, history>>

(* JMP links before it reads its target.                                   *)
Jmp(rd, rs1) ==
  /\ host = "running"
  /\ reg' = SetReg(reg, rd, NextPc(pc))
  /\ pc' = reg'[rs1]
  /\ Record(rd, rs1, pc')
  /\ UNCHANGED host

JmpI(to) ==
  /\ host = "running"
  /\ pc' = to
  /\ UNCHANGED <<reg, trace, host, history>>

JmpILnk(to) ==
  /\ host = "running"
  /\ reg' = SetReg(reg, RLNK, NextPc(pc))
  /\ pc' = to
  /\ TraceJmp(pc, NextPc(pc), to)
  /\ UNCHANGED host

(* A call beyond the last frame.                                           *)
CallPanic ==
  /\ host = "running" /\ depth >= MAX_STACK_TRACE_DEPTH
  /\ host' = "exited"
  /\ UNCHANGED <<pc, reg, trace, history>>

(* Any other instruction that sets a register.                             *)
Compute(rd, value) ==
  /\ host = "running"
  /\ reg' = SetReg(reg, rd, value)
  /\ pc' = NextPc(pc)
  /\ UNCHANGED <<trace, host, history>>

Exited == host = "exited" /\ UNCHANGED vars

Next ==
  \/ \E rd, rs1 \in Registers : Jmp(rd, rs1)
  \/ \E to \in Address : JmpI(to) \/ JmpILnk(to)
  \/ \E rd \in Registers, value \in Address : Compute(rd, value)
  \/ CallPanic \/ Exited

Spec == Init /\ [][Next]_vars
-----------------------------------------------------------------------------
(***************************************************************************)
(* Whatever the guest does, the trace is as deep as the calls made since   *)
(* the balance of calls and returns was last at its lowest, it says that   *)
(* it is damaged if and only if there ever was a return without a call,    *)
(* and only its full depth ends the process.                               *)
(***************************************************************************)
DepthReflects ==
  /\ depth = balance - low
  /\ damaged <=> low < 0
  /\ depth \in 0 .. MAX_STACK_TRACE_DEPTH
  /\ host = "exited" => depth = MAX_STACK_TRACE_DEPTH
=============================================================================
