-------------------------------- MODULE Alu --------------------------------
(***************************************************************************)
(* The register file of exec.c and the instructions that compute with it:  *)
(* what a word is, how immediates and displacements are widened, and which *)
(* operations take a word as a signed number.  A word is the number of its *)
(* bits.  Loads deliver what memory holds (Memory); MSRs are Msr's.        *)
(***************************************************************************)
EXTENDS Integers

CONSTANTS
  WORD_BITS,       \* 32
  IMM_BITS,        \* 14; MHI has the rest of a word, 18
  REL_BITS,        \* 26
  INSN_LEN_SHIFT,  \* 2
  BYTE_BITS,       \* 8; a half word has twice as many
  Registers,       \* 0 .. 31; 0 is always zero
  RLNK,            \* ADDR_RLNK: 1
  Opcodes          \* those the guest of a run executes

(* The powers of two.                                                      *)
Power[n \in Nat] == IF n = 0 THEN 1 ELSE 2 * Power[n - 1]

PERIOD == Power[WORD_BITS]
Word == 0 .. (PERIOD - 1)
INSN_LEN == Power[INSN_LEN_SHIFT]
UImm == 0 .. (Power[IMM_BITS] - 1)
Rel == 0 .. (Power[REL_BITS] - 1)
Widths == {BYTE_BITS, 2 * BYTE_BITS}

ASSUME WidthAssumption ==
  /\ WORD_BITS \in Nat /\ IMM_BITS \in 1 .. (WORD_BITS - 1)
  /\ REL_BITS \in Nat \ {0} /\ INSN_LEN_SHIFT \in Nat /\ REL_BITS + INSN_LEN_SHIFT <= WORD_BITS
  /\ BYTE_BITS \in Nat \ {0} /\ 2 * BYTE_BITS < WORD_BITS
  /\ 0 \in Registers /\ RLNK \in Registers \ {0}

VARIABLES
  pc, reg, cc,
  host,  \* "running", or "exited" after a panic or a trap of the host
  last   \* history: the last instructions, where they make one of the idioms below

vars == <<pc, reg, cc, host, last>>

(* What `last' remembers: a division, or how far the guest is in one of    *)
(* its idioms: MHI and OR_I load a constant; a load, LSL_I and ASR_I give  *)
(* a number its sign; a call and a JMP through the link; a JMP_I there     *)
(* and one back.                                                           *)
Seen(op, rd, a, b) == [op |-> op, rd |-> rd, a |-> a, b |-> b]
None == Seen("none", 0, 0, 0)

Init == pc = 0 /\ reg = [r \in Registers |-> 0] /\ cc = FALSE /\ host = "running" /\ last = None
-----------------------------------------------------------------------------
(* Words and numbers.                                                      *)

ToWord(n) == n % PERIOD
Signed(w) == IF w < PERIOD \div 2 THEN w ELSE w - PERIOD

(* The bits of a word that are set.                                        *)
Bits == [w \in Word |-> {k \in 0 .. (WORD_BITS - 1) : (w \div Power[k]) % 2 = 1}]

(* (u ^ s) - s, which gives a field with the sign bit s its sign; s is the *)
(* bit at k.                                                               *)
Extend(u, k) == ToWord((IF k \in Bits[u] THEN u - Power[k] ELSE u + Power[k]) - Power[k])

simm14(u) == Extend(u, IMM_BITS - 1)

(* Mutant of rel26_sig_ext: the displacement is not extended.              *)
RelUnsigned(rel) == rel * INSN_LEN

rel26_sig_ext(rel) == Extend(rel * INSN_LEN, REL_BITS + INSN_LEN_SHIFT - 1)

(* `/' of C, which truncates.                                              *)
Magnitude(n) == IF n < 0 THEN -n ELSE n

(* Mutant of Quotient: rounds down.                                        *)
QuotientFloor(a, b) == IF b > 0 THEN a \div b ELSE (-a) \div (-b)

Quotient(a, b) ==
  LET q == Magnitude(a) \div Magnitude(b) IN IF (a < 0) = (b < 0) THEN q ELSE -q

(* Mutant of SetReg: register 0 is like any other.                         *)
SetRegAny(r, value) == [reg EXCEPT ![r] = value]

(* cpu_set_reg() and cpu_get_reg().                                        *)
SetReg(r, value) == IF r = 0 THEN reg ELSE [reg EXCEPT ![r] = value]
-----------------------------------------------------------------------------
(* What an operation may yield, of two words.  A shift by a count that is  *)
(* not below WORD_BITS is undefined in C.                                  *)
Shifts == {"LSL", "LSR", "ASR"}
Divisions == {"DIV", "DIVU", "MOD", "MODU"}
Binary == {"AND", "OR", "XOR", "ADD", "SUB", "MUL"} \cup Shifts \cup Divisions
Immediate == {"AND", "OR", "XOR", "ADD"} \cup Shifts

(* Mutant of Shifted: ASR shifts zeros in.                                 *)
ShiftedLogical(op, a, count) == IF op = "LSL" THEN ToWord(a * Power[count]) ELSE a \div Power[count]

Shifted(op, a, count) ==
  CASE op = "LSL" -> ToWord(a * Power[count])
    [] op = "LSR" -> a \div Power[count]
    [] op = "ASR" -> ToWord(Signed(a) \div Power[count])

Results(op, a, b) ==
  CASE op = "AND" -> {w \in Word : Bits[w] = Bits[a] \cap Bits[b]}
    [] op = "OR"  -> {w \in Word : Bits[w] = Bits[a] \cup Bits[b]}
    [] op = "XOR" -> {w \in Word : Bits[w] = (Bits[a] \cup Bits[b]) \ (Bits[a] \cap Bits[b])}
    [] op = "ADD" -> {ToWord(a + b)}
    [] op = "SUB" -> {ToWord(a - b)}
    [] op = "MUL" -> {ToWord(a * b)}
    [] op \in {"DIV", "DIVU"} -> {ToWord(Quotient(Signed(a), Signed(b)))}
    [] op \in {"MOD", "MODU"} -> {ToWord(Signed(a) - (Quotient(Signed(a), Signed(b)) * Signed(b)))}
    [] OTHER -> IF b < WORD_BITS THEN {Shifted(op, a, b)} ELSE Word

(* The host's division traps, for DIVU and MODU as well.                   *)
Traps(op, a, b) ==
  op \in Divisions /\ (b = 0 \/ (Signed(a) = -(PERIOD \div 2) /\ Signed(b) = -1))

(* Mutant of Operand: OR_I extends the sign, like XOR_I.                   *)
OperandSigned(op, u) == IF op \in {"XOR", "ADD", "OR"} THEN simm14(u) ELSE u

(* The immediate operand: only XOR_I and ADD_I extend its sign.            *)
Operand(op, u) == IF op \in {"XOR", "ADD"} THEN simm14(u) ELSE u
-----------------------------------------------------------------------------
(* The instructions.                                                       *)

NextPc(addr) == ToWord(addr + INSN_LEN)
Goto(addr) == pc' = addr /\ UNCHANGED host
Advance == Goto(NextPc(pc))

BinaryOp(op, rd, rs1, rs2) ==
  /\ ~Traps(op, reg[rs1], reg[rs2])
  /\ \E r \in Results(op, reg[rs1], reg[rs2]) : reg' = SetReg(rd, r)
  /\ last' = IF op \in Divisions THEN Seen(op, rd, reg[rs1], reg[rs2]) ELSE None
  /\ Advance /\ UNCHANGED cc

HostTrap(op, rs1, rs2) ==
  /\ Traps(op, reg[rs1], reg[rs2])
  /\ host' = "exited" /\ UNCHANGED <<pc, reg, cc, last>>

(* Every instruction names a register, with fields of six bits: one that   *)
(* is not below 32 ends the emulator.                                      *)
InvalidRegister == host' = "exited" /\ UNCHANGED <<pc, reg, cc, last>>

(* What an immediate operation makes of the idiom it may belong to.        *)
Continued(op, rd, rs1, u) ==
  IF ~(rd = rs1 /\ rd = last.rd) THEN None
  ELSE CASE op = "OR" /\ last.op = "MHI" -> Seen("constant", rd, last.a, u)
         [] op = "LSL" /\ last.op = "load" /\ u = WORD_BITS - last.b -> Seen("shifted", rd, last.a, last.b)
         [] op = "ASR" /\ last.op = "shifted" /\ u = WORD_BITS - last.b -> Seen("widened", rd, last.a, last.b)
         [] OTHER -> None

ImmediateOp(op, rd, rs1, u) ==
  /\ \E r \in Results(op, reg[rs1], Operand(op, u)) : reg' = SetReg(rd, r)
  /\ last' = Continued(op, rd, rs1, u)
  /\ Advance /\ UNCHANGED cc

Mhi(rd, high) ==
  /\ reg' = SetReg(rd, ToWord(high * Power[IMM_BITS]))
  /\ last' = Seen("MHI", rd, high, 0)
  /\ Advance /\ UNCHANGED cc

Cmp(attr, rs1, rs2) ==
  /\ cc' = CASE attr = "EQ"  -> reg[rs1] = reg[rs2]
             [] attr = "GT"  -> Signed(reg[rs1]) > Signed(reg[rs2])
             [] attr = "GTU" -> reg[rs1] > reg[rs2]
  /\ last' = None
  /\ Advance /\ UNCHANGED reg

(* LDB, LDBU, LDH, LDHU: uint8_t and uint16_t widen to a word as numbers.  *)
LoadPart(rd, bits) ==
  /\ \E value \in 0 .. (Power[bits] - 1) :
       reg' = SetReg(rd, value) /\ last' = Seen("load", rd, value, bits)
  /\ Advance /\ UNCHANGED cc

(* BT, BF and JMP_I, to a displacement of the instruction itself.  The     *)
(* most negative displacement has no opposite.                             *)
Branch(op, rel) ==
  /\ Goto(IF (op = "BT") = cc THEN ToWord(pc + rel26_sig_ext(rel)) ELSE NextPc(pc))
  /\ last' = None
  /\ UNCHANGED <<reg, cc>>

JmpI(rel) ==
  /\ last' = IF last.op = "there" /\ last.b + rel = Power[REL_BITS] /\ last.b # rel
             THEN Seen("back", 0, last.a, rel) ELSE Seen("there", 0, pc, rel)
  /\ Goto(ToWord(pc + rel26_sig_ext(rel))) /\ UNCHANGED <<reg, cc>>

JmpILnk(rel) ==
  /\ reg' = SetReg(RLNK, NextPc(pc))
  /\ last' = Seen("call", RLNK, pc, 0)
  /\ Goto(ToWord(pc + rel26_sig_ext(rel))) /\ UNCHANGED cc

(* Mutant of Jmp: the target is read before the link is written.           *)
JmpReadFirst(rd, rs1) ==
  /\ reg' = SetReg(rd, NextPc(pc))
  /\ last' = CASE rd # 0 -> Seen("call", rd, pc, IF rd = rs1 THEN 1 ELSE 0)
               [] rd = 0 /\ last.op = "call" /\ rs1 = last.rd -> Seen("returned", 0, last.a, 0)
               [] OTHER -> None
  /\ Goto(reg[rs1]) /\ UNCHANGED cc

(* The link is written before the target is read; b marks a JMP to the     *)
(* register it links in.                                                   *)
Jmp(rd, rs1) ==
  /\ reg' = SetReg(rd, NextPc(pc))
  /\ last' = CASE rd # 0 -> Seen("call", rd, pc, IF rd = rs1 THEN 1 ELSE 0)
               [] rd = 0 /\ last.op = "call" /\ rs1 = last.rd -> Seen("returned", 0, last.a, 0)
               [] OTHER -> None
  /\ Goto(reg'[rs1]) /\ UNCHANGED cc

Uses(name) == host = "running" /\ name \in Opcodes

Next ==
  \/ \E op \in Binary, rd, rs1, rs2 \in Registers :
       Uses(op) /\ (BinaryOp(op, rd, rs1, rs2) \/ HostTrap(op, rs1, rs2))
  \/ \E op \in Immediate, rd, rs1 \in Registers, u \in UImm : Uses(op) /\ ImmediateOp(op, rd, rs1, u)
  \/ \E rd \in Registers, high \in 0 .. (Power[WORD_BITS - IMM_BITS] - 1) : Uses("MHI") /\ Mhi(rd, high)
  \/ \E attr \in {"EQ", "GT", "GTU"}, rs1, rs2 \in Registers : Uses("CMP") /\ Cmp(attr, rs1, rs2)
  \/ \E rd \in Registers, bits \in Widths : Uses("LOAD") /\ LoadPart(rd, bits)
  \/ \E op \in {"BT", "BF"}, rel \in Rel : Uses(op) /\ Branch(op, rel)
  \/ \E rel \in Rel : (Uses("JMP_I") /\ JmpI(rel)) \/ (Uses("JMP_I_LNK") /\ JmpILnk(rel))
  \/ \E rd, rs1 \in Registers : Uses("JMP") /\ Jmp(rd, rs1)
  \/ host = "running" /\ InvalidRegister
  \/ host = "exited" /\ UNCHANGED vars

Spec == Init /\ [][Next]_vars
-----------------------------------------------------------------------------
(* The registers hold words, and register 0 zero, whichever instruction    *)
(* names it as its destination (exec.c:42).                                *)
TypeOK ==
  /\ pc \in Word /\ reg \in [Registers -> Word] /\ reg[0] = 0
  /\ cc \in BOOLEAN /\ host \in {"running", "exited"}
  /\ last.rd \in Registers /\ last.a \in Word /\ last.b \in Nat

Result == Signed(reg[last.rd])
Written == last.rd # 0

(* MHI and OR_I of one register load the word whose upper and lower bits   *)
(* they name: OR_I must not extend the sign of its immediate.              *)
ConstantBuilt == last.op = "constant" /\ Written => reg[last.rd] = (last.a * Power[IMM_BITS]) + last.b

(* LDB and LDH deliver a number without sign; shifted left to the end of   *)
(* the word and back with ASR_I it is the signed number that was stored.   *)
SignRecovered ==
  last.op = "widened" /\ Written =>
    Result = last.a - (IF last.a < Power[last.b - 1] THEN 0 ELSE Power[last.b])

(* DIV truncates and MOD leaves what remains, with the sign of the         *)
(* dividend; DIVU and MODU, which the code does not distinguish from them, *)
(* are right for numbers below half of the range.                          *)
Division ==
  LET a == Signed(last.a)
      b == Signed(last.b)
      Remains(r) == Magnitude(r) < Magnitude(b) /\ (r = 0 \/ (r < 0) = (a < 0))
  IN  Written =>
        /\ last.op \in {"DIV", "DIVU"} => Remains(a - (Result * b))
        /\ last.op \in {"MOD", "MODU"} => Remains(Result) /\ (a - Result) % Magnitude(b) = 0
        /\ last.op = "DIVU" /\ a >= 0 /\ b > 0 => reg[last.rd] = last.a \div last.b

(* A JMP_I and one of the opposite displacement end where they began, over *)
(* the ends of the address space as well.                                  *)
ThereAndBack == last.op = "back" => pc = last.a

(* A JMP through the link of the call before it returns behind the call,   *)
(* whichever register links; a JMP that links in the register it jumps     *)
(* through goes on behind itself and loses the register.                   *)
CallReturns ==
  /\ last.op = "returned" => pc = NextPc(last.a)
  /\ last.op = "call" /\ last.b = 1 => pc = NextPc(last.a) /\ reg[last.rd] = pc
=============================================================================
