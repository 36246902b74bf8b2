-------------------------------- MODULE Msr --------------------------------
(***************************************************************************)
(* The model-specific registers as WMSR and RMSR see them: numbered words. *)
(* msr.c keeps a register unpacked, a byte for each flag and a number for  *)
(* the field; here the set of the flags that are on and the set of the     *)
(* bits of the field.  A word is the set of its bits that are 1.           *)
(***************************************************************************)
EXTENDS Integers

CONSTANTS
  WORD_BITS,         \* 32
  BANK,              \* registers of a bank: 2^10
  INDEX_PERIOD,      \* values of msr_index_t: 2^16
  TLBL, TLBH,        \* where the halves of a TLB start in its bank: 0x100, 0x180
  immu_tlb_count,    \* entries of the instruction TLB: 128
  dmmu_tlb_count,    \* entries of the data TLB: 128
  PAGE_SHIFT,        \* where a page number starts in a word: 13
  CNT_BITS,          \* bits of the field TCR.CNT: 28
  Indices,           \* what an instruction computes as the index
  Words,             \* the words it writes
  Addresses          \* the words the hardware writes

Bits == 0 .. (WORD_BITS - 1)

ASSUME LayoutAssumption ==
  /\ WORD_BITS \in Nat /\ PAGE_SHIFT \in 9 .. WORD_BITS
  /\ 9 < WORD_BITS /\ CNT_BITS \in Nat /\ CNT_BITS + 2 < WORD_BITS
  /\ Words \subseteq SUBSET Bits /\ Addresses \subseteq SUBSET Bits
  /\ Indices \subseteq Int
ASSUME BankAssumption ==
  /\ BANK \in Nat /\ INDEX_PERIOD \in Nat /\ 8 * BANK <= INDEX_PERIOD
  /\ immu_tlb_count \in Nat \ {0} /\ dmmu_tlb_count \in Nat \ {0}
  /\ TLBL \in Nat /\ TLBH \in Nat /\ 6 < TLBL
  /\ TLBL + immu_tlb_count <= TLBH /\ TLBH + immu_tlb_count <= BANK
  /\ TLBL + dmmu_tlb_count <= TLBH /\ TLBH + dmmu_tlb_count <= BANK

(* ncpu32k-msr.h: the indices.                                             *)
MSR_PSR    == 0
MSR_CPUID  == 1
MSR_EPSR   == 2
MSR_EPC    == 3
MSR_ELSA   == 4
MSR_COREID == 6
MSR_IMMID  == BANK
MSR_ITLBL  == BANK + TLBL
MSR_ITLBH  == BANK + TLBH
MSR_DMMID  == 2 * BANK
MSR_DTLBL  == 2 * BANK + TLBL
MSR_DTLBH  == 2 * BANK + TLBH
MSR_CACHE  == {b * BANK + r : b \in {3, 4}, r \in {1, 2}}  \* ICINV, ICFLS, DCINV, DCFLS
MSR_DBGR   == {5 * BANK, 5 * BANK + 1}                     \* NUMPORT, MSGPORT
MSR_IMR    == 6 * BANK
MSR_IRR    == 6 * BANK + 1
MSR_TSR    == 7 * BANK
MSR_TCR    == 7 * BANK + 1

(* ... and the places of the flags in a word.                              *)
PsrFlags == [CC |-> 0, CY |-> 1, OV |-> 2, OE |-> 3, RM |-> 4, IRE |-> 5,
             IMME |-> 6, DMME |-> 7, ICAE |-> 8, DCAE |-> 9]
TlblFlags == [V |-> 0]
ItlbhFlags == [P |-> 0, D |-> 1, A |-> 2, UX |-> 3, RX |-> 4, NC |-> 7, S |-> 8]
DtlbhFlags == [P |-> 0, D |-> 1, A |-> 2, UW |-> 3, UR |-> 4, RW |-> 5, RR |-> 6, NC |-> 7, S |-> 8]
TcrFlags == [EN |-> CNT_BITS, I |-> CNT_BITS + 1, P |-> CNT_BITS + 2]
NoFlags == [f \in {} |-> 0]

PageBits == PAGE_SHIFT .. (WORD_BITS - 1)  \* MSR_ITLBL_VPN, MSR_ITLBH_PPN, ...

Layout(flags, mask, shift) == [flags |-> flags, mask |-> mask, shift |-> shift]

LayoutOf(name) ==
  CASE name \in {"PSR", "EPSR"}    -> Layout(PsrFlags, {}, 0)
    [] name \in {"ITLBL", "DTLBL"} -> Layout(TlblFlags, PageBits, PAGE_SHIFT)
    [] name = "ITLBH"              -> Layout(ItlbhFlags, PageBits, PAGE_SHIFT)
    [] name = "DTLBH"              -> Layout(DtlbhFlags, PageBits, PAGE_SHIFT)
    [] name = "TCR"                -> Layout(TcrFlags, 0 .. (CNT_BITS - 1), 0)
    [] OTHER                       -> Layout(NoFlags, Bits, 0)  \* EPC, ELSA, TSR, IMR, IRR

(* struct msr_s: which of its members holds a register, and in which place. *)
Single == {"PSR", "EPSR", "EPC", "ELSA", "TSR", "TCR", "IMR", "IRR"}
Keys == [name : Single, slot : {0}]
          \cup [name : {"ITLBL", "ITLBH"}, slot : 0 .. (immu_tlb_count - 1)]
          \cup [name : {"DTLBL", "DTLBH"}, slot : 0 .. (dmmu_tlb_count - 1)]
Key(name, slot) == [name |-> name, slot |-> slot]

VARIABLES
  msr,     \* the register file, unpacked
  access,  \* the last access: its operation, index and value
  host     \* "running", or "exited" after panic()

vars == <<msr, access, host>>

(* init_msr(): memset(), then PSR.RM is set.                               *)
Init ==
  /\ msr = [k \in Keys |-> [flags |-> IF k.name = "PSR" THEN {"RM"} ELSE {}, field |-> {}]]
  /\ access = [op |-> "none", index |-> -1, value |-> {}]
  /\ host = "running"
-----------------------------------------------------------------------------
Root == "RM" \in msr[Key("PSR", 0)].flags

(* Mutant of Unpack: the field is not masked, so that a reserved bit gets in. *)
UnpackUnmasked(l, word) ==
  [flags |-> {f \in DOMAIN l.flags : l.flags[f] \in word},
   field |-> {b - l.shift : b \in {x \in word : x >= l.shift}}]

(* msr_unpack_bit() for each flag and msr_unpack_field().                  *)
Unpack(l, word) ==
  [flags |-> {f \in DOMAIN l.flags : l.flags[f] \in word},
   field |-> {b - l.shift : b \in word \cap l.mask}]

(* Mutant of Pack: the field is not moved to its place.                    *)
PackUnshifted(l, reg) == {l.flags[f] : f \in reg.flags} \cup (reg.field \cap l.mask)

(* msr_pack_bit() for each flag and msr_pack_field().                      *)
Pack(l, reg) ==
  {l.flags[f] : f \in reg.flags} \cup ({b + l.shift : b \in reg.field} \cap l.mask)

(* The member of msr_s an index names, for the registers that have one.    *)
InRange(index, base, count) == index >= base /\ index < base + count

Decode(index) ==
  CASE index = MSR_PSR  -> Key("PSR", 0)  [] index = MSR_EPSR -> Key("EPSR", 0)
    [] index = MSR_EPC  -> Key("EPC", 0)  [] index = MSR_ELSA -> Key("ELSA", 0)
    [] index = MSR_TSR  -> Key("TSR", 0)  [] index = MSR_TCR  -> Key("TCR", 0)
    [] index = MSR_IMR  -> Key("IMR", 0)  [] index = MSR_IRR  -> Key("IRR", 0)
    [] InRange(index, MSR_ITLBL, immu_tlb_count) -> Key("ITLBL", index - MSR_ITLBL)
    [] InRange(index, MSR_ITLBH, immu_tlb_count) -> Key("ITLBH", index - MSR_ITLBH)
    [] InRange(index, MSR_DTLBL, dmmu_tlb_count) -> Key("DTLBL", index - MSR_DTLBL)
    [] InRange(index, MSR_DTLBH, dmmu_tlb_count) -> Key("DTLBH", index - MSR_DTLBH)
    [] OTHER -> Key("none", 0)

(* tsc_update_tcr(), which every change of TCR ends with.                  *)
WithLine(regs) ==
  LET irr == regs[Key("IRR", 0)].field
      t   == regs[Key("TCR", 0)].flags
  IN  [regs EXCEPT ![Key("IRR", 0)].field = IF {"P", "I"} \subseteq t THEN irr \cup {0} ELSE irr \ {0}]

Stored(k, word) ==
  LET regs == [msr EXCEPT ![k] = Unpack(LayoutOf(k.name), word)]
  IN  IF k.name = "TCR" THEN WithLine(regs) ELSE regs
-----------------------------------------------------------------------------
(* The index is the instruction's, cut to 16 bits.                         *)
Index(n) == n % INDEX_PERIOD

Accessed(op, index, value) == access' = [op |-> op, index |-> index, value |-> value]
Panic == host' = "exited" /\ UNCHANGED <<msr, access>>

Wmsr(index, word) ==
  /\ host = "running" /\ Root /\ Decode(index).name \notin {"none", "IRR"}
  /\ msr' = Stored(Decode(index), word)
  /\ Accessed("wmsr", index, word)
  /\ UNCHANGED host

(* The debug ports, the caches, and any register outside root mode.        *)
WmsrNop(index, word) ==
  /\ host = "running"
  /\ index \in MSR_DBGR \cup MSR_CACHE \/ ~Root
  /\ Accessed("wmsr", index, word)
  /\ UNCHANGED <<msr, host>>

WmsrUnknown(index) ==
  /\ host = "running" /\ Root
  /\ Decode(index).name \in {"none", "IRR"} /\ index \notin MSR_DBGR \cup MSR_CACHE
  /\ Panic

(* The words of the identification registers; 7 is log2 of the TLB counts. *)
Constant(index) ==
  CASE index = MSR_CPUID -> {0, 18, 19, 22, 24, 25}  \* VER 1, FIMM, FDMM, FDBG, FIRQC, FTSC
    [] index = MSR_COREID -> {}
    [] index \in {MSR_IMMID, MSR_DMMID} -> {0, 1, 2}

(* A DTLBL word is computed, and then dropped: the switch is left by break. *)
Answer(index) ==
  LET k == Decode(index)
  IN  IF k.name = "none" THEN Constant(index)
      ELSE IF k.name = "DTLBL" THEN {} ELSE Pack(LayoutOf(k.name), msr[k])

Readable(index) ==
  Decode(index).name # "none" \/ index \in {MSR_CPUID, MSR_COREID, MSR_IMMID, MSR_DMMID}

Rmsr(index) ==
  /\ host = "running" /\ Root /\ Readable(index)
  /\ Accessed("rmsr", index, Answer(index))
  /\ UNCHANGED <<msr, host>>

RmsrUser(index) ==
  /\ host = "running" /\ ~Root
  /\ Accessed("rmsr", index, {})
  /\ UNCHANGED <<msr, host>>

RmsrUnknown(index) == host = "running" /\ Root /\ ~Readable(index) /\ Panic
-----------------------------------------------------------------------------
(* The hardware's own writes: cpu_raise_exception(), RET, a timer expiry.  *)

WordOf(addr) == [flags |-> {}, field |-> addr]

Raise(addr, lsa) ==
  LET psr == msr[Key("PSR", 0)]
  IN  /\ host = "running"
      /\ msr' = [msr EXCEPT ![Key("EPC", 0)] = WordOf(addr), ![Key("ELSA", 0)] = WordOf(lsa),
                            ![Key("EPSR", 0)] = psr,
                            ![Key("PSR", 0)].flags = (psr.flags \cup {"RM"}) \ {"IMME", "DMME", "IRE"}]
      /\ UNCHANGED <<access, host>>

Ret ==
  /\ host = "running"
  /\ msr' = [msr EXCEPT ![Key("PSR", 0)] = msr[Key("EPSR", 0)]]
  /\ UNCHANGED <<access, host>>

Expire(tsr) ==
  /\ host = "running" /\ {"EN", "I"} \subseteq msr[Key("TCR", 0)].flags
  /\ msr' = WithLine([msr EXCEPT ![Key("TCR", 0)].flags = @ \cup {"P"},
                                 ![Key("TSR", 0)] = WordOf(tsr)])
  /\ UNCHANGED <<access, host>>

Exited == host = "exited" /\ UNCHANGED vars

Instruction ==
  \E n \in Indices :
    \/ \E word \in Words : Wmsr(Index(n), word) \/ WmsrNop(Index(n), word)
    \/ WmsrUnknown(Index(n))
    \/ Rmsr(Index(n)) \/ RmsrUser(Index(n)) \/ RmsrUnknown(Index(n))

Hardware ==
  \/ \E addr, lsa \in Addresses : Raise(addr, lsa)
  \/ \E tsr \in Addresses : Expire(tsr)
  \/ Ret

Next == Instruction \/ Hardware \/ Exited

Spec == Init /\ [][Next]_vars
-----------------------------------------------------------------------------
(* Properties.                                                             *)

TypeOK ==
  /\ \A k \in Keys : /\ msr[k].flags \subseteq DOMAIN LayoutOf(k.name).flags
                     /\ msr[k].field \subseteq {b - LayoutOf(k.name).shift : b \in LayoutOf(k.name).mask}
  /\ DOMAIN msr = Keys
  /\ host \in {"running", "exited"}

(* The registers that ncpu32k-msr.h marks "R/W", and the bits it names.    *)
Documented ==
  {MSR_PSR, MSR_EPSR, MSR_EPC, MSR_ELSA, MSR_IMR, MSR_TSR, MSR_TCR}
    \cup {base + s : base \in {MSR_ITLBL, MSR_ITLBH}, s \in 0 .. (immu_tlb_count - 1)}
    \cup {base + s : base \in {MSR_DTLBL, MSR_DTLBH}, s \in 0 .. (dmmu_tlb_count - 1)}
Dtlbl == {MSR_DTLBL + s : s \in 0 .. (dmmu_tlb_count - 1)}

BitsOf(index) ==
  CASE index \in {MSR_PSR, MSR_EPSR} -> 0 .. 9
    [] index = MSR_TCR -> 0 .. (CNT_BITS + 2)
    [] InRange(index, MSR_ITLBL, immu_tlb_count) \/ index \in Dtlbl -> {0} \cup PageBits
    [] InRange(index, MSR_ITLBH, immu_tlb_count) -> {0, 1, 2, 3, 4, 7, 8} \cup PageBits
    [] InRange(index, MSR_DTLBH, dmmu_tlb_count) -> 0 .. 8 \cup PageBits
    [] OTHER -> Bits

Kept == INSTANCE WordFile WITH
  Values <- Words \cup Addresses, Registers <- Documented \ Dtlbl,
  Implemented <- [n \in Documented |-> BitsOf(n)],
  PSR <- MSR_PSR, EPSR <- MSR_EPSR, EPC <- MSR_EPC, ELSA <- MSR_ELSA,
  TSR <- MSR_TSR, TCR <- MSR_TCR, RootBit <- 4, OffBits <- {5, 6, 7}, ExpiredBit <- CNT_BITS + 2,
  word <- [n \in Documented \ Dtlbl |-> Answer(n)]

(***************************************************************************)
(* Every read/write register but DTLBL is a word of its own: RMSR returns  *)
(* the bits that the header names of the word WMSR stored, no access to    *)
(* another register shows in it, and an exception and RET carry all of the *)
(* processor status, the flags that nothing consults included.             *)
(***************************************************************************)
WordsKept == Kept!Spec

(***************************************************************************)
(* "MSR.DTLBL R/W" (ncpu32k-msr.h:122): what root mode stores in the low   *)
(* half of a data TLB entry is read back.                                  *)
(***************************************************************************)
DtlblKept ==
  [][\A n \in Dtlbl, word \in Words : Wmsr(n, word) => Answer(n)' = word \cap BitsOf(n)]_vars
=============================================================================
