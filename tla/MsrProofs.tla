------------------------------ MODULE MsrProofs ------------------------------
(***************************************************************************)
(* What WMSR and RMSR promise of the model-specific registers, for every   *)
(* width of a word, every size of the TLBs, and every sequence of indices  *)
(* and words an instruction or the hardware may write.                     *)
(***************************************************************************)
EXTENDS Msr, TLAPS

(* The sizes of the banks, with what follows from them.                    *)
LEMMA Sizes ==
  /\ BANK \in Int /\ BANK > 8 /\ INDEX_PERIOD \in Nat \ {0}
  /\ TLBL \in Int /\ TLBH \in Int /\ 6 < TLBL /\ TLBL < TLBH /\ TLBH < BANK
  /\ immu_tlb_count \in Nat \ {0} /\ dmmu_tlb_count \in Nat \ {0}
  /\ TLBL + immu_tlb_count <= TLBH /\ TLBH + immu_tlb_count <= BANK
  /\ TLBL + dmmu_tlb_count <= TLBH /\ TLBH + dmmu_tlb_count <= BANK
BY BankAssumption

(* The layouts of the registers.                                           *)
Names == Single \cup {"ITLBL", "ITLBH", "DTLBL", "DTLBH"}

(* Masks and flags are bits of a word.                                     *)
LEMMA Layouts ==
  ASSUME NEW name \in Names
  PROVE  /\ LayoutOf(name).mask \subseteq Bits
         /\ LayoutOf(name).shift \in Int
         /\ \A f \in DOMAIN LayoutOf(name).flags : LayoutOf(name).flags[f] \in Bits
<1>1. WORD_BITS \in Nat /\ PAGE_SHIFT \in Nat /\ 9 < WORD_BITS /\ CNT_BITS \in Nat /\ CNT_BITS + 2 < WORD_BITS
  BY LayoutAssumption
<1>2. CASE name \in {"PSR", "EPSR"}
  BY <1>1, <1>2 DEF LayoutOf, Layout, PsrFlags, Bits
<1>3. CASE name \in {"ITLBL", "DTLBL"}
  BY <1>1, <1>3 DEF LayoutOf, Layout, TlblFlags, PageBits, Bits
<1>4. CASE name = "ITLBH"
  BY <1>1, <1>4 DEF LayoutOf, Layout, ItlbhFlags, PageBits, Bits
<1>5. CASE name = "DTLBH"
  BY <1>1, <1>5 DEF LayoutOf, Layout, DtlbhFlags, PageBits, Bits
<1>6. CASE name = "TCR"
  BY <1>1, <1>6 DEF LayoutOf, Layout, TcrFlags, Bits
<1>7. CASE name \in {"EPC", "ELSA", "TSR", "IMR", "IRR"}
  <2>1. LayoutOf(name) = Layout(NoFlags, Bits, 0)
    BY <1>7 DEF LayoutOf
  <2>2. DOMAIN NoFlags = {}
    BY DEF NoFlags
  <2>. QED  BY <2>1, <2>2 DEF Layout
<1>. QED  BY <1>2, <1>3, <1>4, <1>5, <1>6, <1>7 DEF Names, Single

(* The bits of a word that a layout has a place for.                       *)
Covered(l) == {l.flags[f] : f \in DOMAIN l.flags} \cup l.mask

(* A register unpacks a word and packs it again: what it has no place for  *)
(* is lost, and nothing else.                                              *)
LEMMA PackAfterUnpack ==
  ASSUME NEW name \in Names, NEW word
  PROVE  Pack(LayoutOf(name), Unpack(LayoutOf(name), word)) = word \cap Covered(LayoutOf(name))
<1>. DEFINE l == LayoutOf(name)
<1>1. l.mask \subseteq Int /\ l.shift \in Int
  BY Layouts DEF Bits
<1>. HIDE DEF l
<1>2. \A b \in Int : (b - l.shift) + l.shift = b
  BY <1>1
<1>. DEFINE reg == Unpack(l, word)
<1>3. reg.flags = {f \in DOMAIN l.flags : l.flags[f] \in word}
  BY DEF Unpack
<1>4. reg.field = {b - l.shift : b \in word \cap l.mask}
  BY DEF Unpack
<1>5. {l.flags[f] : f \in reg.flags} = word \cap {l.flags[f] : f \in DOMAIN l.flags}
  BY <1>3
<1>6. {b + l.shift : b \in reg.field} = word \cap l.mask
  <2>1. ASSUME NEW x \in word \cap l.mask
        PROVE  x \in {b + l.shift : b \in reg.field}
    <3>1. x - l.shift \in reg.field /\ x = (x - l.shift) + l.shift
      BY <1>1, <1>2, <1>4
    <3>. QED  BY <3>1
  <2>2. ASSUME NEW b \in reg.field
        PROVE  b + l.shift \in word \cap l.mask
    BY <1>1, <1>2, <1>4
  <2>. QED  BY <2>1, <2>2
<1>7. Pack(l, reg) = word \cap Covered(l)
  BY <1>5, <1>6 DEF Pack, Covered
<1>. QED  BY <1>7 DEF l

(* What is unpacked fits the layout.                                       *)
Fits(l, reg) ==
  /\ reg = [flags |-> reg.flags, field |-> reg.field]
  /\ reg.flags \subseteq DOMAIN l.flags
  /\ reg.field \subseteq {b - l.shift : b \in l.mask}

(* Unpacking fits, whatever the word.                                      *)
LEMMA UnpackFits ==
  ASSUME NEW name \in Names, NEW word
  PROVE  Fits(LayoutOf(name), Unpack(LayoutOf(name), word))
<1>. DEFINE l == LayoutOf(name)
<1>1. l.mask \subseteq Int /\ l.shift \in Int
  BY Layouts DEF Bits
<1>. HIDE DEF l
<1>2. Fits(l, Unpack(l, word))
  BY <1>1 DEF Fits, Unpack
<1>. QED  BY <1>2 DEF l

(* The index of a register.                                                *)
IndexOf(k) ==
  CASE k.name = "PSR" -> MSR_PSR [] k.name = "EPSR" -> MSR_EPSR
    [] k.name = "EPC" -> MSR_EPC [] k.name = "ELSA" -> MSR_ELSA
    [] k.name = "TSR" -> MSR_TSR [] k.name = "TCR" -> MSR_TCR
    [] k.name = "IMR" -> MSR_IMR [] k.name = "IRR" -> MSR_IRR
    [] k.name = "ITLBL" -> MSR_ITLBL + k.slot
    [] k.name = "ITLBH" -> MSR_ITLBH + k.slot
    [] k.name = "DTLBL" -> MSR_DTLBL + k.slot
    [] k.name = "DTLBH" -> MSR_DTLBH + k.slot

Scalar == {MSR_PSR, MSR_EPSR, MSR_EPC, MSR_ELSA, MSR_TSR, MSR_TCR, MSR_IMR, MSR_IRR}

(* The registers that are alone,                                           *)
LEMMA DecodeScalar ==
  /\ Decode(MSR_PSR) = Key("PSR", 0) /\ Decode(MSR_EPSR) = Key("EPSR", 0)
  /\ Decode(MSR_EPC) = Key("EPC", 0) /\ Decode(MSR_ELSA) = Key("ELSA", 0)
  /\ Decode(MSR_TSR) = Key("TSR", 0) /\ Decode(MSR_TCR) = Key("TCR", 0)
  /\ Decode(MSR_IMR) = Key("IMR", 0) /\ Decode(MSR_IRR) = Key("IRR", 0)
<1>1. /\ MSR_PSR < MSR_EPSR /\ MSR_EPSR < MSR_EPC /\ MSR_EPC < MSR_ELSA /\ MSR_ELSA < MSR_IMR
      /\ MSR_IMR < MSR_IRR /\ MSR_IRR < MSR_TSR /\ MSR_TSR < MSR_TCR
      /\ MSR_PSR \in Int /\ MSR_EPSR \in Int /\ MSR_EPC \in Int /\ MSR_ELSA \in Int
      /\ MSR_IMR \in Int /\ MSR_IRR \in Int /\ MSR_TSR \in Int /\ MSR_TCR \in Int
  BY Sizes DEF MSR_PSR, MSR_EPSR, MSR_EPC, MSR_ELSA, MSR_IMR, MSR_IRR, MSR_TSR, MSR_TCR
<1>. DEFINE Other(i) == /\ ~InRange(i, MSR_ITLBL, immu_tlb_count) /\ ~InRange(i, MSR_ITLBH, immu_tlb_count)
                        /\ ~InRange(i, MSR_DTLBL, dmmu_tlb_count) /\ ~InRange(i, MSR_DTLBH, dmmu_tlb_count)
<1>0. /\ Other(MSR_PSR) /\ Other(MSR_EPSR) /\ Other(MSR_EPC) /\ Other(MSR_ELSA)
      /\ Other(MSR_IMR) /\ Other(MSR_IRR) /\ Other(MSR_TSR) /\ Other(MSR_TCR)
  BY Sizes DEF InRange, MSR_PSR, MSR_EPSR, MSR_EPC, MSR_ELSA, MSR_IMR, MSR_IRR, MSR_TSR, MSR_TCR,
               MSR_ITLBL, MSR_ITLBH, MSR_DTLBL, MSR_DTLBH
<1>2. Decode(MSR_PSR) = Key("PSR", 0) /\ Decode(MSR_EPSR) = Key("EPSR", 0)
  BY <1>0, <1>1 DEF Decode
<1>3. Decode(MSR_EPC) = Key("EPC", 0) /\ Decode(MSR_ELSA) = Key("ELSA", 0)
  BY <1>0, <1>1 DEF Decode
<1>4. Decode(MSR_TSR) = Key("TSR", 0) /\ Decode(MSR_TCR) = Key("TCR", 0)
  BY <1>0, <1>1 DEF Decode
<1>5. Decode(MSR_IMR) = Key("IMR", 0) /\ Decode(MSR_IRR) = Key("IRR", 0)
  BY <1>0, <1>1 DEF Decode
<1>. QED  BY <1>2, <1>3, <1>4, <1>5

(* ... the entries of the TLBs, and the rest.                              *)
LEMMA DecodeEntry ==
  ASSUME NEW i \in Int, i \notin Scalar
  PROVE  \/ InRange(i, MSR_ITLBL, immu_tlb_count) /\ Decode(i) = Key("ITLBL", i - MSR_ITLBL)
         \/ InRange(i, MSR_ITLBH, immu_tlb_count) /\ Decode(i) = Key("ITLBH", i - MSR_ITLBH)
         \/ InRange(i, MSR_DTLBL, dmmu_tlb_count) /\ Decode(i) = Key("DTLBL", i - MSR_DTLBL)
         \/ InRange(i, MSR_DTLBH, dmmu_tlb_count) /\ Decode(i) = Key("DTLBH", i - MSR_DTLBH)
         \/ Decode(i) = Key("none", 0)
BY Sizes DEF Decode, Scalar

(* Every index names at most one register, and every register has one.     *)
LEMMA Decodes ==
  ASSUME NEW i \in Int
  PROVE  /\ Decode(i).name = "none" \/ Decode(i) \in Keys
         /\ Decode(i).name # "none" => IndexOf(Decode(i)) = i
         /\ Decode(i).name \in Names \cup {"none"}
<1>1. CASE i \in Scalar
  BY <1>1, DecodeScalar DEF Scalar, Key, Keys, IndexOf, Names, Single
<1>2. CASE i \notin Scalar
  <2>1. CASE InRange(i, MSR_ITLBL, immu_tlb_count) /\ Decode(i) = Key("ITLBL", i - MSR_ITLBL)
    BY <2>1, Sizes DEF InRange, Key, Keys, IndexOf, Names, MSR_ITLBL
  <2>2. CASE InRange(i, MSR_ITLBH, immu_tlb_count) /\ Decode(i) = Key("ITLBH", i - MSR_ITLBH)
    BY <2>2, Sizes DEF InRange, Key, Keys, IndexOf, Names, MSR_ITLBH
  <2>3. CASE InRange(i, MSR_DTLBL, dmmu_tlb_count) /\ Decode(i) = Key("DTLBL", i - MSR_DTLBL)
    BY <2>3, Sizes DEF InRange, Key, Keys, IndexOf, Names, MSR_DTLBL
  <2>4. CASE InRange(i, MSR_DTLBH, dmmu_tlb_count) /\ Decode(i) = Key("DTLBH", i - MSR_DTLBH)
    BY <2>4, Sizes DEF InRange, Key, Keys, IndexOf, Names, MSR_DTLBH
  <2>5. CASE Decode(i) = Key("none", 0)
    BY <2>5 DEF Key
  <2>. QED  BY <1>2, <2>1, <2>2, <2>3, <2>4, <2>5, DecodeEntry
<1>. QED  BY <1>1, <1>2

(* The registers that are words of their own.                              *)
Registers == Documented \ Dtlbl

(* The documented indices are the ones WMSR accepts ...                    *)
LEMMA DocumentedDecode ==
  ASSUME NEW i \in Documented
  PROVE  i \in Int /\ Decode(i).name \notin {"none", "IRR"} /\ (i \in Dtlbl <=> Decode(i).name = "DTLBL")
<1>. DEFINE I == MSR_ITLBL .. (MSR_ITLBL + immu_tlb_count - 1)
            J == MSR_ITLBH .. (MSR_ITLBH + immu_tlb_count - 1)
            K == MSR_DTLBL .. (MSR_DTLBL + dmmu_tlb_count - 1)
            L == MSR_DTLBH .. (MSR_DTLBH + dmmu_tlb_count - 1)
<1>1. /\ MSR_ITLBL \in Int /\ MSR_ITLBH \in Int /\ MSR_DTLBL \in Int /\ MSR_DTLBH \in Int
      /\ immu_tlb_count \in Int /\ dmmu_tlb_count \in Int
  BY Sizes DEF MSR_ITLBL, MSR_ITLBH, MSR_DTLBL, MSR_DTLBH
<1>2. Dtlbl = K
  BY <1>1 DEF Dtlbl
<1>3. i \in (Scalar \ {MSR_IRR}) \cup I \cup J \cup K \cup L
  <2>1. CASE i \in {MSR_PSR, MSR_EPSR, MSR_EPC, MSR_ELSA, MSR_IMR, MSR_TSR, MSR_TCR}
    <3>1. MSR_IRR \notin {MSR_PSR, MSR_EPSR, MSR_EPC, MSR_ELSA, MSR_IMR, MSR_TSR, MSR_TCR}
      BY Sizes DEF MSR_PSR, MSR_EPSR, MSR_EPC, MSR_ELSA, MSR_IMR, MSR_IRR, MSR_TSR, MSR_TCR
    <3>. QED  BY <2>1, <3>1 DEF Scalar
  <2>2. CASE i \in {base + s : base \in {MSR_ITLBL, MSR_ITLBH}, s \in 0 .. (immu_tlb_count - 1)}
    BY <1>1, <2>2
  <2>3. CASE i \in {base + s : base \in {MSR_DTLBL, MSR_DTLBH}, s \in 0 .. (dmmu_tlb_count - 1)}
    BY <1>1, <2>3
  <2>. QED  BY <2>1, <2>2, <2>3 DEF Documented
<1>4. CASE i \in Scalar \ {MSR_IRR}
  <2>1. i \notin K /\ i \in Int
    BY <1>4, Sizes DEF Scalar, MSR_DTLBL, MSR_PSR, MSR_EPSR, MSR_EPC, MSR_ELSA, MSR_IMR, MSR_TSR, MSR_TCR
  <2>2. Decode(i).name \notin {"none", "IRR", "DTLBL"}
    BY <1>4, DecodeScalar DEF Scalar, Key
  <2>. QED  BY <1>2, <2>1, <2>2
<1>5. CASE i \in I \cup J \cup K \cup L
  <2>1. i \in Int /\ i \notin Scalar
    BY <1>5, Sizes DEF Scalar, MSR_PSR, MSR_EPSR, MSR_EPC, MSR_ELSA, MSR_IMR, MSR_IRR, MSR_TSR, MSR_TCR,
                       MSR_ITLBL, MSR_ITLBH, MSR_DTLBL, MSR_DTLBH
  <2>2. /\ i \in I <=> InRange(i, MSR_ITLBL, immu_tlb_count)
        /\ i \in J <=> InRange(i, MSR_ITLBH, immu_tlb_count)
        /\ i \in K <=> InRange(i, MSR_DTLBL, dmmu_tlb_count)
        /\ i \in L <=> InRange(i, MSR_DTLBH, dmmu_tlb_count)
    BY <1>1, <2>1 DEF InRange
  <2>3. i \in K => i \notin I \cup J \cup L
    BY <2>1, Sizes DEF MSR_ITLBL, MSR_ITLBH, MSR_DTLBL, MSR_DTLBH
  <2>. HIDE DEF I, J, K, L
  <2>4. ~(Decode(i) = Key("none", 0))
    BY <1>5, <2>1, <2>2, Sizes DEF Decode, Key, Scalar
  <2>5. CASE i \in I /\ Decode(i).name = "ITLBL"
    BY <1>2, <2>1, <2>3, <2>5
  <2>6. CASE i \in J /\ Decode(i).name = "ITLBH"
    BY <1>2, <2>1, <2>3, <2>6
  <2>7. CASE i \in K /\ Decode(i).name = "DTLBL"
    BY <1>2, <2>1, <2>7
  <2>8. CASE i \in L /\ Decode(i).name = "DTLBH"
    BY <1>2, <2>1, <2>3, <2>8
  <2>9. \/ i \in I /\ Decode(i).name = "ITLBL"
        \/ i \in J /\ Decode(i).name = "ITLBH"
        \/ i \in K /\ Decode(i).name = "DTLBL"
        \/ i \in L /\ Decode(i).name = "DTLBH"
    BY <2>1, <2>2, <2>4, DecodeEntry DEF Key
  <2>. QED  BY <2>5, <2>6, <2>7, <2>8, <2>9
<1>. QED  BY <1>3, <1>4, <1>5

(* ... and no other is.                                                    *)
LEMMA DecodeDocumented ==
  ASSUME NEW i \in Int, Decode(i).name \notin {"none", "IRR"}
  PROVE  i \in Documented
<1>1. CASE i \in Scalar
  BY <1>1, DecodeScalar DEF Scalar, Documented, Key
<1>2. CASE i \notin Scalar
  <2>1. /\ MSR_ITLBL \in Int /\ MSR_ITLBH \in Int /\ MSR_DTLBL \in Int /\ MSR_DTLBH \in Int
        /\ immu_tlb_count \in Int /\ dmmu_tlb_count \in Int
    BY Sizes DEF MSR_ITLBL, MSR_ITLBH, MSR_DTLBL, MSR_DTLBH
  <2>2. ASSUME NEW base \in Int, NEW count \in Int, InRange(i, base, count)
        PROVE  \E s \in 0 .. (count - 1) : i = base + s
    <3>1. i - base \in 0 .. (count - 1) /\ i = base + (i - base)
      BY <2>2 DEF InRange
    <3>. QED  BY <3>1
  <2>3. CASE InRange(i, MSR_ITLBL, immu_tlb_count)
    BY <2>1, <2>2, <2>3 DEF Documented
  <2>4. CASE InRange(i, MSR_ITLBH, immu_tlb_count)
    BY <2>1, <2>2, <2>4 DEF Documented
  <2>5. CASE InRange(i, MSR_DTLBL, dmmu_tlb_count)
    BY <2>1, <2>2, <2>5 DEF Documented
  <2>6. CASE InRange(i, MSR_DTLBH, dmmu_tlb_count)
    BY <2>1, <2>2, <2>6 DEF Documented
  <2>. QED  BY <1>2, <2>3, <2>4, <2>5, <2>6, DecodeEntry DEF Key
<1>. QED  BY <1>1, <1>2
-----------------------------------------------------------------------------
(* A register file in which every register fits its layout.                *)
File(m) ==
  /\ m = [k \in Keys |-> m[k]]
  /\ \A k \in Keys : Fits(LayoutOf(k.name), m[k])

(* The members of msr_s have the names of the layouts.                     *)
LEMMA KeyNames ==
  /\ \A k \in Keys : k.name \in Names
  /\ \A name \in Single : Key(name, 0) \in Keys
BY DEF Keys, Names, Key

(* A register that fits is put in the place of another.                    *)
LEMMA Put ==
  ASSUME NEW m, File(m), NEW k \in Keys, NEW reg, Fits(LayoutOf(k.name), reg)
  PROVE  /\ File([m EXCEPT ![k] = reg])
         /\ [m EXCEPT ![k] = reg][k] = reg
         /\ \A j \in Keys : j # k => [m EXCEPT ![k] = reg][j] = m[j]
BY DEF File

(* The line of the timer changes the pending interrupts only.              *)
LEMMA LineKept ==
  ASSUME NEW m, File(m)
  PROVE  /\ File(WithLine(m))
         /\ \A k \in Keys : k # Key("IRR", 0) => WithLine(m)[k] = m[k]
<1>. DEFINE irr == Key("IRR", 0)
            old == m[irr]
            field == IF {"P", "I"} \subseteq m[Key("TCR", 0)].flags THEN old.field \cup {0} ELSE old.field \ {0}
            new == [old EXCEPT !.field = field]
<1>1. irr \in Keys /\ irr.name = "IRR"
  BY KeyNames DEF Single, Key
<1>2. LayoutOf("IRR") = Layout(NoFlags, Bits, 0)
  BY DEF LayoutOf
<1>3. 0 \in Bits /\ Bits \subseteq Int
  BY LayoutAssumption DEF Bits
<1>4. Fits(LayoutOf("IRR"), old)
  BY <1>1 DEF File
<1>5. \A b \in Bits : b - 0 = b
  BY <1>3
<1>6. 0 \in {b - 0 : b \in Bits}
  BY <1>3
<1>7. old = [flags |-> old.flags, field |-> old.field] /\ old.field \subseteq {b - 0 : b \in Bits}
  BY <1>2, <1>4 DEF Fits, Layout
<1>8. field \subseteq {b - 0 : b \in Bits}
  <2>. HIDE DEF old
  <2>. QED  BY <1>6, <1>7
<1>9. Fits(LayoutOf("IRR"), new)
  <2>. HIDE DEF old, field
  <2>. QED  BY <1>2, <1>4, <1>7, <1>8 DEF Fits, Layout
<1>10. WithLine(m) = [m EXCEPT ![irr] = new]
  BY <1>1 DEF WithLine, File
<1>. HIDE DEF new, irr
<1>11. /\ File([m EXCEPT ![irr] = new])
       /\ \A j \in Keys : j # irr => [m EXCEPT ![irr] = new][j] = m[j]
  BY <1>1, <1>9, Put
<1>. QED  BY <1>10, <1>11 DEF irr

(* A write of the instruction WMSR.                                        *)
LEMMA StoredKept ==
  ASSUME File(msr), NEW k \in Keys, NEW word
  PROVE  /\ File(Stored(k, word))
         /\ k # Key("IRR", 0) => Stored(k, word)[k] = Unpack(LayoutOf(k.name), word)
         /\ \A j \in Keys \ {k, Key("IRR", 0)} : Stored(k, word)[j] = msr[j]
<1>. DEFINE reg == Unpack(LayoutOf(k.name), word)
            regs == [msr EXCEPT ![k] = reg]
<1>1. Fits(LayoutOf(k.name), reg)
  BY KeyNames, UnpackFits
<1>. HIDE DEF reg
<1>2. File(regs) /\ regs[k] = reg /\ \A j \in Keys : j # k => regs[j] = msr[j]
  BY <1>1, Put
<1>. HIDE DEF regs
<1>3. File(WithLine(regs)) /\ \A j \in Keys : j # Key("IRR", 0) => WithLine(regs)[j] = regs[j]
  BY <1>2, LineKept
<1>4. Stored(k, word) = IF k.name = "TCR" THEN WithLine(regs) ELSE regs
  BY DEF Stored, regs, reg
<1>5. CASE k.name = "TCR"
  BY <1>2, <1>3, <1>4, <1>5 DEF reg
<1>6. CASE k.name # "TCR"
  BY <1>2, <1>4, <1>6 DEF reg
<1>. QED  BY <1>5, <1>6

(* A register that the hardware writes fits: a word as it is, a copy of    *)
(* another register of the same layout, or the same with other flags.      *)
LEMMA WholeWord ==
  ASSUME NEW name \in {"EPC", "ELSA", "TSR", "IMR", "IRR"}, NEW addr \in SUBSET Bits
  PROVE  /\ Fits(LayoutOf(name), WordOf(addr))
         /\ Pack(LayoutOf(name), WordOf(addr)) = addr
<1>1. LayoutOf(name) = Layout(NoFlags, Bits, 0)
  BY DEF LayoutOf
<1>2. Bits \subseteq Int /\ DOMAIN NoFlags = {}
  BY LayoutAssumption DEF Bits, NoFlags
<1>3. {b - 0 : b \in Bits} = Bits /\ {b + 0 : b \in addr} = addr
  BY <1>2
<1>4. Fits(Layout(NoFlags, Bits, 0), WordOf(addr))
  BY <1>2, <1>3 DEF Fits, Layout, WordOf
<1>5. Pack(Layout(NoFlags, Bits, 0), WordOf(addr)) = {} \cup (addr \cap Bits)
  BY <1>3 DEF Pack, Layout, WordOf
<1>. QED  BY <1>1, <1>4, <1>5

ExceptionPsr(psr) == [psr EXCEPT !.flags = (psr.flags \cup {"RM"}) \ {"IMME", "DMME", "IRE"}]
Expired(tcr) == [tcr EXCEPT !.flags = tcr.flags \cup {"P"}]

(* What an exception does to PSR, and an expiry to TCR, fits.              *)
LEMMA FlagsFit ==
  /\ \A reg : Fits(LayoutOf("PSR"), reg) => Fits(LayoutOf("PSR"), ExceptionPsr(reg))
  /\ \A reg : Fits(LayoutOf("TCR"), reg) => Fits(LayoutOf("TCR"), Expired(reg))
  /\ LayoutOf("EPSR") = LayoutOf("PSR")
<1>1. LayoutOf("EPSR") = Layout(PsrFlags, {}, 0) /\ LayoutOf("PSR") = Layout(PsrFlags, {}, 0)
  BY DEF LayoutOf
<1>2. LayoutOf("TCR") = Layout(TcrFlags, 0 .. (CNT_BITS - 1), 0)
  BY DEF LayoutOf
<1>3. "RM" \in DOMAIN PsrFlags /\ "P" \in DOMAIN TcrFlags
  BY DEF PsrFlags, TcrFlags
<1>4. ASSUME NEW reg, Fits(LayoutOf("PSR"), reg)
      PROVE  Fits(LayoutOf("PSR"), ExceptionPsr(reg))
  BY <1>1, <1>3, <1>4 DEF Fits, Layout, ExceptionPsr
<1>5. ASSUME NEW reg, Fits(LayoutOf("TCR"), reg)
      PROVE  Fits(LayoutOf("TCR"), Expired(reg))
  <2>. DEFINE l == LayoutOf("TCR")
  <2>1. "P" \in DOMAIN l.flags
    BY <1>2, <1>3 DEF Layout
  <2>. HIDE DEF l
  <2>2. Fits(l, reg) => Fits(l, Expired(reg))
    BY <2>1 DEF Fits, Expired
  <2>. QED  BY <1>5, <2>2 DEF l
<1>. QED  BY <1>1, <1>4, <1>5

(* cpu_raise_exception().                                                  *)
LEMMA RaiseKept ==
  ASSUME File(msr), NEW addr \in Addresses, NEW lsa \in Addresses, Raise(addr, lsa)
  PROVE  /\ File(msr')
         /\ msr'[Key("EPC", 0)] = WordOf(addr) /\ msr'[Key("ELSA", 0)] = WordOf(lsa)
         /\ msr'[Key("EPSR", 0)] = msr[Key("PSR", 0)]
         /\ msr'[Key("PSR", 0)] = ExceptionPsr(msr[Key("PSR", 0)])
         /\ \A k \in Keys : k.name \notin {"PSR", "EPSR", "EPC", "ELSA"} => msr'[k] = msr[k]
<1>. DEFINE psr == msr[Key("PSR", 0)]
            a == [msr EXCEPT ![Key("EPC", 0)] = WordOf(addr)]
            b == [a EXCEPT ![Key("ELSA", 0)] = WordOf(lsa)]
            c == [b EXCEPT ![Key("EPSR", 0)] = psr]
            d == [c EXCEPT ![Key("PSR", 0)] = ExceptionPsr(psr)]
<1>1. /\ Key("EPC", 0) \in Keys /\ Key("ELSA", 0) \in Keys /\ Key("EPSR", 0) \in Keys /\ Key("PSR", 0) \in Keys
      /\ \A name : Key(name, 0).name = name
  BY KeyNames DEF Single, Key
<1>2. addr \in SUBSET Bits /\ lsa \in SUBSET Bits
  BY LayoutAssumption
<1>3. /\ Fits(LayoutOf("EPC"), WordOf(addr)) /\ Fits(LayoutOf("ELSA"), WordOf(lsa))
      /\ Fits(LayoutOf("PSR"), psr) /\ Fits(LayoutOf("EPSR"), psr)
      /\ Fits(LayoutOf("PSR"), ExceptionPsr(psr))
  BY <1>1, <1>2, WholeWord, FlagsFit DEF File
<1>4. msr' = d
  <2>1. msr' = [msr EXCEPT ![Key("EPC", 0)] = WordOf(addr), ![Key("ELSA", 0)] = WordOf(lsa),
                           ![Key("EPSR", 0)] = psr,
                           ![Key("PSR", 0)].flags = (psr.flags \cup {"RM"}) \ {"IMME", "DMME", "IRE"}]
    BY DEF Raise
  <2>2. c[Key("PSR", 0)] = psr
    BY <1>1 DEF File, Key
  <2>3. msr' = [c EXCEPT ![Key("PSR", 0)].flags = (psr.flags \cup {"RM"}) \ {"IMME", "DMME", "IRE"}]
    BY <2>1
  <2>. HIDE DEF c, psr
  <2>. QED  BY <2>2, <2>3 DEF ExceptionPsr
<1>. HIDE DEF psr
<1>5. File(a) /\ a[Key("EPC", 0)] = WordOf(addr) /\ \A j \in Keys : j # Key("EPC", 0) => a[j] = msr[j]
  BY <1>1, <1>3, Put
<1>. HIDE DEF a
<1>6. File(b) /\ b[Key("ELSA", 0)] = WordOf(lsa) /\ \A j \in Keys : j # Key("ELSA", 0) => b[j] = a[j]
  BY <1>1, <1>3, <1>5, Put
<1>. HIDE DEF b
<1>7. File(c) /\ c[Key("EPSR", 0)] = psr /\ \A j \in Keys : j # Key("EPSR", 0) => c[j] = b[j]
  BY <1>1, <1>3, <1>6, Put
<1>. HIDE DEF c
<1>8. File(d) /\ d[Key("PSR", 0)] = ExceptionPsr(psr) /\ \A j \in Keys : j # Key("PSR", 0) => d[j] = c[j]
  BY <1>1, <1>3, <1>7, Put
<1>. HIDE DEF d
<1>9. /\ Key("EPC", 0) # Key("ELSA", 0) /\ Key("EPC", 0) # Key("EPSR", 0) /\ Key("EPC", 0) # Key("PSR", 0)
      /\ Key("ELSA", 0) # Key("EPSR", 0) /\ Key("ELSA", 0) # Key("PSR", 0) /\ Key("EPSR", 0) # Key("PSR", 0)
  BY DEF Key
<1>10. \A k \in Keys : k.name \notin {"PSR", "EPSR", "EPC", "ELSA"} => d[k] = msr[k]
  BY <1>1, <1>5, <1>6, <1>7, <1>8
<1>. QED  BY <1>1, <1>4, <1>5, <1>6, <1>7, <1>8, <1>9, <1>10 DEF psr

(* RET.                                                                    *)
LEMMA RetKept ==
  ASSUME File(msr), Ret
  PROVE  /\ File(msr')
         /\ msr'[Key("PSR", 0)] = msr[Key("EPSR", 0)]
         /\ \A k \in Keys : k # Key("PSR", 0) => msr'[k] = msr[k]
<1>1. Key("PSR", 0) \in Keys /\ Key("EPSR", 0) \in Keys /\ Key("PSR", 0).name = "PSR" /\ Key("EPSR", 0).name = "EPSR"
  BY KeyNames DEF Single, Key
<1>2. Fits(LayoutOf("PSR"), msr[Key("EPSR", 0)])
  BY <1>1, FlagsFit DEF File
<1>3. msr' = [msr EXCEPT ![Key("PSR", 0)] = msr[Key("EPSR", 0)]]
  BY DEF Ret
<1>. DEFINE key == Key("PSR", 0)
            reg == msr[Key("EPSR", 0)]
<1>4. key \in Keys /\ Fits(LayoutOf(key.name), reg)
  BY <1>1, <1>2
<1>5. /\ File([msr EXCEPT ![key] = reg]) /\ [msr EXCEPT ![key] = reg][key] = reg
      /\ \A j \in Keys : j # key => [msr EXCEPT ![key] = reg][j] = msr[j]
  <2>. HIDE DEF key, reg
  <2>. QED  BY <1>4, Put
<1>. QED  BY <1>3, <1>5

(* A timer expiry.                                                         *)
LEMMA ExpireKept ==
  ASSUME File(msr), NEW tsr \in Addresses, Expire(tsr)
  PROVE  /\ File(msr')
         /\ msr'[Key("TSR", 0)] = WordOf(tsr)
         /\ msr'[Key("TCR", 0)] = Expired(msr[Key("TCR", 0)])
         /\ \A k \in Keys : k.name \notin {"TSR", "TCR", "IRR"} => msr'[k] = msr[k]
<1>. DEFINE tcr == msr[Key("TCR", 0)]
            a == [msr EXCEPT ![Key("TCR", 0)] = Expired(tcr)]
            b == [a EXCEPT ![Key("TSR", 0)] = WordOf(tsr)]
<1>1. /\ Key("TCR", 0) \in Keys /\ Key("TSR", 0) \in Keys
      /\ \A name : Key(name, 0).name = name
      /\ Key("TCR", 0) # Key("TSR", 0) /\ Key("TCR", 0) # Key("IRR", 0) /\ Key("TSR", 0) # Key("IRR", 0)
  BY KeyNames DEF Single, Key
<1>2. Fits(LayoutOf("TSR"), WordOf(tsr))
  BY LayoutAssumption, WholeWord
<1>3. Fits(LayoutOf("TCR"), Expired(tcr))
  BY <1>1, FlagsFit DEF File
<1>4. msr' = WithLine(b)
  <2>1. msr' = WithLine([msr EXCEPT ![Key("TCR", 0)].flags = @ \cup {"P"}, ![Key("TSR", 0)] = WordOf(tsr)])
    BY DEF Expire
  <2>2. [msr EXCEPT ![Key("TCR", 0)].flags = @ \cup {"P"}, ![Key("TSR", 0)] = WordOf(tsr)] = b
    BY <1>1 DEF Expired, File
  <2>. QED  BY <2>1, <2>2
<1>. HIDE DEF tcr
<1>0. Fits(LayoutOf(Key("TCR", 0).name), Expired(tcr))
  BY <1>1, <1>3
<1>5. File(a) /\ a[Key("TCR", 0)] = Expired(tcr) /\ \A j \in Keys : j # Key("TCR", 0) => a[j] = msr[j]
  <2>. DEFINE key == Key("TCR", 0)
              reg == Expired(tcr)
  <2>1. key \in Keys /\ Fits(LayoutOf(key.name), reg)
    BY <1>0, <1>1
  <2>. HIDE DEF key, reg
  <2>2. /\ File([msr EXCEPT ![key] = reg]) /\ [msr EXCEPT ![key] = reg][key] = reg
        /\ \A j \in Keys : j # key => [msr EXCEPT ![key] = reg][j] = msr[j]
    BY <2>1, Put
  <2>. QED  BY <2>2 DEF key, reg
<1>. HIDE DEF a
<1>6. File(b) /\ b[Key("TSR", 0)] = WordOf(tsr) /\ \A j \in Keys : j # Key("TSR", 0) => b[j] = a[j]
  <2>. DEFINE key == Key("TSR", 0)
              reg == WordOf(tsr)
  <2>0. File(a)
    BY <1>5
  <2>1. key \in Keys /\ Fits(LayoutOf(key.name), reg)
    BY <1>1, <1>2
  <2>. HIDE DEF key, reg
  <2>2. ASSUME NEW m, File(m)
        PROVE  /\ File([m EXCEPT ![key] = reg]) /\ [m EXCEPT ![key] = reg][key] = reg
               /\ \A j \in Keys : j # key => [m EXCEPT ![key] = reg][j] = m[j]
    BY <2>1, <2>2, Put
  <2>3. /\ File([a EXCEPT ![key] = reg]) /\ [a EXCEPT ![key] = reg][key] = reg
        /\ \A j \in Keys : j # key => [a EXCEPT ![key] = reg][j] = a[j]
    BY <2>0, <2>2
  <2>. QED  BY <2>3 DEF key, reg, b
<1>. HIDE DEF b
<1>7. File(WithLine(b)) /\ \A k \in Keys : k # Key("IRR", 0) => WithLine(b)[k] = b[k]
  BY <1>6, LineKept
<1>8. \A k \in Keys : k.name \notin {"TSR", "TCR", "IRR"} => WithLine(b)[k] = msr[k]
  BY <1>1, <1>5, <1>6, <1>7
<1>. QED  BY <1>1, <1>4, <1>5, <1>6, <1>7, <1>8 DEF tcr
-----------------------------------------------------------------------------
MsrInv == File(msr) /\ host \in {"running", "exited"}

(* An index cut to 16 bits is a number.                                    *)
LEMMA Indexed ==
  \A n \in Indices : Index(n) \in Int
BY Sizes, LayoutAssumption DEF Index

(* init_msr() leaves registers that fit.                                   *)
LEMMA InitInv == Init => MsrInv
<1>. SUFFICES ASSUME Init
              PROVE  MsrInv
  OBVIOUS
<1>1. msr = [k \in Keys |-> [flags |-> IF k.name = "PSR" THEN {"RM"} ELSE {}, field |-> {}]]
  BY DEF Init
<1>2. ASSUME NEW k \in Keys
      PROVE  Fits(LayoutOf(k.name), msr[k])
  <2>1. k.name = "PSR" => "RM" \in DOMAIN LayoutOf(k.name).flags
    BY DEF LayoutOf, Layout, PsrFlags
  <2>. DEFINE l == LayoutOf(k.name)
  <2>. HIDE DEF l
  <2>2. msr[k] = [flags |-> IF k.name = "PSR" THEN {"RM"} ELSE {}, field |-> {}]
    BY <1>1
  <2>3. k.name = "PSR" => "RM" \in DOMAIN l.flags
    BY <2>1 DEF l
  <2>4. Fits(l, msr[k])
    BY <2>2, <2>3 DEF Fits
  <2>. QED  BY <2>4 DEF l
<1>. QED  BY <1>1, <1>2 DEF MsrInv, File, Init

(* Registers that fit have the type.                                       *)
LEMMA FitsTyped == MsrInv => TypeOK
BY DEF MsrInv, File, Fits, TypeOK

(* Every instruction, and everything the hardware does, keeps them so.     *)
LEMMA StepInv == MsrInv /\ [Next]_vars => MsrInv'
<1>. SUFFICES ASSUME MsrInv, [Next]_vars
              PROVE  MsrInv'
  OBVIOUS
<1>0. File(msr)
  BY DEF MsrInv
<1>1. ASSUME UNCHANGED msr, host' \in {"running", "exited"}
      PROVE  MsrInv'
  BY <1>1 DEF MsrInv, File
<1>2. ASSUME NEW i \in Int, NEW word \in Words, Wmsr(i, word)
      PROVE  MsrInv'
  <2>1. Decode(i) \in Keys /\ msr' = Stored(Decode(i), word) /\ host' = host
    BY <1>2, Decodes DEF Wmsr
  <2>2. File(Stored(Decode(i), word))
    BY <1>0, <2>1, StoredKept
  <2>. QED  BY <2>1, <2>2 DEF MsrInv
<1>3. ASSUME NEW i \in Int, NEW word \in Words, WmsrNop(i, word)
      PROVE  MsrInv'
  BY <1>1, <1>3 DEF WmsrNop, MsrInv
<1>4. ASSUME NEW i \in Int, WmsrUnknown(i) \/ RmsrUnknown(i)
      PROVE  MsrInv'
  BY <1>1, <1>4 DEF WmsrUnknown, RmsrUnknown, Panic
<1>5. ASSUME NEW i \in Int, Rmsr(i) \/ RmsrUser(i)
      PROVE  MsrInv'
  BY <1>1, <1>5 DEF Rmsr, RmsrUser, MsrInv
<1>6. CASE Instruction
  BY <1>2, <1>3, <1>4, <1>5, <1>6, Indexed DEF Instruction
<1>7. ASSUME NEW addr \in Addresses, NEW lsa \in Addresses, Raise(addr, lsa)
      PROVE  MsrInv'
  <2>1. File(msr')
    BY <1>0, <1>7, RaiseKept
  <2>2. host' = host
    BY <1>7 DEF Raise
  <2>. QED  BY <2>1, <2>2 DEF MsrInv
<1>8. ASSUME NEW tsr \in Addresses, Expire(tsr)
      PROVE  MsrInv'
  <2>1. File(msr')
    BY <1>0, <1>8, ExpireKept
  <2>2. host' = host
    BY <1>8 DEF Expire
  <2>. QED  BY <2>1, <2>2 DEF MsrInv
<1>9. CASE Ret
  <2>1. File(msr')
    BY <1>0, <1>9, RetKept
  <2>2. host' = host
    BY <1>9 DEF Ret
  <2>. QED  BY <2>1, <2>2 DEF MsrInv
<1>10. CASE Exited \/ UNCHANGED vars
  BY <1>1, <1>10 DEF Exited, vars, MsrInv
<1>. QED  BY <1>6, <1>7, <1>8, <1>9, <1>10 DEF Next, Hardware

(***************************************************************************)
(* Whatever is written, by instructions and by the hardware, every         *)
(* register holds flags and a field of its own layout, in its place.       *)
(***************************************************************************)
THEOREM RegistersFit == Spec => []TypeOK
BY InitInv, StepInv, FitsTyped, PTL DEF Spec

(***************************************************************************)
(* The words of the documented registers.                                  *)
(***************************************************************************)
LEMMA RegisterKey ==
  ASSUME NEW n \in Registers
  PROVE  /\ n \in Int /\ Decode(n) \in Keys
         /\ Decode(n).name \in Names /\ Decode(n).name \notin {"none", "DTLBL", "IRR"}
         /\ Decode(n) # Key("IRR", 0)
         /\ Answer(n) = Pack(LayoutOf(Decode(n).name), msr[Decode(n)])
         /\ Answer(n)' = Pack(LayoutOf(Decode(n).name), msr'[Decode(n)])
<1>1. n \in Documented /\ n \notin Dtlbl
  BY DEF Registers
<1>2. n \in Int /\ Decode(n).name \notin {"none", "IRR", "DTLBL"}
  BY <1>1, DocumentedDecode
<1>3. Decode(n) \in Keys /\ Decode(n).name \in Names
  BY <1>2, Decodes
<1>4. Decode(n) # Key("IRR", 0)
  BY <1>2 DEF Key
<1>. QED  BY <1>2, <1>3, <1>4 DEF Answer

(* No two indices name one register.                                       *)
LEMMA KeyOfOne ==
  ASSUME NEW n \in Registers, NEW i \in Int, Decode(i) = Decode(n)
  PROVE  i = n
<1>0. n \in Int /\ Decode(n).name # "none"
  BY RegisterKey
<1>1. IndexOf(Decode(n)) = n
  BY <1>0, Decodes
<1>2. IndexOf(Decode(i)) = i
  BY <1>0, Decodes
<1>. QED  BY <1>1, <1>2

(* The bits that ncpu32k-msr.h names are the ones the layout has.          *)
LEMMA BitsCovered ==
  ASSUME NEW n \in Registers
  PROVE  Covered(LayoutOf(Decode(n).name)) = BitsOf(n)
<1>. DEFINE I == InRange(n, MSR_ITLBL, immu_tlb_count)
            J == InRange(n, MSR_ITLBH, immu_tlb_count)
            L == InRange(n, MSR_DTLBH, dmmu_tlb_count)
<1>0. n \in Int /\ n \notin Dtlbl
  BY RegisterKey DEF Registers
<1>1. n \in Scalar => ~I /\ ~J /\ ~L
  BY Sizes DEF Scalar, InRange, MSR_PSR, MSR_EPSR, MSR_EPC, MSR_ELSA, MSR_IMR, MSR_IRR, MSR_TSR, MSR_TCR,
               MSR_ITLBL, MSR_ITLBH, MSR_DTLBH
<1>2. (I => ~J /\ ~L) /\ (J => ~L)
  BY <1>0, Sizes DEF InRange, MSR_ITLBL, MSR_ITLBH, MSR_DTLBH
<1>3. /\ MSR_PSR # MSR_TCR /\ MSR_EPSR # MSR_TCR
      /\ \A s \in {MSR_EPC, MSR_ELSA, MSR_TSR, MSR_IMR, MSR_IRR} : s \notin {MSR_PSR, MSR_EPSR, MSR_TCR}
  BY Sizes DEF MSR_PSR, MSR_EPSR, MSR_EPC, MSR_ELSA, MSR_IMR, MSR_IRR, MSR_TSR, MSR_TCR
<1>4. PAGE_SHIFT \in Nat /\ CNT_BITS \in Nat
  BY LayoutAssumption
<1>. HIDE DEF I, J, L
<1>5. CASE n \in {MSR_PSR, MSR_EPSR}
  <2>1. LayoutOf(Decode(n).name) = Layout(PsrFlags, {}, 0)
    BY <1>5, DecodeScalar DEF LayoutOf, Key
  <2>2. BitsOf(n) = 0 .. 9
    BY <1>0, <1>1, <1>3, <1>5 DEF BitsOf, Scalar, I, J, L
  <2>3. Covered(Layout(PsrFlags, {}, 0)) = {0, 1, 2, 3, 4, 5, 6, 7, 8, 9}
    BY DEF Covered, Layout, PsrFlags
  <2>. QED  BY <2>1, <2>2, <2>3
<1>6. CASE n = MSR_TCR
  <2>1. LayoutOf(Decode(n).name) = Layout(TcrFlags, 0 .. (CNT_BITS - 1), 0)
    BY <1>6, DecodeScalar DEF LayoutOf, Key
  <2>2. BitsOf(n) = 0 .. (CNT_BITS + 2)
    BY <1>0, <1>1, <1>3, <1>6 DEF BitsOf, Scalar, I, J, L
  <2>3. Covered(Layout(TcrFlags, 0 .. (CNT_BITS - 1), 0))
          = {CNT_BITS, CNT_BITS + 1, CNT_BITS + 2} \cup (0 .. (CNT_BITS - 1))
    BY DEF Covered, Layout, TcrFlags
  <2>4. {CNT_BITS, CNT_BITS + 1, CNT_BITS + 2} \cup (0 .. (CNT_BITS - 1)) = 0 .. (CNT_BITS + 2)
    BY <1>4
  <2>. QED  BY <2>1, <2>2, <2>3, <2>4
<1>7. CASE n \in {MSR_EPC, MSR_ELSA, MSR_TSR, MSR_IMR}
  <2>1. LayoutOf(Decode(n).name) = Layout(NoFlags, Bits, 0)
    BY <1>7, DecodeScalar DEF LayoutOf, Key
  <2>2. BitsOf(n) = Bits
    BY <1>0, <1>1, <1>3, <1>7 DEF BitsOf, Scalar, I, J, L
  <2>3. Covered(Layout(NoFlags, Bits, 0)) = {} \cup Bits
    <3>1. DOMAIN NoFlags = {}
      BY DEF NoFlags
    <3>. QED  BY <3>1 DEF Covered, Layout
  <2>. QED  BY <2>1, <2>2, <2>3
<1>8. CASE n \notin Scalar
  <2>1. \/ I /\ Decode(n).name = "ITLBL"
        \/ J /\ Decode(n).name = "ITLBH"
        \/ L /\ Decode(n).name = "DTLBH"
    <3>1. Decode(n).name \notin {"none", "DTLBL"}
      BY RegisterKey
    <3>. QED  BY <1>0, <1>8, <3>1, DecodeEntry DEF Key, I, J, L
  <2>2. n \notin {MSR_PSR, MSR_EPSR, MSR_TCR}
    BY <1>8 DEF Scalar
  <2>3. CASE I /\ Decode(n).name = "ITLBL"
    <3>1. LayoutOf("ITLBL") = Layout(TlblFlags, PageBits, PAGE_SHIFT)
      BY DEF LayoutOf
    <3>2. BitsOf(n) = {0} \cup PageBits
      BY <1>0, <1>2, <2>2, <2>3 DEF BitsOf, I, J, L
    <3>3. Covered(Layout(TlblFlags, PageBits, PAGE_SHIFT)) = {0} \cup PageBits
      BY DEF Covered, Layout, TlblFlags
    <3>. QED  BY <2>3, <3>1, <3>2, <3>3
  <2>4. CASE J /\ Decode(n).name = "ITLBH"
    <3>1. LayoutOf("ITLBH") = Layout(ItlbhFlags, PageBits, PAGE_SHIFT)
      BY DEF LayoutOf
    <3>2. BitsOf(n) = {0, 1, 2, 3, 4, 7, 8} \cup PageBits
      BY <1>0, <1>2, <2>2, <2>4 DEF BitsOf, I, J, L
    <3>3. Covered(Layout(ItlbhFlags, PageBits, PAGE_SHIFT)) = {0, 1, 2, 3, 4, 7, 8} \cup PageBits
      BY DEF Covered, Layout, ItlbhFlags
    <3>. QED  BY <2>4, <3>1, <3>2, <3>3
  <2>5. CASE L /\ Decode(n).name = "DTLBH"
    <3>1. LayoutOf("DTLBH") = Layout(DtlbhFlags, PageBits, PAGE_SHIFT)
      BY DEF LayoutOf
    <3>2. BitsOf(n) = (0 .. 8) \cup PageBits
      BY <1>0, <1>2, <2>2, <2>5 DEF BitsOf, I, J, L
    <3>3. Covered(Layout(DtlbhFlags, PageBits, PAGE_SHIFT)) = {0, 1, 2, 3, 4, 5, 6, 7, 8} \cup PageBits
      BY DEF Covered, Layout, DtlbhFlags
    <3>4. 0 .. 8 = {0, 1, 2, 3, 4, 5, 6, 7, 8}
      OBVIOUS
    <3>. QED  BY <2>5, <3>1, <3>2, <3>3, <3>4
  <2>. QED  BY <2>1, <2>3, <2>4, <2>5
<1>9. n # MSR_IRR
  <2>1. Decode(n).name # "IRR"
    BY RegisterKey
  <2>. QED  BY <2>1, DecodeScalar DEF Key
<1>. QED  BY <1>5, <1>6, <1>7, <1>8, <1>9 DEF Scalar
(* The registers the hardware writes are documented.                       *)
LEMMA ScalarRegisters ==
  {MSR_PSR, MSR_EPSR, MSR_EPC, MSR_ELSA, MSR_IMR, MSR_TSR, MSR_TCR} \subseteq Registers
<1>1. \A n \in {MSR_PSR, MSR_EPSR, MSR_EPC, MSR_ELSA, MSR_IMR, MSR_TSR, MSR_TCR} :
        n \in Documented /\ Decode(n).name # "DTLBL"
  BY DecodeScalar DEF Documented, Key
<1>. QED  BY <1>1, DocumentedDecode DEF Registers

(* The word of PSR is made of its flags.                                   *)
LEMMA PsrWord ==
  ASSUME NEW reg
  PROVE  Pack(LayoutOf("PSR"), reg) = {PsrFlags[f] : f \in reg.flags}
<1>1. LayoutOf("PSR") = Layout(PsrFlags, {}, 0)
  BY DEF LayoutOf
<1>. QED  BY <1>1 DEF Pack, Layout

(* Root mode is bit 4 of the word of PSR.                                  *)
LEMMA RootBitIsRoot ==
  ASSUME File(msr)
  PROVE  4 \in Answer(MSR_PSR) <=> Root
<1>1. MSR_PSR \in Registers
  BY ScalarRegisters
<1>2. Decode(MSR_PSR) = Key("PSR", 0) /\ Key("PSR", 0).name = "PSR" /\ Key("PSR", 0) \in Keys
  BY DecodeScalar, KeyNames DEF Key, Single
<1>. DEFINE reg == msr[Key("PSR", 0)]
<1>3. reg.flags \subseteq DOMAIN PsrFlags
  BY <1>2 DEF File, Fits, LayoutOf, Layout
<1>4. Answer(MSR_PSR) = Pack(LayoutOf("PSR"), reg)
  BY <1>1, <1>2, RegisterKey
<1>. HIDE DEF reg
<1>5. 4 \in {PsrFlags[f] : f \in reg.flags} <=> "RM" \in reg.flags
  BY <1>3 DEF PsrFlags
<1>. QED  BY <1>4, <1>5, PsrWord DEF Root, reg

Word == [n \in Registers |-> Answer(n)]

(* The words are the answers of RMSR.                                      *)
LEMMA WordIs ==
  /\ \A n \in Registers : Word[n] = Answer(n) /\ Word'[n] = Answer(n)'
  /\ Word' = [n \in Registers |-> Answer(n)']
BY DEF Word, Registers

(* They change only with the registers.                                    *)
LEMMA WordUnchanged ==
  ASSUME UNCHANGED msr
  PROVE  UNCHANGED Word
<1>1. \A n \in Registers : Answer(n)' = Answer(n)
  BY RegisterKey
<1>. QED  BY <1>1, WordIs DEF Word

(* WMSR stores the bits the register has, and touches no other register.   *)
LEMMA StoreStep ==
  ASSUME File(msr), NEW i \in Int, NEW word, Decode(i).name \notin {"none", "IRR"}, msr' = Stored(Decode(i), word)
  PROVE  /\ i \in Documented
         /\ Word' = IF i \in Registers THEN [Word EXCEPT ![i] = word \cap BitsOf(i)] ELSE Word
<1>1. Decode(i) \in Keys /\ Decode(i) # Key("IRR", 0) /\ Decode(i).name \in Names
  BY Decodes DEF Key
<1>2. ASSUME NEW n \in Registers, n # i
      PROVE  Answer(n)' = Answer(n)
  <2>1. Decode(n) \in Keys /\ Decode(n) # Key("IRR", 0)
    BY RegisterKey
  <2>2. Decode(n) # Decode(i)
    BY <1>2, KeyOfOne
  <2>3. msr'[Decode(n)] = msr[Decode(n)]
    BY <1>1, <2>1, <2>2, StoredKept
  <2>. QED  BY <2>3, RegisterKey
<1>3. ASSUME i \in Registers
      PROVE  Answer(i)' = word \cap BitsOf(i)
  <2>1. msr'[Decode(i)] = Unpack(LayoutOf(Decode(i).name), word)
    BY <1>1, StoredKept
  <2>2. Answer(i)' = word \cap Covered(LayoutOf(Decode(i).name))
    BY <1>1, <1>3, <2>1, RegisterKey, PackAfterUnpack
  <2>. QED  BY <1>3, <2>2, BitsCovered
<1>4. i \in Documented
  BY DecodeDocumented
<1>5. CASE i \in Registers
  <2>1. \A n \in Registers : Answer(n)' = [Word EXCEPT ![i] = word \cap BitsOf(i)][n]
    BY <1>2, <1>3, <1>5 DEF Word
  <2>2. [Word EXCEPT ![i] = word \cap BitsOf(i)] = [n \in Registers |-> [Word EXCEPT ![i] = word \cap BitsOf(i)][n]]
    BY DEF Word
  <2>. QED  BY <1>4, <1>5, <2>1, <2>2, WordIs
<1>6. CASE i \notin Registers
  <2>1. \A n \in Registers : Answer(n)' = Answer(n)
    BY <1>2, <1>6
  <2>. QED  BY <1>4, <1>6, <2>1, WordIs DEF Word
<1>. QED  BY <1>5, <1>6

(* The hardware's writes, word by word.                                    *)
LEMMA ScalarWord ==
  ASSUME NEW name, NEW n,
         <<name, n>> \in {<<"PSR", MSR_PSR>>, <<"EPSR", MSR_EPSR>>, <<"EPC", MSR_EPC>>, <<"ELSA", MSR_ELSA>>,
                          <<"TSR", MSR_TSR>>, <<"TCR", MSR_TCR>>}
  PROVE  /\ n \in Registers /\ Decode(n) = Key(name, 0)
         /\ Answer(n) = Pack(LayoutOf(name), msr[Key(name, 0)])
         /\ Answer(n)' = Pack(LayoutOf(name), msr'[Key(name, 0)])
<1>1. Decode(n) = Key(name, 0) /\ n \in Registers
  BY DecodeScalar, ScalarRegisters
<1>2. Key(name, 0).name = name
  BY DEF Key
<1>. QED  BY <1>1, <1>2, RegisterKey

(* A word that the hardware does not write stays.                          *)
LEMMA OtherWord ==
  ASSUME NEW n \in Registers, NEW names \in SUBSET Single,
         \A k \in Keys : k.name \notin names => msr'[k] = msr[k],
         \A name \in names : Decode(n) # Key(name, 0)
  PROVE  Answer(n)' = Answer(n)
<1>1. Decode(n) \in Keys
  BY RegisterKey
<1>2. Decode(n).name \notin names
  <2>1. \A k \in Keys : k.name \in Single => k = Key(k.name, 0)
    BY DEF Keys, Single, Key
  <2>. QED  BY <1>1, <2>1
<1>. QED  BY <1>1, <1>2, RegisterKey

(* An exception saves all of PSR, and changes four of its bits.            *)
LEMMA RaiseStep ==
  ASSUME File(msr), NEW addr \in Addresses, NEW lsa \in Addresses, Raise(addr, lsa)
  PROVE  Word' = [Word EXCEPT ![MSR_EPSR] = Word[MSR_PSR], ![MSR_EPC] = addr, ![MSR_ELSA] = lsa,
                              ![MSR_PSR] = (Word[MSR_PSR] \cup {4}) \ {5, 6, 7}]
<1>. DEFINE psr == msr[Key("PSR", 0)]
<1>1. /\ msr'[Key("EPC", 0)] = WordOf(addr) /\ msr'[Key("ELSA", 0)] = WordOf(lsa)
      /\ msr'[Key("EPSR", 0)] = psr /\ msr'[Key("PSR", 0)] = ExceptionPsr(psr)
      /\ \A k \in Keys : k.name \notin {"PSR", "EPSR", "EPC", "ELSA"} => msr'[k] = msr[k]
  BY RaiseKept
<1>2. addr \in SUBSET Bits /\ lsa \in SUBSET Bits
  BY LayoutAssumption
<1>3. Answer(MSR_EPC)' = addr
  BY <1>1, <1>2, ScalarWord, WholeWord
<1>4. Answer(MSR_ELSA)' = lsa
  BY <1>1, <1>2, ScalarWord, WholeWord
<1>5. Answer(MSR_EPSR)' = Answer(MSR_PSR)
  BY <1>1, ScalarWord, FlagsFit
<1>6. Answer(MSR_PSR)' = (Answer(MSR_PSR) \cup {4}) \ {5, 6, 7}
  <2>1. psr.flags \subseteq DOMAIN PsrFlags /\ psr = [flags |-> psr.flags, field |-> psr.field]
    <3>1. Key("PSR", 0) \in Keys /\ Key("PSR", 0).name = "PSR"
      BY KeyNames DEF Key, Single
    <3>. QED  BY <3>1 DEF File, Fits, LayoutOf, Layout
  <2>2. Answer(MSR_PSR) = {PsrFlags[f] : f \in psr.flags}
    BY ScalarWord, PsrWord
  <2>3. Answer(MSR_PSR)' = {PsrFlags[f] : f \in ExceptionPsr(psr).flags}
    BY <1>1, ScalarWord, PsrWord
  <2>. HIDE DEF psr
  <2>4. ExceptionPsr(psr).flags = (psr.flags \cup {"RM"}) \ {"IMME", "DMME", "IRE"}
    BY <2>1 DEF ExceptionPsr
  <2>5. {PsrFlags[f] : f \in (psr.flags \cup {"RM"}) \ {"IMME", "DMME", "IRE"}}
          = ({PsrFlags[f] : f \in psr.flags} \cup {4}) \ {5, 6, 7}
    BY <2>1 DEF PsrFlags
  <2>. QED  BY <2>2, <2>3, <2>4, <2>5
<1>7. ASSUME NEW n \in Registers, n \notin {MSR_PSR, MSR_EPSR, MSR_EPC, MSR_ELSA}
      PROVE  Answer(n)' = Answer(n)
  <2>1. \A name \in {"PSR", "EPSR", "EPC", "ELSA"} : Decode(n) # Key(name, 0)
    <3>1. \A i \in {MSR_PSR, MSR_EPSR, MSR_EPC, MSR_ELSA} : Decode(i) # Decode(n)
      BY <1>7, KeyOfOne, ScalarRegisters, RegisterKey
    <3>. QED  BY <3>1, DecodeScalar
  <2>2. {"PSR", "EPSR", "EPC", "ELSA"} \in SUBSET Single
    BY DEF Single
  <2>. QED  BY <1>1, <2>1, <2>2, OtherWord
<1>8. {MSR_PSR, MSR_EPSR, MSR_EPC, MSR_ELSA} \subseteq Registers
  BY ScalarRegisters
<1>9. /\ MSR_PSR # MSR_EPSR /\ MSR_PSR # MSR_EPC /\ MSR_PSR # MSR_ELSA
      /\ MSR_EPSR # MSR_EPC /\ MSR_EPSR # MSR_ELSA /\ MSR_EPC # MSR_ELSA
  BY DEF MSR_PSR, MSR_EPSR, MSR_EPC, MSR_ELSA
<1>. DEFINE new == [Word EXCEPT ![MSR_EPSR] = Word[MSR_PSR], ![MSR_EPC] = addr, ![MSR_ELSA] = lsa,
                                ![MSR_PSR] = (Word[MSR_PSR] \cup {4}) \ {5, 6, 7}]
<1>10. Word[MSR_PSR] = Answer(MSR_PSR)
  BY <1>8, WordIs
<1>11. ASSUME NEW n \in Registers
       PROVE  Answer(n)' = new[n]
  <2>1. Word[n] = Answer(n)
    BY WordIs
  <2>. QED  BY <1>3, <1>4, <1>5, <1>6, <1>7, <1>9, <1>10, <2>1 DEF Word
<1>12. new = [n \in Registers |-> new[n]]
  <2>. DEFINE p == (Word[MSR_PSR] \cup {4}) \ {5, 6, 7}
              a == [Word EXCEPT ![MSR_EPSR] = Word[MSR_PSR]]
              b == [a EXCEPT ![MSR_EPC] = addr]
              c == [b EXCEPT ![MSR_ELSA] = lsa]
              d == [c EXCEPT ![MSR_PSR] = p]
  <2>1. new = d
    OBVIOUS
  <2>. HIDE DEF p, new
  <2>2. DOMAIN a = Registers
    BY DEF Word
  <2>3. DOMAIN b = Registers
    BY <2>2
  <2>4. DOMAIN c = Registers
    BY <2>3
  <2>. HIDE DEF c
  <2>5. d = [n \in Registers |-> d[n]]
    BY <2>4
  <2>. QED  BY <2>1, <2>5
<1>. HIDE DEF new
<1>13. Word' = new
  BY <1>11, <1>12, WordIs
<1>. QED  BY <1>13 DEF new

(* RET restores all of it.                                                 *)
LEMMA RetStep ==
  ASSUME File(msr), Ret
  PROVE  Word' = [Word EXCEPT ![MSR_PSR] = Word[MSR_EPSR]]
<1>1. /\ msr'[Key("PSR", 0)] = msr[Key("EPSR", 0)]
      /\ \A k \in Keys : k # Key("PSR", 0) => msr'[k] = msr[k]
  BY RetKept
<1>2. Answer(MSR_PSR)' = Answer(MSR_EPSR)
  BY <1>1, ScalarWord, FlagsFit
<1>3. MSR_PSR \in Registers /\ MSR_EPSR \in Registers /\ MSR_PSR \in Int
  BY ScalarRegisters DEF MSR_PSR
<1>4. ASSUME NEW n \in Registers, n # MSR_PSR
      PROVE  Answer(n)' = Answer(n)
  <2>1. Decode(n) # Key("PSR", 0) /\ Decode(n) \in Keys
    BY <1>3, <1>4, KeyOfOne, DecodeScalar, RegisterKey
  <2>. QED  BY <1>1, <2>1, RegisterKey
<1>. DEFINE new == [Word EXCEPT ![MSR_PSR] = Word[MSR_EPSR]]
<1>5. \A n \in Registers : Answer(n)' = new[n]
  BY <1>2, <1>3, <1>4, WordIs DEF Word
<1>6. new = [n \in Registers |-> new[n]]
  BY DEF Word
<1>. HIDE DEF new
<1>7. Word' = new
  BY <1>5, <1>6, WordIs
<1>. QED  BY <1>7 DEF new

(* An expiry writes TSR and sets the bit P of TCR.                         *)
LEMMA ExpireStep ==
  ASSUME File(msr), NEW tsr \in Addresses, Expire(tsr)
  PROVE  Word' = [Word EXCEPT ![MSR_TSR] = tsr, ![MSR_TCR] = Word[MSR_TCR] \cup {CNT_BITS + 2}]
<1>. DEFINE tcr == msr[Key("TCR", 0)]
<1>1. /\ msr'[Key("TSR", 0)] = WordOf(tsr) /\ msr'[Key("TCR", 0)] = Expired(tcr)
      /\ \A k \in Keys : k.name \notin {"TSR", "TCR", "IRR"} => msr'[k] = msr[k]
  BY ExpireKept
<1>2. Answer(MSR_TSR)' = tsr
  BY <1>1, LayoutAssumption, ScalarWord, WholeWord
<1>3. Answer(MSR_TCR)' = Answer(MSR_TCR) \cup {CNT_BITS + 2}
  <2>. DEFINE l == LayoutOf("TCR")
  <2>1. l.flags = TcrFlags
    BY DEF LayoutOf, Layout
  <2>2. "P" \in DOMAIN TcrFlags /\ TcrFlags["P"] = CNT_BITS + 2
    BY DEF TcrFlags
  <2>3. tcr = [flags |-> tcr.flags, field |-> tcr.field]
    <3>1. Key("TCR", 0) \in Keys
      BY KeyNames DEF Single
    <3>. QED  BY <3>1 DEF File, Fits
  <2>4. Answer(MSR_TCR) = Pack(l, tcr) /\ Answer(MSR_TCR)' = Pack(l, Expired(tcr))
    BY <1>1, ScalarWord
  <2>. HIDE DEF l, tcr
  <2>5. Expired(tcr).flags = tcr.flags \cup {"P"} /\ Expired(tcr).field = tcr.field
    BY <2>3 DEF Expired
  <2>6. {l.flags[f] : f \in tcr.flags \cup {"P"}} = {l.flags[f] : f \in tcr.flags} \cup {CNT_BITS + 2}
    BY <2>1, <2>2
  <2>7. Pack(l, Expired(tcr)) = Pack(l, tcr) \cup {CNT_BITS + 2}
    BY <2>5, <2>6 DEF Pack
  <2>. QED  BY <2>4, <2>7
<1>4. MSR_TSR \in Registers /\ MSR_TCR \in Registers /\ MSR_TSR \in Int /\ MSR_TCR \in Int /\ MSR_TSR # MSR_TCR
  BY Sizes, ScalarRegisters DEF MSR_TSR, MSR_TCR
<1>5. ASSUME NEW n \in Registers, n \notin {MSR_TSR, MSR_TCR}
      PROVE  Answer(n)' = Answer(n)
  <2>1. Decode(n) # Key("TSR", 0) /\ Decode(n) # Key("TCR", 0)
    BY <1>4, <1>5, KeyOfOne, DecodeScalar
  <2>2. Decode(n) # Key("IRR", 0)
    BY RegisterKey
  <2>3. {"TSR", "TCR", "IRR"} \in SUBSET Single /\ \A name \in {"TSR", "TCR", "IRR"} : Decode(n) # Key(name, 0)
    BY <2>1, <2>2 DEF Single
  <2>. QED  BY <1>1, <2>3, OtherWord
<1>. DEFINE new == [Word EXCEPT ![MSR_TSR] = tsr, ![MSR_TCR] = Word[MSR_TCR] \cup {CNT_BITS + 2}]
<1>6. \A n \in Registers : Answer(n)' = new[n]
  BY <1>2, <1>3, <1>4, <1>5, WordIs DEF Word
<1>7. new = [n \in Registers |-> new[n]]
  BY DEF Word
<1>. HIDE DEF new
<1>8. Word' = new
  BY <1>6, <1>7, WordIs
<1>. QED  BY <1>8 DEF new
(* The steps of Msr are the steps of a WordFile.                           *)
LEMMA KeptStep == MsrInv /\ [Next]_vars => [Kept!Next]_(Kept!vars)
<1>. SUFFICES ASSUME MsrInv, [Next]_vars
              PROVE  [Kept!Next]_(Kept!vars)
  OBVIOUS
<1>0. File(msr)
  BY DEF MsrInv
<1>w. /\ Word = [n \in Documented \ Dtlbl |-> Answer(n)]
      /\ Word' = [n \in Documented \ Dtlbl |-> Answer(n)]'
  BY DEF Word, Registers
<1>r. Kept!Root <=> Root
  <2>1. Kept!Root <=> 4 \in Word[MSR_PSR]
    BY <1>w DEF Kept!Root
  <2>2. Word[MSR_PSR] = Answer(MSR_PSR)
    BY ScalarRegisters, WordIs
  <2>. QED  BY <1>0, <2>1, <2>2, RootBitIsRoot
<1>1. ASSUME UNCHANGED <<msr, access>>
      PROVE  UNCHANGED Kept!vars
  <2>1. UNCHANGED Word
    BY <1>1, WordUnchanged
  <2>. QED  BY <1>1, <1>w, <2>1 DEF Kept!vars
<1>e. ASSUME UNCHANGED Word, access'.index \notin Registers \/ ~Root
      PROVE  Kept!Next
  <2>1. Kept!Elsewhere
    BY <1>e, <1>w, <1>r DEF Kept!Elsewhere, Registers
  <2>. QED  BY <2>1 DEF Kept!Next
<1>2. ASSUME NEW i \in Int, NEW word \in Words, Wmsr(i, word)
      PROVE  Kept!Next
  <2>1. /\ i \in Documented /\ Root /\ access' = [op |-> "wmsr", index |-> i, value |-> word]
        /\ Word' = IF i \in Registers THEN [Word EXCEPT ![i] = word \cap BitsOf(i)] ELSE Word
    BY <1>0, <1>2, StoreStep DEF Wmsr, Accessed
  <2>2. CASE i \in Registers
    <3>1. Kept!Store(i, word)
      BY <1>w, <1>r, <2>1, <2>2 DEF Kept!Store, Kept!Access
    <3>. QED  BY <2>2, <3>1 DEF Kept!Next, Registers
  <2>3. CASE i \notin Registers
    BY <1>e, <2>1, <2>3
  <2>. QED  BY <2>2, <2>3
<1>3. ASSUME NEW i \in Int, NEW word \in Words, WmsrNop(i, word)
      PROVE  Kept!Next
  <2>1. UNCHANGED Word /\ access' = [op |-> "wmsr", index |-> i, value |-> word]
    BY <1>3, WordUnchanged DEF WmsrNop, Accessed
  <2>2. i \in MSR_DBGR \cup MSR_CACHE => i \notin Registers
    <3>1. ASSUME i \in MSR_DBGR \cup MSR_CACHE
          PROVE  i \notin Scalar
      BY <3>1, Sizes DEF Scalar, MSR_DBGR, MSR_CACHE, MSR_PSR, MSR_EPSR, MSR_EPC, MSR_ELSA, MSR_IMR, MSR_IRR,
                         MSR_TSR, MSR_TCR
    <3>2. ASSUME i \in MSR_DBGR \cup MSR_CACHE
          PROVE  /\ ~InRange(i, MSR_ITLBL, immu_tlb_count) /\ ~InRange(i, MSR_ITLBH, immu_tlb_count)
                 /\ ~InRange(i, MSR_DTLBL, dmmu_tlb_count) /\ ~InRange(i, MSR_DTLBH, dmmu_tlb_count)
      BY <3>2, Sizes DEF InRange, MSR_DBGR, MSR_CACHE, MSR_ITLBL, MSR_ITLBH, MSR_DTLBL, MSR_DTLBH
    <3>3. i \in MSR_DBGR \cup MSR_CACHE => Decode(i).name = "none"
      BY <3>1, <3>2, DecodeEntry DEF Key
    <3>. QED  BY <3>3, RegisterKey
  <2>. QED  BY <1>3, <1>e, <2>1, <2>2 DEF WmsrNop
<1>4. ASSUME NEW i \in Int, WmsrUnknown(i) \/ RmsrUnknown(i)
      PROVE  UNCHANGED Kept!vars
  BY <1>1, <1>4 DEF WmsrUnknown, RmsrUnknown, Panic
<1>5. ASSUME NEW i \in Int, Rmsr(i)
      PROVE  Kept!Next
  <2>1. UNCHANGED Word /\ Root /\ access' = [op |-> "rmsr", index |-> i, value |-> Answer(i)]
    BY <1>5, WordUnchanged DEF Rmsr, Accessed
  <2>2. CASE i \in Registers
    <3>1. Word[i] = Answer(i)
      BY <2>2, WordIs
    <3>2. Kept!Load(i)
      BY <1>w, <1>r, <2>1, <3>1 DEF Kept!Load, Kept!Access
    <3>. QED  BY <2>2, <3>2 DEF Kept!Next, Registers
  <2>3. CASE i \notin Registers
    BY <1>e, <2>1, <2>3
  <2>. QED  BY <2>2, <2>3
<1>6. ASSUME NEW i \in Int, RmsrUser(i)
      PROVE  Kept!Next
  <2>1. UNCHANGED Word /\ ~Root
    BY <1>6, WordUnchanged DEF RmsrUser
  <2>. QED  BY <1>e, <2>1
<1>7. CASE Instruction
  BY <1>2, <1>3, <1>4, <1>5, <1>6, <1>7, Indexed DEF Instruction
<1>8. ASSUME NEW addr \in Addresses, NEW lsa \in Addresses, Raise(addr, lsa)
      PROVE  Kept!Next
  <2>1. UNCHANGED access
    BY <1>8 DEF Raise
  <2>2. Word' = [Word EXCEPT ![MSR_EPSR] = Word[MSR_PSR], ![MSR_EPC] = addr, ![MSR_ELSA] = lsa,
                             ![MSR_PSR] = (Word[MSR_PSR] \cup {4}) \ {5, 6, 7}]
    BY <1>0, <1>8, RaiseStep
  <2>3. Kept!Exception(addr, lsa)
    BY <1>w, <2>1, <2>2 DEF Kept!Exception
  <2>. QED  BY <2>3 DEF Kept!Next
<1>9. ASSUME NEW tsr \in Addresses, Expire(tsr)
      PROVE  Kept!Next
  <2>1. UNCHANGED access
    BY <1>9 DEF Expire
  <2>2. Word' = [Word EXCEPT ![MSR_TSR] = tsr, ![MSR_TCR] = Word[MSR_TCR] \cup {CNT_BITS + 2}]
    BY <1>0, <1>9, ExpireStep
  <2>3. Kept!Timer(tsr)
    BY <1>w, <2>1, <2>2 DEF Kept!Timer
  <2>. QED  BY <2>3 DEF Kept!Next
<1>10. CASE Ret
  <2>1. UNCHANGED access
    BY <1>10 DEF Ret
  <2>2. Word' = [Word EXCEPT ![MSR_PSR] = Word[MSR_EPSR]]
    BY <1>0, <1>10, RetStep
  <2>3. Kept!Return
    BY <1>w, <2>1, <2>2 DEF Kept!Return
  <2>. QED  BY <2>3 DEF Kept!Next
<1>11. CASE Exited \/ UNCHANGED vars
  BY <1>1, <1>11 DEF Exited, vars
<1>. QED  BY <1>7, <1>8, <1>9, <1>10, <1>11 DEF Next, Hardware

(* At first PSR.RM is set and every other bit is clear.                    *)
LEMMA KeptInit == Init => Kept!Init
<1>. SUFFICES ASSUME Init
              PROVE  Kept!Init
  OBVIOUS
<1>1. msr = [k \in Keys |-> [flags |-> IF k.name = "PSR" THEN {"RM"} ELSE {}, field |-> {}]]
  BY DEF Init
<1>2. ASSUME NEW n \in Registers
      PROVE  Answer(n) = IF n = MSR_PSR THEN {4} ELSE {}
  <2>. DEFINE k == Decode(n)
  <2>1. k \in Keys /\ k.name \in Names /\ Answer(n) = Pack(LayoutOf(k.name), msr[k])
    BY RegisterKey
  <2>2. k.name = "PSR" <=> n = MSR_PSR
    <3>1. n = MSR_PSR => k.name = "PSR"
      BY DecodeScalar DEF Key
    <3>2. k.name = "PSR" => k = Key("PSR", 0)
      BY <2>1 DEF Keys, Single, Key
    <3>3. k = Key("PSR", 0) => n = MSR_PSR
      BY DecodeScalar, ScalarRegisters, RegisterKey, KeyOfOne
    <3>. QED  BY <3>1, <3>2, <3>3
  <2>3. CASE n = MSR_PSR
    <3>1. msr[k].flags = {"RM"}
      BY <1>1, <2>1, <2>2, <2>3
    <3>2. {PsrFlags[f] : f \in {"RM"}} = {4}
      BY DEF PsrFlags
    <3>. QED  BY <2>1, <2>2, <2>3, <3>1, <3>2, PsrWord
  <2>4. CASE n # MSR_PSR
    <3>1. msr[k].flags = {} /\ msr[k].field = {}
      BY <1>1, <2>1, <2>2, <2>4
    <3>. QED  BY <2>1, <2>4, <3>1 DEF Pack
  <2>. QED  BY <2>3, <2>4
<1>. QED  BY <1>2 DEF Kept!Init, Registers

(***************************************************************************)
(* Every documented register but DTLBL is a word of its own, for any       *)
(* widths, TLB sizes, indices and words: RMSR returns the bits of the word *)
(* that WMSR stored, whatever was done to other registers in between.      *)
(***************************************************************************)
THEOREM RegistersAreWords == Spec => WordsKept
<1>1. Init /\ [][Next]_vars => Kept!Init /\ [][Kept!Next]_(Kept!vars)
  BY InitInv, StepInv, KeptInit, KeptStep, PTL
<1>. QED  BY <1>1 DEF Spec, WordsKept, Kept!Spec
=============================================================================
