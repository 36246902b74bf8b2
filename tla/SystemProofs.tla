---------------------------- MODULE SystemProofs ----------------------------
(***************************************************************************)
(* Theorems about System, for every period of the timer, every size of the *)
(* disk and every set of requests of its kernel.                           *)
(***************************************************************************)
EXTENDS System, CpuProofs

(***************************************************************************)
(* Where the kernel is.  The handler runs with interrupts disabled, on top *)
(* of a thread that has them enabled: the thread's place is pc or epc.     *)
(***************************************************************************)
Boot == {0, THREAD - 2, THREAD - 1}
Thread == THREAD .. (THREAD + 8)
Handler == {VECT_EIRQ} \cup ISR .. (ISR + 7)
Place == IF pc \in Handler THEN epc ELSE pc

Where ==
  /\ pc \in Boot \cup Thread \cup Handler
  /\ ~psr.IMME
  /\ psr.IRE <=> pc \in Thread
  /\ pc \in Handler => epc \in Thread /\ epsr.IRE /\ ~epsr.IMME

(* The timer is off until the kernel arms it, and armed ever after.        *)
TimerServed ==
  /\ pc \in {0, THREAD - 2} => ~tcr.EN /\ ~owed
  /\ pc \notin {0, THREAD - 2} => tcr.I
  /\ owed => tcr.P \/ pc = ISR + 3

(* What the thread has written of the registers that name its read.        *)
ReadNamed ==
  /\ "IEN" \notin control /\ left \in Nat
  /\ Place \in (THREAD + 2) .. (THREAD + 6) => left = 0 /\ read \in Reads /\ head.head = 0
  /\ Place \in (THREAD + 3) .. (THREAD + 6) => count = read.sectors % BYTE
  /\ Place \in (THREAD + 4) .. (THREAD + 6) => number = read.sector
  /\ Place \in (THREAD + 5) .. (THREAD + 6) => cylLow = 0
  /\ Place = THREAD + 6 => cylHigh = 0

(* The window of the disk holds what is left of the sector, its count the  *)
(* sectors that are left.                                                  *)
WindowLeft ==
  left > 0 =>
    /\ command = "ReadSector" /\ count \in Nat \ {0}
    /\ pos \in Nat /\ len \in Nat /\ len - pos \in 1 .. SECTOR_WORDS
    /\ left = (count - 1) * SECTOR_WORDS + (len - pos)
    /\ pos + left <= DISK_WORDS

(* The line is raised exactly between the blocks of a read, until the      *)
(* handler acknowledges it.                                                *)
BlockServed ==
  /\ IRQ_ATA \in irr => left > 0
  /\ left > 0 => IRQ_ATA \in irr \/ pc \in {ISR + 5, ISR + 6}
  /\ pc \in (ISR + 1) .. (ISR + 4) /\ IRQ_ATA \in seen => IRQ_ATA \in irr
  /\ pc = ISR + 5 => left > 0 /\ IRQ_ATA \notin irr
  /\ pc = ISR + 6 /\ left > 0 => (BlockRead <=> IRQ_ATA \in irr)

(* The window ends what is left of the sectors the thread asked for.       *)
ReadPlaced ==
  /\ head \in Disk!DriverHead /\ {number, cylLow, cylHigh} \subseteq Disk!Byte
  /\ left > 0 =>
       /\ base = "disk_chunk" /\ head.L
       /\ pos + left = (read.sector + read.sectors) * SECTOR_WORDS

(* The inductive invariant.                                                *)
SystemInv == Where /\ TimerServed /\ ReadNamed /\ WindowLeft /\ BlockServed /\ ReadPlaced
-----------------------------------------------------------------------------
(* The kernel's text lies in the RAM, below the ports.                     *)
LEMMA Layout ==
  /\ ADDR_SPACE \in Nat /\ MMIO_PHY_BASE \in Nat
  /\ 29 < MMIO_PHY_BASE /\ MMIO_PHY_BASE + 6 < ADDR_SPACE
  /\ VECT_EIRQ = 2 /\ \A k \in 0 .. 29 : k \in Word /\ NextPc(k) = k + 1
<1>1. ADDR_SPACE \in Nat /\ MMIO_PHY_BASE \in Nat
  BY SizeAssumption, AddrSpaceType DEF Word
<1>2. 29 < MMIO_PHY_BASE /\ MMIO_PHY_BASE + 6 < ADDR_SPACE
  BY <1>1, KernelAssumption DEF ISR, Port, Word
<1>3. \A a \in Nat, n \in Nat : a < n => a % n = a
  OBVIOUS
<1>4. ASSUME NEW k \in 0 .. 29
      PROVE  k \in Word /\ NextPc(k) = k + 1
  <2>1. INSN_LEN = 1
    BY KernelAssumption
  <2>2. k \in Nat /\ k < ADDR_SPACE /\ k + 1 < ADDR_SPACE
    BY <1>1, <1>2
  <2>. QED  BY <1>1, <1>3, <2>1, <2>2 DEF NextPc, Word
<1> QED BY <1>1, <1>2, <1>4, KernelAssumption DEF VECT_EIRQ

(* The places, by their addresses.                                         *)
LEMMA Places ==
  /\ Boot = {0, 9, 10} /\ Thread = 11 .. 19 /\ Handler = {2} \cup 22 .. 29
  /\ THREAD = 11 /\ ISR = 22
BY Layout DEF Boot, Thread, Handler, THREAD, ISR

(* What the core finds where the kernel is.                                *)
LEMMA TextFetched ==
  ASSUME Where, NEW i \in Fetched
  PROVE  at = "insn" /\ pc \in 0 .. 29 /\ i \in KernelImage[pc]
<1>1. pc \in 0 .. 29
  BY Places DEF Where
<1>2. Mapped /\ i \in Image[IPa(pc)]
  BY DEF Fetched
<1>3. IPa(pc) = pc
  BY DEF Where, IPa
<1> QED BY <1>1, <1>2, <1>3, KernelAssumption DEF Mapped

(* The words of the text.                                                  *)
LEMMA Words ==
  /\ KernelImage[0] = Go(9) /\ KernelImage[2] = Go(22)
  /\ KernelImage[9] = SetMsr("TCR", {Timer(c, FALSE) : c \in Compare})
  /\ KernelImage[10] = SetMsr("PSR", {[ResetPsr EXCEPT !.IRE = TRUE]})
  /\ KernelImage[11] = SetMsr("TCR", {Timer(c, TRUE) : c \in Compare})
                         \cup SetMsr("IMR", {{IRQ_ATA}}) \cup Go(11)
  /\ KernelImage[12] = Out(DRIVER_HEAD) \cup Go(11)
  /\ KernelImage[13] = Out(Port(3)) /\ KernelImage[14] = Out(Port(4))
  /\ KernelImage[15] = Out(Port(5)) /\ KernelImage[16] = Out(Port(6))
  /\ KernelImage[17] = Out(STATUS_COMMAND)
  /\ KernelImage[18] = SetMsr("IMR", {{}}) /\ KernelImage[19] = Go(11)
  /\ KernelImage[22] = {[op |-> "rmsr", known |-> TRUE]}
  /\ KernelImage[23] = Go(24) \cup Go(26)
  /\ KernelImage[24] = SetMsr("TCR", {Timer(c, FALSE) : c \in Compare})
  /\ KernelImage[25] = {[op |-> "next"]}
  /\ KernelImage[26] = In(STATUS_COMMAND) \cup Go(29)
  /\ KernelImage[27] = In(DATA)
  /\ KernelImage[28] = Go(27) \cup Go(29)
  /\ KernelImage[29] = {[op |-> "ret"]}
<1>1. KernelImage[0] = Go(9)
  BY Layout DEF KernelImage, THREAD, ISR
<1>2. KernelImage[2] = Go(22)
  BY Layout DEF KernelImage, THREAD, ISR
<1>3. KernelImage[9] = SetMsr("TCR", {Timer(c, FALSE) : c \in Compare})
  BY Layout DEF KernelImage, THREAD, ISR
<1>4. KernelImage[10] = SetMsr("PSR", {[ResetPsr EXCEPT !.IRE = TRUE]})
  BY Layout DEF KernelImage, THREAD, ISR
<1>5. KernelImage[11] = SetMsr("TCR", {Timer(c, TRUE) : c \in Compare}) \cup SetMsr("IMR", {{IRQ_ATA}}) \cup Go(11)
  BY Layout DEF KernelImage, THREAD, ISR
<1>6. KernelImage[12] = Out(DRIVER_HEAD) \cup Go(11)
  BY Layout DEF KernelImage, THREAD, ISR
<1>7. KernelImage[13] = Out(Port(3))
  BY Layout DEF KernelImage, THREAD, ISR
<1>8. KernelImage[14] = Out(Port(4))
  BY Layout DEF KernelImage, THREAD, ISR
<1>9. KernelImage[15] = Out(Port(5))
  BY Layout DEF KernelImage, THREAD, ISR
<1>10. KernelImage[16] = Out(Port(6))
  BY Layout DEF KernelImage, THREAD, ISR
<1>11. KernelImage[17] = Out(STATUS_COMMAND)
  BY Layout DEF KernelImage, THREAD, ISR
<1>12. KernelImage[18] = SetMsr("IMR", {{}})
  BY Layout DEF KernelImage, THREAD, ISR
<1>13. KernelImage[19] = Go(11)
  BY Layout DEF KernelImage, THREAD, ISR
<1>14. KernelImage[22] = {[op |-> "rmsr", known |-> TRUE]}
  BY Layout DEF KernelImage, THREAD, ISR
<1>15. KernelImage[23] = Go(24) \cup Go(26)
  BY Layout DEF KernelImage, THREAD, ISR
<1>16. KernelImage[24] = SetMsr("TCR", {Timer(c, FALSE) : c \in Compare})
  BY Layout DEF KernelImage, THREAD, ISR
<1>17. KernelImage[25] = {[op |-> "next"]}
  BY Layout DEF KernelImage, THREAD, ISR
<1>18. KernelImage[26] = In(STATUS_COMMAND) \cup Go(29)
  BY Layout DEF KernelImage, THREAD, ISR
<1>19. KernelImage[27] = In(DATA)
  BY Layout DEF KernelImage, THREAD, ISR
<1>20. KernelImage[28] = Go(27) \cup Go(29)
  BY Layout DEF KernelImage, THREAD, ISR
<1>21. KernelImage[29] = {[op |-> "ret"]}
  BY Layout DEF KernelImage, THREAD, ISR
<1> QED BY <1>1, <1>2, <1>3, <1>4, <1>5, <1>6, <1>7, <1>8, <1>9, <1>10, <1>11, <1>12, <1>13, <1>14, <1>15, <1>16, <1>17, <1>18, <1>19, <1>20, <1>21

(* What each kind of word holds.                                           *)
LEMMA SetMsrHolds ==
  ASSUME NEW reg, NEW values, NEW i \in SetMsr(reg, values)
  PROVE  i.op = "wmsr" /\ i.reg = reg /\ i.val \in values
BY DEF SetMsr

LEMMA GoHolds ==
  ASSUME NEW to, NEW i \in Go(to)
  PROVE  i.op = "jump" /\ i.to = to
BY DEF Go

LEMMA OutHolds ==
  ASSUME NEW port, NEW i \in Out(port)
  PROVE  i.op = "store" /\ i.va = port
BY DEF Out

LEMMA InHolds ==
  ASSUME NEW port, NEW i \in In(port)
  PROVE  i.op = "load" /\ i.va = port
BY DEF In

(* The instructions.                                                       *)
LEMMA Text ==
  ASSUME Where, NEW i \in Fetched
  PROVE  /\ i.op \in {"store", "load", "rmsr", "next", "ret", "jump", "wmsr"}
         /\ i.op = "store" => /\ pc \in 12 .. 17
                              /\ pc = 12 => i.va = DRIVER_HEAD
                              /\ pc \in 13 .. 16 => i.va = Port(pc - 10)
                              /\ pc = 17 => i.va = STATUS_COMMAND
         /\ i.op = "load" => \/ pc = 26 /\ i.va = STATUS_COMMAND
                             \/ pc = 27 /\ i.va = DATA
         /\ i.op = "rmsr" => pc = 22
         /\ i.op = "next" => pc = 25
         /\ i.op = "ret" => pc = 29
         /\ i.op = "jump" => \/ pc = 0 /\ i.to = 9
                             \/ pc \in {11, 12, 19} /\ i.to = 11
                             \/ pc = 2 /\ i.to = 22
                             \/ pc = 23 \/ pc = 28
                             \/ pc = 26 /\ i.to = 29
         /\ i.op = "wmsr" => \/ /\ pc \in {9, 24} /\ i.reg = "TCR"
                                /\ i.val \in {Timer(c, FALSE) : c \in Compare}
                             \/ /\ pc = 11 /\ i.reg = "TCR"
                                /\ i.val \in {Timer(c, TRUE) : c \in Compare}
                             \/ pc \in {11, 18} /\ i.reg = "IMR"
                             \/ /\ pc = 10 /\ i.reg = "PSR"
                                /\ i.val = [ResetPsr EXCEPT !.IRE = TRUE]
<1>1. pc \in 0 .. 29 /\ i \in KernelImage[pc]
  BY TextFetched
<1>2. pc \in {9, 24} => i \in SetMsr("TCR", {Timer(c, FALSE) : c \in Compare})
  BY <1>1, Words
<1>3. pc = 10 => i \in SetMsr("PSR", {[ResetPsr EXCEPT !.IRE = TRUE]})
  BY <1>1, Words
<1>4. pc = 11 => \/ i \in SetMsr("TCR", {Timer(c, TRUE) : c \in Compare})
                 \/ i \in SetMsr("IMR", {{IRQ_ATA}}) \/ i \in Go(11)
  BY <1>1, Words
<1>5. pc = 12 => i \in Out(DRIVER_HEAD) \/ i \in Go(11)
  BY <1>1, Words
<1>6. pc \in 13 .. 16 => i \in Out(Port(pc - 10))
  BY <1>1, Words
<1>7. pc = 17 => i \in Out(STATUS_COMMAND)
  BY <1>1, Words
<1>8. pc = 18 => i \in SetMsr("IMR", {{}})
  BY <1>1, Words
<1>9. /\ pc = 0 => i \in Go(9)
      /\ pc = 2 => i \in Go(22)
      /\ pc = 19 => i \in Go(11)
      /\ pc = 23 => i \in Go(24) \/ i \in Go(26)
      /\ pc = 28 => i \in Go(27) \/ i \in Go(29)
  BY <1>1, Words
<1>10. pc = 26 => i \in In(STATUS_COMMAND) \/ i \in Go(29)
  BY <1>1, Words
<1>11. pc = 27 => i \in In(DATA)
  BY <1>1, Words
<1>12. /\ pc = 22 => i.op = "rmsr"
       /\ pc = 25 => i.op = "next"
       /\ pc = 29 => i.op = "ret"
  BY <1>1, Words
<1>13. pc \in {9, 24} => /\ i.op = "wmsr" /\ i.reg = "TCR"
                         /\ i.val \in {Timer(c, FALSE) : c \in Compare}
  BY <1>2, SetMsrHolds
<1>14. pc = 10 => /\ i.op = "wmsr" /\ i.reg = "PSR"
                  /\ i.val = [ResetPsr EXCEPT !.IRE = TRUE]
  <2>. DEFINE values == {[ResetPsr EXCEPT !.IRE = TRUE]}
  <2>1. pc = 10 => i \in SetMsr("PSR", values)
    BY <1>3
  <2>2. pc = 10 => i.op = "wmsr" /\ i.reg = "PSR" /\ i.val \in values
    <3>. HIDE DEF values
    <3> QED BY <2>1, SetMsrHolds
  <2> QED BY <2>2
<1>15. pc = 11 => \/ i.op = "wmsr" /\ i.reg = "TCR" /\ i.val \in {Timer(c, TRUE) : c \in Compare}
                  \/ i.op = "wmsr" /\ i.reg = "IMR"
                  \/ i.op = "jump" /\ i.to = 11
  <2>1. CASE i \in SetMsr("TCR", {Timer(c, TRUE) : c \in Compare})
    BY <2>1, SetMsrHolds
  <2>2. CASE i \in SetMsr("IMR", {{IRQ_ATA}})
    <3>1. i.op = "wmsr" /\ i.reg = "IMR"
      BY <2>2 DEF SetMsr
    <3> QED BY <3>1
  <2>3. CASE i \in Go(11)
    BY <2>3, GoHolds
  <2> QED BY <1>4, <2>1, <2>2, <2>3
<1>16. pc = 12 => (i.op = "store" /\ i.va = DRIVER_HEAD) \/ (i.op = "jump" /\ i.to = 11)
  <2>1. CASE i \in Out(DRIVER_HEAD)
    BY <2>1, OutHolds
  <2>2. CASE i \in Go(11)
    BY <2>2, GoHolds
  <2> QED BY <1>5, <2>1, <2>2
<1>17. /\ pc \in 13 .. 16 => i.op = "store" /\ i.va = Port(pc - 10)
       /\ pc = 17 => i.op = "store" /\ i.va = STATUS_COMMAND
  BY <1>6, <1>7, OutHolds
<1>18. pc = 18 => i.op = "wmsr" /\ i.reg = "IMR"
  BY <1>8, SetMsrHolds
<1>19. /\ pc = 0 => i.op = "jump" /\ i.to = 9
       /\ pc = 2 => i.op = "jump" /\ i.to = 22
       /\ pc = 19 => i.op = "jump" /\ i.to = 11
       /\ pc = 23 => i.op = "jump" /\ i.to \in {24, 26}
       /\ pc = 28 => i.op = "jump" /\ i.to \in {27, 29}
  BY <1>9, GoHolds
<1>20. pc = 26 => (i.op = "load" /\ i.va = STATUS_COMMAND) \/ (i.op = "jump" /\ i.to = 29)
  <2>1. CASE i \in In(STATUS_COMMAND)
    BY <2>1, InHolds
  <2>2. CASE i \in Go(29)
    BY <2>2, GoHolds
  <2> QED BY <1>10, <2>1, <2>2
<1>21. pc = 27 => i.op = "load" /\ i.va = DATA
  BY <1>11, InHolds
<1>22. pc \in {0, 2, 9, 10} \cup 11 .. 19 \cup 22 .. 29
  BY Places DEF Where
<1>23. /\ pc \in {0, 2, 19, 23, 28} => i.op = "jump"
       /\ pc \in {9, 10, 18, 24} => i.op = "wmsr"
       /\ pc = 11 => i.op \in {"wmsr", "jump"}
       /\ pc = 12 => i.op \in {"store", "jump"}
       /\ pc \in 13 .. 17 => i.op = "store"
       /\ pc = 22 => i.op = "rmsr"
       /\ pc = 25 => i.op = "next"
       /\ pc = 26 => i.op \in {"load", "jump"}
       /\ pc = 27 => i.op = "load"
       /\ pc = 29 => i.op = "ret"
  <2>1. pc \in {9, 10, 18, 24} => i.op = "wmsr"
    BY <1>13, <1>14, <1>18
  <2>2. pc = 11 => i.op \in {"wmsr", "jump"}
    BY <1>15
  <2> QED BY <1>12, <1>16, <1>17, <1>19, <1>20, <1>21, <2>1, <2>2
<1>24. i.op \in {"store", "load", "rmsr", "next", "ret", "jump", "wmsr"}
  BY <1>22, <1>23
<1>25. i.op = "store" => /\ pc \in 12 .. 17
                         /\ pc = 12 => i.va = DRIVER_HEAD
                         /\ pc \in 13 .. 16 => i.va = Port(pc - 10)
                         /\ pc = 17 => i.va = STATUS_COMMAND
  BY <1>16, <1>17, <1>22, <1>23
<1>26. i.op = "load" => \/ pc = 26 /\ i.va = STATUS_COMMAND
                        \/ pc = 27 /\ i.va = DATA
  BY <1>20, <1>21, <1>22, <1>23
<1>27. /\ i.op = "rmsr" => pc = 22
       /\ i.op = "next" => pc = 25
       /\ i.op = "ret" => pc = 29
  BY <1>22, <1>23
<1>28. i.op = "jump" => \/ pc = 0 /\ i.to = 9
                        \/ pc \in {11, 12, 19} /\ i.to = 11
                        \/ pc = 2 /\ i.to = 22
                        \/ pc = 23 \/ pc = 28
                        \/ pc = 26 /\ i.to = 29
  <2>1. pc = 11 /\ i.op = "jump" => i.to = 11
    BY <1>15
  <2> QED BY <1>16, <1>19, <1>20, <1>22, <1>23, <2>1
<1>29. ASSUME i.op = "wmsr"
       PROVE  \/ /\ pc \in {9, 24} /\ i.reg = "TCR"
                 /\ i.val \in {Timer(c, FALSE) : c \in Compare}
              \/ /\ pc = 11 /\ i.reg = "TCR"
                 /\ i.val \in {Timer(c, TRUE) : c \in Compare}
              \/ pc \in {11, 18} /\ i.reg = "IMR"
              \/ /\ pc = 10 /\ i.reg = "PSR"
                 /\ i.val = [ResetPsr EXCEPT !.IRE = TRUE]
  <2>1. pc \in {9, 24, 10, 11, 18}
    BY <1>22, <1>23, <1>29
  <2>2. CASE pc \in {9, 24}
    BY <1>13, <2>2
  <2>3. CASE pc = 10
    BY <1>14, <2>3
  <2>4. CASE pc = 11
    BY <1>15, <1>29, <2>4
  <2>5. CASE pc = 18
    BY <1>18, <2>5
  <2> QED BY <2>1, <2>2, <2>3, <2>4, <2>5
<1> QED
  BY <1>24, <1>25, <1>26, <1>27, <1>28, <1>29
-----------------------------------------------------------------------------
(***************************************************************************)
(* The kernel's instructions, by what they do.                             *)
(***************************************************************************)
Context == <<psr, epsr, epc>>

(* A move within the text, a wait, or a write of IMR.                      *)
Moves ==
  /\ UNCHANGED <<Context, tcr, irr, diskVars, read, left, seen>>
  /\ \/ pc = 0 /\ pc' = 9
     \/ pc = 11 /\ pc' \in {11, 12}
     \/ pc = 12 /\ pc' = 11
     \/ pc = 18 /\ pc' = 19
     \/ pc = 19 /\ pc' = 11
     \/ pc = 2 /\ pc' = 22
     \/ pc = 23 /\ pc' = IF IRQ_TSC \in seen THEN 24 ELSE 26
     \/ pc = 25 /\ pc' = 26
     \/ pc = 26 /\ IRQ_ATA \notin seen /\ pc' = 29
     \/ pc = 28 /\ pc' = IF BlockRead THEN 29 ELSE 27

(* A write of TCR; in the thread it keeps P.                               *)
Arms ==
  /\ pc \in {9, 11, 24} /\ pc' = pc + 1
  /\ tcr'.EN /\ tcr'.I /\ (pc = 11 => tcr'.P)
  /\ IRQ_ATA \in irr' <=> IRQ_ATA \in irr
  /\ UNCHANGED <<Context, diskVars, read, left, seen>>

Enables ==
  /\ pc = 10 /\ pc' = 11 /\ psr' = [ResetPsr EXCEPT !.IRE = TRUE]
  /\ UNCHANGED <<epsr, epc, tcr, irr, diskVars, read, left, seen>>

Returns ==
  /\ pc = 29 /\ pc' = epc /\ psr' = epsr
  /\ UNCHANGED <<epsr, epc, tcr, irr, diskVars, read, left, seen>>

Looks ==
  /\ pc = 22 /\ pc' = 23 /\ seen' = irr
  /\ UNCHANGED <<Context, tcr, irr, diskVars, read, left>>

(* An access of the disk.                                                  *)
Accesses == pc' = pc + 1 /\ UNCHANGED <<Context, tcr, seen>>

Begins ==
  /\ pc = 12 /\ left = 0 /\ read' \in Reads /\ left' = left
  /\ Disk!WriteDriverHead([fixed |-> TRUE, L |-> TRUE, DRV |-> FALSE, head |-> 0])

Names ==
  /\ \/ pc = 13 /\ Disk!WriteTaskFile("SectorCount", read.sectors % BYTE)
     \/ pc = 14 /\ Disk!WriteTaskFile("SectorNumber", read.sector)
     \/ pc = 15 /\ Disk!WriteTaskFile("CylinderLow", 0)
     \/ pc = 16 /\ Disk!WriteTaskFile("CylinderHigh", 0)
  /\ UNCHANGED <<read, left>>

Issues ==
  /\ pc = 17 /\ left' = read.sectors * SECTOR_WORDS /\ read' = read
  /\ Disk!Transfer("ReadSector")

Acknowledges == pc = 26 /\ IRQ_ATA \in seen /\ Disk!ReadStatus /\ UNCHANGED <<read, left>>

Loads ==
  /\ pc = 27 /\ Disk!ReadData /\ Disk!InBuffer /\ left' = left - 1 /\ read' = read

DiskAccess == Begins \/ Names \/ Issues \/ Acknowledges \/ Loads

LEMMA AccessDoes ==
  ASSUME pc \in 0 .. 29, NEW i, Access(i)
  PROVE  /\ i.op \in {"load", "store"}
         /\ pc' = pc + 1 /\ at' = "tsc" /\ UNCHANGED <<Context, tcr>>
         /\ IRQ_TSC \in irr' <=> IRQ_TSC \in irr
<1>1. NextPc(pc) = pc + 1
  BY Layout
<1> QED BY <1>1, AccessLeavesTimer DEF Access, Retire, Context, psVars

LEMMA CoreDoes ==
  ASSUME pc \in 0 .. 29, NEW i, CoreInsn(i)
  PROVE  /\ at' = "tsc" /\ UNCHANGED <<diskVars, read, left, seen>>
         /\ \/ /\ i.op = "next" /\ pc' = pc + 1
               /\ UNCHANGED <<Context, tcr, irr>>
            \/ /\ i.op = "jump" /\ pc' = i.to
               /\ UNCHANGED <<Context, tcr, irr>>
            \/ /\ i.op = "ret" /\ pc' = epc /\ psr' = epsr
               /\ UNCHANGED <<epsr, epc, tcr, irr>>
            \/ /\ i.op = "wmsr" /\ i.reg \in {"TSR", "TCR"} /\ pc' = pc + 1
               /\ tcr' = Written(i, "TCR", tcr)
               /\ irr' = IF i.reg = "TCR" THEN UpdateTcr(irr, tcr') ELSE irr
               /\ UNCHANGED Context
            \/ /\ i.op = "wmsr" /\ i.reg = "IMR" /\ pc' = pc + 1
               /\ UNCHANGED <<Context, tcr, irr>>
            \/ /\ i.op = "wmsr" /\ i.reg \in {"PSR", "EPSR", "EPC", "ELSA"} /\ pc' = pc + 1
               /\ psr' = Written(i, "PSR", psr) /\ epsr' = Written(i, "EPSR", epsr)
               /\ epc' = Written(i, "EPC", epc)
               /\ UNCHANGED <<tcr, irr>>
<1>1. NextPc(pc) = pc + 1
  BY Layout
<1>2. CASE Plain(i)
  BY <1>1, <1>2 DEF CoreInsn, KeepKernel, Plain, Retire, Context, psVars, tscVars, irqVars
<1>3. CASE Jump(i)
  BY <1>1, <1>3 DEF CoreInsn, KeepKernel, Jump, Retire, Context, psVars, tscVars, irqVars
<1>4. CASE WmsrTSC(i)
  BY <1>1, <1>4 DEF CoreInsn, KeepKernel, WmsrTSC, Retire, Context, psVars
<1>5. CASE WmsrIRQC(i)
  BY <1>1, <1>5 DEF CoreInsn, KeepKernel, WmsrIRQC, Retire, Context, psVars, tscVars
<1>6. CASE WmsrPS(i)
  BY <1>1, <1>6 DEF CoreInsn, KeepKernel, WmsrPS, Retire, tscVars, irqVars
<1>7. CASE Ret(i)
  BY <1>1, <1>7 DEF CoreInsn, KeepKernel, Ret, Retire, tscVars, irqVars
<1> QED BY <1>2, <1>3, <1>4, <1>5, <1>6, <1>7 DEF CoreInsn

LEMMA PortPlaces ==
  /\ DATA = MMIO_PHY_BASE /\ DRIVER_HEAD = MMIO_PHY_BASE + 1
  /\ STATUS_COMMAND = MMIO_PHY_BASE + 2
  /\ \A k \in Int : Port(k) = MMIO_PHY_BASE + k
BY Layout DEF DATA, DRIVER_HEAD, STATUS_COMMAND, Port

LEMMA StoreStep ==
  ASSUME Where, NEW i \in Fetched, Taken(i), Store(i)
  PROVE  at' = "tsc" /\ Accesses /\ (Begins \/ Names \/ Issues)
<1>1. pc \in 0 .. 29 /\ i.op = "store" /\ Access(i)
  BY TextFetched DEF Store, StartRead, WriteRegister, IssueRead
<1>2. /\ pc \in 12 .. 17
      /\ pc = 12 => i.va = DRIVER_HEAD
      /\ pc \in 13 .. 16 => i.va = Port(pc - 10)
      /\ pc = 17 => i.va = STATUS_COMMAND
  BY <1>1, Text
<1>3. at' = "tsc" /\ pc' = pc + 1 /\ UNCHANGED <<Context, tcr>>
  BY <1>1, AccessDoes
<1>4. MMIO_PHY_BASE \in Nat
  BY Layout
<1>5. CASE StartRead(i)
  <2>1. pc = 12
    BY <1>2, <1>4, <1>5, PortPlaces DEF StartRead
  <2>2. left = 0
    BY <1>1, <2>1 DEF Taken, THREAD, ISR
  <2> QED BY <1>3, <1>5, <2>1, <2>2 DEF StartRead, Accesses, Begins
<1>6. CASE WriteRegister(i)
  <2>1. pc \in 13 .. 16 /\ i.va = MMIO_PHY_BASE + (pc - 10)
    BY <1>2, <1>4, <1>6, PortPlaces DEF WriteRegister, Plain8
  <2>2. CASE pc = 13
    <3>1. i.va = Port(3) /\ i.va # Port(4) /\ i.va # Port(5) /\ i.va # Port(6)
      BY <1>4, <2>1, <2>2, PortPlaces
    <3> QED BY <1>3, <1>6, <2>2, <3>1 DEF WriteRegister, KeepKernel, Accesses, Names
  <2>3. CASE pc = 14
    <3>1. i.va # Port(3) /\ i.va = Port(4) /\ i.va # Port(5) /\ i.va # Port(6)
      BY <1>4, <2>1, <2>3, PortPlaces
    <3> QED BY <1>3, <1>6, <2>3, <3>1 DEF WriteRegister, KeepKernel, Accesses, Names
  <2>4. CASE pc = 15
    <3>1. i.va # Port(3) /\ i.va # Port(4) /\ i.va = Port(5) /\ i.va # Port(6)
      BY <1>4, <2>1, <2>4, PortPlaces
    <3> QED BY <1>3, <1>6, <2>4, <3>1 DEF WriteRegister, KeepKernel, Accesses, Names
  <2>5. CASE pc = 16
    <3>1. i.va # Port(3) /\ i.va # Port(4) /\ i.va # Port(5) /\ i.va = Port(6)
      BY <1>4, <2>1, <2>5, PortPlaces
    <3> QED BY <1>3, <1>6, <2>5, <3>1 DEF WriteRegister, KeepKernel, Accesses, Names
  <2> QED BY <2>1, <2>2, <2>3, <2>4, <2>5
<1>7. CASE IssueRead(i)
  <2>1. pc = 17
    BY <1>2, <1>4, <1>7, PortPlaces DEF IssueRead
  <2> QED BY <1>3, <1>7, <2>1 DEF IssueRead, Accesses, Issues
<1> QED BY <1>5, <1>6, <1>7 DEF Store

LEMMA LoadStep ==
  ASSUME Where, NEW i \in Fetched, Taken(i), LoadStatus(i) \/ LoadData(i)
  PROVE  at' = "tsc" /\ Accesses /\ (Acknowledges \/ Loads)
<1>1. pc \in 0 .. 29 /\ i.op = "load" /\ Access(i)
  BY TextFetched DEF LoadStatus, LoadData
<1>2. (pc = 26 /\ i.va = STATUS_COMMAND) \/ (pc = 27 /\ i.va = DATA)
  BY <1>1, Text
<1>3. at' = "tsc" /\ pc' = pc + 1 /\ UNCHANGED <<Context, tcr>>
  BY <1>1, AccessDoes
<1>4. MMIO_PHY_BASE \in Nat /\ DATA # STATUS_COMMAND
  BY Layout, PortPlaces
<1>5. CASE LoadStatus(i)
  <2>1. pc = 26
    BY <1>2, <1>4, <1>5 DEF LoadStatus
  <2>2. IRQ_ATA \in seen
    BY <1>1, <2>1 DEF Taken, THREAD, ISR
  <2> QED BY <1>3, <1>5, <2>1, <2>2 DEF LoadStatus, KeepKernel, Accesses, Acknowledges
<1>6. CASE LoadData(i)
  <2>1. pc = 27
    BY <1>2, <1>4, <1>6 DEF LoadData
  <2> QED BY <1>3, <1>6, <2>1 DEF LoadData, Accesses, Loads
<1> QED BY <1>5, <1>6

LEMMA LookStep ==
  ASSUME Where, NEW i \in Fetched, LookAtLines(i)
  PROVE  at' = "tsc" /\ Looks
<1>1. pc \in 0 .. 29 /\ i.op = "rmsr"
  BY TextFetched DEF LookAtLines, Rmsr
<1>2. pc = 22
  BY <1>1, Text
<1>3. NextPc(pc) = pc + 1
  BY <1>1, Layout
<1> QED BY <1>2, <1>3
        DEF LookAtLines, Rmsr, Retire, Looks, Context, psVars, tscVars, irqVars

LEMMA CoreStep ==
  ASSUME Where, NEW i \in Fetched, Taken(i), CoreInsn(i)
  PROVE  at' = "tsc" /\ (Moves \/ Arms \/ Enables \/ Returns)
<1>1. pc \in 0 .. 29 /\ pc \in {0, 2, 9, 10} \cup 11 .. 19 \cup 22 .. 29
  BY TextFetched, Places DEF Where
<1>2. at' = "tsc" /\ UNCHANGED <<diskVars, read, left, seen>>
  BY <1>1, CoreDoes
<1>3. CASE i.op = "next"
  <2>1. pc = 25
    BY <1>1, <1>3, Text
  <2> QED BY <1>1, <1>2, <1>3, <2>1, CoreDoes DEF Moves
<1>4. CASE i.op = "jump"
  <2>1. pc' = i.to /\ UNCHANGED <<Context, tcr, irr>>
    BY <1>1, <1>4, CoreDoes
  <2>2. \/ pc = 0 /\ i.to = 9
        \/ pc \in {11, 12, 19} /\ i.to = 11
        \/ pc = 2 /\ i.to = 22
        \/ pc = 23 \/ pc = 28
        \/ pc = 26 /\ i.to = 29
    BY <1>1, <1>4, Text
  <2>3. /\ pc = 23 => i.to = IF IRQ_TSC \in seen THEN 24 ELSE 26
        /\ pc = 26 => IRQ_ATA \notin seen
        /\ pc = 28 => i.to = IF BlockRead THEN 29 ELSE 27
    BY <1>4 DEF Taken, THREAD, ISR
  <2> QED BY <1>2, <2>1, <2>2, <2>3 DEF Moves
<1>5. CASE i.op = "ret"
  <2>1. pc = 29
    BY <1>1, <1>5, Text
  <2> QED BY <1>1, <1>2, <1>5, <2>1, CoreDoes DEF Returns
<1>6. CASE i.op = "wmsr"
  <2>1. \/ /\ pc \in {9, 24} /\ i.reg = "TCR"
           /\ i.val \in {Timer(c, FALSE) : c \in Compare}
        \/ pc = 11 /\ i.reg = "TCR" /\ i.val \in {Timer(c, TRUE) : c \in Compare}
        \/ pc \in {11, 18} /\ i.reg = "IMR"
        \/ pc = 10 /\ i.reg = "PSR" /\ i.val = [ResetPsr EXCEPT !.IRE = TRUE]
    BY <1>1, <1>6, Text
  <2>2. CASE i.reg = "TCR"
    <3>1. pc' = pc + 1 /\ tcr' = i.val /\ irr' = UpdateTcr(irr, tcr') /\ UNCHANGED Context
      BY <1>1, <1>6, <2>2, CoreDoes DEF Written
    <3>2. i.val.EN /\ i.val.I /\ (pc = 11 => i.val.P)
      BY <2>1, <2>2 DEF Timer
    <3>3. IRQ_ATA \in irr' <=> IRQ_ATA \in irr
      BY <3>1, IrqAssumption, SystemAssumption DEF UpdateTcr, SetInterrupt
    <3> QED BY <1>2, <2>1, <2>2, <3>1, <3>2, <3>3 DEF Arms
  <2>3. CASE i.reg = "IMR"
    BY <1>1, <1>2, <1>6, <2>1, <2>3, CoreDoes DEF Moves
  <2>4. CASE i.reg = "PSR"
    BY <1>1, <1>2, <1>6, <2>1, <2>4, CoreDoes DEF Enables, Written
  <2> QED BY <2>1, <2>2, <2>3, <2>4
<1> QED BY <1>1, <1>3, <1>4, <1>5, <1>6, CoreDoes

LEMMA KernelStep ==
  ASSUME Where, KernelInsn
  PROVE  /\ at = "insn" /\ at' = "tsc"
         /\ \/ Moves \/ Arms \/ Enables \/ Returns \/ Looks
            \/ Accesses /\ DiskAccess
BY TextFetched, StoreStep, LoadStep, LookStep, CoreStep DEF KernelInsn, DiskAccess
-----------------------------------------------------------------------------
(* The loop around the instructions.                                       *)

Waits == UNCHANGED <<pc, Context, tcr, irr>> /\ (at = "tsc" => ~tcr.EN)

Ticks ==
  /\ at = "tsc" /\ UNCHANGED <<pc, Context>>
  /\ tcr'.I = tcr.I /\ tcr'.EN = tcr.EN
  /\ tcr.P => tcr'.P
  /\ TscExpired => tcr'.P
  /\ IRQ_ATA \in irr' <=> IRQ_ATA \in irr

Interrupts ==
  /\ at = "irq" /\ pc \in Thread
  /\ pc' = 2 /\ epc' = pc /\ epsr' = psr /\ ~psr'.IRE /\ ~psr'.IMME
  /\ UNCHANGED <<tcr, irr>>

LEMMA LoopDoes ==
  ASSUME TypeOK, Where, TscOff \/ TscTick \/ NoIrq \/ TakeIrq
  PROVE  at # "insn" /\ (Waits \/ Ticks \/ Interrupts)
<1>1. CASE TscOff \/ NoIrq
  BY <1>1 DEF TscOff, NoIrq, Waits, Context, psVars, tscVars, irqVars
<1>2. CASE TscTick
  <2>1. tcr \in Tcr
    BY DEF TypeOK
  <2>2. CASE TscExpired
    <3>1. tcr' = [tcr EXCEPT !.P = TRUE] /\ irr' = UpdateTcr(irr, tcr')
      BY <1>2, <2>2 DEF TscTick
    <3>2. tcr'.P /\ tcr'.I = tcr.I /\ tcr'.EN = tcr.EN
      BY <2>1, <3>1 DEF Tcr
    <3>3. IRQ_ATA \in irr' <=> IRQ_ATA \in irr
      BY <3>1, IrqAssumption, SystemAssumption DEF UpdateTcr, SetInterrupt
    <3> QED BY <1>2, <3>2, <3>3 DEF TscTick, Ticks, Context, psVars
  <2>3. CASE ~TscExpired
    BY <1>2, <2>3 DEF TscTick, Ticks, Context, psVars
  <2> QED BY <1>2, <2>2, <2>3 DEF TscTick
<1>3. CASE TakeIrq
  <2>1. pc \in Thread
    BY <1>3 DEF TakeIrq, Pending, Where
  <2>2. VECT_EIRQ \in Vectors /\ psr \in Psr
    BY DEF Vectors, TypeOK
  <2>3. /\ epc' = pc /\ epsr' = psr /\ UNCHANGED <<tcr, irr>>
        /\ psr' = [psr EXCEPT !.RM = TRUE, !.IMME = FALSE, !.DMME = FALSE, !.IRE = FALSE]
        /\ pc' = NextPc((VECT_EIRQ - INSN_LEN) % ADDR_SPACE)
    BY <1>3 DEF TakeIrq, Raise, tscVars, irqVars
  <2>4. pc' = 2
    BY <2>2, <2>3, VectorEntry, Layout
  <2>5. ~psr'.IRE /\ ~psr'.IMME
    BY <2>2, <2>3 DEF Psr
  <2> QED BY <1>3, <2>1, <2>3, <2>4, <2>5 DEF TakeIrq, Interrupts
<1> QED BY <1>1, <1>2, <1>3

-----------------------------------------------------------------------------
(* Where the kernel is, after each step.                                   *)

LEMMA WhereSteps ==
  ASSUME Where,
         \/ Moves \/ Arms \/ Enables \/ Returns \/ Looks
         \/ Accesses /\ DiskAccess
         \/ Waits \/ Ticks \/ Interrupts
  PROVE  Where'
<1>1. /\ pc \in {0, 2, 9, 10} \cup 11 .. 19 \cup 22 .. 29
      /\ ~psr.IMME /\ (psr.IRE <=> pc \in 11 .. 19)
      /\ pc \in {2} \cup 22 .. 29 => epc \in 11 .. 19 /\ epsr.IRE /\ ~epsr.IMME
  BY Places DEF Where
<1>2. SUFFICES
        /\ pc' \in {0, 2, 9, 10} \cup 11 .. 19 \cup 22 .. 29
        /\ ~psr'.IMME /\ (psr'.IRE <=> pc' \in 11 .. 19)
        /\ pc' \in {2} \cup 22 .. 29 => epc' \in 11 .. 19 /\ epsr'.IRE /\ ~epsr'.IMME
  BY Places, Layout DEF Where, Boot, Thread, Handler
<1>3. CASE Moves
  BY <1>1, <1>3 DEF Moves, Context
<1>4. CASE Arms
  BY <1>1, <1>4 DEF Arms, Context
<1>5. CASE Enables
  BY <1>1, <1>5 DEF Enables, ResetPsr
<1>6. CASE Returns
  BY <1>1, <1>6 DEF Returns
<1>7. CASE Looks
  BY <1>1, <1>7 DEF Looks, Context
<1>8. CASE Accesses /\ DiskAccess
  <2>1. pc \in 12 .. 17 \cup 26 .. 27
    BY <1>8 DEF DiskAccess, Begins, Names, Issues, Acknowledges, Loads
  <2> QED BY <1>1, <1>8, <2>1 DEF Accesses, Context
<1>9. CASE Waits \/ Ticks
  BY <1>1, <1>9 DEF Waits, Ticks, Context
<1>10. CASE Interrupts
  BY <1>1, <1>10, Places DEF Interrupts
<1> QED BY <1>3, <1>4, <1>5, <1>6, <1>7, <1>8, <1>9, <1>10

(* The timer, after each step.                                             *)
LEMMA TimerSteps ==
  ASSUME Where, TimerServed,
         owed' = IF TickDone THEN FALSE ELSE owed \/ TickDue,
         \/ at = "insn" /\ \/ Moves \/ Arms \/ Enables \/ Returns \/ Looks
                           \/ Accesses /\ DiskAccess
         \/ at # "insn" /\ (Waits \/ Ticks \/ Interrupts)
  PROVE  TimerServed'
<1>. USE DEF TimerServed, THREAD, ISR
<1>1. pc \in {0, 2, 9, 10} \cup 11 .. 19 \cup 22 .. 29
  BY Places DEF Where
<1>2. CASE at = "insn"
  <2>1. owed' => owed /\ pc # 25
    <3>1. ~TickDue /\ (TickDone <=> pc = 25)
      BY <1>2 DEF TickDone, TickDue
    <3> QED BY <3>1, Zenon
  <2>2. CASE Moves
    BY <1>1, <2>1, <2>2 DEF Moves
  <2>3. CASE Arms
    BY <1>1, <2>1, <2>3 DEF Arms
  <2>4. CASE Enables
    BY <1>1, <2>1, <2>4 DEF Enables
  <2>5. CASE Returns
    BY <1>1, <2>1, <2>5, Places DEF Returns, Where
  <2>6. CASE Looks
    BY <1>1, <2>1, <2>6 DEF Looks
  <2>7. CASE Accesses /\ DiskAccess
    <3>1. pc \in 12 .. 17 \cup 26 .. 27
      BY <2>7 DEF DiskAccess, Begins, Names, Issues, Acknowledges, Loads
    <3> QED BY <2>1, <2>7, <3>1 DEF Accesses
  <2> QED BY <1>2, <2>2, <2>3, <2>4, <2>5, <2>6, <2>7
<1>3. CASE at # "insn"
  <2>1. owed' => owed \/ TickDue
    <3>1. ~TickDone
      BY <1>3 DEF TickDone
    <3> QED BY <3>1, Zenon
  <2>2. CASE Waits
    BY <1>1, <1>3, <2>1, <2>2 DEF Waits, TickDue
  <2>3. CASE Ticks
    BY <1>1, <1>3, <2>1, <2>3 DEF Ticks, TickDue, TscExpired
  <2>4. CASE Interrupts
    BY <1>1, <1>3, <2>1, <2>4, Places DEF Interrupts, TickDue
  <2> QED BY <1>3, <2>2, <2>3, <2>4
<1> QED BY <1>2, <1>3

(* The thread's place, after each step.                                    *)
LEMMA PlaceSteps ==
  ASSUME Where, Where'
  PROVE  /\ Moves \/ Arms \/ Enables \/ Returns \/ Looks => Place' = Place \/ Place' \notin 13 .. 17
         /\ Accesses /\ pc \in 12 .. 17 => Place = pc /\ Place' = pc + 1
         /\ Accesses /\ pc \in 26 .. 27 => Place' = Place
         /\ Waits \/ Ticks \/ Interrupts => Place' = Place
<1>1. /\ pc \in {0, 2, 9, 10} \cup 11 .. 19 \cup 22 .. 29
      /\ pc \in {2} \cup 22 .. 29 => epc \in 11 .. 19
  BY Places DEF Where
<1>2. /\ Place = IF pc \in {2} \cup 22 .. 29 THEN epc ELSE pc
      /\ Place' = IF pc' \in {2} \cup 22 .. 29 THEN epc' ELSE pc'
  BY Places, Layout DEF Place, Handler
<1>3. Moves => Place' = Place \/ Place' \notin 13 .. 17
  BY <1>1, <1>2 DEF Moves, Context
<1>4. Arms \/ Enables \/ Returns \/ Looks => Place' = Place \/ Place' \notin 13 .. 17
  BY <1>1, <1>2 DEF Arms, Enables, Returns, Looks, Context
<1>5. /\ Accesses /\ pc \in 12 .. 17 => Place = pc /\ Place' = pc + 1
      /\ Accesses /\ pc \in 26 .. 27 => Place' = Place
  BY <1>1, <1>2 DEF Accesses, Context
<1>6. Waits \/ Ticks \/ Interrupts => Place' = Place
  BY <1>1, <1>2, Places DEF Waits, Ticks, Interrupts, Context
<1> QED BY <1>3, <1>4, <1>5, <1>6

LEMMA ReadSteps ==
  ASSUME Where, Where', ReadNamed, BlockServed,
         \/ Moves \/ Arms \/ Enables \/ Returns \/ Looks
         \/ Accesses /\ DiskAccess
         \/ (Waits \/ Ticks \/ Interrupts) /\ UNCHANGED <<diskVars, read, left, seen>>
  PROVE  ReadNamed'
<1>1. /\ "IEN" \notin control /\ left \in Nat
      /\ Place \in 13 .. 17 => left = 0 /\ read \in Reads /\ head.head = 0
      /\ Place \in 14 .. 17 => count = read.sectors % BYTE
      /\ Place \in 15 .. 17 => number = read.sector
      /\ Place \in 16 .. 17 => cylLow = 0
      /\ Place = 17 => cylHigh = 0
  BY DEF ReadNamed, THREAD
<1>2. SUFFICES
        /\ "IEN" \notin control' /\ left' \in Nat
        /\ Place' \in 13 .. 17 => left' = 0 /\ read' \in Reads /\ head'.head = 0
        /\ Place' \in 14 .. 17 => count' = read'.sectors % BYTE
        /\ Place' \in 15 .. 17 => number' = read'.sector
        /\ Place' \in 16 .. 17 => cylLow' = 0
        /\ Place' = 17 => cylHigh' = 0
  BY DEF ReadNamed, THREAD
<1>3. ASSUME UNCHANGED <<diskVars, read, left>>, Place' = Place \/ Place' \notin 13 .. 17
      PROVE  ReadNamed'
  <2>1. UNCHANGED <<control, count, number, cylLow, cylHigh, head>>
    BY <1>3 DEF diskVars
  <2> QED BY <1>1, <1>3, <2>1 DEF ReadNamed, THREAD
<1>4. CASE Moves \/ Arms \/ Enables \/ Returns \/ Looks
  <2>1. Place' = Place \/ Place' \notin 13 .. 17
    BY <1>4, PlaceSteps
  <2>2. UNCHANGED <<diskVars, read, left>>
    BY <1>4 DEF Moves, Arms, Enables, Returns, Looks
  <2> QED BY <1>3, <2>1, <2>2 DEF ReadNamed, THREAD
<1>5. CASE (Waits \/ Ticks \/ Interrupts) /\ UNCHANGED <<diskVars, read, left, seen>>
  BY <1>3, <1>5, PlaceSteps DEF ReadNamed, THREAD
<1>6. CASE Accesses /\ Begins
  <2>1. Place' = 13
    BY <1>6, PlaceSteps DEF Begins
  <2>2. head'.head = 0 /\ control' = control
    BY <1>6 DEF Begins, Disk!WriteDriverHead
  <2> QED BY <1>1, <1>6, <2>1, <2>2 DEF Begins
<1>7. CASE Accesses /\ Names
  <2>1. pc \in 13 .. 16 /\ Place = pc /\ Place' = pc + 1
    BY <1>7, PlaceSteps DEF Names
  <2>2. UNCHANGED <<control, head, read, left>>
    BY <1>7 DEF Names, Disk!WriteTaskFile
  <2>3. /\ pc = 13 => count' = read.sectors % BYTE
        /\ pc = 14 => number' = read.sector /\ count' = count
        /\ pc = 15 => cylLow' = 0 /\ UNCHANGED <<count, number>>
        /\ pc = 16 => cylHigh' = 0 /\ UNCHANGED <<count, number, cylLow>>
    BY <1>7 DEF Names, Disk!WriteTaskFile
  <2> QED BY <1>1, <2>1, <2>2, <2>3
<1>8. CASE Accesses /\ Issues
  <2>1. Place = 17 /\ Place' = 18
    BY <1>8, PlaceSteps DEF Issues
  <2>2. control' = control /\ left' = read.sectors * SECTOR_WORDS
    BY <1>8 DEF Issues, Disk!Transfer
  <2>3. read.sectors \in Nat /\ SECTOR_WORDS \in Nat /\ BYTE \in Nat
    BY <1>1, <2>1, SystemAssumption, DiskAssumption
  <2>4. left' \in Nat
    BY <2>2, <2>3
  <2> QED BY <1>1, <2>1, <2>2, <2>4
<1>9. CASE Accesses /\ (Acknowledges \/ Loads)
  <2>1. Place' = Place
    BY <1>9, PlaceSteps DEF Acknowledges, Loads
  <2>2. left' \in Nat /\ (Place \in 13 .. 17 => left' = left)
    <3>1. CASE Acknowledges
      BY <1>1, <3>1 DEF Acknowledges
    <3>2. CASE Loads
      <4>1. left > 0 /\ left' = left - 1
        BY <3>2 DEF Loads, BlockServed, ISR
      <4> QED BY <1>1, <4>1
    <3> QED BY <1>9, <3>1, <3>2
  <2>3. control' = control /\ read' = read
    BY <1>9 DEF Acknowledges, Loads, Disk!ReadStatus, Disk!ReadData, Disk!ReadWord,
               Disk!ReadFinalWord, Disk!ReadIntoNextSector
  <2>4. CASE Place \in 13 .. 17
    <3>1. left = 0 /\ ~Loads
      BY <1>1, <2>4 DEF Loads, BlockServed, ISR
    <3>2. UNCHANGED <<count, number, cylLow, cylHigh, head>>
      BY <1>9, <3>1 DEF Acknowledges, Disk!ReadStatus, Disk!taskFile
    <3> QED BY <1>1, <2>1, <2>2, <2>3, <3>2
  <2> QED BY <1>1, <2>1, <2>2, <2>3, <2>4
<1> QED BY <1>4, <1>5, <1>6, <1>7, <1>8, <1>9 DEF DiskAccess, ReadNamed, THREAD
-----------------------------------------------------------------------------
(* The window of the disk, after each step.                                *)

LEMMA Fits == \A x \in Nat : x <= DISK_WORDS => Disk!ToInt(x) = x
<1> SUFFICES ASSUME NEW x \in Nat, x <= DISK_WORDS
             PROVE  Disk!ToInt(x) = x
  OBVIOUS
<1>1. INT_PERIOD \in Nat \ {0} /\ x < INT_PERIOD \div 2 /\ INT_PERIOD \div 2 <= INT_PERIOD
  BY DiskAssumption
<1>2. x % INT_PERIOD = x
  BY <1>1
<1> QED BY <1>1, <1>2 DEF Disk!ToInt

(* The command opens the window on the first sector of the read.           *)
LEMMA IssueOpens ==
  ASSUME Where, Where', ReadNamed, Accesses, Issues
  PROVE  /\ left' \in Nat \ {0} /\ IRQ_ATA \in irr' /\ WindowLeft'
         /\ pos' + left' = (read.sector + read.sectors) * SECTOR_WORDS
<1>1. Place = 17
  BY PlaceSteps DEF Issues
<1>2. /\ "IEN" \notin control /\ read \in Reads /\ head.head = 0 /\ number = read.sector
      /\ count = read.sectors % BYTE /\ cylLow = 0 /\ cylHigh = 0
  BY <1>1 DEF ReadNamed, THREAD
<1>. DEFINE first == read.sector * SECTOR_WORDS
            total == read.sectors * SECTOR_WORDS
<1>3. /\ BYTE \in Nat \ {0} /\ SECTOR_WORDS \in Nat \ {0} /\ DISK_WORDS \in Nat
      /\ read.sector \in Nat /\ read.sectors \in Nat /\ 1 <= read.sectors /\ read.sectors <= BYTE
      /\ (read.sector + read.sectors) * SECTOR_WORDS <= DISK_WORDS
  BY <1>2, SystemAssumption, DiskAssumption
<1>4. first \in Nat /\ total \in Nat /\ SECTOR_WORDS <= total /\ first + total <= DISK_WORDS
      /\ total = (read.sectors - 1) * SECTOR_WORDS + SECTOR_WORDS
  <2>1. first \in Nat /\ total \in Nat
    BY <1>3
  <2>2. (read.sector + read.sectors) * SECTOR_WORDS = first + total
    BY <1>3
  <2>3. total = (read.sectors - 1) * SECTOR_WORDS + SECTOR_WORDS
    BY <1>3
  <2>4. (read.sectors - 1) * SECTOR_WORDS \in Nat
    BY <1>3
  <2> QED BY <1>3, <2>1, <2>2, <2>3, <2>4
<1>12. first + total = (read.sector + read.sectors) * SECTOR_WORDS
  BY <1>3
<1>5. Disk!FullCount = read.sectors
  <2>1. CASE read.sectors = BYTE
    BY <1>2, <1>3, <2>1 DEF Disk!FullCount
  <2>2. CASE read.sectors # BYTE
    <3>1. read.sectors % BYTE = read.sectors
      BY <1>3, <2>2
    <3> QED BY <1>2, <1>3, <3>1 DEF Disk!FullCount
  <2> QED BY <2>1, <2>2
<1>6. Disk!Sector = read.sector
  BY <1>2, <1>3 DEF Disk!Sector
<1>7. /\ command' = "ReadSector" /\ count' = read.sectors /\ left' = total
      /\ pos' = Disk!ToInt(first) /\ len' = Disk!ToInt(pos' + SECTOR_WORDS)
      /\ (IRQ_ATA \in irr)'
  <2>1. command' = "ReadSector" /\ count' = read.sectors /\ left' = total
    BY <1>5 DEF Issues, Disk!Transfer
  <2>2. pos' = Disk!ToInt(first)
    BY <1>6 DEF Issues, Disk!Transfer
  <2>3. len' = Disk!ToInt(pos' + SECTOR_WORDS)
    BY DEF Issues, Disk!Transfer, Disk!BlockWords
  <2>4. (IRQ_ATA \in irr)'
    BY <1>2 DEF Issues, Disk!Transfer, Disk!ReadCommands, Disk!Interrupt
  <2> QED BY <2>1, <2>2, <2>3, <2>4
<1>. HIDE DEF first, total
<1>8. pos' = first /\ len' = first + SECTOR_WORDS
  BY <1>3, <1>4, <1>7, Fits
<1>9. /\ pos' \in Nat /\ len' \in Nat /\ len' - pos' = SECTOR_WORDS
      /\ left' \in Nat \ {0} /\ pos' + left' <= DISK_WORDS
  BY <1>3, <1>4, <1>7, <1>8
<1>10. left' = (count' - 1) * SECTOR_WORDS + (len' - pos')
  BY <1>4, <1>7, <1>9
<1>11. SECTOR_WORDS \in 1 .. SECTOR_WORDS /\ read.sectors \in Nat \ {0}
  BY <1>3
<1>13. pos' + left' = (read.sector + read.sectors) * SECTOR_WORDS
  BY <1>7, <1>8, <1>12
<1> QED BY <1>7, <1>9, <1>10, <1>11, <1>13 DEF WindowLeft

(* Each word read moves the window on; the one that ends a block raises    *)
(* the line, unless it is the last one.                                    *)
LEMMA LoadMoves ==
  ASSUME ReadNamed, WindowLeft, BlockServed, Loads
  PROVE  /\ left > 0 /\ left' = left - 1 /\ WindowLeft'
         /\ IRQ_ATA \in irr' <=> left' > 0 /\ BlockRead'
         /\ pos \in Nat /\ left \in Nat /\ pos' = pos + 1
<1>. DEFINE rest == (count - 1) * SECTOR_WORDS
<1>1. /\ left \in Nat /\ left > 0 /\ left' = left - 1 /\ IRQ_ATA \notin irr
      /\ "IEN" \notin control /\ Disk!ReadData
  BY DEF Loads, BlockServed, ReadNamed, ISR
<1>2. /\ command = "ReadSector" /\ count \in Nat \ {0}
      /\ pos \in Nat /\ len \in Nat /\ len - pos \in 1 .. SECTOR_WORDS
      /\ left = rest + (len - pos) /\ pos + left <= DISK_WORDS
      /\ SECTOR_WORDS \in Nat \ {0} /\ DISK_WORDS \in Nat
  BY <1>1, DiskAssumption DEF WindowLeft
<1>3. rest \in Nat /\ (count = 1 => rest = 0)
  BY <1>2
<1>4. Disk!ToInt(pos + 1) = pos + 1
  BY <1>1, <1>2, Fits
<1>5. (Disk!LastOfBlock <=> len - pos = 1) /\ (Disk!MoreSectors <=> count > 1)
  BY <1>2, <1>4 DEF Disk!LastOfBlock, Disk!MoreSectors
<1>6. pos' = pos + 1 /\ command' = command
  BY <1>1, <1>4 DEF Disk!ReadData, Disk!ReadWord, Disk!ReadFinalWord, Disk!ReadIntoNextSector
<1>10. pos \in Nat /\ left \in Nat /\ pos' = pos + 1
  BY <1>1, <1>2, <1>6
<1>7. CASE ~Disk!LastOfBlock
  <2>1. UNCHANGED <<count, len>> /\ (IRQ_ATA \in irr' <=> IRQ_ATA \in irr)
    BY <1>1, <1>7 DEF Disk!ReadData, Disk!ReadWord, Disk!ReadFinalWord,
                      Disk!ReadIntoNextSector, Disk!taskFile
  <2>2. len - pos' \in 1 .. (SECTOR_WORDS - 1) /\ left' = rest + (len - pos')
    BY <1>1, <1>2, <1>3, <1>5, <1>6, <1>7
  <2>3. left' % SECTOR_WORDS = len - pos'
    <3>1. \A q \in Int, n \in Nat \ {0} : \A r \in 0 .. (n - 1) : (q * n + r) % n = r
      OBVIOUS
    <3>. DEFINE q == count - 1
                r == len - pos'
    <3>2. q \in Int /\ r \in 0 .. (SECTOR_WORDS - 1) /\ left' = q * SECTOR_WORDS + r
      BY <1>2, <2>2
    <3>. HIDE DEF q, r
    <3>3. left' % SECTOR_WORDS = r
      BY <1>2, <3>1, <3>2
    <3> QED BY <3>3 DEF r
  <2>4. WindowLeft'
    BY <1>1, <1>2, <1>6, <2>1, <2>2 DEF WindowLeft
  <2> QED BY <1>1, <1>2, <1>10, <2>1, <2>2, <2>3, <2>4 DEF BlockRead
<1>8. CASE Disk!LastOfBlock /\ ~Disk!MoreSectors
  <2>1. IRQ_ATA \in irr' <=> IRQ_ATA \in irr
    BY <1>1, <1>8 DEF Disk!ReadData, Disk!ReadWord, Disk!ReadFinalWord, Disk!ReadIntoNextSector
  <2>2. left' = 0
    BY <1>1, <1>2, <1>3, <1>5, <1>8
  <2> QED BY <1>1, <1>10, <2>1, <2>2 DEF WindowLeft
<1>9. CASE Disk!LastOfBlock /\ Disk!MoreSectors
  <2>1. Disk!ReadIntoNextSector
    BY <1>1, <1>9 DEF Disk!ReadData, Disk!ReadWord, Disk!ReadFinalWord
  <2>2. count' = count - 1 /\ len' = Disk!ToInt(len + SECTOR_WORDS) /\ (IRQ_ATA \in irr)'
    BY <1>1, <2>1 DEF Disk!ReadIntoNextSector, Disk!Interrupt
  <2>3. left' = rest /\ rest = (count - 2) * SECTOR_WORDS + SECTOR_WORDS
    BY <1>1, <1>2, <1>3, <1>5, <1>9
  <2>4. count > 1 /\ (count - 2) * SECTOR_WORDS \in Nat
    BY <1>2, <1>5, <1>9
  <2>5. len' = len + SECTOR_WORDS
    <3>1. len + SECTOR_WORDS <= DISK_WORDS
      BY <1>2, <1>3, <1>5, <1>9, <2>3, <2>4
    <3> QED BY <1>2, <2>2, <3>1, Fits
  <2>6. rest % SECTOR_WORDS = 0
    BY <1>2
  <2>7. WindowLeft'
    <3>1. left' = (count' - 1) * SECTOR_WORDS + (len' - pos')
      <4>1. count' - 1 = count - 2 /\ len' - pos' = SECTOR_WORDS
        BY <1>2, <1>5, <1>6, <1>9, <2>2, <2>5
      <4> QED BY <2>3, <4>1
    <3>2. len' - pos' \in 1 .. SECTOR_WORDS /\ count' \in Nat \ {0} /\ pos' + left' <= DISK_WORDS
      BY <1>1, <1>2, <1>5, <1>6, <1>9, <2>2, <2>4, <2>5
    <3>3. pos' \in Nat /\ len' \in Nat /\ command' = "ReadSector"
      BY <1>2, <1>6, <2>5
    <3> QED BY <3>1, <3>2, <3>3 DEF WindowLeft
  <2>8. left' > 0 /\ BlockRead'
    BY <1>2, <2>3, <2>4, <2>6 DEF BlockRead
  <2> QED BY <1>1, <1>10, <2>2, <2>7, <2>8
<1> QED BY <1>7, <1>8, <1>9

LEMMA WindowSteps ==
  ASSUME Where, Where', ReadNamed, WindowLeft, BlockServed,
         \/ Moves \/ Arms \/ Enables \/ Returns \/ Looks
         \/ Accesses /\ DiskAccess
         \/ (Waits \/ Ticks \/ Interrupts) /\ UNCHANGED <<diskVars, read, left, seen>>
  PROVE  WindowLeft'
<1>1. CASE UNCHANGED <<command, count, pos, len, left>>
  BY <1>1 DEF WindowLeft
<1>2. CASE Moves \/ Arms \/ Enables \/ Returns \/ Looks
  BY <1>1, <1>2 DEF Moves, Arms, Enables, Returns, Looks, diskVars
<1>3. CASE (Waits \/ Ticks \/ Interrupts) /\ UNCHANGED <<diskVars, read, left, seen>>
  BY <1>1, <1>3 DEF diskVars
<1>4. CASE Accesses /\ (Begins \/ Names)
  <2>1. left' = left /\ left = 0
    <3>1. CASE Begins
      BY <3>1 DEF Begins
    <3>2. CASE Names
      <4>1. pc \in 13 .. 16 /\ left' = left
        BY <3>2 DEF Names
      <4>2. Place \in 13 .. 17
        BY <1>4, <4>1, PlaceSteps
      <4> QED BY <4>1, <4>2 DEF ReadNamed, THREAD
    <3> QED BY <1>4, <3>1, <3>2
  <2> QED BY <2>1 DEF WindowLeft
<1>5. CASE Accesses /\ Issues
  BY <1>5, IssueOpens
<1>6. CASE Acknowledges
  BY <1>1, <1>6 DEF Acknowledges, Disk!ReadStatus, Disk!taskFile, Disk!window
<1>7. CASE Loads
  BY <1>7, LoadMoves
<1> QED BY <1>2, <1>3, <1>4, <1>5, <1>6, <1>7 DEF DiskAccess

(* The disk's line, after each step.                                       *)
LEMMA BlockSteps ==
  ASSUME Where, Where', ReadNamed, WindowLeft, BlockServed,
         \/ Moves \/ Arms \/ Enables \/ Returns \/ Looks
         \/ Accesses /\ DiskAccess
         \/ (Waits \/ Ticks \/ Interrupts) /\ UNCHANGED <<diskVars, read, left, seen>>
  PROVE  BlockServed'
<1>1. /\ IRQ_ATA \in irr => left > 0
      /\ left > 0 => IRQ_ATA \in irr \/ pc \in {27, 28}
      /\ pc \in 23 .. 26 /\ IRQ_ATA \in seen => IRQ_ATA \in irr
      /\ pc = 27 => left > 0 /\ IRQ_ATA \notin irr
      /\ pc = 28 /\ left > 0 => (BlockRead <=> IRQ_ATA \in irr)
  BY DEF BlockServed, ISR
<1>2. SUFFICES
        /\ IRQ_ATA \in irr' => left' > 0
        /\ left' > 0 => IRQ_ATA \in irr' \/ pc' \in {27, 28}
        /\ pc' \in 23 .. 26 /\ IRQ_ATA \in seen' => IRQ_ATA \in irr'
        /\ pc' = 27 => left' > 0 /\ IRQ_ATA \notin irr'
        /\ pc' = 28 /\ left' > 0 => (BlockRead' <=> IRQ_ATA \in irr')
  BY DEF BlockServed, ISR
<1>3. pc \in {0, 2, 9, 10} \cup 11 .. 19 \cup 22 .. 29 /\ left \in Nat
      /\ (pc \in {2} \cup 22 .. 29 => epc \in 11 .. 19)
  BY Places DEF Where, ReadNamed
<1>4. CASE Moves
  <2>1. pc = 28 /\ ~BlockRead => left > 0
    <3>1. 0 % SECTOR_WORDS = 0
      BY DiskAssumption
    <3> QED BY <1>3, <3>1 DEF BlockRead
  <2> QED BY <1>1, <1>3, <1>4, <2>1 DEF Moves
<1>5. CASE Arms
  BY <1>1, <1>3, <1>5 DEF Arms
<1>6. CASE Enables \/ Returns
  BY <1>1, <1>3, <1>6 DEF Enables, Returns
<1>7. CASE Looks
  BY <1>1, <1>3, <1>7 DEF Looks
<1>8. CASE Accesses /\ (Begins \/ Names)
  <2>1. pc \in 12 .. 16 /\ pc' = pc + 1 /\ left' = left
    BY <1>8 DEF Accesses, Begins, Names
  <2>2. IRQ_ATA \in irr' <=> IRQ_ATA \in irr
    BY <1>8 DEF Begins, Names, Disk!WriteDriverHead, Disk!WriteTaskFile
  <2> QED BY <1>1, <2>1, <2>2
<1>9. CASE Accesses /\ Issues
  <2>1. left' > 0 /\ IRQ_ATA \in irr'
    BY <1>9, IssueOpens
  <2>2. pc' = 18
    BY <1>9 DEF Accesses, Issues
  <2> QED BY <2>1, <2>2
<1>10. CASE Accesses /\ Acknowledges
  <2>1. pc = 26 /\ pc' = 27 /\ left' = left /\ IRQ_ATA \in seen
    BY <1>10 DEF Accesses, Acknowledges
  <2>2. ~(IRQ_ATA \in irr)'
    BY <1>10 DEF Acknowledges, Disk!ReadStatus
  <2> QED BY <1>1, <2>1, <2>2
<1>11. CASE Accesses /\ Loads
  <2>1. pc' = 28
    BY <1>11 DEF Accesses, Loads
  <2>2. IRQ_ATA \in irr' <=> left' > 0 /\ BlockRead'
    BY <1>11, LoadMoves
  <2> QED BY <2>1, <2>2
<1>12. CASE (Waits \/ Ticks) /\ UNCHANGED <<diskVars, read, left, seen>>
  <2>1. BlockRead' = BlockRead
    BY <1>12 DEF BlockRead
  <2> QED BY <1>1, <1>12, <2>1 DEF Waits, Ticks
<1>13. CASE Interrupts /\ UNCHANGED <<diskVars, read, left, seen>>
  BY <1>1, <1>13, Places DEF Interrupts
<1> QED BY <1>4, <1>5, <1>6, <1>7, <1>8, <1>9, <1>10, <1>11, <1>12, <1>13 DEF DiskAccess

(* The registers of the address, after each word.                          *)
LEMMA AddressStaysTyped ==
  ASSUME head \in Disk!DriverHead, {number, cylLow, cylHigh} \subseteq Disk!Byte, Loads
  PROVE  /\ head' \in Disk!DriverHead /\ head'.L = head.L
         /\ {number', cylLow', cylHigh'} \subseteq Disk!Byte
<1>1. CASE Disk!ReadWord \/ Disk!ReadFinalWord
  BY <1>1 DEF Disk!ReadWord, Disk!ReadFinalWord, Disk!taskFile
<1>2. CASE Disk!ReadIntoNextSector
  <2>. DEFINE s == Disk!Sector + 1
              two == BYTE * BYTE
              three == BYTE * BYTE * BYTE
  <2>1. BYTE \in Nat \ {0} /\ NIBBLE \in Nat \ {0} /\ two \in Nat \ {0} /\ three \in Nat \ {0}
    BY DiskAssumption
  <2>2. s \in Int
    BY <2>1 DEF Disk!Sector, Disk!DriverHead, Disk!Byte
  <2>3. /\ head' = [head EXCEPT !.head = (s \div three) % NIBBLE]
        /\ number' = s % BYTE /\ cylLow' = (s \div BYTE) % BYTE /\ cylHigh' = (s \div two) % BYTE
    BY <1>2 DEF Disk!ReadIntoNextSector, Disk!SetSector
  <2>. HIDE DEF s, two, three
  <2>4. /\ \A n \in Nat \ {0} : (s % n) \in 0 .. (n - 1)
        /\ \A m, n \in Nat \ {0} : ((s \div m) % n) \in 0 .. (n - 1)
    BY <2>2
  <2>5. {number', cylLow', cylHigh'} \subseteq Disk!Byte
    BY <2>1, <2>3, <2>4 DEF Disk!Byte
  <2>6. head' \in Disk!DriverHead /\ head'.L = head.L
    BY <2>1, <2>3, <2>4 DEF Disk!DriverHead
  <2> QED BY <2>5, <2>6
<1> QED BY <1>1, <1>2 DEF Loads, Disk!ReadData

(* The end of the window, after each step.                                 *)
LEMMA PlacedSteps ==
  ASSUME Where, Where', ReadNamed, WindowLeft, BlockServed, ReadPlaced,
         \/ Moves \/ Arms \/ Enables \/ Returns \/ Looks
         \/ Accesses /\ DiskAccess
         \/ (Waits \/ Ticks \/ Interrupts) /\ UNCHANGED <<diskVars, read, left, seen>>
  PROVE  ReadPlaced'
<1>1. CASE UNCHANGED <<number, cylLow, cylHigh, head, base, pos, read, left>>
  BY <1>1 DEF ReadPlaced
<1>2. CASE \/ Moves \/ Arms \/ Enables \/ Returns \/ Looks
           \/ (Waits \/ Ticks \/ Interrupts) /\ UNCHANGED <<diskVars, read, left, seen>>
  <2>1. UNCHANGED <<diskVars, read, left>>
    BY <1>2 DEF Moves, Arms, Enables, Returns, Looks
  <2> QED BY <1>1, <2>1 DEF diskVars
<1>3. CASE Begins
  <2>1. head' = [fixed |-> TRUE, L |-> TRUE, DRV |-> FALSE, head |-> 0] /\ left' = left /\ left = 0
        /\ UNCHANGED <<number, cylLow, cylHigh>>
    BY <1>3 DEF Begins, Disk!WriteDriverHead
  <2>2. head' \in Disk!DriverHead
    BY <2>1, DiskAssumption DEF Disk!DriverHead
  <2> QED BY <2>1, <2>2 DEF ReadPlaced
<1>4. CASE Accesses /\ Names
  <2>1. UNCHANGED <<head, base, pos, read, left>>
    BY <1>4 DEF Names, Disk!WriteTaskFile, Disk!window
  <2>2. Place \in 13 .. 16
    BY <1>4, PlaceSteps DEF Names
  <2>3. read.sector \in Disk!Byte /\ 0 \in Disk!Byte
    BY <2>2, SystemAssumption, DiskAssumption DEF ReadNamed, THREAD, Disk!Byte
  <2>4. /\ number' = number \/ number' = read.sector
        /\ cylLow' = cylLow \/ cylLow' = 0
        /\ cylHigh' = cylHigh \/ cylHigh' = 0
    BY <1>4 DEF Names, Disk!WriteTaskFile
  <2> QED BY <2>1, <2>3, <2>4 DEF ReadPlaced
<1>7. CASE Acknowledges
  <2>1. UNCHANGED <<number, cylLow, cylHigh, head, base, pos, read, left>>
    BY <1>7 DEF Acknowledges, Disk!ReadStatus, Disk!taskFile, Disk!window
  <2> QED BY <1>1, <2>1
<1>5. CASE Accesses /\ Issues
  <2>1. base' = "disk_chunk" /\ head' = head /\ head.L /\ read' = read
        /\ UNCHANGED <<number, cylLow, cylHigh>>
    BY <1>5 DEF Issues, Disk!Transfer
  <2>2. pos' + left' = (read.sector + read.sectors) * SECTOR_WORDS
    BY <1>5, IssueOpens
  <2> QED BY <2>1, <2>2 DEF ReadPlaced
<1>6. CASE Loads
  <2>1. /\ left > 0 /\ left' = left - 1 /\ pos' = pos + 1
        /\ pos \in Nat /\ left \in Nat
    BY <1>6, LoadMoves
  <2>2. base' = base /\ read' = read
    BY <1>6 DEF Loads, Disk!ReadData, Disk!ReadWord, Disk!ReadFinalWord, Disk!ReadIntoNextSector
  <2>3. /\ head' \in Disk!DriverHead /\ head'.L = head.L
        /\ {number', cylLow', cylHigh'} \subseteq Disk!Byte
    BY <1>6, AddressStaysTyped DEF ReadPlaced
  <2>4. pos' + left' = pos + left
    BY <2>1
  <2> QED BY <2>1, <2>2, <2>3, <2>4 DEF ReadPlaced
<1> QED BY <1>2, <1>3, <1>4, <1>5, <1>6, <1>7 DEF DiskAccess
-----------------------------------------------------------------------------
(* The machine's core takes steps of Cpu.                                  *)
LEMMA CoreIsCpu == [SNext]_svars => [Next]_vars
<1> SUFFICES ASSUME [SNext]_svars
             PROVE  [Next]_vars
  OBVIOUS
<1>1. CASE UNCHANGED svars
  BY <1>1 DEF svars
<1>2. CASE TscOff \/ TscTick \/ NoIrq \/ TakeIrq
  BY <1>2 DEF Next, AsyncException, OtherStep, LoopStep
<1>3. ASSUME NEW i \in Fetched, Store(i) \/ LoadStatus(i) \/ LoadData(i) \/ LookAtLines(i)
      PROVE  Next
  <2>1. Access(i) \/ Rmsr(i)
    BY <1>3 DEF Store, StartRead, WriteRegister, IssueRead, LoadStatus, LoadData, LookAtLines
  <2> QED BY <2>1 DEF Next, OtherStep, OtherInsn
<1>4. ASSUME NEW i \in Fetched, CoreInsn(i)
      PROVE  Next
  BY <1>4 DEF CoreInsn, Next, ContextStep, OtherStep, OtherInsn
<1> QED BY <1>1, <1>2, <1>3, <1>4 DEF SNext, KernelInsn

LEMMA SystemType == SSpec => [](TypeOK /\ TscIrqCoherent)
<1>1. SInit => TypeOK /\ TscIrqCoherent
  BY InitTypeOK DEF SInit, Init, TscIrqCoherent
<1>2. TypeOK /\ TscIrqCoherent /\ [SNext]_svars => (TypeOK /\ TscIrqCoherent)'
  BY CoreIsCpu, StepTypeOK, TscIrqCoherentStep
<1> QED BY <1>1, <1>2, PTL DEF SSpec

LEMMA SystemStep ==
  ASSUME TypeOK, SystemInv, [SNext]_svars
  PROVE  SystemInv'
<1>. USE DEF SystemInv
<1>1. CASE SNext
  <2>1. \/ at = "insn" /\ \/ Moves \/ Arms \/ Enables \/ Returns \/ Looks
                          \/ Accesses /\ DiskAccess
        \/ /\ at # "insn" /\ (Waits \/ Ticks \/ Interrupts)
           /\ UNCHANGED <<diskVars, read, left, seen>>
    BY <1>1, KernelStep, LoopDoes DEF SNext
  <2>2. owed' = IF TickDone THEN FALSE ELSE owed \/ TickDue
    BY <1>1 DEF SNext
  <2>3. Where'
    BY <2>1, WhereSteps
  <2>4. TimerServed'
    BY <2>1, <2>2, TimerSteps
  <2>5. ReadNamed' /\ WindowLeft' /\ BlockServed'
    BY <2>1, <2>3, ReadSteps, WindowSteps, BlockSteps
  <2>6. ReadPlaced'
    BY <2>1, <2>3, PlacedSteps
  <2> QED BY <2>3, <2>4, <2>5, <2>6
<1>2. CASE UNCHANGED svars
  <2>1. UNCHANGED <<pc, Context, tcr, irr, read, left, seen, owed>> /\ UNCHANGED diskVars
    BY <1>2 DEF svars, vars, loopVars, psVars, tscVars, irqVars, kernelVars, Context
  <2>2. Where'
    BY <2>1 DEF Where, Context
  <2>3. TimerServed'
    BY <2>1 DEF TimerServed
  <2>4. ReadNamed'
    BY <2>1 DEF ReadNamed, Place, Context, diskVars
  <2>5. WindowLeft' /\ BlockServed'
    BY <2>1 DEF WindowLeft, BlockServed, BlockRead, diskVars
  <2>6. ReadPlaced'
    BY <2>1 DEF ReadPlaced, diskVars
  <2> QED BY <2>2, <2>3, <2>4, <2>5, <2>6
<1> QED BY <1>1, <1>2

LEMMA SystemStart == SInit => SystemInv
<1> SUFFICES ASSUME SInit
             PROVE  SystemInv
  OBVIOUS
<1>1. pc = 0 /\ psr = ResetPsr /\ ~tcr.EN /\ irr = {} /\ left = 0 /\ owed = FALSE /\ control = {}
  BY KernelAssumption DEF SInit, Init, Disk!Init
<1>2. Place = 0
  BY <1>1, Places DEF Place
<1>3. Where /\ TimerServed /\ ReadNamed
  BY <1>1, <1>2, Places DEF Where, TimerServed, ReadNamed, ResetPsr, ISR, THREAD
<1>4. WindowLeft /\ BlockServed
  BY <1>1 DEF WindowLeft, BlockServed, ISR
<1>5. ReadPlaced
  <2>1. head = [fixed |-> TRUE, L |-> FALSE, DRV |-> FALSE, head |-> 0] /\ number = 1 /\ cylLow = 0 /\ cylHigh = 0
    BY DEF SInit, Disk!Init
  <2>2. head \in Disk!DriverHead /\ {number, cylLow, cylHigh} \subseteq Disk!Byte
    BY <2>1, DiskAssumption DEF Disk!DriverHead, Disk!Byte
  <2> QED BY <1>1, <2>2 DEF ReadPlaced
<1> QED BY <1>3, <1>4, <1>5 DEF SystemInv

LEMMA SystemInvariant == SSpec => []SystemInv
<1>1. TypeOK /\ SystemInv /\ [SNext]_svars => SystemInv'
  BY SystemStep
<1> QED BY <1>1, SystemStart, SystemType, PTL DEF SSpec

(***************************************************************************)
(* No expiry of the timer and no block of the disk is lost, for every      *)
(* period of the timer, every size of the disk and every set of requests,  *)
(* although both devices rewrite the one word IRR (irqc_set_interrupt(),   *)
(* tsc_clk(), tsc_update_tcr(), device-ata.c).                             *)
(***************************************************************************)
THEOREM WakeupsKept == SSpec => []NoLostWakeup
<1>1. SystemInv /\ TscIrqCoherent => NoLostWakeup
  <2> SUFFICES ASSUME SystemInv, TscIrqCoherent
               PROVE  NoLostWakeup
    OBVIOUS
  <2>1. owed => (tcr.P /\ tcr.I) \/ pc = ISR + 3
    BY DEF SystemInv, TimerServed
  <2> QED BY <2>1 DEF SystemInv, BlockServed, TscIrqCoherent, NoLostWakeup
<1> QED BY <1>1, SystemInvariant, SystemType, PTL

(***************************************************************************)
(* The words of a read come in order and never from beyond the buffer,     *)
(* wherever the timer and the disk interrupt the thread and whatever the   *)
(* sizes and the requests (cpu_raise_exception(), dev_ata_readreg16()).    *)
(***************************************************************************)
THEOREM ReadsKeepOrder == SSpec => []ReadInOrder
<1>1. SystemInv => ReadInOrder
  <2> SUFFICES ASSUME SystemInv, left > 0
               PROVE  /\ base = "disk_chunk" /\ head.L /\ Disk!InBuffer
                      /\ pos = (read.sector + read.sectors) * SECTOR_WORDS - left
    BY DEF ReadInOrder
  <2>1. /\ base = "disk_chunk" /\ head.L
        /\ pos + left = (read.sector + read.sectors) * SECTOR_WORDS
    BY DEF SystemInv, ReadPlaced
  <2>2. pos \in Nat /\ left \in Nat /\ pos + left <= DISK_WORDS /\ DISK_WORDS \in Nat
    BY DiskAssumption DEF SystemInv, WindowLeft, ReadNamed
  <2>3. Disk!InBuffer
    BY <2>1, <2>2 DEF Disk!InBuffer
  <2> QED BY <2>1, <2>2, <2>3
<1> QED BY <1>1, SystemInvariant, PTL

(* The disk, after each step.                                              *)
LEMMA DiskRests ==
  ASSUME UNCHANGED diskVars, IRQ_ATA \in irr' <=> IRQ_ATA \in irr
  PROVE  UNCHANGED Disk!vars
<1>1. UNCHANGED <<control, count, number, cylLow, cylHigh, head, status, command, drive, base,
                  pos, len>>
  BY DEF diskVars
<1>2. (IRQ_ATA \in irr)' = (IRQ_ATA \in irr)
  OBVIOUS
<1> QED BY <1>1, <1>2 DEF Disk!vars, Disk!taskFile, Disk!window

LEMMA DiskSteps ==
  ASSUME TypeOK, SystemInv, [SNext]_svars
  PROVE  [Disk!Next]_(Disk!vars)
<1>1. CASE UNCHANGED svars
  BY <1>1, DiskRests DEF svars, vars, irqVars
<1>2. CASE KernelInsn
  <2>1. \/ Moves \/ Arms \/ Enables \/ Returns \/ Looks
        \/ Accesses /\ DiskAccess
    BY <1>2, KernelStep DEF SystemInv
  <2>2. CASE Moves \/ Arms \/ Enables \/ Returns \/ Looks
    <3>1. UNCHANGED diskVars /\ (IRQ_ATA \in irr' <=> IRQ_ATA \in irr)
      BY <2>2 DEF Moves, Arms, Enables, Returns, Looks
    <3> QED BY <3>1, DiskRests
  <2>3. CASE Begins
    <3>1. [fixed |-> TRUE, L |-> TRUE, DRV |-> FALSE, head |-> 0] \in Disk!DriverHead
      BY DiskAssumption DEF Disk!DriverHead
    <3> QED BY <2>3, <3>1 DEF Begins, Disk!Next, Disk!RegisterWrite
  <2>4. CASE Accesses /\ Names
    <3>1. Place \in 13 .. 17
      <4>1. Where /\ Where' /\ pc \in 13 .. 16
        BY <2>4, WhereSteps DEF Names, SystemInv, DiskAccess
      <4> QED BY <2>4, <4>1, PlaceSteps
    <3>2. read \in [sector : 0 .. (BYTE - 1), sectors : 1 .. BYTE] /\ BYTE \in Nat \ {0}
      BY <3>1, SystemAssumption, DiskAssumption DEF SystemInv, ReadNamed, THREAD
    <3>3. {read.sectors % BYTE, read.sector, 0} \subseteq Disk!Byte
      BY <3>2 DEF Disk!Byte
    <3>4. \E register \in Disk!PlainRegisters, value \in Disk!Byte :
            Disk!WriteTaskFile(register, value)
      BY <2>4, <3>3 DEF Names, Disk!PlainRegisters
    <3> QED BY <3>4 DEF Disk!Next, Disk!RegisterWrite
  <2>5. CASE Issues \/ Acknowledges \/ Loads
    BY <2>5 DEF Issues, Acknowledges, Loads, Disk!Next, Disk!RegisterWrite, Disk!WriteCommand,
                Disk!ReadCommands, Disk!DataRead
  <2> QED BY <2>1, <2>2, <2>3, <2>4, <2>5 DEF DiskAccess
<1>3. CASE (TscOff \/ TscTick \/ NoIrq \/ TakeIrq) /\ UNCHANGED diskVars
  <2>1. Waits \/ Ticks \/ Interrupts
    BY <1>3, LoopDoes DEF SystemInv
  <2> QED BY <1>3, <2>1, DiskRests DEF Waits, Ticks, Interrupts
<1> QED BY <1>1, <1>2, <1>3 DEF SNext

(***************************************************************************)
(* The machine is made of its components: the core behaves as Cpu and the  *)
(* disk as Ata while they share IRR, so that what is proved of either for  *)
(* any guest holds of the machine (exec.c, device-ata.c, irqc.c).          *)
(***************************************************************************)
THEOREM ComponentsKept == SSpec => /\ Init /\ [][Next]_vars
                                   /\ Disk!Spec
<1>1. SInit => Init /\ Disk!Init
  BY DEF SInit
<1>2. [SNext]_svars => [Next]_vars
  BY CoreIsCpu
<1>3. TypeOK /\ SystemInv /\ [SNext]_svars => [Disk!Next]_(Disk!vars)
  BY DiskSteps
<1> QED BY <1>1, <1>2, <1>3, SystemType, SystemInvariant, PTL DEF SSpec, Disk!Spec

(***************************************************************************)
(* So the machine inherits what the core promises: with the disk's line    *)
(* next to the timer's in IRR, the timer's still equals P and I, and no    *)
(* instruction is fetched past either (irqc_handle_irqs()).                *)
(***************************************************************************)
THEOREM CoreInherited == SSpec => [](TypeOK /\ TscIrqCoherent /\ InterruptBeforeInsn)
<1>1. Init => InterruptBeforeInsn
  BY DEF Init, InterruptBeforeInsn
<1>2. InterruptBeforeInsn /\ [Next]_vars => InterruptBeforeInsn'
  BY InterruptBeforeInsnStep
<1> QED BY <1>1, <1>2, ComponentsKept, SystemType, PTL
=============================================================================
