------------------------------- MODULE System -------------------------------
(***************************************************************************)
(* The machine as a kernel sees it: the core of Cpu, whose loads and       *)
(* stores reach the disk of Ata, and whose IRR is the one word in which    *)
(* the timer and the disk have their lines.                                *)
(*                                                                         *)
(* The kernel is the guest's and not part of the repository.  Its thread   *)
(* starts disk reads and re-arms the timer, in any order, and masks the    *)
(* disk while it writes its registers; its interrupt handler looks at IRR  *)
(* once, serves the timer and then one block of the disk, and returns.     *)
(***************************************************************************)
EXTENDS Cpu

CONSTANTS
  IRQ_ATA,                                            \* irq_ata: 3
  BYTE, NIBBLE, SECTOR_WORDS, DISK_WORDS, INT_PERIOD, \* of Ata
  Compare,                                            \* values the thread arms the timer with
  Reads                                               \* the requests: [sector, sectors]

VARIABLES
  control, count, number, cylLow, cylHigh, head,  \* the disk's registers, as in Ata
  status, command, drive, base, pos, len,
  read,    \* the request under way
  left,    \* words the kernel still expects of it
  seen,    \* the lines RMSR of IRR returned to the handler
  owed     \* the compare value was met and no tick of the kernel followed yet

diskVars == <<control, count, number, cylLow, cylHigh, head, status, command, drive, base, pos, len>>
kernelVars == <<read, left, seen, owed>>
svars == <<vars, diskVars, kernelVars>>

(* The disk shares with the core its line in IRR, irqc_set_interrupt().     *)
Disk == INSTANCE Ata WITH
  irq <- IRQ_ATA \in irr, host <- "running"

ASSUME SystemAssumption ==
  /\ DeviceIrqs = {IRQ_ATA} /\ Compare \subseteq 0 .. (CNT_PERIOD - 1)
  /\ Reads \subseteq [sector : 0 .. (BYTE - 1), sectors : 1 .. BYTE]
  /\ \A r \in Reads : (r.sector + r.sectors) * SECTOR_WORDS <= DISK_WORDS

(* The sizes of the disk are those of Ata.                                 *)
ASSUME DiskAssumption ==
  /\ BYTE \in Nat \ {0, 1} /\ NIBBLE \in Nat \ {0}
  /\ SECTOR_WORDS \in Nat \ {0} /\ DISK_WORDS \in Nat
  /\ INT_PERIOD \in Nat \ {0} /\ INT_PERIOD % 2 = 0
  /\ SECTOR_WORDS < INT_PERIOD \div 2 /\ DISK_WORDS < INT_PERIOD \div 2

NoRead == [sector |-> 0, sectors |-> 0]
-----------------------------------------------------------------------------
(* The kernel's text.  Its timer register always has EN and I set.         *)

Port(k) == MMIO_PHY_BASE + k
DATA == Port(0)
DRIVER_HEAD == Port(1)
STATUS_COMMAND == Port(2)
Plain8 == {Port(3), Port(4), Port(5), Port(6)}  \* the rest of the task file

ISR == 22
THREAD == 11

Go(addr) == {[op |-> "jump", to |-> addr]}
Out(port) == {[op |-> "store", va |-> port]}
In(port) == {[op |-> "load", va |-> port]}
SetMsr(reg, values) == {[op |-> "wmsr", reg |-> reg, val |-> v] : v \in values}
Timer(cnt, p) == [CNT |-> cnt, EN |-> TRUE, I |-> TRUE, P |-> p]

KernelImage ==
  [a \in Word |->
     CASE a = VECT_EIRQ  -> Go(ISR)
       [] a = THREAD - 2 -> SetMsr("TCR", {Timer(c, FALSE) : c \in Compare})
       [] a = THREAD - 1 -> SetMsr("PSR", {[ResetPsr EXCEPT !.IRE = TRUE]})
       \* The thread: re-arm the timer or start a read.  P is written as 1: with
       \* 0, an expiry since the last look at TCR would be overwritten.
       [] a = THREAD     -> SetMsr("TCR", {Timer(c, TRUE) : c \in Compare})
                              \cup SetMsr("IMR", {{IRQ_ATA}}) \cup Go(THREAD)
       [] a = THREAD + 1 -> Out(DRIVER_HEAD) \cup Go(THREAD)
       [] a \in (THREAD + 2) .. (THREAD + 5) -> Out(Port(a - THREAD + 1))
       [] a = THREAD + 6 -> Out(STATUS_COMMAND)
       [] a = THREAD + 7 -> SetMsr("IMR", {{}})
       [] a = THREAD + 8 -> Go(THREAD)
       \* The handler: the lines, the timer's acknowledgement and tick, the disk.
       [] a = ISR        -> {[op |-> "rmsr", known |-> TRUE]}
       [] a = ISR + 1    -> Go(ISR + 2) \cup Go(ISR + 4)
       [] a = ISR + 2    -> SetMsr("TCR", {Timer(c, FALSE) : c \in Compare})
       [] a = ISR + 3    -> {[op |-> "next"]}
       [] a = ISR + 4    -> In(STATUS_COMMAND) \cup Go(ISR + 7)
       [] a = ISR + 5    -> In(DATA)
       [] a = ISR + 6    -> Go(ISR + 5) \cup Go(ISR + 7)
       [] a = ISR + 7    -> {[op |-> "ret"]}
       [] OTHER          -> Go(THREAD - 2)]

(* The kernel is started at address 0 and lies in the RAM.                 *)
ASSUME KernelAssumption ==
  /\ Image = KernelImage /\ RESET_VECT = 0 /\ INSN_LEN = 1
  /\ ISR + 7 < MMIO_PHY_BASE /\ Port(6) \in Word

(* What the registers tell the kernel to take, where its text branches.    *)
BlockRead == left % SECTOR_WORDS = 0

Taken(i) ==
  CASE pc = THREAD + 1 -> IF i.op = "store" THEN left = 0 ELSE left # 0
    [] pc = ISR + 1 -> i.to = IF IRQ_TSC \in seen THEN ISR + 2 ELSE ISR + 4
    [] pc = ISR + 2 -> i.val.CNT = tcr.CNT
    [] pc = ISR + 4 -> i.op = IF IRQ_ATA \in seen THEN "load" ELSE "jump"
    [] pc = ISR + 6 -> i.to = IF BlockRead THEN ISR + 7 ELSE ISR + 5
    [] OTHER -> TRUE
-----------------------------------------------------------------------------
(***************************************************************************)
(* The accesses of the disk, each within the core's load or store.  One    *)
(* that panic() or the bounds of the buffer would end has no step: the     *)
(* machine would stop there, which the runs report.                        *)
(***************************************************************************)

KeepKernel == UNCHANGED <<read, left, seen>>

StartRead(i) ==
  /\ i.va = DRIVER_HEAD /\ Access(i)
  /\ Disk!WriteDriverHead([fixed |-> TRUE, L |-> TRUE, DRV |-> FALSE, head |-> 0])
  /\ read' \in Reads
  /\ UNCHANGED <<left, seen>>

WriteRegister(i) ==
  /\ i.va \in Plain8 /\ Access(i)
  /\ CASE i.va = Port(3) -> Disk!WriteTaskFile("SectorCount", read.sectors % BYTE)
       [] i.va = Port(4) -> Disk!WriteTaskFile("SectorNumber", read.sector)
       [] i.va = Port(5) -> Disk!WriteTaskFile("CylinderLow", 0)
       [] i.va = Port(6) -> Disk!WriteTaskFile("CylinderHigh", 0)
  /\ KeepKernel

IssueRead(i) ==
  /\ i.va = STATUS_COMMAND /\ Access(i)
  /\ Disk!Transfer("ReadSector")
  /\ left' = read.sectors * SECTOR_WORDS
  /\ UNCHANGED <<read, seen>>

Store(i) == i.op = "store" /\ (StartRead(i) \/ WriteRegister(i) \/ IssueRead(i))

LoadStatus(i) ==
  /\ i.op = "load" /\ i.va = STATUS_COMMAND /\ Access(i)
  /\ Disk!ReadStatus
  /\ KeepKernel

LoadData(i) ==
  /\ i.op = "load" /\ i.va = DATA /\ Access(i)
  /\ Disk!ReadData /\ Disk!InBuffer
  /\ left' = left - 1
  /\ UNCHANGED <<read, seen>>

(* RMSR of IRR.                                                            *)
LookAtLines(i) ==
  /\ Rmsr(i)
  /\ seen' = irr
  /\ UNCHANGED <<diskVars, read, left>>

CoreInsn(i) ==
  /\ Plain(i) \/ Jump(i) \/ WmsrTSC(i) \/ WmsrIRQC(i) \/ WmsrPS(i) \/ Ret(i)
  /\ UNCHANGED diskVars /\ KeepKernel

KernelInsn ==
  \E i \in Fetched :
    /\ Taken(i)
    /\ \/ Store(i) \/ LoadStatus(i) \/ LoadData(i)
       \/ LookAtLines(i) \/ CoreInsn(i)

(* The kernel's tick is the instruction at ISR + 3; the timer owes one     *)
(* from the edge that meets the compare value.                             *)
TickDone == at = "insn" /\ pc = ISR + 3
TickDue == at = "tsc" /\ tcr.EN /\ tcr.I /\ tsr % CNT_PERIOD = tcr.CNT

SInit ==
  /\ Init /\ Disk!Init
  /\ read = NoRead /\ left = 0 /\ seen = {} /\ owed = FALSE

SNext ==
  /\ \/ KernelInsn
     \/ /\ TscOff \/ TscTick \/ NoIrq \/ TakeIrq
        /\ UNCHANGED <<diskVars, read, left, seen>>
  /\ owed' = IF TickDone THEN FALSE ELSE owed \/ TickDue

(* The fairness of Cpu: the host runs its loop.                            *)
SSpec == SInit /\ [][SNext]_svars /\ WF_svars(SNext)
-----------------------------------------------------------------------------
(***************************************************************************)
(* No wake-up is lost.  An expiry that no tick has followed yet, and a     *)
(* block of data that nobody has read, is announced by its line in IRR, or *)
(* the handler is between its acknowledgement and its work: whatever the   *)
(* interleaving of the timer's edges with the reads and writes of TCR, of  *)
(* the disk's registers and of the mask, and though both devices rewrite   *)
(* the same word.                                                          *)
(***************************************************************************)
NoLostWakeup ==
  /\ owed => (tcr.P /\ IRQ_TSC \in irr) \/ pc = ISR + 3
  /\ left > 0 => IRQ_ATA \in irr \/ pc \in {ISR + 5, ISR + 6}

(***************************************************************************)
(* The words of a read come in order, wherever interrupts fall.  While     *)
(* words are left, the disk holds the one that follows those that came, of *)
(* the sectors the thread asked for: no interrupt between the writes of    *)
(* the registers loses one of them, and no look of the handler a word.  No *)
(* access of the handler meets the end of the buffer or a panic().         *)
(***************************************************************************)
ReadInOrder ==
  left > 0 =>
    /\ base = "disk_chunk" /\ head.L /\ Disk!InBuffer
    /\ pos = (read.sector + read.sectors) * SECTOR_WORDS - left

(***************************************************************************)
(* Every expiry is followed by a tick and every read is completed, though  *)
(* the thread does as it likes and masks the disk meanwhile.               *)
(***************************************************************************)
Served == (owed ~> ~owed) /\ (left > 0 ~> left = 0)
=============================================================================
