------------------------------ MODULE UserMode ------------------------------
(***************************************************************************)
(* The core under a kernel that starts one program outside root mode and   *)
(* then only handles its exceptions: it refills the TLBs from the page     *)
(* tables ITable and DTable, serves the timer and returns.  What is asked  *)
(* of the kernel is stated in Ready, BootWrite and Trap; everything else   *)
(* is what the core does.  With such a kernel the core implements          *)
(* UserProgram.                                                            *)
(***************************************************************************)
EXTENDS Cpu

CONSTANTS ITable, DTable, ENTRY

ASSUME TableAssumption ==
  /\ ITable \in [PageNumber -> ItlbH] /\ DTable \in [PageNumber -> DtlbH]
  /\ ENTRY \in Word

VARIABLES
  started,   \* the kernel has left root mode
  bus        \* the last data access made outside root mode

uvars == <<vars, started, bus>>

NoAccess == [op |-> "none", pa |-> 0]

UInit == Init /\ started = FALSE /\ bus = NoAccess

(* Every valid TLB entry is the page table's.                              *)
TlbsMatch ==
  /\ \A s \in ISlots : itlbl[s].V => itlbh[s] = ITable[itlbl[s].VPN]
  /\ \A s \in DSlots : dtlbl[s].V => dtlbh[s] = DTable[dtlbl[s].VPN]

(* The kernel may leave root mode: the TLBs are consistent and, the first  *)
(* time, EPC and EPSR are the program's start.                             *)
Ready ==
  /\ TlbsMatch
  /\ started \/ (epc = ENTRY /\ epsr.IMME /\ epsr.DMME /\ ~epsr.CC)

(* A SYSCALL or an invalid instruction, never in a handler.                *)
Trap == SyncException /\ ~(psr.RM /\ started) /\ UNCHANGED bus

(* The kernel writes the PS bank while it boots, and stays in root mode.   *)
BootWrite(i) == WmsrPS(i) /\ ~started /\ psr'.RM /\ UNCHANGED bus

Return(i) == Ret(i) /\ (psr.RM /\ ~psr'.RM => Ready) /\ UNCHANGED bus

(* A load or a store of the program that reaches the bus shows there.      *)
Other(i) ==
  /\ OtherInsn(i)
  /\ bus' = IF ~psr.RM /\ i.op \in {"load", "store"} /\ at' # "exited"
            THEN [op |-> i.op, pa |-> DPa(i.va)] ELSE bus

UNext ==
  /\ \/ (AsyncException \/ LoopStep \/ Exited) /\ UNCHANGED bus
     \/ Trap
     \/ \E i \in Fetched : BootWrite(i) \/ Return(i) \/ Other(i)
  /\ started' = (started \/ ~psr'.RM)

USpec == UInit /\ [][UNext]_uvars
-----------------------------------------------------------------------------
(***************************************************************************)
(* The program as it sees itself: while a handler runs, it waits at the    *)
(* instruction, and with the flag, that the core saved for it.             *)
(***************************************************************************)
Program == INSTANCE UserProgram WITH
  upc  <- IF ~started THEN ENTRY ELSE IF psr.RM THEN epc ELSE pc,
  ucc  <- IF ~started THEN FALSE ELSE IF psr.RM THEN epsr.CC ELSE psr.CC,
  ubus <- bus

(***************************************************************************)
(* Transparency: interrupts, TLB misses and page faults strike between two *)
(* instructions of the program and leave no trace in it; an instruction    *)
(* that faults has done nothing and is restarted; every fetch and every    *)
(* access goes where the page tables say and only with their permission.   *)
(***************************************************************************)
Transparent == Program!Spec

(***************************************************************************)
(* Why it holds: between its start and each RET the core carries the       *)
(* program in EPC and EPSR, with handlers that cannot be interrupted, and  *)
(* outside root mode both MMUs are on and agree with the page tables.      *)
(***************************************************************************)
Carried ==
  /\ ~started => psr.RM /\ bus = NoAccess
  /\ started => ~epsr.RM /\ epsr.IMME /\ epsr.DMME
  /\ started /\ psr.RM => ~psr.IRE /\ ~psr.IMME /\ ~psr.DMME
  /\ ~psr.RM => psr.IMME /\ psr.DMME /\ TlbsMatch
=============================================================================
