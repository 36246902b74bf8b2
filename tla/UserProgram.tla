---------------------------- MODULE UserProgram ----------------------------
(***************************************************************************)
(* What a program outside root mode may rely on: it runs instruction after *)
(* instruction on a machine of its own, through the address space that its *)
(* page tables describe.  Interrupts, TLB misses and the kernel's handlers *)
(* do not exist here.                                                      *)
(***************************************************************************)
EXTENDS Integers

CONSTANTS
  PAGE_SIZE, PAGE_COUNT, INSN_LEN, MMIO_PHY_BASE,
  Image,    \* the instructions each physical address may hold
  ITable,   \* the page table for fetches: an ITLBH for each virtual page
  DTable,   \* the page table for data: a DTLBH for each virtual page
  ENTRY     \* where the program starts

VARIABLES
  upc,   \* the program's next instruction
  ucc,   \* the program's condition flag
  ubus   \* the program's last data access

uvars == <<upc, ucc, ubus>>

Space == 0 .. (PAGE_SIZE * PAGE_COUNT - 1)
Page(va) == va \div PAGE_SIZE
Physical(table, va) == table[Page(va)].PPN * PAGE_SIZE + (va % PAGE_SIZE)
Following(addr) == (addr + INSN_LEN) % (PAGE_SIZE * PAGE_COUNT)

NoAccess == [op |-> "none", pa |-> 0]

Init == upc = ENTRY /\ ucc = FALSE /\ ubus = NoAccess

(* The program's text: what its page table lets it execute.                *)
Text ==
  IF ITable[Page(upc)].UX /\ Physical(ITable, upc) < MMIO_PHY_BASE
  THEN Image[Physical(ITable, upc)] ELSE {}

(* ALU, RMSR, WMSR and SYSCALL pass to the next instruction.               *)
Step(i) ==
  /\ i.op \in {"next", "rmsr", "wmsr", "syscall"}
  /\ upc' = Following(upc) /\ UNCHANGED <<ucc, ubus>>

Jump(i) ==
  /\ i.op = "jump" \/ (i.op = "bt" /\ ucc) \/ (i.op = "bf" /\ ~ucc)
  /\ upc' = i.to /\ UNCHANGED <<ucc, ubus>>

FallThrough(i) ==
  /\ (i.op = "bt" /\ ~ucc) \/ (i.op = "bf" /\ ucc)
  /\ upc' = Following(upc) /\ UNCHANGED <<ucc, ubus>>

Compare(i) ==
  /\ i.op = "cmp"
  /\ ucc' = i.cc /\ upc' = Following(upc) /\ UNCHANGED ubus

(* A load or a store reaches exactly the address the page table gives, and *)
(* only with the page table's permission.                                  *)
Access(i) ==
  /\ \/ i.op = "load" /\ DTable[Page(i.va)].UR
     \/ i.op = "store" /\ DTable[Page(i.va)].UW
  /\ ubus' = [op |-> i.op, pa |-> Physical(DTable, i.va)]
  /\ upc' = Following(upc) /\ UNCHANGED ucc

(* RET is not privileged: it takes the program to some earlier point of    *)
(* its own that an exception interrupted.                                  *)
Return(i) ==
  /\ i.op = "ret"
  /\ upc' \in Space /\ ucc' \in BOOLEAN /\ UNCHANGED ubus

Next ==
  \E i \in Text :
    Step(i) \/ Jump(i) \/ FallThrough(i) \/ Compare(i) \/ Access(i) \/ Return(i)

Spec == Init /\ [][Next]_uvars
=============================================================================
