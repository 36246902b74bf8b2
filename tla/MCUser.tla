------------------------------- MODULE MCUser -------------------------------
(***************************************************************************)
(* An instance of UserMode.  Four pages of ten addresses: physical page 0  *)
(* holds the vectors, page 1 the rest of the kernel, page 2 the program    *)
(* and page 3 a device.  The program sees page 2 at virtual pages 0 and 2  *)
(* (there without the right to store) and the device at virtual page 1.    *)
(***************************************************************************)
EXTENDS UserMode, TLC

Op(name) == [op |-> name]
JumpTo(addr) == [op |-> "jump", to |-> addr]
LoadOf(addr) == [op |-> "load", va |-> addr]
StoreTo(addr) == [op |-> "store", va |-> addr]
Write(name, value) == [op |-> "wmsr", reg |-> name, val |-> value]

FetchPage(ux, page) == [UX |-> ux, RX |-> FALSE, PPN |-> page]
DataPage(uw, ur, page) ==
  [UW |-> uw, UR |-> ur, RW |-> FALSE, RR |-> FALSE, PPN |-> page]

MCITable == [v \in 0 .. 3 |-> FetchPage(v \in {0, 2}, 2)]
MCDTable == [v \in 0 .. 3 |-> CASE v = 0 -> DataPage(TRUE, TRUE, 2)
                                [] v = 1 -> DataPage(TRUE, TRUE, 3)
                                [] v = 2 -> DataPage(FALSE, TRUE, 2)
                                [] v = 3 -> DataPage(FALSE, FALSE, 0)]

UserPsr == [CC |-> FALSE, RM |-> FALSE, IRE |-> TRUE, IMME |-> TRUE, DMME |-> TRUE]
TimerSet(en) == [CNT |-> 1, EN |-> en, I |-> TRUE, P |-> FALSE]

(* The two refills write the halves of an entry in either order; nothing   *)
(* ties the halves together but the kernel's rule to check before its RET. *)
RefillL(reg, pages) ==
  {[op |-> "wmsr", reg |-> reg, slot |-> 0, val |-> [V |-> TRUE, VPN |-> v]] : v \in pages}
RefillH(reg, table, pages) ==
  {[op |-> "wmsr", reg |-> reg, slot |-> 0, val |-> table[v]] : v \in pages}

Kernel ==
  (0  :> {JumpTo(10)})  @@ (1 :> {JumpTo(3)}) @@
  (2  :> {Write("TCR", TimerSet(en)) : en \in BOOLEAN} \cup {LoadOf(30)}) @@
  (3  :> {Op("ret"), JumpTo(14), JumpTo(17)}) @@
  (4  :> {[op |-> "cmp", cc |-> TRUE], Write("TCR", TimerSet(TRUE))}) @@ (5 :> {JumpTo(3)}) @@
  (6  :> {JumpTo(4)}) @@ (7 :> {JumpTo(14)}) @@ (8 :> {JumpTo(17)}) @@
  (10 :> {Write("EPC", 0)}) @@ (11 :> {Write("EPSR", UserPsr)}) @@
  (12 :> {Write("TCR", TimerSet(TRUE))}) @@ (13 :> {Op("ret")}) @@
  (14 :> RefillL("ITLBL", {0, 2})) @@ (15 :> RefillH("ITLBH", MCITable, {0, 1})) @@ (16 :> {JumpTo(4)}) @@
  (17 :> RefillH("DTLBH", MCDTable, 0 .. 2)) @@ (18 :> RefillL("DTLBL", 0 .. 2)) @@ (19 :> {JumpTo(3)})

User ==
  (20 :> {Op("syscall"), Op("invalid"), LoadOf(1), [op |-> "cmp", cc |-> TRUE],
          [op |-> "cmp", cc |-> FALSE], JumpTo(21), JumpTo(10)}) @@
  (21 :> {[op |-> "bt", to |-> 0], [op |-> "bf", to |-> 3], StoreTo(10),
          [op |-> "wmsr", reg |-> "DBGR"]}) @@
  (22 :> {StoreTo(21), LoadOf(21)}) @@
  (23 :> {Op("ret"), JumpTo(0), Op("panic")})

MCImage ==
  [a \in 0 .. 39 |-> IF a \in DOMAIN (Kernel @@ User) THEN (Kernel @@ User)[a] ELSE {JumpTo(0)}]
=============================================================================
