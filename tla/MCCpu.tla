------------------------------- MODULE MCCpu -------------------------------
(***************************************************************************)
(* Instances of Cpu for TLC.  Addresses are scaled to INSN_LEN = 1:        *)
(* 0 is the reset vector, 1 .. 8 are the exception vectors, the guest's    *)
(* other code follows and the last address belongs to a device.            *)
(***************************************************************************)
EXTENDS Cpu

Op(name) == [op |-> name]
JumpTo(addr) == [op |-> "jump", to |-> addr]
LoadOf(addr) == [op |-> "load", va |-> addr]
StoreTo(addr) == [op |-> "store", va |-> addr]
Write(name, value) == [op |-> "wmsr", reg |-> name, val |-> value]
WriteSlot(name, s, value) == [op |-> "wmsr", reg |-> name, slot |-> s, val |-> value]
Flags(rm, ire, mme) ==
  [CC |-> FALSE, RM |-> rm, IRE |-> ire, IMME |-> mme, DMME |-> mme]

-----------------------------------------------------------------------------
(***************************************************************************)
(* The timer under any kernel and any user code.  A kernel may start the   *)
(* program with one MMU on and no page mapped for it, so that its first    *)
(* fetch or its first access is what interrupts it.                        *)
(***************************************************************************)

TimerWrites ==
  {Write("TCR", [CNT |-> 0, EN |-> en, I |-> TRUE, P |-> p]) : en, p \in BOOLEAN}
    \cup {Write("TCR", [CNT |-> 1, EN |-> TRUE, I |-> FALSE, P |-> TRUE])}
    \cup {Write("TSR", 2)}

ModeWrites ==
  {Write("PSR", Flags(rm, ire, FALSE)) : rm, ire \in BOOLEAN}
    \cup {Write("EPC", 9), Write("ELSA", 9), Write("EPSR", Flags(FALSE, TRUE, FALSE)),
          Write("EPSR", [Flags(FALSE, TRUE, FALSE) EXCEPT !.IMME = TRUE]),
          Write("EPSR", [Flags(FALSE, TRUE, FALSE) EXCEPT !.DMME = TRUE])}
    \cup {WriteSlot("ITLBL", 0, [V |-> TRUE, VPN |-> 1])}

RootCode ==
  {Op("ret"), Op("syscall"), Write("IMR", {}), Write("IMR", {IRQ_TSC}), Write("IMR", DeviceIrqs),
   [op |-> "rmsr", known |-> TRUE]}
    \cup TimerWrites \cup ModeWrites

UserCode ==
  {Op("next"), Op("syscall"), Op("invalid"), Op("panic"), Op("ret"), JumpTo(9),
   LoadOf(9), StoreTo(11), Write("IMR", {IRQ_TSC}), [op |-> "wmsr", reg |-> "DBGR"],
   Write("TCR", [CNT |-> 0, EN |-> FALSE, I |-> FALSE, P |-> FALSE]),
   [op |-> "rmsr", known |-> FALSE]}

TimerImage ==
  [a \in Word |-> CASE a \in 0 .. 2 -> RootCode
                    [] a \in 3 .. 8 -> {JumpTo(0)}
                    [] a = 9        -> UserCode
                    [] OTHER        -> {JumpTo(9)}]
-----------------------------------------------------------------------------
(***************************************************************************)
(* Both MMUs in use.  Two pages of ten addresses: page 0 holds the vectors *)
(* and the kernel, page 1 the user's code and data, a hole without memory  *)
(* (18) and a device (19).  Each TLB has one entry, so that the two pages  *)
(* evict each other.                                                       *)
(***************************************************************************)
TlbWrites ==
  {WriteSlot(reg, 0, [V |-> v, VPN |-> 1]) : reg \in {"ITLBL", "DTLBL"}, v \in BOOLEAN}
    \cup {WriteSlot("ITLBL", 0, [V |-> TRUE, VPN |-> 0])}
    \cup {WriteSlot("ITLBH", 0, [UX |-> ux, RX |-> FALSE, PPN |-> 1]) : ux \in BOOLEAN}
    \cup {WriteSlot("DTLBH", 0, [UW |-> uw, UR |-> TRUE, RW |-> FALSE, RR |-> TRUE, PPN |-> 1])
            : uw \in BOOLEAN}

(* What a handler may do before its RET at address 9.                      *)
HandlerCode ==
  TlbWrites \cup {[op |-> "cmp", cc |-> TRUE], JumpTo(9), LoadOf(11), StoreTo(19)}

(* The kernel's own code: it may also start the timer and a program, and trap. *)
KernelCode ==
  {Write("TCR", [CNT |-> 0, EN |-> TRUE, I |-> TRUE, P |-> FALSE]),
   Write("EPC", 10), JumpTo(9), Op("invalid"), Op("syscall"),
   Write("EPSR", Flags(FALSE, TRUE, TRUE)), Write("PSR", Flags(TRUE, TRUE, TRUE)),
   Write("PSR", Flags(TRUE, TRUE, FALSE))}

PagedUserCode ==
  {LoadOf(11), StoreTo(11), StoreTo(19), LoadOf(18), LoadOf(0),
   Op("syscall"), Op("ret"), JumpTo(0), [op |-> "cmp", cc |-> FALSE], [op |-> "bt", to |-> 10],
   [op |-> "bf", to |-> 19], [op |-> "wmsr", reg |-> "CACHE"], Write("IMR", {IRQ_TSC}),
   WriteSlot("DTLBL", 0, [V |-> TRUE, VPN |-> 0])}

PagingImage ==
  [a \in Word |-> CASE a \in 0 .. 1 -> KernelCode
                    [] a \in 2 .. 8 -> HandlerCode
                    [] a = 9        -> {Op("ret"), [op |-> "wmsr", reg |-> "UNDEF"]}
                    [] a = 10       -> PagedUserCode
                    [] OTHER        -> {JumpTo(10)}]
=============================================================================
