----------------------------- MODULE CallGuest -----------------------------
(***************************************************************************)
(* CallTrace under a guest in call/return normal form, with interrupts but *)
(* with one task: a function stores its link register before it calls and  *)
(* loads it before it returns, and a handler keeps the link register of    *)
(* the function it interrupts.  The guest is not part of the repository.   *)
(***************************************************************************)
EXTENDS CallTrace, Sequences, FiniteSets

CONSTANTS
  Vector,   \* where handlers start
  Entries,  \* where functions start
  MAX_ACTS  \* bound of the runs: nested activations

ASSUME GuestAssumption == Vector \in Address /\ Entries \subseteq Address

VARIABLE
  acts  \* activations, outermost first: what each has stored on the stack

gvars == <<vars, acts>>

Called == [kind |-> "call", stored |-> FALSE, link |-> 0, resume |-> 0]
Last == acts[Len(acts)]
Outer == SubSeq(acts, 1, Len(acts) - 1)
In(kind, stored) == acts # << >> /\ Last.kind = kind /\ Last.stored = stored

GInit == Init /\ acts = << >>

(* The root and the handlers, which do not return by the link register,    *)
(* may call at once.                                                       *)
MayCall == acts # << >> => Last.stored

Call ==
  /\ MayCall /\ Len(acts) < MAX_ACTS
  /\ \/ \E to \in Entries : JmpILnk(to)
     \/ \E rs1 \in Registers \ {0, RLNK} : reg[rs1] \in Entries /\ Jmp(RLNK, rs1)
  /\ acts' = Append(acts, Called)

StoreLink ==
  /\ In("call", FALSE)
  /\ acts' = Append(Outer, [Last EXCEPT !.stored = TRUE, !.link = reg[RLNK]])
  /\ Compute(0, 0)

LoadLink ==
  /\ In("call", TRUE)
  /\ acts' = Append(Outer, [Last EXCEPT !.stored = FALSE])
  /\ Compute(RLNK, Last.link)

Return ==
  /\ In("call", FALSE)
  /\ Jmp(0, RLNK)
  /\ acts' = Outer

(* cpu_raise_exception() and the handler's first instructions.             *)
Interrupt ==
  /\ host = "running" /\ Len(acts) < MAX_ACTS
  /\ acts' = Append(acts, [kind |-> "irq", stored |-> TRUE, link |-> reg[RLNK], resume |-> pc])
  /\ pc' = Vector
  /\ UNCHANGED <<reg, trace, host, history>>

(* The handler's last instructions and its RET.                            *)
Resume ==
  /\ In("irq", TRUE) /\ host = "running"
  /\ reg' = SetReg(reg, RLNK, Last.link)
  /\ pc' = Last.resume
  /\ acts' = Outer
  /\ UNCHANGED <<trace, host, history>>

(* Jumps within a function, also through a register, and computations.     *)
Inside ==
  /\ \/ \E to \in Address : JmpI(to)
     \/ \E rs1 \in Registers \ {0, RLNK} : Jmp(0, rs1)
     \/ \E rd \in Registers \ {RLNK}, value \in Address : Compute(rd, value)
  /\ UNCHANGED acts

GNext ==
  \/ Call \/ StoreLink \/ LoadLink \/ Return \/ Interrupt \/ Resume \/ Inside
  \/ MayCall /\ CallPanic /\ UNCHANGED acts
  \/ Exited /\ UNCHANGED acts

GSpec == GInit /\ [][GNext]_gvars
-----------------------------------------------------------------------------
Calls == {k \in DOMAIN acts : acts[k].kind = "call"}

(* Where the guest keeps the return address of activation k.               *)
ReturnAddress(k) ==
  IF acts[k].stored THEN acts[k].link
  ELSE IF k = Len(acts) THEN reg[RLNK] ELSE acts[k + 1].link

(***************************************************************************)
(* The trace of such a guest is true: a frame for each function that has   *)
(* not returned, outermost first, whose link address is the one that the   *)
(* guest keeps in its stack or its link register and will return to,       *)
(* through nested calls and interrupts at any instruction.                 *)
(***************************************************************************)
TraceMirrorsStack ==
  /\ ~damaged /\ depth = Cardinality(Calls)
  /\ \A k \in Calls :
       frames[Cardinality({j \in Calls : j < k})].lnk_pc = ReturnAddress(k)
=============================================================================
