------------------------------ MODULE WordFile ------------------------------
(***************************************************************************)
(* What a kernel expects of the read/write registers: each is a word of    *)
(* its own that keeps, of the bits it implements, what was written last,   *)
(* and PSR and EPSR are words that an exception and RET copy whole.        *)
(***************************************************************************)
CONSTANTS
  Values,       \* the words
  Registers,    \* indices of the registers
  Implemented,  \* the bits each of them has
  PSR, EPSR, EPC, ELSA, TSR, TCR,  \* those the hardware writes
  RootBit,      \* the bit of PSR that names root mode
  OffBits,      \* the bits of PSR that an exception clears
  ExpiredBit    \* the bit of TCR that the timer sets

VARIABLES
  word,    \* the words of the registers
  access   \* the last access: its operation, index and value

vars == <<word, access>>

Access(op, n, v) == [op |-> op, index |-> n, value |-> v]
Root == RootBit \in word[PSR]

Store(n, v) ==
  /\ access' = Access("wmsr", n, v)
  /\ Root
  /\ word' = [word EXCEPT ![n] = v \cap Implemented[n]]

Load(n) ==
  /\ access' = Access("rmsr", n, word[n])
  /\ Root
  /\ UNCHANGED word

(* An access outside root mode, or to what is not one of the registers.    *)
Elsewhere ==
  /\ access'.index \notin Registers \/ ~Root
  /\ UNCHANGED word

Exception(addr, lsa) ==
  /\ UNCHANGED access
  /\ word' = [word EXCEPT ![EPSR] = word[PSR], ![EPC] = addr, ![ELSA] = lsa,
                          ![PSR] = (word[PSR] \cup {RootBit}) \ OffBits]

Return ==
  /\ UNCHANGED access
  /\ word' = [word EXCEPT ![PSR] = word[EPSR]]

Timer(t) ==
  /\ UNCHANGED access
  /\ word' = [word EXCEPT ![TSR] = t, ![TCR] = word[TCR] \cup {ExpiredBit}]

Next ==
  \/ \E n \in Registers : Load(n)
  \/ \E n \in Registers, v \in Values : Store(n, v)
  \/ \E addr, lsa \in Values : Exception(addr, lsa)
  \/ \E t \in Values : Timer(t)
  \/ Return \/ Elsewhere

Init == word = [n \in Registers |-> IF n = PSR THEN {RootBit} ELSE {}]

Spec == Init /\ [][Next]_vars
=============================================================================
