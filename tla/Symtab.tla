------------------------------- MODULE Symtab -------------------------------
(***************************************************************************)
(* The symbol table of parse-symtable.c.  fscanf() takes three tokens at a *)
(* time, wherever the lines end, and is only asked whether it met the end  *)
(* of the file before the first: of an incomplete group the tokens that    *)
(* are missing keep what the group before left in the buffers.             *)
(***************************************************************************)
EXTENDS Integers, Sequences

CONSTANTS
  Tokens,     \* what the file is made of
  Value,      \* strtol(token, NULL, 16), as an address
  MAX_TOKENS  \* bound of the runs: tokens of a file

VARIABLES
  file,    \* the tokens not yet read
  read,    \* history: those that were
  buffer,  \* vm_addr, node.sym_type, node.symbol
  table,   \* global_symtable, the newest node first
  phase    \* "load" or "run"

vars == <<file, read, buffer, table, phase>>

(* Before and after load_symtable(), of which it is local.                 *)
NoBuffer == [vm_addr |-> "", sym_type |-> "", symbol |-> ""]

(* The buffers are not initialised: any tokens stand for what they hold.   *)
Init ==
  /\ file \in UNION {[1 .. n -> Tokens] : n \in 0 .. MAX_TOKENS}
  /\ read = << >>
  /\ buffer \in {[vm_addr |-> t, sym_type |-> t, symbol |-> t] : t \in Tokens}
  /\ table = << >> /\ phase = "load"
-----------------------------------------------------------------------------
(* Token k of the group, if there is one.                                  *)
Scanned(k, old) == IF k <= Len(file) THEN file[k] ELSE old

(* Mutant of Node: the name that was there before.                         *)
NodeStale(b) == [vm_addr |-> Value[b.vm_addr], sym_type |-> b.sym_type, symbol |-> buffer.symbol]

Node(b) == [vm_addr |-> Value[b.vm_addr], sym_type |-> b.sym_type, symbol |-> b.symbol]

ReadSymbol ==
  /\ phase = "load" /\ file # << >>
  /\ buffer' = [vm_addr |-> Scanned(1, buffer.vm_addr), sym_type |-> Scanned(2, buffer.sym_type),
                symbol |-> Scanned(3, buffer.symbol)]
  /\ table' = <<Node(buffer')>> \o table
  /\ file' = SubSeq(file, 4, Len(file))
  /\ read' = read \o SubSeq(file, 1, IF Len(file) < 3 THEN Len(file) ELSE 3)
  /\ UNCHANGED phase

EndOfFile ==
  /\ phase = "load" /\ file = << >>
  /\ phase' = "run" /\ buffer' = NoBuffer
  /\ UNCHANGED <<file, read, table>>

Run == phase = "run" /\ UNCHANGED vars

Next == ReadSymbol \/ EndOfFile \/ Run

Spec == Init /\ [][Next]_vars

(* find_symbol(): the first node with the address.                         *)
Matches(addr) == {k \in DOMAIN table : table[k].vm_addr = addr}
Find(addr) == table[CHOOSE k \in Matches(addr) : \A j \in Matches(addr) : k <= j].symbol
-----------------------------------------------------------------------------
(* The groups of three tokens of the file, whole and broken.               *)
Groups == 1 .. ((Len(read) + 2) \div 3)
Whole(g) == 3 * g <= Len(read)
Defines(g, addr) == Value[read[3 * g - 2]] = addr

(***************************************************************************)
(* A look-up finds an address if and only if a group of the file starts    *)
(* with it, and answers with the name of the last one that does; a broken  *)
(* group at the end goes by the name of the group before it.               *)
(***************************************************************************)
LastDefinition ==
  phase = "run" =>
    \A addr \in {Value[t] : t \in Tokens} :
      LET defs == {g \in Groups : Defines(g, addr)}
          last == CHOOSE g \in defs : \A h \in defs : h <= g
      IN  /\ Matches(addr) # {} <=> defs # {}
          /\ defs # {} /\ Whole(last) => Find(addr) = read[3 * last]
          /\ defs # {} /\ ~Whole(last) /\ last > 1 => Find(addr) = read[3 * last - 3]
=============================================================================
