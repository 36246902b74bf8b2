----------------------------- MODULE DebugAids -----------------------------
(***************************************************************************)
(* The two debugging aids: main() loads the symbol table and then runs the *)
(* guest, whose calls are traced.  The guest is either in call/return      *)
(* normal form (CallGuest) or any (CallTrace).  The table does not change  *)
(* any more, and the guest does not read it: it is trace_print_frames()    *)
(* that looks each frame's target up.                                      *)
(***************************************************************************)
EXTENDS CallGuest

CONSTANTS
  Tokens, Value, MAX_TOKENS,  \* of Symtab
  MAX_RUN_TOKENS              \* bound of the runs: files of more are loaded only

VARIABLES
  normal,                           \* the form of the guest
  file, read, buffer, table, phase  \* of Symtab

Symbols == INSTANCE Symtab

symbolVars == <<file, read, buffer, table, phase>>

ASSUME TokenAssumption ==
  DOMAIN Value = Tokens /\ MAX_TOKENS \in Nat /\ MAX_RUN_TOKENS \in Nat

AidsInit == GInit /\ Symbols!Init /\ normal \in BOOLEAN

Execute ==
  /\ phase = "run" /\ Len(read) <= MAX_RUN_TOKENS
  /\ (normal /\ GNext) \/ (~normal /\ Next /\ UNCHANGED acts)
  /\ UNCHANGED symbolVars

AidsNext ==
  /\ Execute \/ (Symbols!Next /\ UNCHANGED gvars)
  /\ UNCHANGED normal

AidsSpec == AidsInit /\ [][AidsNext]_<<gvars, symbolVars, normal>>
-----------------------------------------------------------------------------
(* The trace of a guest in call/return normal form, with interrupts at any *)
(* instruction, is its stack (CallGuest): the programs that the comment in *)
(* trace-runtime-stack.c:2 promises it for.                                *)
NormalFormTraced == normal => TraceMirrorsStack

(* A look-up finds the last definition of an address (Symtab).             *)
LastDefinition == Symbols!LastDefinition
=============================================================================
