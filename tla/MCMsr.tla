------------------------------- MODULE MCMsr -------------------------------
(***************************************************************************)
(* An instance of Msr with the banks of the code, words of twelve bits and *)
(* TLBs of two entries and of one, the halves adjoining as the 128 of the  *)
(* code do.                                                                *)
(***************************************************************************)
EXTENDS Msr

(* Registers at the end of their range, a read-only one, a debug port,     *)
(* and TCR by an index of 17 bits.                                         *)
MCIndices ==
  {MSR_PSR, MSR_ITLBL + 1, MSR_DTLBH, MSR_TCR + INDEX_PERIOD, MSR_CPUID, 5 * BANK}

MCWords == {{b \in Bits : b % 4 \in {0, 3}}, Bits \ {4}}
MCAddresses == {{2, 11}}

(* For the data TLB.                                                       *)
DtlblIndices == {MSR_PSR, MSR_DTLBL, MSR_DTLBH}
=============================================================================
