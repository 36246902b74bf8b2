----------------------------- MODULE MCContext -----------------------------
(* The paged instance of MCCpu, with the history of CpuContext.            *)
EXTENDS CpuContext, MCCpu
=============================================================================
