------------------------------ MODULE Startup ------------------------------
(***************************************************************************)
(* main() up to cpu_exec() and the guest's accesses after it: Memory, with *)
(* the disk preparing its identification block (AtaIdentify) before it     *)
(* registers its ranges.  Sets of ranges other than the disk's stand for   *)
(* other device trees.                                                     *)
(***************************************************************************)
EXTENDS Memory

CONSTANTS firmware_revision, model_number, Behind, ATA_CHUNK_MAXSIZE, ID_WORDS  \* of AtaIdentify

VARIABLES step, id16, text, str, dst

Disk == INSTANCE AtaIdentify

blockVars == <<step, id16, text, str, dst>>

ASSUME StringAssumption ==
  /\ firmware_revision \in Seq(1 .. 127) /\ model_number \in Seq(1 .. 127) /\ Len(model_number) <= 40
  /\ \A b \in Behind : b \in Seq(0 .. 127) /\ Len(b) >= 2 /\ b[Len(b)] = 0 /\ b[Len(b) - 1] = 0
ASSUME DiskAssumption ==
  /\ ATA_CHUNK_MAXSIZE \in Nat /\ ATA_CHUNK_MAXSIZE % 524288 = 0  \* bytes of a cylinder
  /\ ATA_CHUNK_MAXSIZE \div 524288 < 65536
  /\ ID_WORDS \in 88 .. 256

StartupInit == Init /\ Disk!Init

(* The first part of dev_ata_init().                                       *)
Identify == phase = "devices" /\ step # "done" /\ Disk!Next /\ UNCHANGED vars

Proceed == (phase = "devices" => step = "done") /\ Next /\ UNCHANGED blockVars

StartupNext == Identify \/ Proceed

StartupSpec == StartupInit /\ [][StartupNext]_<<vars, blockVars>>
-----------------------------------------------------------------------------
(* A driver can use the identification block (AtaIdentify).                *)
Addressable == Disk!Addressable
=============================================================================
