----------------------------- MODULE AtaDriver -----------------------------
(***************************************************************************)
(* Ata under a guest that follows the ATA protocol for programmed input:   *)
(* it writes the task file only while no transfer is under way, reads data *)
(* only when the status asks for it, reads the status once for each        *)
(* interrupt and before the data, and may give up with a soft reset at any *)
(* time.  The guest is not part of the repository: what it does is what    *)
(* device-ata.c expects of it.                                             *)
(***************************************************************************)
EXTENDS Ata

(* Every sector of the disk has a 28-bit number: 2^17 of at most 2^28.     *)
ASSUME LbaAssumption ==
  DISK_WORDS <= (BYTE * BYTE * BYTE * NIBBLE) * SECTOR_WORDS

VARIABLES
  phase,  \* "idle", "setup", "wait" for a block, reading "data", "reset"
  job,    \* the command, its first sector and their number
  todo,   \* registers still to be written before the command
  got,    \* words received of the job
  word    \* the place of the word received last

driverVars == <<phase, job, todo, got, word>>
allVars == <<vars, driverVars>>

NoJob == [command |-> "none", sector |-> 0, sectors |-> 0]

(* The requests a driver may make: all of their sectors exist.             *)
Jobs ==
  {[command |-> "IdentifyDrive", sector |-> 0, sectors |-> 1]}
    \cup {j \in [command : ReadCommands,
                 sector  : 0 .. (BYTE * BYTE * BYTE * NIBBLE - 1), sectors : 1 .. BYTE] :
            (j.sector + j.sectors) * SECTOR_WORDS <= DISK_WORDS}

From == IF job.command = "IdentifyDrive" THEN "id16" ELSE "disk_chunk"
First == job.sector * SECTOR_WORDS
Total == job.sectors * SECTOR_WORDS

(* Words the driver takes before it waits again.                           *)
Block == IF job.command = "ReadMultiple" THEN Total ELSE SECTOR_WORDS

DInit ==
  /\ Init
  /\ phase = "idle" /\ job = NoJob /\ todo = {} /\ got = 0
  /\ word = [from |-> "none", at |-> 0]
-----------------------------------------------------------------------------
(* With the line unused, choose between interrupts and polling.            *)
ChooseMode ==
  /\ phase = "idle"
  /\ \E value \in {{}, {"IEN"}} : WriteControl(value)
  /\ UNCHANGED driverVars

Plan ==
  /\ phase = "idle" /\ Running
  /\ job' \in Jobs
  /\ todo' = PlainRegisters \cup {"DriverHead"}
  /\ phase' = "setup"
  /\ UNCHANGED <<vars, got, word>>

(* The 8-bit values that name the job.                                     *)
RegisterValue(register) ==
  CASE register = "SectorCount"  -> job.sectors % BYTE
    [] register = "SectorNumber" -> job.sector % BYTE
    [] register = "CylinderLow"  -> (job.sector \div BYTE) % BYTE
    [] register = "CylinderHigh" -> (job.sector \div (BYTE * BYTE)) % BYTE

HeadValue ==
  [fixed |-> TRUE, L |-> TRUE, DRV |-> FALSE, head |-> job.sector \div (BYTE * BYTE * BYTE)]

SetUp(register) ==
  /\ phase = "setup" /\ register \in todo
  /\ IF register = "DriverHead"
     THEN WriteDriverHead(HeadValue)
     ELSE WriteTaskFile(register, RegisterValue(register))
  /\ todo' = todo \ {register}
  /\ UNCHANGED <<phase, job, got, word>>

Issue ==
  /\ phase = "setup" /\ todo = {}
  /\ "DRDY" \in status /\ "DRQ" \notin status
  /\ IF job.command = "IdentifyDrive" THEN IdentifyDrive ELSE Transfer(job.command)
  /\ phase' = "wait"
  /\ UNCHANGED <<job, todo, got, word>>

(* The interrupt handler reads the status register.                        *)
ServeInterrupt ==
  /\ phase = "wait" /\ irq
  /\ ReadStatus
  /\ phase' = IF "DRQ" \in status THEN "data" ELSE "wait"
  /\ UNCHANGED <<job, todo, got, word>>

(* With interrupts disabled, the alternate status is read until it has DRQ. *)
Poll ==
  /\ phase = "wait" /\ Running
  /\ "IEN" \in control /\ "DRQ" \in status
  /\ phase' = "data"
  /\ UNCHANGED <<vars, job, todo, got, word>>

Take ==
  /\ phase = "data"
  /\ ReadData
  /\ word' = [from |-> base, at |-> pos]
  /\ IF got + 1 = Total
     THEN phase' = "idle" /\ job' = NoJob /\ got' = 0
     ELSE /\ phase' = IF (got + 1) % Block = 0 THEN "wait" ELSE "data"
          /\ got' = got + 1
          /\ UNCHANGED job
  /\ UNCHANGED todo

(* Give up: start a soft reset, end it, wait until the disk is ready.      *)
Abandon ==
  /\ phase \in {"setup", "wait", "data"}
  /\ SoftReset(control \cup {"RST"})
  /\ phase' = "reset" /\ job' = NoJob /\ todo' = {} /\ got' = 0
  /\ UNCHANGED word

Release ==
  /\ phase = "reset"
  /\ ResetDone(control \ {"RST"})
  /\ UNCHANGED driverVars

Recover ==
  /\ phase = "reset" /\ "DRDY" \in status
  /\ ReadStatus
  /\ phase' = "idle"
  /\ UNCHANGED <<job, todo, got, word>>

DNext ==
  \/ ChooseMode \/ Plan \/ Issue \/ ServeInterrupt \/ Poll \/ Take
  \/ Abandon \/ Release \/ Recover
  \/ \E register \in PlainRegisters \cup {"DriverHead"} : SetUp(register)

(* A driver that wants data goes on: its handler runs when the line is     *)
(* raised, its loop polls, and a block is read to its end.                 *)
Diligence == WF_allVars(ServeInterrupt) /\ WF_allVars(Poll) /\ WF_allVars(Take)

DSpec == DInit /\ [][DNext]_allVars /\ Diligence
-----------------------------------------------------------------------------
Busy == phase \in {"wait", "data"}

(***************************************************************************)
(* No interrupt is lost and none comes unasked: while the driver waits for *)
(* a block the status asks for it and, unless the driver polls, the line   *)
(* is raised; it is raised at no other time but during a reset, whatever   *)
(* was given up before and however the driver changed its mode.            *)
(***************************************************************************)
InterruptMeansBlock ==
  /\ irq => phase \in {"wait", "reset"}
  /\ phase = "wait" => "DRQ" \in status /\ (irq \/ "IEN" \in control)

(***************************************************************************)
(* A protocol-abiding guest never reads outside the buffer and never meets *)
(* the CHS panic between two sectors: during a transfer the task file      *)
(* names the sector that is being read (with carries from register to      *)
(* register) and how many are left, and the window ends with it.           *)
(***************************************************************************)
AddressFollowsData ==
  Busy =>
    /\ InBuffer
    /\ base = From /\ pos = First + got
    /\ command = "ReadSector" =>
         /\ head.L
         /\ Sector = job.sector + got \div SECTOR_WORDS
         /\ count = job.sectors - got \div SECTOR_WORDS
         /\ len = (Sector + 1) * SECTOR_WORDS

Request ==
  IF Busy THEN [from |-> From, first |-> First, last |-> First + Total - 1]
          ELSE [from |-> "none", first |-> 0, last |-> 0]

Pio == INSTANCE PioTransfer
         WITH ID_WORDS <- SECTOR_WORDS, MAX_WORDS <- BYTE * SECTOR_WORDS, request <- Request

(***************************************************************************)
(* The disk implements PioTransfer: each read command delivers each word   *)
(* of the sectors it names, once and in order, 256 sectors for a count of  *)
(* 0, and never stops half-way.                                            *)
(***************************************************************************)
Transfers == Pio!Spec
=============================================================================
