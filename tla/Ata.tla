-------------------------------- MODULE Ata --------------------------------
(***************************************************************************)
(* The ATA disk of device-ata.c: the task file, the window into a buffer   *)
(* that the data register reads through, the commands, the soft reset and  *)
(* the interrupt line.  Each action is one access by the guest, which may  *)
(* be any: whether it follows the ATA protocol is the subject of           *)
(* AtaDriver.                                                              *)
(*                                                                         *)
(* Left out: RegError and RegFeature, which are stored and read back and   *)
(* decide nothing; the contents of the disk and of the identification      *)
(* block, of which a word is known by its place; the reads that change     *)
(* nothing (every register but the status and the data register).          *)
(***************************************************************************)
EXTENDS Integers

CONSTANTS
  BYTE,          \* values of an 8-bit register: 2^8
  NIBBLE,        \* values of the four high bits of a sector's address: 2^4
  SECTOR_WORDS,  \* 16-bit words of a sector and of id16: 256
  DISK_WORDS,    \* words of disk_chunk: 2^25
  INT_PERIOD     \* values of a C int: 2^32

ASSUME RegisterAssumption == BYTE \in Nat \ {0, 1} /\ NIBBLE \in Nat \ {0}
ASSUME BufferAssumption ==
  /\ SECTOR_WORDS \in Nat \ {0} /\ DISK_WORDS \in Nat
  /\ INT_PERIOD \in Nat \ {0} /\ INT_PERIOD % 2 = 0
  /\ SECTOR_WORDS < INT_PERIOD \div 2 /\ DISK_WORDS < INT_PERIOD \div 2

Byte == 0 .. (BYTE - 1)
Int32 == (-(INT_PERIOD \div 2)) .. (INT_PERIOD \div 2 - 1)

(* RegDriverHead; `fixed' stands for its bits 7 and 5, both set.           *)
DriverHead == [fixed : BOOLEAN, L : BOOLEAN, DRV : BOOLEAN, head : 0 .. (NIBBLE - 1)]

ReadCommands  == {"ReadSector", "ReadMultiple"}
WriteCommands == {"WriteSector", "WriteMultiple"}
Commands == {"IdentifyDrive", "InitializeDriveParameters"} \cup ReadCommands \cup WriteCommands

VARIABLES
  control,   \* RegDeviceControl, the set of its bits RST and IEN
  count,     \* RegSectorCount
  number,    \* RegSectorNumber
  cylLow,    \* RegCylinderLow
  cylHigh,   \* RegCylinderHigh
  head,      \* RegDriverHead
  status,    \* RegStatus, the set of its bits
  command,   \* RegCommand
  drive,     \* DRV: the number of the drive that is selected
  base,      \* buf_base: "id16" or "disk_chunk"
  pos,       \* buf_pos
  len,       \* buf_len
  irq,       \* the disk's line in IRR
  host       \* "running", or "exited" after panic()

taskFile == <<count, number, cylLow, cylHigh, head>>
window == <<base, pos, len>>
vars == <<control, taskFile, status, command, drive, window, irq, host>>

(* dev_ata_init() and the dev_ata_reset() it ends with.                    *)
Init ==
  /\ control = {}
  /\ count = 1 /\ number = 1 /\ cylLow = 0 /\ cylHigh = 0
  /\ head = [fixed |-> TRUE, L |-> FALSE, DRV |-> FALSE, head |-> 0]
  /\ status = {"DRDY"} /\ command = "none"
  /\ drive = 1
  /\ base = "id16" /\ pos = 0 /\ len = SECTOR_WORDS
  /\ irq = FALSE /\ host = "running"
-----------------------------------------------------------------------------
(* Helpers.                                                                *)

Running == host = "running"

(* The selected drive is the one that exists.                              *)
Present == drive = 1

(* panic(): the emulator's process exits.                                  *)
Panic ==
  /\ host' = "exited"
  /\ UNCHANGED <<control, taskFile, status, command, drive, window, irq>>

(* Mutant of ToInt: a type wider than int.                                 *)
ToIntWide(x) == x

(* Conversion of a result to `int'; an overflow wraps.                     *)
ToInt(x) ==
  LET w == x % INT_PERIOD
  IN  IF w < INT_PERIOD \div 2 THEN w ELSE w - INT_PERIOD

(* get_sector(), in LBA mode.                                              *)
Sector == ((head.head * BYTE + cylHigh) * BYTE + cylLow) * BYTE + number

(* Mutant of SetSector: the carry out of the low byte is dropped.          *)
SetSectorNoCarry(s) ==
  /\ number'  = s % BYTE
  /\ UNCHANGED <<cylLow, cylHigh, head>>

(* set_sector(), in LBA mode.                                              *)
SetSector(s) ==
  /\ number'  = s % BYTE
  /\ cylLow'  = (s \div BYTE) % BYTE
  /\ cylHigh' = (s \div (BYTE * BYTE)) % BYTE
  /\ head'    = [head EXCEPT !.head = (s \div (BYTE * BYTE * BYTE)) % NIBBLE]

(* Mutant of Interrupt: the bit nIEN read the wrong way round.             *)
InterruptIfDisabled == irq' = (irq \/ "IEN" \in control)

(* irqc_set_interrupt(irq, 1), unless the driver disabled interrupts.      *)
Interrupt == irq' = (irq \/ "IEN" \notin control)

Ready == {"DRDY", "DSC"}

(* Is the next word of the data register inside the buffer?                *)
InBuffer ==
  pos >= 0 /\ pos < (IF base = "id16" THEN SECTOR_WORDS ELSE DISK_WORDS)
-----------------------------------------------------------------------------
(* dev_ata_writereg8().                                                    *)

WriteDriverHead(value) ==
  /\ Running
  /\ head' = value
  /\ drive' = IF value.DRV THEN 0 ELSE 1
  /\ UNCHANGED <<control, count, number, cylLow, cylHigh, status, command, window, irq, host>>

(* RST set while it was clear.                                             *)
SoftReset(value) ==
  /\ Running
  /\ "RST" \in value /\ "RST" \notin control
  /\ status' = {"IEN", "DSC"}
  /\ control' = value
  /\ UNCHANGED <<taskFile, command, drive, window, irq, host>>

(* Mutant of ResetDone: `&= 0x20', the drive bit goes with the address.    *)
ResetDoneDriveLost(value) ==
  /\ Running
  /\ "RST" \notin value /\ "RST" \in control
  /\ head' = [head EXCEPT !.head = 0, !.DRV = FALSE]
  /\ status' = Ready
  /\ count' = 1 /\ number' = 1 /\ cylLow' = 0 /\ cylHigh' = 0
  /\ command' = "none"
  /\ control' = value
  /\ UNCHANGED <<drive, window, irq, host>>

(* RST cleared while it was set: the end of the reset.                     *)
ResetDone(value) ==
  /\ Running
  /\ "RST" \notin value /\ "RST" \in control
  /\ head' = [head EXCEPT !.head = 0]
  /\ status' = Ready
  /\ count' = 1 /\ number' = 1 /\ cylLow' = 0 /\ cylHigh' = 0
  /\ command' = "none"
  /\ control' = value
  /\ UNCHANGED <<drive, window, irq, host>>

(* A write to the control register that leaves RST as it was.              *)
WriteControl(value) ==
  /\ Running
  /\ "RST" \in value <=> "RST" \in control
  /\ control' = value
  /\ UNCHANGED <<taskFile, status, command, drive, window, irq, host>>

(* The four plain registers of the task file; Feature is left out.         *)
WriteTaskFile(register, value) ==
  /\ Running /\ Present
  /\ count'   = IF register = "SectorCount" THEN value ELSE count
  /\ number'  = IF register = "SectorNumber" THEN value ELSE number
  /\ cylLow'  = IF register = "CylinderLow" THEN value ELSE cylLow
  /\ cylHigh' = IF register = "CylinderHigh" THEN value ELSE cylHigh
  /\ UNCHANGED <<control, head, status, command, drive, window, irq, host>>

IdentifyDrive ==
  /\ Running /\ Present
  /\ command' = "IdentifyDrive"
  /\ base' = "id16" /\ pos' = 0 /\ len' = SECTOR_WORDS
  /\ status' = Ready \cup {"DRQ"}
  /\ Interrupt
  /\ UNCHANGED <<control, taskFile, drive, host>>

InitializeDriveParameters ==
  /\ Running /\ Present
  /\ command' = "InitializeDriveParameters"
  /\ status' = Ready
  /\ Interrupt
  /\ UNCHANGED <<control, taskFile, drive, window, host>>

(* Mutant of FullCount: a count of 0 is taken as it is.                    *)
FullCountZero == count

(* The count of a command that names it in 8 bits.                         *)
FullCount == IF count = 0 THEN BYTE ELSE count

(* Words that one interrupt of `cmd' announces.                            *)
BlockWords(cmd) ==
  IF cmd \in {"ReadMultiple", "WriteMultiple"} THEN SECTOR_WORDS * FullCount ELSE SECTOR_WORDS

(* ReadSector, WriteSector, ReadMultiple, WriteMultiple.                   *)
Transfer(cmd) ==
  /\ Running /\ Present /\ head.L
  /\ command' = cmd
  /\ count' = FullCount
  /\ base' = "disk_chunk"
  /\ pos' = ToInt(Sector * SECTOR_WORDS)
  /\ len' = ToInt(pos' + BlockWords(cmd))
  /\ status' = Ready \cup {"DRQ"}
  /\ IF cmd \in ReadCommands THEN Interrupt ELSE irq' = irq
  /\ UNCHANGED <<control, number, cylLow, cylHigh, head, drive, host>>

(* get_sector() in CHS mode.                                               *)
TransferChs == Running /\ Present /\ ~head.L /\ Panic
-----------------------------------------------------------------------------
(* dev_ata_readreg8(): of the reads, only that of the status register      *)
(* withdraws the interrupt; that of the alternate status does not.         *)

ReadStatus ==
  /\ Running /\ Present
  /\ irq' = FALSE
  /\ UNCHANGED <<control, taskFile, status, command, drive, window, host>>

(***************************************************************************)
(* dev_ata_readreg16(): one word, from whichever drive is selected; the    *)
(* last one of a block either ends the transfer or opens the next sector.  *)
(***************************************************************************)
LastOfBlock == ToInt(pos + 1) >= len
MoreSectors == command = "ReadSector" /\ count > 1

ReadWord ==
  /\ Running /\ ~LastOfBlock
  /\ pos' = ToInt(pos + 1)
  /\ UNCHANGED <<control, taskFile, status, command, drive, base, len, irq, host>>

ReadFinalWord ==
  /\ Running /\ LastOfBlock /\ ~MoreSectors
  /\ pos' = ToInt(pos + 1)
  /\ status' = Ready
  /\ UNCHANGED <<control, taskFile, command, drive, base, len, irq, host>>

(* Mutant of ReadIntoNextSector: the next sector is not announced.         *)
ReadIntoNextSectorSilent ==
  /\ Running /\ LastOfBlock /\ MoreSectors /\ head.L
  /\ pos' = ToInt(pos + 1)
  /\ count' = count - 1
  /\ SetSector(Sector + 1)
  /\ len' = ToInt(len + SECTOR_WORDS)
  /\ status' = Ready \cup {"DRQ"}
  /\ UNCHANGED <<control, command, drive, base, irq, host>>

(* Mutant of ReadIntoNextSector: the position is computed from the sector  *)
(* before the sector moves on.                                             *)
ReadIntoSameSector ==
  /\ Running /\ LastOfBlock /\ MoreSectors /\ head.L
  /\ pos' = ToInt(Sector * SECTOR_WORDS)
  /\ count' = count - 1
  /\ SetSector(Sector + 1)
  /\ len' = ToInt(len + SECTOR_WORDS)
  /\ status' = Ready \cup {"DRQ"}
  /\ Interrupt
  /\ UNCHANGED <<control, command, drive, base, host>>

ReadIntoNextSector ==
  /\ Running /\ LastOfBlock /\ MoreSectors /\ head.L
  /\ pos' = ToInt(pos + 1)
  /\ count' = count - 1
  /\ SetSector(Sector + 1)
  /\ len' = ToInt(len + SECTOR_WORDS)
  /\ status' = Ready \cup {"DRQ"}
  /\ Interrupt
  /\ UNCHANGED <<control, command, drive, base, host>>

ReadData == ReadWord \/ ReadFinalWord \/ ReadIntoNextSector

(* get_sector() in CHS mode, at the end of a sector.                       *)
ReadIntoNextSectorChs == Running /\ LastOfBlock /\ MoreSectors /\ ~head.L /\ Panic

(* Outside the buffer the host may also not survive the read.              *)
ReadDataOutside == Running /\ ~InBuffer /\ Panic

(* Any other register, value or width: 32 bits, a 16-bit write, for which  *)
(* there is no handler at all, an unknown command.                         *)
InvalidAccess == Running /\ Panic

-----------------------------------------------------------------------------
WriteCommand ==
  \/ IdentifyDrive \/ InitializeDriveParameters \/ TransferChs
  \/ \E cmd \in ReadCommands \cup WriteCommands : Transfer(cmd)

ControlWrite(value) == SoftReset(value) \/ ResetDone(value) \/ WriteControl(value)

PlainRegisters == {"SectorCount", "SectorNumber", "CylinderLow", "CylinderHigh"}

RegisterWrite ==
  \/ \E value \in DriverHead : WriteDriverHead(value)
  \/ \E value \in SUBSET {"RST", "IEN"} : ControlWrite(value)
  \/ \E register \in PlainRegisters, value \in Byte : WriteTaskFile(register, value)
  \/ WriteCommand

DataRead == ReadData \/ ReadIntoNextSectorChs \/ ReadDataOutside

Exited == host = "exited" /\ UNCHANGED vars

Next == RegisterWrite \/ ReadStatus \/ DataRead \/ InvalidAccess \/ Exited

Spec == Init /\ [][Next]_vars
-----------------------------------------------------------------------------
(* Properties, for any guest.                                              *)

StatusBits == {"IEN", "DRDY", "DSC", "DRQ"}

TypeOK ==
  /\ control \in SUBSET {"RST", "IEN"}
  /\ count \in 0 .. BYTE
  /\ number \in Byte /\ cylLow \in Byte /\ cylHigh \in Byte
  /\ head \in DriverHead
  /\ status \in SUBSET StatusBits /\ command \in Commands \cup {"none"}
  /\ drive \in {0, 1}
  /\ base \in {"id16", "disk_chunk"} /\ pos \in Int32 /\ len \in Int32
  /\ irq \in BOOLEAN /\ host \in {"running", "exited"}

(***************************************************************************)
(* DRV, which decides whether the disk answers, and the bit of RegDriverHead*)
(* that the guest reads back name the same drive, although a soft reset    *)
(* and every finished sector rewrite RegDriverHead alone.                  *)
(***************************************************************************)
DriveCoherent == drive = IF head.DRV THEN 0 ELSE 1

(***************************************************************************)
(* "DRIVER 0 is not presented" (device-ata.c:306): while it is selected,   *)
(* no access consumes data of drive 1.                                     *)
(***************************************************************************)
AbsentDriveSilent == [][drive = 0 => UNCHANGED window]_vars
=============================================================================
