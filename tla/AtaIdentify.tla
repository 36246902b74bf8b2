---------------------------- MODULE AtaIdentify ----------------------------
(***************************************************************************)
(* dev_ata_init(): the identification block that IDENTIFY DRIVE delivers.  *)
(* The two strings are copied word by word, by a loop that looks for the   *)
(* terminating zero at every other byte only, so that after a string of    *)
(* odd length it goes on with what the linker has put behind it.           *)
(***************************************************************************)
EXTENDS Integers, Sequences

CONSTANTS
  firmware_revision, model_number,  \* sequences of bytes, without their 0
  Behind,                           \* what may follow them in memory
  ATA_CHUNK_MAXSIZE,                \* bytes of the disk: 2^26
  ID_WORDS                          \* 256

heads == 16
sectors == 64
cylinders == ATA_CHUNK_MAXSIZE \div (heads * sectors * 512)
sects_total == heads * sectors * cylinders

VARIABLES
  step,  \* "numbers", "firmware", "model", "rest", "done"
  id16,
  text,  \* the string that is being copied, and what follows it
  str,   \* the next byte of it
  dst    \* the word it goes to

vars == <<step, id16, text, str, dst>>

Init ==
  /\ step = "numbers"
  /\ id16 = [w \in 0 .. (ID_WORDS - 1) |-> 0]
  /\ text = << >> /\ str = 1 /\ dst = 0

Space == 8224  \* two bytes of memset(' ')

Low(n) == n % 65536

(* Mutant of High: the shift is forgotten.                                 *)
HighUnshifted(n) == n % 65536

High(n) == (n \div 65536) % 65536

(* Words 0 to 22.                                                          *)
Numbers ==
  LET value(w) ==
        CASE w = 0 -> 64 [] w = 1 -> Low(cylinders) [] w = 3 -> heads [] w = 4 -> 512 * sectors
          [] w = 5 -> 512 [] w = 6 -> sectors [] w = 20 -> 3 [] w = 21 -> 512 [] w = 22 -> 4
          [] OTHER -> 0
  IN  [w \in 0 .. (ID_WORDS - 1) |-> value(w)]

(* Words 47 to 61 and 80 to 87; the others keep what they hold.            *)
Capacity(block) ==
  LET value(w) ==
        CASE w = 47 -> 32768 + 128 [] w = 48 -> 0 [] w = 49 -> 512 [] w \in {51, 52} -> 512
          [] w = 54 -> Low(cylinders) [] w = 55 -> heads [] w = 56 -> sectors
          [] w \in {57, 60} -> Low(sects_total) [] w \in {58, 61} -> High(sects_total)
          [] w = 59 -> 0 [] w = 80 -> 6 [] w \in {82, 83, 84, 85, 87} -> 16384 [] w = 86 -> 0
          [] OTHER -> block[w]
  IN  [w \in 0 .. (ID_WORDS - 1) |-> value(w)]

(* memset(), then id16_fill_string(&id16[to], string) begins.              *)
Blank(block, from, words) ==
  [w \in 0 .. (ID_WORDS - 1) |-> IF w \in from .. (from + words - 1) THEN Space ELSE block[w]]

Copy(string, to) ==
  /\ \E b \in Behind : text' = string \o <<0>> \o b
  /\ str' = 1 /\ dst' = to

BeginFirmware ==
  /\ step = "numbers"
  /\ id16' = Blank(Numbers, 23, 4)
  /\ Copy(firmware_revision, 27)
  /\ step' = "firmware"

FillWord ==
  /\ step \in {"firmware", "model"}
  /\ text[str] # 0 /\ dst < ID_WORDS
  /\ id16' = [id16 EXCEPT ![dst] = text[str] * 256 + text[str + 1]]
  /\ str' = str + 2 /\ dst' = dst + 1
  /\ UNCHANGED <<step, text>>

BeginModel ==
  /\ step = "firmware" /\ text[str] = 0
  /\ id16' = Blank(id16, 27, 20)
  /\ Copy(model_number, 27)
  /\ step' = "model"

Rest ==
  /\ step = "model" /\ text[str] = 0
  /\ id16' = Capacity(id16)
  /\ step' = "done"
  /\ text' = << >> /\ str' = 1 /\ dst' = 0

Done == step = "done" /\ UNCHANGED vars

Next == BeginFirmware \/ FillWord \/ BeginModel \/ Rest \/ Done

Spec == Init /\ [][Next]_vars
-----------------------------------------------------------------------------
(* The bytes that words hold, the high one first as ATA has it.            *)
Bytes(from, words) ==
  [k \in 1 .. (2 * words) |->
     LET w == id16[from + (k - 1) \div 2] IN IF k % 2 = 1 THEN w \div 256 ELSE w % 256]

(***************************************************************************)
(* Whatever the copies run over, a driver can use the block: the model's   *)
(* name is where it belongs, LBA is offered, the capacity is that of the   *)
(* geometry, in both places, and it is exactly the disk's memory.          *)
(***************************************************************************)
Addressable ==
  step = "done" =>
    /\ SubSeq(Bytes(27, 20), 1, Len(model_number)) = model_number
    /\ id16[49] = 512
    /\ id16[58] * 65536 + id16[57] = id16[1] * id16[3] * id16[6]
    /\ id16[61] * 65536 + id16[60] = id16[54] * id16[55] * id16[56]
    /\ (id16[61] * 65536 + id16[60]) * 512 = ATA_CHUNK_MAXSIZE
=============================================================================
