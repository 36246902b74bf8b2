------------------------------- MODULE Memory -------------------------------
(***************************************************************************)
(* The physical address space of memory-mmio.c: the RAM with its byte      *)
(* order, the lists of device ranges, which the devices fill while main()  *)
(* sets up, and the dispatch of an access to the RAM or to a handler.      *)
(*                                                                         *)
(* Guest accesses arrive translated, page by page, as d-mmu.c translates   *)
(* them.  A handler is known by its device: what it does is the device's.  *)
(***************************************************************************)
EXTENDS Integers, Sequences

CONSTANTS
  BYTE,           \* values of a byte: 2^8
  MEMORY_SIZE,    \* bytes of RAM: 32 MB
  MMIO_PHY_BASE,  \* first address of the devices: 2^31
  ADDR_SPACE,     \* 2^32
  PAGE_SIZE,      \* 2^13
  Frame,          \* the page table in use: the frame of each page
  CHUNK_SIZE,     \* bytes read at once from the image file: 8192
  Image,          \* the bytes of the image file
  Stored,         \* for each width, the values the guest stores
  Boards          \* for each set of devices, the ranges they register

Width == {1, 2, 4}
Byte == 0 .. (BYTE - 1)
Ram == 0 .. (MEMORY_SIZE - 1)
Address == 0 .. (ADDR_SPACE - 1)

(* The place value of byte k of a word.                                    *)
Scale(k) ==
  CASE k = 0 -> 1
    [] k = 1 -> BYTE
    [] k = 2 -> BYTE * BYTE
    [] k = 3 -> BYTE * BYTE * BYTE
    [] k = 4 -> BYTE * BYTE * BYTE * BYTE

(* struct mmio_node; `device' stands for the callback and its argument.    *)
Range == [write : BOOLEAN, start : Address, end : Address, device : STRING]

ASSUME SpaceAssumption ==
  /\ BYTE \in Nat \ {0} /\ MEMORY_SIZE \in Nat /\ ADDR_SPACE \in Nat \ {0}
  /\ MMIO_PHY_BASE \in MEMORY_SIZE .. ADDR_SPACE /\ MMIO_PHY_BASE % 4 = 0
  /\ CHUNK_SIZE \in Nat \ {0} /\ Image \in Seq(Byte)
  /\ \A w \in Width : Stored[w] \subseteq 0 .. (Scale(w) - 1)
ASSUME PageAssumption ==
  /\ PAGE_SIZE \in Nat \ {0} /\ PAGE_SIZE % 4 = 0 /\ ADDR_SPACE % PAGE_SIZE = 0
  /\ Frame \in [0 .. (ADDR_SPACE \div PAGE_SIZE - 1) -> 0 .. (ADDR_SPACE \div PAGE_SIZE - 1)]
ASSUME OfferAssumption ==
  \A o \in UNION Boards : o.width \in Width /\ o.range \in Range /\ o.range.start <= o.range.end

VARIABLES
  phase,   \* main(): "load", "devices", "run"; "exited" after panic()
  loaded,  \* bytes of the image read so far
  ram,     \* cpu_memory
  offers,  \* ranges that devicetree_init() has still to register
  nodes,   \* mmio8, mmio16 and mmio32, newest node first
  calls,   \* the handler calls of the last access
  last     \* the last access: its kind, width, virtual address and value

Access(op, w, va, v) == [op |-> op, width |-> w, va |-> va, value |-> v]

vars == <<phase, loaded, ram, offers, nodes, calls, last>>

(* memory_init(): calloc().                                                *)
Init ==
  /\ phase = "load" /\ loaded = 0
  /\ ram = [a \in Ram |-> 0]
  /\ offers \in Boards /\ nodes = [w \in Width |-> << >>]
  /\ calls = {} /\ last = Access("none", 1, 0, 0)

Panic == phase' = "exited" /\ UNCHANGED <<loaded, ram, offers, nodes, calls, last>>
-----------------------------------------------------------------------------
(* Mutant of LoadChunk: each chunk goes to the start of the RAM.           *)
LoadChunkAtStart(n) ==
  /\ phase = "load" /\ loaded + n <= Len(Image)
  /\ ram' = [a \in Ram |-> IF a \in 0 .. (n - 1) THEN Image[loaded + a + 1] ELSE ram[a]]
  /\ loaded' = loaded + n
  /\ UNCHANGED <<phase, offers, nodes, calls, last>>

(* memory_load_address_fp() with VECT_ERST, address 0: one call of fread(). *)
LoadChunk(n) ==
  /\ phase = "load" /\ loaded + n <= Len(Image)
  /\ ram' = [a \in Ram |-> IF a \in loaded .. (loaded + n - 1) THEN Image[a + 1] ELSE ram[a]]
  /\ loaded' = loaded + n
  /\ UNCHANGED <<phase, offers, nodes, calls, last>>

(* An image larger than the RAM runs over the end of cpu_memory, unnoticed  *)
(* (above) or fatally.                                                     *)
LoadOutside == phase = "load" /\ Len(Image) > MEMORY_SIZE /\ Panic

LoadDone ==
  /\ phase = "load" /\ loaded = Len(Image)
  /\ phase' = "devices"
  /\ UNCHANGED <<loaded, ram, offers, nodes, calls, last>>

(* Mutant of Overlap: looks at the new range's ends only.                  *)
OverlapEnds(node, r) ==
  /\ node.write = r.write
  /\ \/ node.start < r.end /\ r.end < node.end
     \/ node.start < r.start /\ r.start < node.end

(* The condition under which mmio_append_node() gives up.                  *)
Overlap(node, r) ==
  node.write = r.write /\ node.start < r.end /\ node.end > r.start

Rejected(w, r) == \E i \in DOMAIN nodes[w] : Overlap(nodes[w][i], r)

(* mmio_register_*().                                                      *)
Register(o) ==
  /\ phase = "devices" /\ ~Rejected(o.width, o.range)
  /\ offers' = offers \ {o}
  /\ nodes' = [nodes EXCEPT ![o.width] = <<o.range>> \o @]
  /\ UNCHANGED <<phase, loaded, ram, calls, last>>

RegisterOverlap(o) == phase = "devices" /\ Rejected(o.width, o.range) /\ Panic

(* devicetree_init() returns and cpu_exec() starts.                        *)
Start ==
  /\ phase = "devices" /\ offers = {}
  /\ phase' = "run"
  /\ UNCHANGED <<loaded, ram, offers, nodes, calls, last>>

(* The registrations of dev_ata_init() for the disk at `base': every width *)
(* and direction but 16-bit writes.                                        *)
AtaOffers(base, size) ==
  LET offer(w, wr) ==
        [width |-> w, range |-> [write |-> wr, start |-> base, end |-> base + size - 1, device |-> "ata"]]
  IN  {offer(w, wr) : w \in Width, wr \in BOOLEAN} \ {offer(2, TRUE)}
-----------------------------------------------------------------------------
(* Helpers.                                                                *)

Serves(node, addr, write) == node.write = write /\ node.start <= addr /\ addr <= node.end
Serving(w, addr, write) == {i \in DOMAIN nodes[w] : Serves(nodes[w][i], addr, write)}

(* match_mmio_handler(), for a device address: the newest node that fits.  *)
Handler(w, addr, write) ==
  LET fit == Serving(w, addr, write)
  IN  nodes[w][CHOOSE i \in fit : \A j \in fit : i <= j].device

(* The single accesses an access of width w at addr is made of: itself, if *)
(* addr belongs to the devices, and else its bytes.                        *)
Parts(w, addr) ==
  IF addr >= MMIO_PHY_BASE THEN {[width |-> w, addr |-> addr]}
  ELSE {[width |-> 1, addr |-> addr + k] : k \in 0 .. (w - 1)}

DeviceParts(w, addr) == {p \in Parts(w, addr) : p.addr >= MMIO_PHY_BASE}
Served(w, addr, write) == \A p \in DeviceParts(w, addr) : Serving(p.width, p.addr, write) # {}

(* The calls of handlers that an access leads to.                          *)
CallsOf(w, addr, write) ==
  {[width |-> p.width, addr |-> p.addr, write |-> write, device |-> Handler(p.width, p.addr, write)] :
     p \in DeviceParts(w, addr)}

(* Bytes beyond the RAM but below the devices, past the end of cpu_memory. *)
Outside(w, addr) == \E p \in Parts(w, addr) : p.addr >= MEMORY_SIZE /\ p.addr < MMIO_PHY_BASE

(* Mutant of Digit: the highest byte first.                                *)
DigitBigEndian(v, k, w) == (v \div Scale(w - 1 - k)) % BYTE

(* Mutant of Digit: the rest of the value is not cut off.                  *)
DigitUncut(v, k, w) == v \div Scale(k)

(* Byte k of a value of w bytes, the lowest first.                         *)
Digit(v, k, w) == (v \div Scale(k)) % BYTE

(* The value of w bytes.                                                   *)
Word(byte, w) ==
  CASE w = 1 -> byte[0]
    [] w = 2 -> byte[1] * BYTE + byte[0]
    [] w = 4 -> ((byte[3] * BYTE + byte[2]) * BYTE + byte[1]) * BYTE + byte[0]

(* Mutant of Translate: the page number is added, not put in place.        *)
TranslateAdded(va) == (Frame[va \div PAGE_SIZE] * PAGE_SIZE + va) % ADDR_SPACE

(* dmmu_translate_vma() for an access that hits.                           *)
Translate(va) == Frame[va \div PAGE_SIZE] * PAGE_SIZE + (va % PAGE_SIZE)
-----------------------------------------------------------------------------
(***************************************************************************)
(* The guest's accesses at the virtual address va: phy_writem8() and so    *)
(* on.  The emulator's process may or may not survive one past the end of  *)
(* cpu_memory, and such a load may return anything.                        *)
(***************************************************************************)
Store(w, va, v) ==
  LET addr == Translate(va)
  IN  /\ phase = "run" /\ Served(w, addr, TRUE)
      /\ ram' = [a \in Ram |-> IF [width |-> 1, addr |-> a] \in Parts(w, addr)
                               THEN Digit(v, a - addr, w) ELSE ram[a]]
      /\ calls' = CallsOf(w, addr, TRUE) /\ last' = Access("store", w, va, v)
      /\ UNCHANGED <<phase, loaded, offers, nodes>>

Load(w, va) ==
  LET addr == Translate(va)
  IN  /\ phase = "run" /\ Served(w, addr, FALSE)
      /\ \E byte \in [0 .. (w - 1) -> Byte] :
           /\ \A k \in 0 .. (w - 1) : addr + k \in Ram => byte[k] = ram[addr + k]
           /\ last' = Access("load", w, va, Word(byte, w))
      /\ calls' = CallsOf(w, addr, FALSE)
      /\ UNCHANGED <<phase, loaded, ram, offers, nodes>>

(* No handler: "accessing invalid mmio address".                           *)
AccessUnserved(w, va, write) ==
  phase = "run" /\ ~Served(w, Translate(va), write) /\ Panic

AccessOutside(w, va) == phase = "run" /\ Outside(w, Translate(va)) /\ Panic

Setup ==
  \/ \E n \in 1 .. CHUNK_SIZE : LoadChunk(n)
  \/ LoadOutside \/ LoadDone \/ Start
  \/ \E o \in offers : Register(o) \/ RegisterOverlap(o)

Accesses ==
  \E va \in Address, w \in Width :
    \/ \E v \in Stored[w] : Store(w, va, v)
    \/ Load(w, va)
    \/ \E write \in BOOLEAN : AccessUnserved(w, va, write)
    \/ AccessOutside(w, va)

Exited == phase = "exited" /\ UNCHANGED vars

Next == Setup \/ Accesses \/ Exited

Spec == Init /\ [][Next]_vars
-----------------------------------------------------------------------------
(* Properties.                                                             *)

TypeOK ==
  /\ phase \in {"load", "devices", "run", "exited"}
  /\ loaded \in 0 .. Len(Image)
  /\ ram \in [Ram -> Byte]
  /\ nodes \in [Width -> Seq(Range)]
  /\ last.width \in Width /\ last.va \in Address /\ last.value \in 0 .. (Scale(last.width) - 1)

(***************************************************************************)
(* Whatever the short reads of fread() were, the RAM the core starts with  *)
(* is the image file from address 0 and zeros after it.                    *)
(***************************************************************************)
ImageLoaded ==
  phase = "devices" => ram = [a \in Ram |-> IF a < Len(Image) THEN Image[a + 1] ELSE 0]

(* What a load of w bytes at `addr' returns when the RAM holds `bytes'.    *)
ValueAt(bytes, w, addr) == Word([k \in 0 .. (w - 1) |-> bytes[addr + k]], w)
InRam(w, addr) == addr + w <= MEMORY_SIZE

(***************************************************************************)
(* The six access functions agree on the byte order: a store is read back  *)
(* by a load of its width, by byte loads lowest first, and changes no      *)
(* value that lies elsewhere, of whichever width.                          *)
(***************************************************************************)
Agree ==
  LET w == last'.width
      v == last'.value
      addr == Translate(last'.va)
  IN  last' # last /\ last'.op = "store" =>
        /\ InRam(w, addr) =>
             /\ ValueAt(ram', w, addr) = v
             /\ \A k \in 0 .. (w - 1) : ram'[addr + k] = (v \div Scale(k)) % BYTE
        /\ \A w2 \in Width, a \in Ram :
             InRam(w2, a) /\ (a + w2 <= addr \/ addr + w <= a) => ValueAt(ram', w2, a) = ValueAt(ram, w2, a)
ByteOrder == [][Agree]_vars

(***************************************************************************)
(* Only the first byte of an access is translated.  As long as the guest   *)
(* aligns its accesses that is enough: whatever a store changes, and every *)
(* device that an access reaches, lies in the frame of its page and is     *)
(* accessed at once.  (An unaligned access raises no exception, though     *)
(* VECT_EALGIN names a vector for it.)                                     *)
(***************************************************************************)
Framed ==
  LET frame == Frame[last'.va \div PAGE_SIZE]
  IN  last' # last /\ last'.va % last'.width = 0 =>
        /\ \A a \in Ram : ram'[a] # ram[a] => a \div PAGE_SIZE = frame
        /\ \A c \in calls' : c.addr \div PAGE_SIZE = frame /\ c.width = last'.width
AlignedInFrame == [][Framed]_vars

SharedBy(m, n) == {a \in MMIO_PHY_BASE .. (ADDR_SPACE - 1) :
                     m.start <= a /\ a <= m.end /\ n.start <= a /\ a <= n.end}

(***************************************************************************)
(* However many devices register, in whatever order: two ranges of one     *)
(* width and direction have at most one address in common, an end of both. *)
(***************************************************************************)
SharedEnd(m, n) ==
  m.write = n.write => \A a, b \in SharedBy(m, n) : a = b /\ a \in {m.start, m.end} /\ a \in {n.start, n.end}
OneSharedAddress ==
  \A w \in Width : \A i, j \in DOMAIN nodes[w] : i # j => SharedEnd(nodes[w][i], nodes[w][j])
=============================================================================
