---------------------------- MODULE StartupProofs ----------------------------
(***************************************************************************)
(* What start-up leaves behind, for every size of the RAM, every image,    *)
(* every number of devices and ranges, and every guest.                    *)
(***************************************************************************)
EXTENDS Startup, TLAPS

(* The RAM when the first n bytes of the image have been read.             *)
Read(n) == [a \in Ram |-> IF a < n THEN Image[a + 1] ELSE 0]

Loading ==
  /\ loaded \in 0 .. Len(Image)
  /\ phase = "load" => ram = Read(loaded)
  /\ phase = "devices" => ram = Read(Len(Image))

Registered ==
  /\ offers \subseteq UNION Boards
  /\ nodes \in [Width -> Seq(Range)]
  /\ OneSharedAddress

(* A chunk that follows the bytes read so far extends them.                *)
LEMMA ChunkExtends ==
  ASSUME NEW n \in 1 .. CHUNK_SIZE, Loading, LoadChunk(n)
  PROVE  Loading'
<1>1. Len(Image) \in Nat /\ n \in Nat /\ loaded \in Nat /\ loaded + n <= Len(Image)
  BY SpaceAssumption DEF Loading, LoadChunk, Byte
<1>2. phase = "load" /\ phase' = "load" /\ loaded' = loaded + n /\ ram = Read(loaded)
  BY DEF Loading, LoadChunk
<1>3. Ram \subseteq Nat
  BY SpaceAssumption DEF Ram
<1>4. ram' = Read(loaded + n)
  <2>1. \A a \in Ram : (IF a \in loaded .. (loaded + n - 1) THEN Image[a + 1] ELSE ram[a])
                         = IF a < loaded + n THEN Image[a + 1] ELSE 0
    BY <1>1, <1>2, <1>3 DEF Read
  <2>. QED  BY <2>1 DEF LoadChunk, Read
<1>. QED  BY <1>1, <1>2, <1>4 DEF Loading

(* Two ranges that pass the check of mmio_append_node() share at most one  *)
(* address, an end of both.                                                *)
LEMMA AcceptedShareEnd ==
  ASSUME NEW m \in Range, NEW n \in Range, ~Overlap(n, m)
  PROVE  SharedEnd(m, n) /\ SharedEnd(n, m)
<1>. SUFFICES ASSUME m.write = n.write
              PROVE  SharedEnd(m, n) /\ SharedEnd(n, m)
  BY DEF SharedEnd
<1>1. /\ m.start \in Int /\ m.end \in Int /\ n.start \in Int /\ n.end \in Int
      /\ MMIO_PHY_BASE \in Int /\ ADDR_SPACE \in Int
  BY SpaceAssumption DEF Range, Address
<1>2. n.start >= m.end \/ n.end <= m.start
  BY <1>1 DEF Overlap
<1>. QED  BY <1>1, <1>2 DEF SharedEnd, SharedBy

(* A range put in front of a list of ranges.                               *)
LEMMA InFront ==
  ASSUME NEW r \in Range, NEW s \in Seq(Range)
  PROVE  /\ <<r>> \o s \in Seq(Range)
         /\ DOMAIN (<<r>> \o s) = 1 .. (Len(s) + 1) /\ DOMAIN s = 1 .. Len(s)
         /\ Len(s) \in Nat
         /\ (<<r>> \o s)[1] = r
         /\ \A i \in 2 .. (Len(s) + 1) : (<<r>> \o s)[i] = s[i - 1]
OBVIOUS

(* A registration that is not rejected keeps the ranges apart.             *)
LEMMA RegisterApart ==
  ASSUME NEW o \in offers, Registered, Register(o)
  PROVE  Registered'
<1>1. o.width \in Width /\ o.range \in Range /\ nodes[o.width] \in Seq(Range)
  BY OfferAssumption DEF Registered
<1>. DEFINE old == nodes[o.width]
            new == <<o.range>> \o old
<1>2. nodes' = [nodes EXCEPT ![o.width] = new] /\ offers' = offers \ {o}
  BY DEF Register
<1>3. \A i \in DOMAIN old : SharedEnd(o.range, old[i]) /\ SharedEnd(old[i], o.range)
  <2>. TAKE i \in DOMAIN old
  <2>1. old[i] \in Range
    BY <1>1
  <2>2. ~Overlap(old[i], o.range)
    BY DEF Register, Rejected
  <2>. QED  BY <1>1, <2>1, <2>2, AcceptedShareEnd
<1>4. \A i, j \in DOMAIN old : i # j => SharedEnd(old[i], old[j])
  BY <1>1 DEF Registered, OneSharedAddress
<1>5. \A i, j \in DOMAIN new : i # j => SharedEnd(new[i], new[j])
  <2>. HIDE DEF old, new
  <2>1. /\ DOMAIN new = 1 .. (Len(old) + 1) /\ DOMAIN old = 1 .. Len(old) /\ Len(old) \in Nat
        /\ new[1] = o.range /\ \A i \in 2 .. (Len(old) + 1) : new[i] = old[i - 1]
    BY <1>1, InFront DEF old, new
  <2>. TAKE i, j \in DOMAIN new
  <2>. HAVE i # j
  <2>2. CASE i = 1
    <3>1. j \in 2 .. (Len(old) + 1) /\ j - 1 \in DOMAIN old
      BY <2>1, <2>2
    <3>. QED  BY <1>3, <2>1, <2>2, <3>1
  <2>3. CASE j = 1
    <3>1. i \in 2 .. (Len(old) + 1) /\ i - 1 \in DOMAIN old
      BY <2>1, <2>3
    <3>. QED  BY <1>3, <2>1, <2>3, <3>1
  <2>4. CASE i # 1 /\ j # 1
    <3>1. /\ i \in 2 .. (Len(old) + 1) /\ i - 1 \in DOMAIN old
          /\ j \in 2 .. (Len(old) + 1) /\ j - 1 \in DOMAIN old
          /\ i - 1 # j - 1
      BY <2>1, <2>4
    <3>. QED  BY <1>4, <2>1, <3>1
  <2>. QED  BY <2>2, <2>3, <2>4
<1>6. new \in Seq(Range)
  BY <1>1, InFront
<1>7. nodes' \in [Width -> Seq(Range)]
  BY <1>1, <1>2, <1>6 DEF Registered
<1>8. OneSharedAddress'
  <2>. HIDE DEF new
  <2>. SUFFICES ASSUME NEW w \in Width
                PROVE  \A i, j \in DOMAIN nodes'[w] : i # j => SharedEnd(nodes'[w][i], nodes'[w][j])
    BY DEF OneSharedAddress
  <2>1. CASE w = o.width
    BY <1>2, <1>5, <2>1 DEF Registered
  <2>2. CASE w # o.width
    <3>1. nodes'[w] = nodes[w]
      BY <1>2, <2>2 DEF Registered
    <3>. QED  BY <3>1 DEF Registered, OneSharedAddress
  <2>. QED  BY <2>1, <2>2
<1>. QED  BY <1>2, <1>7, <1>8 DEF Registered

(* Nothing else registers a range.                                         *)
LEMMA RegisteredKept ==
  ASSUME Registered, UNCHANGED <<offers, nodes>>
  PROVE  Registered'
BY DEF Registered, OneSharedAddress

(* Nothing but loading writes the RAM before the devices are set up.       *)
LEMMA LoadingKept ==
  ASSUME Loading, UNCHANGED loaded, phase' \in {"run", "exited"} \/ UNCHANGED <<phase, ram>>
  PROVE  Loading'
BY DEF Loading

(* An access of the guest changes neither the ranges nor the phase, unless *)
(* it ends the process.                                                    *)
LEMMA AccessFrame ==
  ASSUME Accesses
  PROVE  UNCHANGED <<offers, nodes, loaded>> /\ phase' \in {"run", "exited"}
<1>1. PICK va \in Address, w \in Width :
        \/ \E v \in Stored[w] : Store(w, va, v)
        \/ Load(w, va)
        \/ \E write \in BOOLEAN : AccessUnserved(w, va, write)
        \/ AccessOutside(w, va)
  BY DEF Accesses
<1>2. CASE \E v \in Stored[w] : Store(w, va, v)
  BY <1>2 DEF Store
<1>3. CASE Load(w, va)
  BY <1>3 DEF Load
<1>4. CASE \E write \in BOOLEAN : AccessUnserved(w, va, write)
  BY <1>4 DEF AccessUnserved, Panic
<1>5. CASE AccessOutside(w, va)
  BY <1>5 DEF AccessOutside, Panic
<1>. QED  BY <1>1, <1>2, <1>3, <1>4, <1>5

(* A step of start-up, or of the guest, keeps both halves.                 *)
LEMMA StepKeeps == Loading /\ Registered /\ [Next]_vars => Loading' /\ Registered'
<1>. SUFFICES ASSUME Loading, Registered, [Next]_vars
              PROVE  Loading' /\ Registered'
  OBVIOUS
<1>1. ASSUME NEW n \in 1 .. CHUNK_SIZE, LoadChunk(n)
      PROVE  Loading' /\ Registered'
  <2>1. UNCHANGED <<offers, nodes>>
    BY <1>1 DEF LoadChunk
  <2>. QED  BY <1>1, <2>1, ChunkExtends, RegisteredKept
<1>2. CASE LoadOutside
  <2>1. UNCHANGED <<offers, nodes, loaded>> /\ phase' = "exited"
    BY <1>2 DEF LoadOutside, Panic
  <2>. QED  BY <2>1, LoadingKept, RegisteredKept
<1>3. CASE LoadDone
  <2>1. UNCHANGED <<offers, nodes, ram, loaded>> /\ phase' = "devices"
        /\ phase = "load" /\ loaded = Len(Image)
    BY <1>3 DEF LoadDone
  <2>. QED  BY <2>1, RegisteredKept DEF Loading
<1>4. CASE Start
  <2>1. UNCHANGED <<offers, nodes, loaded>> /\ phase' = "run"
    BY <1>4 DEF Start
  <2>. QED  BY <2>1, LoadingKept, RegisteredKept
<1>5. ASSUME NEW o \in offers, Register(o)
      PROVE  Loading' /\ Registered'
  <2>1. UNCHANGED <<phase, loaded, ram>>
    BY <1>5 DEF Register
  <2>. QED  BY <1>5, <2>1, LoadingKept, RegisterApart
<1>6. ASSUME NEW o \in offers, RegisterOverlap(o)
      PROVE  Loading' /\ Registered'
  <2>1. UNCHANGED <<offers, nodes, loaded>> /\ phase' = "exited"
    BY <1>6 DEF RegisterOverlap, Panic
  <2>. QED  BY <2>1, LoadingKept, RegisteredKept
<1>7. CASE Accesses
  BY <1>7, AccessFrame, LoadingKept, RegisteredKept
<1>8. CASE Exited \/ UNCHANGED vars
  <2>1. UNCHANGED <<phase, loaded, ram, offers, nodes>>
    BY <1>8 DEF Exited, vars
  <2>. QED  BY <2>1, LoadingKept, RegisteredKept
<1>. QED  BY <1>1, <1>2, <1>3, <1>4, <1>5, <1>6, <1>7, <1>8 DEF Next, Setup

(* Before the first chunk the RAM is zero, and no range is registered.     *)
LEMMA InitKeeps == Init => Loading /\ Registered
<1>. SUFFICES ASSUME Init
              PROVE  Loading /\ Registered
  OBVIOUS
<1>1. Len(Image) \in Nat /\ Ram \subseteq Nat
  BY SpaceAssumption DEF Ram, Byte
<1>2. Loading
  BY <1>1 DEF Init, Loading, Read
<1>3. nodes \in [Width -> Seq(Range)] /\ offers \subseteq UNION Boards
  BY DEF Init
<1>4. OneSharedAddress
  BY DEF Init, OneSharedAddress
<1>. QED  BY <1>2, <1>3, <1>4 DEF Registered

-----------------------------------------------------------------------------
(* Addresses, pages and the handlers that an access reaches.               *)
(* The sizes that the code fixes, in the form that the steps below need.   *)
LEMMA Sizes ==
  /\ MEMORY_SIZE \in Nat /\ ADDR_SPACE \in Nat /\ MMIO_PHY_BASE \in Nat /\ MEMORY_SIZE <= MMIO_PHY_BASE
  /\ MMIO_PHY_BASE % 4 = 0 /\ BYTE \in Nat \ {0} /\ PAGE_SIZE \in Nat \ {0} /\ PAGE_SIZE % 4 = 0
  /\ Len(Image) \in Nat /\ \A k \in 1 .. Len(Image) : Image[k] \in Byte
BY SpaceAssumption, PageAssumption DEF Byte

(* Division with remainder.                                                *)
LEMMA Divided ==
  ASSUME NEW n \in Nat, NEW d \in Nat \ {0}
  PROVE  /\ n \div d \in Nat /\ (n % d) \in 0 .. (d - 1)
         /\ n = d * (n \div d) + (n % d)
OBVIOUS

(* The quotient of a number that is put together from one.                 *)
LEMMA QuotientUnique ==
  ASSUME NEW q \in Nat, NEW d \in Nat \ {0}, NEW r \in 0 .. (d - 1)
  PROVE  (q * d + r) \div d = q
OBVIOUS

(* The page of an address below a whole number of pages.                   *)
LEMMA QuotientBelow ==
  ASSUME NEW n \in Nat, NEW m \in Nat, NEW d \in Nat \ {0}, m % d = 0, n < m
  PROVE  n \div d \in 0 .. (m \div d - 1)
<1>. DEFINE q == n \div d
            p == m \div d
<1>1. q \in Nat /\ p \in Nat /\ (n % d) \in Nat /\ n = d * q + (n % d) /\ m = d * p + 0
  BY Divided
<1>2. d * q < d * p
  <2>. DEFINE x == d * q
              y == d * p
  <2>1. x \in Int /\ y \in Int
    BY <1>1
  <2>. HIDE DEF x, y
  <2>2. n = x + (n % d) /\ m = y + 0
    BY <1>1 DEF x, y
  <2>3. x < y
    BY <1>1, <2>1, <2>2
  <2>. QED  BY <2>3 DEF x, y
<1>3. ASSUME p <= q
      PROVE  d * p <= d * q
  <2>1. q - p \in Nat /\ q = p + (q - p)
    BY <1>1, <1>3
  <2>2. d * (q - p) >= 0 /\ d * (p + (q - p)) = d * p + d * (q - p)
    BY <1>1, <2>1
  <2>3. d * (q - p) \in Int /\ d * p \in Int
    BY <1>1
  <2>. QED  BY <2>1, <2>2, <2>3
<1>4. d * p \in Int /\ d * q \in Int
  BY <1>1
<1>. QED  BY <1>1, <1>2, <1>3, <1>4

(* dmmu_translate_vma() keeps the place within the page.                   *)
LEMMA Translated ==
  ASSUME NEW va \in Address
  PROVE  /\ Frame[va \div PAGE_SIZE] \in Nat
         /\ (va % PAGE_SIZE) \in 0 .. (PAGE_SIZE - 1)
         /\ Translate(va) \in Nat
         /\ Translate(va) = Frame[va \div PAGE_SIZE] * PAGE_SIZE + (va % PAGE_SIZE)
         /\ \A k \in Nat : (va % PAGE_SIZE) + k < PAGE_SIZE =>
              (Translate(va) + k) \div PAGE_SIZE = Frame[va \div PAGE_SIZE]
<1>1. va \in Nat /\ va < ADDR_SPACE /\ ADDR_SPACE \in Nat /\ PAGE_SIZE \in Nat \ {0} /\ ADDR_SPACE % PAGE_SIZE = 0
  BY Sizes, PageAssumption DEF Address
<1>2. va \div PAGE_SIZE \in 0 .. (ADDR_SPACE \div PAGE_SIZE - 1)
  BY <1>1, QuotientBelow
<1>3. Frame[va \div PAGE_SIZE] \in Nat
  <2>1. Frame[va \div PAGE_SIZE] \in 0 .. (ADDR_SPACE \div PAGE_SIZE - 1)
    BY <1>2, PageAssumption
  <2>2. ADDR_SPACE \div PAGE_SIZE \in Nat
    BY <1>1, Divided
  <2>. QED  BY <2>1, <2>2
<1>4. (va % PAGE_SIZE) \in 0 .. (PAGE_SIZE - 1)
  BY <1>1, Divided
<1>. DEFINE f == Frame[va \div PAGE_SIZE]
            o == (va % PAGE_SIZE)
<1>5. Translate(va) = f * PAGE_SIZE + o
  BY DEF Translate
<1>. HIDE DEF f, o
<1>6. f \in Nat /\ o \in 0 .. (PAGE_SIZE - 1)
  BY <1>3, <1>4 DEF f, o
<1>7. f * PAGE_SIZE \in Nat
  BY <1>1, <1>6
<1>8. ASSUME NEW k \in Nat, o + k < PAGE_SIZE
      PROVE  (Translate(va) + k) \div PAGE_SIZE = f
  <2>1. o + k \in 0 .. (PAGE_SIZE - 1)
    BY <1>1, <1>6, <1>8
  <2>2. (f * PAGE_SIZE + (o + k)) \div PAGE_SIZE = f
    BY <1>1, <1>6, <2>1, QuotientUnique
  <2>3. (f * PAGE_SIZE + o) + k = f * PAGE_SIZE + (o + k)
    BY <1>6, <1>7
  <2>. QED  BY <1>5, <2>2, <2>3
<1>9. Translate(va) \in Nat
  BY <1>1, <1>5, <1>6, <1>7
<1>. QED  BY <1>4, <1>5, <1>6, <1>8, <1>9 DEF f, o

(* An aligned access stays within its page and its side of MMIO_PHY_BASE.  *)
LEMMA AlignedStays ==
  ASSUME NEW va \in Address, NEW w \in Width, va % w = 0
  PROVE  /\ (va % PAGE_SIZE) + w <= PAGE_SIZE
         /\ Translate(va) < MMIO_PHY_BASE => Translate(va) + w <= MMIO_PHY_BASE
<1>. DEFINE q == va \div PAGE_SIZE
            o == (va % PAGE_SIZE)
            s == PAGE_SIZE \div 4
            f == Frame[q]
            b == MMIO_PHY_BASE \div 4
            t == s * q
            u == s * f
            addr == Translate(va)
<1>1. /\ va \in Nat /\ PAGE_SIZE \in Nat \ {0} /\ q \in Nat /\ f \in Nat /\ addr \in Nat
      /\ o \in 0 .. (PAGE_SIZE - 1) /\ MMIO_PHY_BASE \in Nat
  <2>1. va \in Nat /\ PAGE_SIZE \in Nat \ {0} /\ MMIO_PHY_BASE \in Nat
    BY Sizes DEF Address
  <2>2. q \in Nat
    BY <2>1, Divided
  <2>3. f \in Nat /\ addr \in Nat /\ o \in 0 .. (PAGE_SIZE - 1)
    BY Translated
  <2>. QED  BY <2>1, <2>2, <2>3
<1>2. va = PAGE_SIZE * q + o /\ addr = f * PAGE_SIZE + o
  BY <1>1, Translated, Divided
<1>3. s \in Nat /\ b \in Nat /\ PAGE_SIZE = 4 * s /\ MMIO_PHY_BASE = 4 * b
  BY Sizes
<1>. HIDE DEF q, o, f, s, b, addr
<1>4. t \in Nat /\ u \in Nat /\ PAGE_SIZE * q = 4 * t /\ f * PAGE_SIZE = 4 * u
  <2>1. (4 * s) * q = 4 * (s * q) /\ f * (4 * s) = 4 * (s * f)
    BY <1>1, <1>3
  <2>. QED  BY <1>1, <1>3, <2>1
<1>. HIDE DEF t, u
<1>5. va = 4 * t + o /\ addr = 4 * u + o
  BY <1>2, <1>4
<1>6. CASE w = 1
  BY <1>1, <1>3, <1>4, <1>5, <1>6 DEF o, addr
<1>7. CASE w = 2
  BY <1>1, <1>3, <1>4, <1>5, <1>7 DEF o, addr
<1>8. CASE w = 4
  BY <1>1, <1>3, <1>4, <1>5, <1>8 DEF o, addr
<1>. QED  BY <1>6, <1>7, <1>8 DEF Width

(* The bytes of the RAM that an access is made of.                         *)
LEMMA PartsOfRam ==
  ASSUME NEW w \in Width, NEW addr \in Nat, NEW a \in Ram
  PROVE  [width |-> 1, addr |-> a] \in Parts(w, addr) <=> addr <= a /\ a < addr + w
<1>1. a \in Nat /\ a < MMIO_PHY_BASE /\ w \in Nat \ {0}
  BY Sizes DEF Ram, Width
<1>2. CASE addr >= MMIO_PHY_BASE
  <2>1. [width |-> 1, addr |-> a] # [width |-> w, addr |-> addr]
    BY <1>1, <1>2, Sizes
  <2>2. ~(addr <= a)
    BY <1>1, <1>2, Sizes
  <2>. QED  BY <1>2, <2>1, <2>2 DEF Parts
<1>3. CASE ~(addr >= MMIO_PHY_BASE)
  <2>1. Parts(w, addr) = {[width |-> 1, addr |-> addr + k] : k \in 0 .. (w - 1)}
    BY <1>3 DEF Parts
  <2>2. addr <= a /\ a < addr + w => a - addr \in 0 .. (w - 1) /\ a = addr + (a - addr)
    BY <1>1
  <2>3. \A k \in 0 .. (w - 1) : addr <= addr + k /\ addr + k < addr + w
    BY <1>1
  <2>. QED  BY <2>1, <2>2, <2>3
<1>. QED  BY <1>2, <1>3

(* The handlers that an aligned access calls lie in the page's frame.      *)
LEMMA CallsFramed ==
  ASSUME NEW va \in Address, NEW w \in Width, NEW write, va % w = 0,
         NEW c \in CallsOf(w, Translate(va), write)
  PROVE  c.addr \div PAGE_SIZE = Frame[va \div PAGE_SIZE] /\ c.width = w
<1>. DEFINE addr == Translate(va)
<1>0. addr \in Nat /\ w \in Nat \ {0} /\ MMIO_PHY_BASE \in Nat
  BY Translated, Sizes DEF Width
<1>1. PICK p \in Parts(w, addr) : p.addr >= MMIO_PHY_BASE /\ c.addr = p.addr /\ c.width = p.width
  BY DEF CallsOf, DeviceParts
<1>2. CASE addr >= MMIO_PHY_BASE
  <2>1. p = [width |-> w, addr |-> addr]
    BY <1>1, <1>2 DEF Parts
  <2>2. (addr + 0) \div PAGE_SIZE = Frame[va \div PAGE_SIZE]
    <3>1. (va % PAGE_SIZE) + 0 < PAGE_SIZE
      BY Translated, Sizes
    <3>. QED  BY <3>1, Translated
  <2>. QED  BY <1>0, <1>1, <2>1, <2>2
<1>3. CASE ~(addr >= MMIO_PHY_BASE)
  <2>1. PICK k \in 0 .. (w - 1) : p = [width |-> 1, addr |-> addr + k]
    BY <1>1, <1>3 DEF Parts
  <2>2. addr + w <= MMIO_PHY_BASE
    BY <1>0, <1>3, AlignedStays
  <2>3. addr + k < MMIO_PHY_BASE
    BY <1>0, <2>1, <2>2
  <2>. QED  BY <1>0, <1>1, <2>1, <2>3
<1>. QED  BY <1>2, <1>3

(* Only an access changes `last'.                                          *)
LEMMA AccessOrSame ==
  ASSUME [Next]_vars
  PROVE  \/ last' = last
         \/ \E va \in Address, w \in Width : (\E v \in Stored[w] : Store(w, va, v)) \/ Load(w, va)
BY DEF Next, Setup, Accesses, LoadChunk, LoadOutside, LoadDone, Start, Register, RegisterOverlap, AccessUnserved,
       AccessOutside, Panic, Exited, vars

(* Framed holds of every step: it needs no invariant.                      *)
LEMMA StepFramed == [Next]_vars => Framed
<1>. SUFFICES ASSUME [Next]_vars, last' # last, last'.va % last'.width = 0
              PROVE  /\ \A a \in Ram : ram'[a] # ram[a] => a \div PAGE_SIZE = Frame[last'.va \div PAGE_SIZE]
                     /\ \A c \in calls' : c.addr \div PAGE_SIZE = Frame[last'.va \div PAGE_SIZE]
                                          /\ c.width = last'.width
  BY DEF Framed
<1>1. PICK va \in Address, w \in Width : (\E v \in Stored[w] : Store(w, va, v)) \/ Load(w, va)
  BY AccessOrSame
<1>2. last'.va = va /\ last'.width = w
  <2>1. \E op, v : last' = Access(op, w, va, v)
    <3>1. CASE \E v \in Stored[w] : Store(w, va, v)
      BY <3>1 DEF Store
    <3>2. CASE Load(w, va)
      BY <3>2 DEF Load
    <3>. QED  BY <1>1, <3>1, <3>2
  <2>. QED  BY <2>1 DEF Access
<1>3. ASSUME NEW c \in calls'
      PROVE  c.addr \div PAGE_SIZE = Frame[va \div PAGE_SIZE] /\ c.width = w
  <2>1. \E write \in BOOLEAN : c \in CallsOf(w, Translate(va), write)
    BY <1>1, <1>3 DEF Store, Load
  <2>. QED  BY <1>2, <2>1, CallsFramed
<1>4. ASSUME NEW a \in Ram, ram'[a] # ram[a]
      PROVE  a \div PAGE_SIZE = Frame[va \div PAGE_SIZE]
  <2>. DEFINE addr == Translate(va)
  <2>1. PICK v \in Stored[w] : Store(w, va, v)
    BY <1>1, <1>4 DEF Load
  <2>2. [width |-> 1, addr |-> a] \in Parts(w, addr)
    BY <1>4, <2>1 DEF Store
  <2>3. addr \in Nat /\ a \in Nat /\ w \in Nat
    BY Translated, Sizes DEF Ram, Width
  <2>4. addr <= a /\ a < addr + w
    BY <2>2, <2>3, PartsOfRam
  <2>5. (va % PAGE_SIZE) + w <= PAGE_SIZE
    BY <1>2, AlignedStays
  <2>6. a - addr \in Nat /\ (va % PAGE_SIZE) + (a - addr) < PAGE_SIZE /\ addr + (a - addr) = a
    BY <2>3, <2>4, <2>5, Translated, Sizes
  <2>7. (addr + (a - addr)) \div PAGE_SIZE = Frame[va \div PAGE_SIZE]
    BY <2>6, Translated
  <2>. QED  BY <2>6, <2>7
<1>. QED  BY <1>2, <1>3, <1>4
-----------------------------------------------------------------------------
(* Bytes of a word and words of bytes.                                     *)
LEMMA DivTwice ==
  ASSUME NEW a \in Nat, NEW m \in Nat \ {0}, NEW n \in Nat \ {0}
  PROVE  (a \div m) \div n = a \div (m * n)
OBVIOUS

(* The top digit of a number of bounded size.                              *)
LEMMA QuotientLess ==
  ASSUME NEW a \in Nat, NEW m \in Nat \ {0}, NEW n \in Nat \ {0}, a < m * n
  PROVE  a \div m \in 0 .. (n - 1)
OBVIOUS

(* One more digit below a number.                                          *)
LEMMA Horner ==
  ASSUME NEW m \in Nat \ {0}, NEW n \in Nat \ {0}, NEW hi \in 0 .. (m - 1), NEW lo \in 0 .. (n - 1)
  PROVE  hi * n + lo \in 0 .. (m * n - 1)
OBVIOUS

(* The place values, without the case distinction.                         *)
LEMMA Scales ==
  /\ Scale(0) = 1 /\ Scale(1) = BYTE /\ Scale(2) = BYTE * BYTE
  /\ Scale(3) = BYTE * BYTE * BYTE /\ Scale(4) = BYTE * BYTE * BYTE * BYTE
  /\ \A k \in 0 .. 4 : Scale(k) \in Nat \ {0}
<1>1. BYTE \in Nat \ {0}
  BY Sizes
<1>2. /\ Scale(0) = 1 /\ Scale(1) = BYTE /\ Scale(2) = BYTE * BYTE
      /\ Scale(3) = BYTE * BYTE * BYTE /\ Scale(4) = BYTE * BYTE * BYTE * BYTE
  BY DEF Scale
<1>3. \A m, n \in Nat \ {0} : m * n \in Nat \ {0}
  OBVIOUS
<1>4. BYTE * BYTE \in Nat \ {0} /\ BYTE * BYTE * BYTE \in Nat \ {0} /\ BYTE * BYTE * BYTE * BYTE \in Nat \ {0}
  BY <1>1, <1>3
<1>. QED  BY <1>1, <1>2, <1>4

(* The value of bytes fits the width.                                      *)
LEMMA WordFits ==
  ASSUME NEW w \in Width, NEW byte, \A k \in 0 .. (w - 1) : byte[k] \in Byte
  PROVE  Word(byte, w) \in 0 .. (Scale(w) - 1)
<1>1. BYTE \in Nat \ {0} /\ BYTE * BYTE \in Nat \ {0} /\ BYTE * BYTE * BYTE \in Nat \ {0}
  BY Sizes, Scales
<1>2. CASE w = 1
  BY <1>2, Scales DEF Word, Byte
<1>3. CASE w = 2
  <2>1. byte[0] \in 0 .. (BYTE - 1) /\ byte[1] \in 0 .. (BYTE - 1)
    BY <1>3 DEF Byte
  <2>2. byte[1] * BYTE + byte[0] \in 0 .. (BYTE * BYTE - 1)
    BY <1>1, <2>1, Horner
  <2>. QED  BY <1>3, <2>2, Scales DEF Word
<1>4. CASE w = 4
  <2>1. /\ byte[0] \in 0 .. (BYTE - 1) /\ byte[1] \in 0 .. (BYTE - 1)
        /\ byte[2] \in 0 .. (BYTE - 1) /\ byte[3] \in 0 .. (BYTE - 1)
    BY <1>4 DEF Byte
  <2>2. byte[3] * BYTE + byte[2] \in 0 .. (BYTE * BYTE - 1)
    BY <1>1, <2>1, Horner
  <2>3. (byte[3] * BYTE + byte[2]) * BYTE + byte[1] \in 0 .. (BYTE * BYTE * BYTE - 1)
    BY <1>1, <2>1, <2>2, Horner
  <2>4. ((byte[3] * BYTE + byte[2]) * BYTE + byte[1]) * BYTE + byte[0] \in 0 .. (BYTE * BYTE * BYTE * BYTE - 1)
    BY <1>1, <2>1, <2>3, Horner
  <2>. QED  BY <1>4, <2>4, Scales DEF Word
<1>. QED  BY <1>2, <1>3, <1>4 DEF Width

(* The bytes of a value make up the value.                                 *)
LEMMA WordOfDigits ==
  ASSUME NEW w \in Width, NEW v \in 0 .. (Scale(w) - 1), NEW byte,
         \A k \in 0 .. (w - 1) : byte[k] = Digit(v, k, w)
  PROVE  Word(byte, w) = v
<1>1. BYTE \in Nat \ {0} /\ BYTE * BYTE \in Nat \ {0} /\ BYTE * BYTE * BYTE \in Nat \ {0}
  BY Sizes, Scales
<1>2. v \in Nat /\ v < Scale(w) /\ Scale(w) \in Nat
  BY Scales DEF Width
<1>. DEFINE a == v \div BYTE
            b == v \div (BYTE * BYTE)
            c == v \div (BYTE * BYTE * BYTE)
<1>3. a \in Nat /\ b \in Nat /\ c \in Nat
  BY <1>1, <1>2, Divided
<1>4. b = a \div BYTE /\ c = b \div BYTE
  BY <1>1, <1>2, DivTwice
<1>5. v = BYTE * a + (v % BYTE) /\ (v % BYTE) \in Nat
  BY <1>1, <1>2, Divided
<1>6. a = BYTE * b + (a % BYTE) /\ (a % BYTE) \in Nat
  <2>. HIDE DEF a, b, c
  <2>. QED  BY <1>1, <1>3, <1>4, Divided
<1>7. b = BYTE * c + (b % BYTE) /\ (b % BYTE) \in Nat
  <2>. HIDE DEF a, b, c
  <2>. QED  BY <1>1, <1>3, <1>4, Divided
<1>8. v \div 1 = v
  BY <1>2
<1>9. \A n \in 0 .. (BYTE - 1) : n % BYTE = n
  BY <1>1
<1>10. CASE w = 1
  <2>1. byte[0] = v % BYTE
    BY <1>8, <1>10, Scales DEF Digit
  <2>2. v \in 0 .. (BYTE - 1)
    BY <1>1, <1>2, <1>10, Scales
  <2>. QED  BY <1>9, <1>10, <2>1, <2>2 DEF Word
<1>11. CASE w = 2
  <2>1. byte[0] = v % BYTE /\ byte[1] = a % BYTE
    BY <1>8, <1>11, Scales DEF Digit
  <2>2. a \in 0 .. (BYTE - 1)
    BY <1>1, <1>2, <1>11, Scales, QuotientLess
  <2>3. byte[1] = a
    BY <1>9, <2>1, <2>2
  <2>. HIDE DEF a
  <2>4. a * BYTE + (v % BYTE) = v
    BY <1>1, <1>3, <1>5
  <2>. QED  BY <1>11, <2>1, <2>3, <2>4 DEF Word
<1>12. CASE w = 4
  <2>1. byte[0] = v % BYTE /\ byte[1] = a % BYTE /\ byte[2] = b % BYTE /\ byte[3] = c % BYTE
    BY <1>8, <1>12, Scales DEF Digit
  <2>2. c \in 0 .. (BYTE - 1)
    BY <1>1, <1>2, <1>12, Scales, QuotientLess
  <2>3. byte[3] = c
    BY <1>9, <2>1, <2>2
  <2>. HIDE DEF a, b, c
  <2>4. c * BYTE + (b % BYTE) = b
    BY <1>1, <1>3, <1>7
  <2>5. b * BYTE + (a % BYTE) = a
    BY <1>1, <1>3, <1>6
  <2>6. a * BYTE + (v % BYTE) = v
    BY <1>1, <1>3, <1>5
  <2>7. Word(byte, w) = ((byte[3] * BYTE + byte[2]) * BYTE + byte[1]) * BYTE + byte[0]
    BY <1>12 DEF Word
  <2>. QED  BY <2>1, <2>3, <2>4, <2>5, <2>6, <2>7
<1>. QED  BY <1>10, <1>11, <1>12 DEF Width

(* Equal bytes, equal values.                                              *)
LEMMA SameWord ==
  ASSUME NEW w \in Width, NEW x, NEW y, \A k \in 0 .. (w - 1) : x[k] = y[k]
  PROVE  Word(x, w) = Word(y, w)
<1>1. CASE w = 1
  BY <1>1 DEF Word
<1>2. CASE w = 2
  BY <1>2 DEF Word
<1>3. CASE w = 4
  <2>1. x[0] = y[0] /\ x[1] = y[1] /\ x[2] = y[2] /\ x[3] = y[3]
    BY <1>3
  <2>. QED  BY <1>3, <2>1 DEF Word
<1>. QED  BY <1>1, <1>2, <1>3 DEF Width

(* Agree holds of every step.                                              *)
LEMMA StepAgrees == [Next]_vars => Agree
<1>. SUFFICES ASSUME [Next]_vars, last' # last, last'.op = "store"
              PROVE  Agree
  BY DEF Agree
<1>1. PICK va \in Address, w \in Width : (\E v \in Stored[w] : Store(w, va, v)) \/ Load(w, va)
  BY AccessOrSame
<1>2. PICK v \in Stored[w] : Store(w, va, v)
  <2>1. ~Load(w, va)
    <3>1. SUFFICES ASSUME Load(w, va)
                   PROVE  FALSE
      OBVIOUS
    <3>2. \E value : last' = Access("load", w, va, value)
      BY <3>1 DEF Load
    <3>. QED  BY <3>2 DEF Access
  <2>. QED  BY <1>1, <2>1
<1>. DEFINE addr == Translate(va)
<1>3. last' = Access("store", w, va, v)
  BY <1>2 DEF Store
<1>4. last'.width = w /\ last'.va = va /\ last'.value = v
  BY <1>3 DEF Access
<1>5. addr \in Nat /\ w \in Nat \ {0} /\ v \in 0 .. (Scale(w) - 1) /\ MEMORY_SIZE \in Nat
  BY Translated, Sizes, SpaceAssumption DEF Width
<1>6. ram' = [a \in Ram |-> IF [width |-> 1, addr |-> a] \in Parts(w, addr) THEN Digit(v, a - addr, w) ELSE ram[a]]
  BY <1>2 DEF Store
<1>. HIDE DEF addr
<1>7. \A a \in Ram : ram'[a] = IF addr <= a /\ a < addr + w THEN Digit(v, a - addr, w) ELSE ram[a]
  BY <1>5, <1>6, PartsOfRam
<1>8. ASSUME InRam(w, addr)
      PROVE  /\ ValueAt(ram', w, addr) = v
             /\ \A k \in 0 .. (w - 1) : ram'[addr + k] = (v \div Scale(k)) % BYTE
  <2>1. ASSUME NEW k \in 0 .. (w - 1)
        PROVE  ram'[addr + k] = Digit(v, k, w)
    <3>1. addr + k \in Ram /\ addr <= addr + k /\ addr + k < addr + w /\ (addr + k) - addr = k
      BY <1>5, <1>8 DEF InRam, Ram
    <3>. QED  BY <1>7, <3>1
  <2>. DEFINE byte == [k \in 0 .. (w - 1) |-> ram'[addr + k]]
  <2>2. \A k \in 0 .. (w - 1) : byte[k] = Digit(v, k, w)
    BY <2>1
  <2>. HIDE DEF byte
  <2>3. Word(byte, w) = v
    BY <1>5, <2>2, WordOfDigits
  <2>4. ValueAt(ram', w, addr) = Word(byte, w)
    BY DEF ValueAt, byte
  <2>. QED  BY <2>1, <2>3, <2>4 DEF Digit
<1>9. ASSUME NEW w2 \in Width, NEW a \in Ram, InRam(w2, a), a + w2 <= addr \/ addr + w <= a
      PROVE  ValueAt(ram', w2, a) = ValueAt(ram, w2, a)
  <2>1. ASSUME NEW k \in 0 .. (w2 - 1)
        PROVE  ram'[a + k] = ram[a + k]
    <3>1. a \in Nat /\ w2 \in Nat
      BY Sizes DEF Ram, Width
    <3>2. a + k \in Ram /\ ~(addr <= a + k /\ a + k < addr + w)
      BY <1>5, <1>9, <3>1 DEF InRam, Ram
    <3>. QED  BY <1>7, <3>2
  <2>2. \A k \in 0 .. (w2 - 1) : [j \in 0 .. (w2 - 1) |-> ram'[a + j]][k] = [j \in 0 .. (w2 - 1) |-> ram[a + j]][k]
    BY <2>1
  <2>3. Word([j \in 0 .. (w2 - 1) |-> ram'[a + j]], w2) = Word([j \in 0 .. (w2 - 1) |-> ram[a + j]], w2)
    BY <2>2, SameWord
  <2>. QED  BY <2>3 DEF ValueAt
<1>. QED  BY <1>4, <1>8, <1>9 DEF Agree, addr

(* The types of what an access leaves.                                     *)
Typed ==
  /\ phase \in {"load", "devices", "run", "exited"}
  /\ ram \in [Ram -> Byte]
  /\ last.width \in Width /\ last.va \in Address /\ last.value \in 0 .. (Scale(last.width) - 1)

(* Every digit of a value is a byte.                                       *)
LEMMA DigitIsByte ==
  ASSUME NEW w \in Width, NEW v \in 0 .. (Scale(w) - 1), NEW k \in 0 .. (w - 1)
  PROVE  Digit(v, k, w) \in Byte
<1>1. w \in 0 .. 4 /\ k \in 0 .. 4
  BY DEF Width
<1>2. Scale(k) \in Nat \ {0} /\ Scale(w) \in Nat \ {0} /\ BYTE \in Nat \ {0}
  BY <1>1, Scales, Sizes
<1>3. v \div Scale(k) \in Nat
  <2>1. v \in Nat
    BY <1>2
  <2>. QED  BY <1>2, <2>1, Divided
<1>. QED  BY <1>2, <1>3, Divided DEF Digit, Byte

(* A store leaves bytes in the RAM.                                        *)
LEMMA StoreTyped ==
  ASSUME Typed, NEW va \in Address, NEW w \in Width, NEW v \in Stored[w], Store(w, va, v)
  PROVE  Typed'
<1>. DEFINE addr == Translate(va)
<1>1. v \in 0 .. (Scale(w) - 1) /\ addr \in Nat /\ w \in Nat
  BY SpaceAssumption, Translated DEF Width
<1>2. ram' = [a \in Ram |-> IF [width |-> 1, addr |-> a] \in Parts(w, addr) THEN Digit(v, a - addr, w) ELSE ram[a]]
  BY DEF Store
<1>. HIDE DEF addr
<1>3. ASSUME NEW a \in Ram
      PROVE  (IF [width |-> 1, addr |-> a] \in Parts(w, addr) THEN Digit(v, a - addr, w) ELSE ram[a]) \in Byte
  <2>1. CASE [width |-> 1, addr |-> a] \in Parts(w, addr)
    <3>1. addr <= a /\ a < addr + w /\ a \in Nat
      BY <1>1, <2>1, PartsOfRam, Sizes DEF Ram
    <3>2. a - addr \in 0 .. (w - 1)
      BY <1>1, <3>1
    <3>. QED  BY <1>1, <2>1, <3>2, DigitIsByte
  <2>2. CASE [width |-> 1, addr |-> a] \notin Parts(w, addr)
    BY <2>2 DEF Typed
  <2>. QED  BY <2>1, <2>2
<1>4. ram' \in [Ram -> Byte]
  BY <1>2, <1>3
<1>5. last' = Access("store", w, va, v) /\ phase' = phase
  BY DEF Store
<1>6. last'.width = w /\ last'.va = va /\ last'.value = v
  BY <1>5 DEF Access
<1>. QED  BY <1>1, <1>4, <1>5, <1>6 DEF Typed

(* A load returns a value of its width.                                    *)
LEMMA LoadTyped ==
  ASSUME Typed, NEW va \in Address, NEW w \in Width, Load(w, va)
  PROVE  Typed'
<1>1. PICK byte \in [0 .. (w - 1) -> Byte] : last' = Access("load", w, va, Word(byte, w))
  BY DEF Load
<1>2. Word(byte, w) \in 0 .. (Scale(w) - 1)
  BY WordFits
<1>3. last'.width = w /\ last'.va = va /\ last'.value = Word(byte, w)
  BY <1>1 DEF Access
<1>4. phase' = phase /\ ram' = ram
  BY DEF Load
<1>. QED  BY <1>2, <1>3, <1>4 DEF Typed

(* Every step keeps the types; loading puts bytes of the image in.         *)
LEMMA StepTyped == Loading /\ Typed /\ [Next]_vars => Typed'
<1>. SUFFICES ASSUME Loading, Typed, [Next]_vars
              PROVE  Typed'
  OBVIOUS
<1>1. ASSUME UNCHANGED <<ram, last>>, phase' \in {"load", "devices", "run", "exited"}
      PROVE  Typed'
  BY <1>1 DEF Typed
<1>2. ASSUME NEW n \in 1 .. CHUNK_SIZE, LoadChunk(n)
      PROVE  Typed'
  <2>1. loaded + n <= Len(Image) /\ loaded \in Nat /\ n \in Nat
    BY <1>2, Sizes, SpaceAssumption DEF LoadChunk, Loading
  <2>2. ASSUME NEW a \in Ram
        PROVE  (IF a \in loaded .. (loaded + n - 1) THEN Image[a + 1] ELSE ram[a]) \in Byte
    <3>1. CASE a \in loaded .. (loaded + n - 1)
      <4>1. a + 1 \in 1 .. Len(Image)
        BY <2>1, <3>1, Sizes
      <4>. QED  BY <3>1, <4>1, Sizes
    <3>2. CASE a \notin loaded .. (loaded + n - 1)
      BY <3>2 DEF Typed
    <3>. QED  BY <3>1, <3>2
  <2>3. ram' = [a \in Ram |-> IF a \in loaded .. (loaded + n - 1) THEN Image[a + 1] ELSE ram[a]]
    BY <1>2 DEF LoadChunk
  <2>4. ram' \in [Ram -> Byte]
    BY <2>2, <2>3
  <2>. QED  BY <1>2, <2>4 DEF LoadChunk, Typed
<1>3. CASE LoadOutside \/ LoadDone \/ Start
  BY <1>1, <1>3 DEF LoadOutside, LoadDone, Start, Panic
<1>4. ASSUME NEW o \in offers, Register(o) \/ RegisterOverlap(o)
      PROVE  Typed'
  BY <1>1, <1>4 DEF Register, RegisterOverlap, Panic, Typed
<1>5. ASSUME NEW va \in Address, NEW w \in Width, NEW v \in Stored[w], Store(w, va, v)
      PROVE  Typed'
  BY <1>5, StoreTyped
<1>6. ASSUME NEW va \in Address, NEW w \in Width, Load(w, va)
      PROVE  Typed'
  BY <1>6, LoadTyped
<1>7. ASSUME NEW va \in Address, NEW w \in Width,
             (\E write \in BOOLEAN : AccessUnserved(w, va, write)) \/ AccessOutside(w, va)
      PROVE  Typed'
  BY <1>1, <1>7 DEF AccessUnserved, AccessOutside, Panic
<1>8. CASE Exited \/ UNCHANGED vars
  BY <1>1, <1>8 DEF Exited, vars, Typed
<1>. QED  BY <1>2, <1>3, <1>4, <1>5, <1>6, <1>7, <1>8 DEF Next, Setup, Accesses

(* The types at the start.                                                 *)
LEMMA InitTyped == Init => Typed
<1>. SUFFICES ASSUME Init
              PROVE  Typed
  OBVIOUS
<1>1. last.width = 1 /\ last.va = 0 /\ last.value = 0
  BY DEF Init, Access
<1>2. 0 \in Address /\ 0 \in Byte /\ 0 \in 0 .. (Scale(1) - 1)
  <2>1. BYTE \in Nat \ {0} /\ ADDR_SPACE \in Nat
    BY Sizes
  <2>2. ADDR_SPACE >= 1
    BY SpaceAssumption
  <2>. QED  BY <2>1, <2>2, Scales DEF Address, Byte
<1>. QED  BY <1>1, <1>2 DEF Init, Typed, Width
-----------------------------------------------------------------------------
(* The identification block of the disk.                                   *)
Letters == 27  \* the first word of the model's name

(* The string that is being copied, with its zero and what follows.        *)
Source(s) == \E b \in Behind : text = s \o <<0>> \o b

(* The numbers that the capacity is computed from.                         *)
Geometry ==
  /\ id16[1] = Disk!Low(Disk!cylinders) /\ id16[3] = 16 /\ id16[6] = 64

(* Each word copied so far holds two bytes of the text.                    *)
Copied == \A w \in Letters .. (dst - 1) : id16[w] = text[2 * (w - Letters) + 1] * 256 + text[2 * (w - Letters) + 2]

(* The copy looks at every other byte of a text that ends with two zeros.  *)
Copying ==
  /\ dst \in Nat /\ dst >= Letters /\ str = 2 * (dst - Letters) + 1 /\ str <= Len(text)
  /\ text \in Seq(0 .. 127)
  /\ Len(text) >= 2 /\ text[Len(text)] = 0 /\ text[Len(text) - 1] = 0

BlockInv ==
  /\ step \in {"numbers", "firmware", "model", "done"}
  /\ DOMAIN id16 = 0 .. (ID_WORDS - 1)
  /\ step \in {"firmware", "model"} => Geometry /\ Copying
  /\ step = "model" => Source(model_number) /\ Copied
  /\ Disk!Addressable

(* A number below the divisor is its own remainder.                        *)
LEMMA Small ==
  ASSUME NEW n \in Nat \ {0}, NEW a \in 0 .. (n - 1)
  PROVE  a % n = a
OBVIOUS

(* The members of a sequence.                                              *)
LEMMA Element ==
  ASSUME NEW S, NEW s \in Seq(S), NEW k \in 1 .. Len(s)
  PROVE  s[k] \in S
OBVIOUS

(* A sequence made of two.                                                 *)
LEMMA Joined ==
  ASSUME NEW S, NEW a \in Seq(S), NEW b \in Seq(S)
  PROVE  /\ a \o b \in Seq(S) /\ Len(a \o b) = Len(a) + Len(b) /\ Len(a) \in Nat /\ Len(b) \in Nat
         /\ \A k \in 1 .. (Len(a) + Len(b)) : (a \o b)[k] = IF k <= Len(a) THEN a[k] ELSE b[k - Len(a)]
OBVIOUS

(* The text that a copy runs over ends with two zeros, and has none before *)
(* the string's end.                                                       *)
LEMMA Appended ==
  ASSUME NEW s \in Seq(1 .. 127), NEW b \in Behind, NEW t, t = s \o << 0 >> \o b
  PROVE  /\ t \in Seq(0 .. 127) /\ Len(t) >= 2 /\ t[Len(t)] = 0 /\ t[Len(t) - 1] = 0
         /\ \A k \in 1 .. Len(s) : t[k] = s[k] /\ t[k] # 0
         /\ Len(s) \in Nat
<1>1. b \in Seq(0 .. 127) /\ Len(b) >= 2 /\ b[Len(b)] = 0 /\ b[Len(b) - 1] = 0 /\ Len(b) \in Nat
  BY StringAssumption
<1>2. s \in Seq(0 .. 127) /\ Len(s) \in Nat
  OBVIOUS
<1>0. \A k \in 1 .. Len(s) : s[k] \in 1 .. 127
  BY Element
<1>. DEFINE u == s \o <<0>>
<1>3. <<0>> \in Seq(0 .. 127) /\ Len(<<0>>) = 1
  OBVIOUS
<1>4. /\ u \in Seq(0 .. 127) /\ Len(u) = Len(s) + 1
      /\ \A k \in 1 .. (Len(s) + 1) : u[k] = IF k <= Len(s) THEN s[k] ELSE <<0>>[k - Len(s)]
  BY <1>2, <1>3, Joined
<1>5. t = u \o b
  OBVIOUS
<1>. HIDE DEF u
<1>6. /\ t \in Seq(0 .. 127) /\ Len(t) = Len(u) + Len(b)
      /\ \A k \in 1 .. (Len(u) + Len(b)) : t[k] = IF k <= Len(u) THEN u[k] ELSE b[k - Len(u)]
  BY <1>1, <1>4, <1>5, Joined
<1>7. Len(t) = Len(s) + 1 + Len(b) /\ Len(t) >= 2
  BY <1>1, <1>2, <1>4, <1>6
<1>8. t[Len(t)] = b[Len(b)]
  <2>1. Len(t) \in 1 .. (Len(u) + Len(b)) /\ ~(Len(t) <= Len(u)) /\ Len(t) - Len(u) = Len(b)
    BY <1>1, <1>2, <1>4, <1>6
  <2>. QED  BY <1>6, <2>1
<1>9. t[Len(t) - 1] = b[Len(b) - 1]
  <2>1. /\ Len(t) - 1 \in 1 .. (Len(u) + Len(b)) /\ ~(Len(t) - 1 <= Len(u))
        /\ (Len(t) - 1) - Len(u) = Len(b) - 1
    BY <1>1, <1>2, <1>4, <1>6
  <2>. QED  BY <1>6, <2>1
<1>10. ASSUME NEW k \in 1 .. Len(s)
       PROVE  t[k] = s[k] /\ t[k] # 0
  <2>1. k \in 1 .. (Len(u) + Len(b)) /\ k <= Len(u) /\ k \in 1 .. (Len(s) + 1) /\ k <= Len(s)
    BY <1>1, <1>2, <1>4
  <2>2. t[k] = s[k] /\ s[k] \in 1 .. 127
    BY <1>0, <1>4, <1>6, <2>1
  <2>3. 0 \notin 1 .. 127
    OBVIOUS
  <2>. QED  BY <2>2, <2>3, Zenon
<1>11. t[Len(t)] = 0 /\ t[Len(t) - 1] = 0
  BY <1>1, <1>8, <1>9, Zenon
<1>. QED  BY <1>2, <1>6, <1>7, <1>10, <1>11, Zenon

(* Nothing is written yet.                                                 *)
LEMMA BlockInit == Disk!Init => BlockInv
<1>. SUFFICES ASSUME Disk!Init
              PROVE  BlockInv
  OBVIOUS
<1>1. step = "numbers" /\ id16 = [w \in 0 .. (ID_WORDS - 1) |-> 0]
  BY DEF Disk!Init
<1>. QED  BY <1>1 DEF BlockInv, Disk!Addressable

(* id16_fill_string() starts at a string's first byte.                     *)
LEMMA CopyBegins ==
  ASSUME NEW s \in Seq(1 .. 127), Disk!Copy(s, Letters)
  PROVE  Copying' /\ Source(s)'
<1>1. PICK b \in Behind : text' = s \o <<0>> \o b
  BY DEF Disk!Copy
<1>2. str' = 1 /\ dst' = 27
  BY DEF Disk!Copy, Letters
<1>3. /\ text' \in Seq(0 .. 127) /\ Len(text') >= 2
      /\ text'[Len(text')] = 0 /\ text'[Len(text') - 1] = 0
  BY <1>1, Appended
<1>4. Len(text') \in Nat
  BY <1>3
<1>5. Copying'
  BY <1>2, <1>3, <1>4 DEF Copying, Letters
<1>6. Source(s)'
  BY <1>1 DEF Source
<1>. QED  BY <1>5, <1>6

(* The numbers in words 1, 3 and 6 survive the first string's blanks.      *)
LEMMA FirmwareBegins ==
  ASSUME BlockInv, Disk!BeginFirmware
  PROVE  BlockInv'
<1>1. step' = "firmware" /\ id16' = Disk!Blank(Disk!Numbers, 23, 4) /\ Disk!Copy(firmware_revision, 27)
  BY DEF Disk!BeginFirmware
<1>2. Copying'
  BY <1>1, StringAssumption, CopyBegins DEF Letters
<1>3. DOMAIN id16' = 0 .. (ID_WORDS - 1)
  BY <1>1 DEF Disk!Blank
<1>4. \A w \in {1, 3, 6} : w \in 0 .. (ID_WORDS - 1) /\ w \notin 23 .. (23 + 4 - 1)
  BY DiskAssumption
<1>5. \A w \in {1, 3, 6} : id16'[w] = Disk!Numbers[w]
  BY <1>1, <1>4 DEF Disk!Blank
<1>6. /\ Disk!Numbers[1] = Disk!Low(Disk!cylinders) /\ Disk!Numbers[3] = 16 /\ Disk!Numbers[6] = 64
  BY <1>4 DEF Disk!Numbers, Disk!heads, Disk!sectors
<1>. QED  BY <1>1, <1>2, <1>3, <1>5, <1>6 DEF BlockInv, Geometry, Disk!Addressable

(* A copied word lies behind word 26, and the copy stops within the text.  *)
LEMMA WordFilled ==
  ASSUME BlockInv, Disk!FillWord
  PROVE  BlockInv'
<1>1. /\ step \in {"firmware", "model"} /\ step' = step /\ text' = text
      /\ text[str] # 0 /\ dst < ID_WORDS /\ str' = str + 2 /\ dst' = dst + 1
      /\ id16' = [id16 EXCEPT ![dst] = text[str] * 256 + text[str + 1]]
  BY DEF Disk!FillWord
<1>2. Geometry /\ Copying /\ DOMAIN id16 = 0 .. (ID_WORDS - 1) /\ ID_WORDS \in Nat
  BY <1>1, DiskAssumption DEF BlockInv
<1>3. Copying'
  <2>1. str \in Nat /\ str >= 1 /\ Len(text) \in Nat
    BY <1>2 DEF Copying, Letters
  <2>2. str # Len(text) /\ str # Len(text) - 1
    BY <1>1, <1>2 DEF Copying
  <2>3. str + 2 <= Len(text)
    BY <1>2, <2>1, <2>2 DEF Copying
  <2>. QED  BY <1>1, <1>2, <2>3 DEF Copying, Letters
<1>4. dst \in 27 .. (ID_WORDS - 1)
  BY <1>1, <1>2 DEF Copying, Letters
<1>5. \A w \in 0 .. (ID_WORDS - 1) : id16'[w] = IF w = dst THEN text[str] * 256 + text[str + 1] ELSE id16[w]
  BY <1>1, <1>2
<1>6. 1 \in 0 .. (ID_WORDS - 1) /\ 3 \in 0 .. (ID_WORDS - 1) /\ 6 \in 0 .. (ID_WORDS - 1)
  BY <1>4, <1>2
<1>7. Geometry'
  BY <1>2, <1>4, <1>5, <1>6 DEF Geometry
<1>8. DOMAIN id16' = 0 .. (ID_WORDS - 1)
  BY <1>1, <1>2
<1>9. ASSUME step = "model"
      PROVE  Source(model_number)' /\ Copied'
  <2>1. Source(model_number) /\ Copied
    BY <1>9 DEF BlockInv
  <2>2. ASSUME NEW w \in Letters .. dst
        PROVE  id16'[w] = text[2 * (w - Letters) + 1] * 256 + text[2 * (w - Letters) + 2]
    <3>1. w \in 0 .. (ID_WORDS - 1) /\ dst \in Nat
      BY <1>2, <1>4 DEF Letters
    <3>2. CASE w = dst
      <4>1. str = 2 * (w - Letters) + 1 /\ str + 1 = 2 * (w - Letters) + 2
        BY <1>2, <3>1, <3>2 DEF Copying, Letters
      <4>. QED  BY <1>5, <3>1, <3>2, <4>1
    <3>3. CASE w # dst
      <4>1. w \in Letters .. (dst - 1)
        BY <3>1, <3>3 DEF Letters
      <4>. QED  BY <1>5, <2>1, <3>1, <3>3, <4>1 DEF Copied
    <3>. QED  BY <3>2, <3>3
  <2>3. dst' - 1 = dst
    BY <1>1, <1>4, <1>2
  <2>4. Source(model_number)'
    BY <1>1, <2>1 DEF Source
  <2>5. Copied'
    BY <1>1, <2>2, <2>3 DEF Copied
  <2>. QED  BY <2>4, <2>5
<1>. QED  BY <1>1, <1>3, <1>7, <1>8, <1>9 DEF BlockInv, Disk!Addressable

(* The name's blanks begin at word 27 and leave the numbers alone.         *)
LEMMA ModelBegins ==
  ASSUME BlockInv, Disk!BeginModel
  PROVE  BlockInv'
<1>1. step = "firmware" /\ step' = "model" /\ id16' = Disk!Blank(id16, 27, 20) /\ Disk!Copy(model_number, 27)
  BY DEF Disk!BeginModel
<1>2. Copying' /\ Source(model_number)'
  BY <1>1, StringAssumption, CopyBegins DEF Letters
<1>3. DOMAIN id16' = 0 .. (ID_WORDS - 1)
  BY <1>1 DEF Disk!Blank
<1>4. \A w \in {1, 3, 6} : w \in 0 .. (ID_WORDS - 1) /\ w \notin 27 .. (27 + 20 - 1)
  BY DiskAssumption
<1>5. \A w \in {1, 3, 6} : id16'[w] = id16[w]
  BY <1>1, <1>4 DEF Disk!Blank
<1>6. Geometry'
  BY <1>1, <1>5 DEF BlockInv, Geometry
<1>7. Copied'
  <2>1. dst' = 27
    BY <1>1 DEF Disk!Copy
  <2>2. Letters .. (dst' - 1) = {}
    BY <2>1 DEF Letters
  <2>. QED  BY <2>2 DEF Copied
<1>. QED  BY <1>1, <1>2, <1>3, <1>6, <1>7 DEF BlockInv, Disk!Addressable

(* The disk has as many cylinders as fit sixteen bits, and nothing over.   *)
LEMMA Halves ==
  ASSUME NEW n \in Nat \ {0}, NEW m \in Nat, m < n * n
  PROVE  ((m \div n) % n) * n + (m % n) = m
<1>. DEFINE q == m \div n
<1>1. q \in 0 .. (n - 1)
  BY QuotientLess
<1>2. m = n * q + (m % n) /\ (m % n) \in 0 .. (n - 1)
  BY Divided
<1>. HIDE DEF q
<1>3. q % n = q
  BY <1>1, Small
<1>4. q * n = n * q /\ q * n \in Int
  BY <1>1
<1>5. q * n + (m % n) = m
  BY <1>2, <1>4
<1>. QED  BY <1>3, <1>5 DEF q

(* The geometry multiplies out to the disk's memory.                       *)
LEMMA Sectors ==
  /\ Disk!cylinders \in Nat /\ Disk!cylinders < 65536
  /\ Disk!sects_total = 1024 * Disk!cylinders
  /\ Disk!sects_total * 512 = ATA_CHUNK_MAXSIZE
<1>. DEFINE size == 524288
            n == ATA_CHUNK_MAXSIZE \div size
<1>1. Disk!cylinders = n
  BY DEF Disk!cylinders, Disk!heads, Disk!sectors
<1>2. size \in Nat \ {0} /\ ATA_CHUNK_MAXSIZE \in Nat /\ ATA_CHUNK_MAXSIZE % size = 0 /\ n < 65536
  BY DiskAssumption
<1>. HIDE DEF size
<1>3. n \in Nat /\ ATA_CHUNK_MAXSIZE = size * n + (ATA_CHUNK_MAXSIZE % size)
  BY <1>2, Divided
<1>. HIDE DEF n
<1>4. ATA_CHUNK_MAXSIZE = size * n
  BY <1>2, <1>3 DEF size
<1>5. Disk!sects_total = 1024 * n
  BY <1>1, <1>3 DEF Disk!sects_total, Disk!heads, Disk!sectors
<1>6. (1024 * n) * 512 = size * n
  BY <1>3 DEF size
<1>. QED  BY <1>1, <1>2, <1>3, <1>4, <1>5, <1>6

(* The number of cylinders fits sixteen bits.                               *)
LEMMA CylindersFit == Disk!Low(Disk!cylinders) = Disk!cylinders
<1>. DEFINE c == Disk!cylinders
            half == 65536
<1>1. Disk!Low(c) = (c % half)
  BY DEF Disk!Low
<1>2. half \in Nat \ {0} /\ c \in Nat /\ c < half
  BY Sectors
<1>. HIDE DEF c, half
<1>3. c % half = c
  BY <1>2, Small
<1>4. Disk!Low(c) = c
  BY <1>1, <1>3
<1>. QED  BY <1>4 DEF c

(* The number of sectors is made up of its two halves.                     *)
LEMMA SectorsFit == Disk!High(Disk!sects_total) * 65536 + Disk!Low(Disk!sects_total) = Disk!sects_total
<1>. DEFINE m == Disk!sects_total
            half == 65536
<1>1. Disk!High(m) = ((m \div half) % half) /\ Disk!Low(m) = (m % half)
  BY DEF Disk!High, Disk!Low
<1>2. half \in Nat \ {0} /\ m \in Nat /\ m < half * half
  BY Sectors
<1>. HIDE DEF m, half
<1>3. ((m \div half) % half) * half + (m % half) = m
  BY <1>2, Halves
<1>4. Disk!High(m) * half + Disk!Low(m) = m
  BY <1>1, <1>3
<1>. QED  BY <1>4 DEF m, half

(* The two bytes of a word.                                                *)
LEMMA TwoBytes ==
  ASSUME NEW n \in Nat \ {0}, NEW x \in 0 .. (n - 1), NEW y \in 0 .. (n - 1)
  PROVE  (x * n + y) \div n = x /\ (x * n + y) % n = y
<1>1. (x * n + y) \div n = x
  OBVIOUS
<1>2. (x * n + y) % n = y
  OBVIOUS
<1>. QED  BY <1>1, <1>2

(* The last words complete the block, and leave the name alone.            *)
LEMMA BlockDone ==
  ASSUME BlockInv, Disk!Rest
  PROVE  BlockInv'
<1>1. step = "model" /\ step' = "done" /\ text[str] = 0 /\ id16' = Disk!Capacity(id16)
  BY DEF Disk!Rest
<1>2. Geometry /\ Copying /\ Copied /\ Source(model_number) /\ ID_WORDS \in Nat /\ ID_WORDS >= 88
  BY <1>1, DiskAssumption DEF BlockInv
<1>3. DOMAIN id16' = 0 .. (ID_WORDS - 1)
  BY <1>1 DEF Disk!Capacity
<1>4. ASSUME NEW w \in 0 .. (ID_WORDS - 1), w < 47
      PROVE  id16'[w] = id16[w]
  <2>1. /\ w # 47 /\ w # 48 /\ w # 49 /\ w \notin {51, 52} /\ w # 54 /\ w # 55 /\ w # 56
        /\ w \notin {57, 60} /\ w \notin {58, 61} /\ w # 59 /\ w # 80
        /\ w \notin {82, 83, 84, 85, 87} /\ w # 86
    BY <1>2, <1>4
  <2>. QED  BY <1>1, <2>1 DEF Disk!Capacity
<1>5. /\ id16'[49] = 512 /\ id16'[54] = Disk!Low(Disk!cylinders) /\ id16'[55] = 16 /\ id16'[56] = 64
      /\ id16'[57] = Disk!Low(Disk!sects_total) /\ id16'[58] = Disk!High(Disk!sects_total)
      /\ id16'[60] = Disk!Low(Disk!sects_total) /\ id16'[61] = Disk!High(Disk!sects_total)
  <2>1. \A w \in {49, 54, 55, 56, 57, 58, 60, 61} : w \in 0 .. (ID_WORDS - 1)
    BY <1>2
  <2>. DEFINE d == Disk!Capacity(id16)
  <2>2. d[49] = 512 /\ d[54] = Disk!Low(Disk!cylinders) /\ d[55] = 16 /\ d[56] = 64
    BY <2>1 DEF Disk!Capacity, Disk!heads, Disk!sectors
  <2>3. d[57] = Disk!Low(Disk!sects_total) /\ d[58] = Disk!High(Disk!sects_total)
    BY <2>1 DEF Disk!Capacity
  <2>4. d[60] = Disk!Low(Disk!sects_total) /\ d[61] = Disk!High(Disk!sects_total)
    BY <2>1 DEF Disk!Capacity
  <2>. HIDE DEF d
  <2>. QED  BY <1>1, <2>2, <2>3, <2>4 DEF d
<1>6. id16'[1] = Disk!cylinders /\ id16'[3] = 16 /\ id16'[6] = 64 /\ id16'[54] = Disk!cylinders
  BY <1>2, <1>4, <1>5, CylindersFit DEF Geometry
<1>7. Disk!cylinders * 16 * 64 = Disk!sects_total
  BY Sectors
<1>. DEFINE L == Len(model_number)
<1>8. L \in Nat /\ L <= 40 /\ model_number \in Seq(1 .. 127)
  BY StringAssumption
<1>9. \A k \in 1 .. L : text[k] = model_number[k] /\ text[k] # 0
  <2>1. PICK b \in Behind : text = model_number \o <<0>> \o b
    BY <1>2 DEF Source
  <2>. QED  BY <1>8, <2>1, Appended
<1>10. str > L
  BY <1>1, <1>2, <1>8, <1>9 DEF Copying, Letters
<1>11. ASSUME NEW k \in 1 .. L
       PROVE  model_number[k] = IF k % 2 = 1 THEN id16'[27 + ((k - 1) \div 2)] \div 256
                                ELSE id16'[27 + ((k - 1) \div 2)] % 256
  <2>. DEFINE i == (k - 1) \div 2
  <2>1. i \in 0 .. 19 /\ (k = 2 * i + 1 \/ k = 2 * i + 2) /\ (k % 2 = 1 <=> k = 2 * i + 1)
    BY <1>8
  <2>. HIDE DEF i
  <2>2. 27 + i \in Letters .. (dst - 1) /\ (27 + i) - Letters = i
    BY <1>2, <1>8, <1>10, <2>1 DEF Copying, Letters
  <2>3. id16'[27 + i] = text[2 * i + 1] * 256 + text[2 * i + 2]
    <3>1. 27 + i \in 0 .. (ID_WORDS - 1) /\ 27 + i < 47
      BY <1>2, <2>1
    <3>2. id16[27 + i] = text[2 * ((27 + i) - Letters) + 1] * 256 + text[2 * ((27 + i) - Letters) + 2]
      BY <1>2, <2>2 DEF Copied
    <3>. QED  BY <1>4, <2>2, <3>1, <3>2
  <2>4. text[2 * i + 1] \in 0 .. 127 /\ text[2 * i + 2] \in 0 .. 127
    <3>1. str \in Nat /\ str >= 2 * i + 3 /\ str <= Len(text) /\ Len(text) \in Nat /\ text \in Seq(0 .. 127)
      BY <1>2, <2>1, <2>2 DEF Copying, Letters
    <3>0. i \in Nat
      BY <2>1
    <3>2. 2 * i + 1 \in 1 .. Len(text) /\ 2 * i + 2 \in 1 .. Len(text)
      BY <3>0, <3>1
    <3>. QED  BY <3>1, <3>2, Element
  <2>6. id16'[27 + i] \div 256 = text[2 * i + 1] /\ id16'[27 + i] % 256 = text[2 * i + 2]
    <3>. DEFINE n == 256
    <3>1. n \in Nat \ {0} /\ text[2 * i + 1] \in 0 .. (n - 1) /\ text[2 * i + 2] \in 0 .. (n - 1)
      BY <2>4
    <3>2. id16'[27 + i] = text[2 * i + 1] * n + text[2 * i + 2]
      BY <2>3
    <3>. HIDE DEF n
    <3>3. id16'[27 + i] \div n = text[2 * i + 1] /\ id16'[27 + i] % n = text[2 * i + 2]
      BY <3>1, <3>2, TwoBytes
    <3>. QED  BY <3>3 DEF n
  <2>7. (IF k % 2 = 1 THEN id16'[27 + i] \div 256 ELSE id16'[27 + i] % 256) = text[k]
    BY <2>1, <2>6
  <2>. QED  BY <1>9, <2>7 DEF i
<1>12. SubSeq(Disk!Bytes(27, 20)', 1, L) = model_number
  <2>. DEFINE s == Disk!Bytes(27, 20)'
  <2>1. s = [k \in 1 .. 40 |-> IF k % 2 = 1 THEN id16'[27 + ((k - 1) \div 2)] \div 256
                              ELSE id16'[27 + ((k - 1) \div 2)] % 256]
    BY DEF Disk!Bytes
  <2>. DEFINE S == {s[k] : k \in 1 .. 40}
  <2>2. ASSUME NEW k \in 1 .. L
        PROVE  s[k] = model_number[k]
    <3>1. k \in 1 .. 40
      BY <1>8
    <3>2. s[k] = IF k % 2 = 1 THEN id16'[27 + ((k - 1) \div 2)] \div 256
                 ELSE id16'[27 + ((k - 1) \div 2)] % 256
      BY <2>1, <3>1, Zenon
    <3>. QED  BY <1>11, <3>2
  <2>3. DOMAIN s = 1 .. 40
    BY <2>1
  <2>4. s = [k \in 1 .. 40 |-> s[k]]
    BY <2>1
  <2>. HIDE DEF s
  <2>5. s \in Seq(S)
    BY <2>3, <2>4
  <2>6. SubSeq(s, 1, L) = [k \in 1 .. L |-> s[k]]
    BY <1>8, <2>3, <2>5
  <2>7. model_number = [k \in 1 .. L |-> model_number[k]]
    BY <1>8
  <2>8. SubSeq(s, 1, L) = model_number
    BY <2>2, <2>6, <2>7
  <2>. QED  BY <2>8 DEF s
<1>13. Disk!Addressable'
  <2>1. /\ id16'[58] * 65536 + id16'[57] = Disk!sects_total
        /\ id16'[61] * 65536 + id16'[60] = Disk!sects_total
    BY <1>5, SectorsFit
  <2>2. /\ id16'[1] * id16'[3] * id16'[6] = Disk!sects_total
        /\ id16'[54] * id16'[55] * id16'[56] = Disk!sects_total
    BY <1>5, <1>6, <1>7
  <2>3. (id16'[61] * 65536 + id16'[60]) * 512 = ATA_CHUNK_MAXSIZE
    BY <2>1, Sectors
  <2>. QED  BY <1>5, <1>12, <2>1, <2>2, <2>3 DEF Disk!Addressable
<1>. QED  BY <1>1, <1>3, <1>13 DEF BlockInv

(* A step of the memory keeps the block.                                   *)
LEMMA BlockSame ==
  ASSUME BlockInv, UNCHANGED blockVars
  PROVE  BlockInv'
<1>1. step' = step /\ id16' = id16 /\ text' = text /\ str' = str /\ dst' = dst
  BY DEF blockVars
<1>2. Disk!Addressable' = Disk!Addressable
  BY <1>1 DEF Disk!Addressable, Disk!Bytes
<1>. QED  BY <1>1, <1>2 DEF BlockInv, Geometry, Copying, Source, Copied

(* The block's invariant is kept by every step of start-up and guest.      *)
LEMMA BlockStep == BlockInv /\ [StartupNext]_<<vars, blockVars>> => BlockInv'
<1>. SUFFICES ASSUME BlockInv, [StartupNext]_<<vars, blockVars>>
              PROVE  BlockInv'
  OBVIOUS
<1>1. CASE Identify
  <2>1. CASE Disk!Done
    <3>1. UNCHANGED blockVars
      BY <2>1 DEF Disk!Done, Disk!vars, blockVars
    <3>. QED  BY <3>1, BlockSame
  <2>. QED  BY <1>1, <2>1, FirmwareBegins, WordFilled, ModelBegins, BlockDone DEF Identify, Disk!Next
<1>2. CASE UNCHANGED blockVars
  BY <1>2, BlockSame
<1>. QED  BY <1>1, <1>2 DEF StartupNext, Proceed
-----------------------------------------------------------------------------
(***************************************************************************)
(* While the disk prepares its block it touches neither the memory nor the *)
(* lists of ranges: start-up, the disk's part of it included, is a         *)
(* behaviour of the memory alone.                                          *)
(***************************************************************************)
THEOREM StartupImplementsMemory == StartupSpec => Spec
<1>1. StartupInit => Init
  BY DEF StartupInit
<1>2. [StartupNext]_<<vars, blockVars>> => [Next]_vars
  <2>1. Identify => UNCHANGED vars
    BY DEF Identify
  <2>2. Proceed => Next
    BY DEF Proceed
  <2>3. UNCHANGED <<vars, blockVars>> => UNCHANGED vars
    BY DEF vars, blockVars
  <2>. QED  BY <2>1, <2>2, <2>3 DEF StartupNext
<1>. QED  BY <1>1, <1>2, PTL DEF StartupSpec, Spec

(***************************************************************************)
(* Whatever fread() returned each time, the RAM the devices are set up     *)
(* with holds the image from address 0 and zeros after it.                 *)
(***************************************************************************)
THEOREM RamHoldsImage == StartupSpec => []ImageLoaded
<1>1. Loading => ImageLoaded
  BY DEF Loading, Read, ImageLoaded
<1>. QED  BY <1>1, InitKeeps, StepKeeps, StartupImplementsMemory, PTL DEF Spec

(***************************************************************************)
(* However many devices register however many ranges, in whatever order,   *)
(* two ranges of one width and direction share at most one address.        *)
(***************************************************************************)
THEOREM RangesShareOneAddress == StartupSpec => []OneSharedAddress
<1>1. Registered => OneSharedAddress
  BY DEF Registered
<1>. QED  BY <1>1, InitKeeps, StepKeeps, StartupImplementsMemory, PTL DEF Spec

(***************************************************************************)
(* Every byte of the RAM stays a byte, and every access has the width, the *)
(* address and the value of one: the four bytes that a load puts together, *)
(* and those past the end of cpu_memory, included.                         *)
(***************************************************************************)
THEOREM MemoryTyped == StartupSpec => []TypeOK
<1>1. Loading /\ Registered /\ Typed => TypeOK
  BY DEF Loading, Registered, Typed, TypeOK
<1>. QED  BY <1>1, InitKeeps, StepKeeps, InitTyped, StepTyped, StartupImplementsMemory, PTL DEF Spec

(***************************************************************************)
(* With any number of values to a byte, and any page table: what an access *)
(* of any width stores is what loads read back, byte for byte, and no      *)
(* other value changes.                                                    *)
(***************************************************************************)
THEOREM BytesOrdered == StartupSpec => ByteOrder
<1>1. [Next]_vars => [Agree]_vars
  BY StepAgrees
<1>. QED  BY <1>1, StartupImplementsMemory, PTL DEF Spec, ByteOrder

(***************************************************************************)
(* With any page table, an aligned access stays in the frame of its page,  *)
(* although only the address of its first byte is translated.              *)
(***************************************************************************)
THEOREM AccessesFramed == StartupSpec => AlignedInFrame
<1>1. [Next]_vars => [Framed]_vars
  BY StepFramed
<1>. QED  BY <1>1, StartupImplementsMemory, PTL DEF Spec, AlignedInFrame

(***************************************************************************)
(* Whatever the two strings are (the model's up to the 40 bytes it has     *)
(* room for), and whatever the linker puts behind them, the finished block *)
(* names the model, and its capacity is the geometry's and the memory's:   *)
(* the copy that runs past a string's end never reaches the numbers below  *)
(* word 27, and those above are written after it.                          *)
(***************************************************************************)
THEOREM DiskAddressable == StartupSpec => []Addressable
<1>1. StartupInit => BlockInv
  BY BlockInit DEF StartupInit
<1>2. BlockInv => Addressable
  BY DEF BlockInv, Addressable
<1>. QED  BY <1>1, <1>2, BlockStep, PTL DEF StartupSpec
=============================================================================
