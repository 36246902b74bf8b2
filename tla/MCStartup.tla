----------------------------- MODULE MCStartup -----------------------------
(***************************************************************************)
(* An instance of Startup.  Bytes have two values.  Pages have four bytes, *)
(* the first two mapped crosswise: five bytes of RAM, a hole (5 .. 7) and  *)
(* the devices (8 and up).                                                 *)
(***************************************************************************)
EXTENDS Startup

MCFrame == [p \in 0 .. 2 |-> CASE p = 0 -> 1 [] p = 1 -> 0 [] p = 2 -> 2]
MCStored == [w \in Width |-> CASE w = 1 -> {1} [] w = 2 -> {2} [] w = 4 -> {9}]
MCImage == <<1, 0, 1>>

(* The disk's board, and boards with two devices whose byte loads, or the  *)
(* loads of one and the stores of the other, lie in any way to each other. *)
Offer(wr, lo, hi, dev) ==
  [width |-> 1, range |-> [write |-> wr, start |-> lo, end |-> hi, device |-> dev]]
Ends == {e \in (8 .. 10) \X (8 .. 10) : e[1] <= e[2]}
Pair(e, f, wr) == {Offer(FALSE, e[1], e[2], "first"), Offer(wr, f[1], f[2], "second")}
MCBoards ==
  {AtaOffers(8, 2)} \cup {Pair(e, f, FALSE) : e \in {<<8, 9>>, <<8, 10>>}, f \in Ends}
    \cup {Pair(<<8, 8>>, <<8, 8>>, FALSE), Pair(<<8, 9>>, <<9, 10>>, TRUE)}

(* The strings of device-ata.c in ASCII, and what runs over the numbers.   *)
MCFirmware == <<110, 99, 112, 117, 51, 50, 107, 45, 118, 48>>    \* "ncpu32k-v0"
MCModel == <<110, 99, 112, 117, 51, 50, 107, 45, 65, 84, 65>>    \* "ncpu32k-ATA"
MCBehind == {[k \in 1 .. 80 |-> 37] \o <<0, 0>>}
=============================================================================
