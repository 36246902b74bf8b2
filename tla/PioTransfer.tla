---------------------------- MODULE PioTransfer ----------------------------
(***************************************************************************)
(* What a driver may expect of the disk: a request for a range of words is *)
(* answered by exactly these words, each once and in order, and every      *)
(* request that is not given up is answered in full.  No registers, no     *)
(* sectors, no interrupts.                                                 *)
(***************************************************************************)
EXTENDS Integers

CONSTANTS
  ID_WORDS,    \* words of the identification block
  DISK_WORDS,  \* words of the disk
  MAX_WORDS    \* the longest request

VARIABLES
  request,  \* where the requested range is and its first and last word
  got,      \* how many of them arrived
  word      \* the place of the word that arrived last

vars == <<request, got, word>>

NoRequest == [from |-> "none", first |-> 0, last |-> 0]
Place(from, at) == [from |-> from, at |-> at]

Init == request = NoRequest /\ got = 0 /\ word = Place("none", 0)

(* The ranges a request may name.                                          *)
Ranges ==
  {[from |-> "id16", first |-> 0, last |-> ID_WORDS - 1]}
    \cup {r \in [from : {"disk_chunk"}, first : 0 .. (DISK_WORDS - 1), last : 0 .. (DISK_WORDS - 1)] :
            r.first <= r.last /\ r.last - r.first < MAX_WORDS}

Start ==
  /\ request = NoRequest
  /\ request' \in Ranges
  /\ UNCHANGED <<got, word>>

Deliver ==
  /\ request # NoRequest
  /\ word' = Place(request.from, request.first + got)
  /\ IF request.first + got = request.last
     THEN request' = NoRequest /\ got' = 0
     ELSE got' = got + 1 /\ UNCHANGED request

GiveUp ==
  /\ request # NoRequest
  /\ request' = NoRequest /\ got' = 0
  /\ UNCHANGED word

Next == Start \/ Deliver \/ GiveUp

Spec == Init /\ [][Next]_vars /\ WF_vars(Deliver)
=============================================================================
