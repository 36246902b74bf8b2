-------------------------- MODULE CallTraceProofs --------------------------
(***************************************************************************)
(* What the two debugging aids show: the call trace for every address      *)
(* space, register file, depth and guest, and the symbol table for every   *)
(* file.                                                                   *)
(***************************************************************************)
EXTENDS DebugAids, FiniteSetTheorems, TLAPS

(* `DepthReflects' in three parts.  The balance starts at 0, so that its   *)
(* least value is at most 0: this is what a return at the bottom needs.    *)
Counted ==
  /\ depth \in 0 .. MAX_STACK_TRACE_DEPTH
  /\ balance \in Int /\ low \in Int /\ low <= 0
  /\ depth = balance - low
DamageTold == damaged \in BOOLEAN /\ (damaged <=> low < 0)
FullAtExit == host = "exited" => depth = MAX_STACK_TRACE_DEPTH

TraceInv == Counted /\ DamageTold /\ FullAtExit

(* The counters of the trace, all that `TraceInv' is about but the host.   *)
counters == <<depth, damaged, balance, low>>

(* A call deepens the trace and the balance by one.                        *)
LEMMA CallCounts ==
  ASSUME TraceInv, host = "running", host' = host,
         NEW insn, NEW lnk, NEW target, TraceJmp(insn, lnk, target)
  PROVE  TraceInv'
<1>1. Counted'
  BY TraceAssumption DEF TraceInv, Counted, TraceJmp
<1>2. DamageTold'
  BY Zenon DEF TraceInv, DamageTold, TraceJmp
<1>3. FullAtExit'
  BY DEF FullAtExit
<1>. QED  BY <1>1, <1>2, <1>3 DEF TraceInv

(* A return at the bottom lowers the least balance, any other one only the *)
(* balance; `damaged' records which of the two it was.                     *)
LEMMA ReturnCounts ==
  ASSUME TraceInv, host = "running", host' = host, TraceReturn
  PROVE  TraceInv'
<1>1. Counted
  BY DEF TraceInv
<1>2. FullAtExit'
  BY DEF FullAtExit
<1>3. CASE depth = 0
  <2>1. depth' = 0 /\ balance' = balance - 1 /\ low' = balance'
    BY <1>1, <1>3 DEF TraceReturn, Counted
  <2>2. Counted' /\ low' < 0
    BY <1>1, <1>3, <2>1, TraceAssumption DEF Counted
  <2>3. depth - 1 < 0
    BY <1>3
  <2>4. DamageTold'
    BY <2>2, <2>3, Zenon DEF TraceReturn, DamageTold
  <2>. QED  BY <1>2, <2>2, <2>4 DEF TraceInv
<1>4. CASE depth > 0
  <2>1. depth' = depth - 1 /\ balance' = balance - 1 /\ low' = low
    BY <1>1, <1>4 DEF TraceReturn, Counted
  <2>2. Counted'
    BY <1>1, <1>4, <2>1, TraceAssumption DEF Counted
  <2>3. ~(depth - 1 < 0)
    BY <1>1, <1>4 DEF Counted
  <2>4. DamageTold'
    BY <2>1, <2>3, Zenon DEF TraceReturn, TraceInv, DamageTold
  <2>. QED  BY <1>2, <2>2, <2>4 DEF TraceInv
<1>. QED  BY <1>1, <1>3, <1>4, TraceAssumption DEF Counted

(* What touches neither the counters nor the host keeps the invariant.     *)
LEMMA OthersKeep ==
  ASSUME TraceInv, UNCHANGED counters, UNCHANGED host
  PROVE  TraceInv'
BY Zenon DEF TraceInv, Counted, DamageTold, FullAtExit, counters

(* Each step of the guest keeps the invariant.                             *)
LEMMA StepCounts == TraceInv /\ [Next]_vars => TraceInv'
<1>. SUFFICES ASSUME TraceInv, [Next]_vars
              PROVE  TraceInv'
  OBVIOUS
<1>1. ASSUME NEW rd \in Registers, NEW rs1 \in Registers, Jmp(rd, rs1)
      PROVE  TraceInv'
  <2>1. host = "running" /\ host' = host /\ Record(rd, rs1, pc')
    BY <1>1 DEF Jmp
  <2>2. CASE rs1 = RLNK
    BY <2>1, <2>2, ReturnCounts DEF Record
  <2>3. CASE rs1 # RLNK /\ rd = RLNK
    BY <2>1, <2>3, CallCounts DEF Record
  <2>4. CASE rs1 # RLNK /\ rd # RLNK
    BY <2>1, <2>4, OthersKeep DEF Record, trace, history, counters
  <2>. QED  BY <2>2, <2>3, <2>4
<1>2. ASSUME NEW to \in Address, JmpI(to)
      PROVE  TraceInv'
  BY <1>2, OthersKeep DEF JmpI, trace, history, counters
<1>3. ASSUME NEW to \in Address, JmpILnk(to)
      PROVE  TraceInv'
  BY <1>3, CallCounts DEF JmpILnk
<1>4. ASSUME NEW rd \in Registers, NEW value \in Address, Compute(rd, value)
      PROVE  TraceInv'
  BY <1>4, OthersKeep DEF Compute, trace, history, counters
<1>5. CASE CallPanic
  <2>1. UNCHANGED counters
    BY <1>5 DEF CallPanic, trace, history, counters
  <2>2. Counted' /\ DamageTold'
    BY <2>1, Zenon DEF TraceInv, Counted, DamageTold, counters
  <2>3. depth' = MAX_STACK_TRACE_DEPTH
    BY <1>5, <2>1, TraceAssumption DEF CallPanic, TraceInv, Counted, counters
  <2>. QED  BY <2>2, <2>3 DEF TraceInv, FullAtExit
<1>6. CASE Exited \/ UNCHANGED vars
  BY <1>6, OthersKeep DEF Exited, vars, trace, history, counters
<1>. QED  BY <1>1, <1>2, <1>3, <1>4, <1>5, <1>6 DEF Next

(* Nothing is counted at the start.                                        *)
LEMMA InitCounts == Init => TraceInv
<1>. SUFFICES ASSUME Init
              PROVE  TraceInv
  OBVIOUS
<1>1. Counted /\ FullAtExit
  BY TraceAssumption DEF Init, Counted, FullAtExit
<1>2. ~(low < 0)
  BY DEF Init
<1>3. DamageTold
  BY <1>2, Zenon DEF Init, DamageTold
<1>. QED  BY <1>1, <1>3 DEF TraceInv

(* The three parts make up the property.                                   *)
LEMMA InvReflects == TraceInv => DepthReflects
BY Zenon DEF TraceInv, Counted, DamageTold, FullAtExit, DepthReflects

(***************************************************************************)
(* Whatever the guest does, the trace's depth is the balance of calls and  *)
(* returns over its least value, the trace says it is damaged exactly when *)
(* a return had no call, and only a full trace ends the process.           *)
(***************************************************************************)
THEOREM TraceDepthReflects == Spec => []DepthReflects
BY InitCounts, InvReflects, StepCounts, PTL DEF Spec
-----------------------------------------------------------------------------
(* The guest in normal form.                                               *)
Activation == [kind : {"call", "irq"}, stored : BOOLEAN, link : Address, resume : Address]

(* A handler keeps the link register at once, and nothing but a handler    *)
(* runs on top of a function that has not stored its own.                  *)
LinkKept ==
  /\ \A k \in DOMAIN acts : acts[k].kind = "irq" => acts[k].stored = TRUE
  /\ \A k \in 1 .. (Len(acts) - 1) : acts[k].stored = TRUE \/ acts[k + 1].kind = "irq"

(* The place of an activation's frame.                                     *)
Index(k) == Cardinality({j \in Calls : j < k})

(* Each frame names the address that its function will return to.          *)
LinksTrue == \A k \in Calls : frames[Index(k)].lnk_pc = ReturnAddress(k)

(* The inductive invariant of TraceMirrorsStack.                           *)
GuestInv ==
  /\ acts \in Seq(Activation) /\ reg \in [Registers -> Address] /\ pc \in Address
  /\ DOMAIN frames = 0 .. (MAX_STACK_TRACE_DEPTH - 1)
  /\ LinkKept
  /\ depth = Cardinality(Calls) /\ LinksTrue

(* The members of a sequence.                                              *)
LEMMA Element ==
  ASSUME NEW S, NEW s \in Seq(S), NEW k \in 1 .. Len(s)
  PROVE  s[k] \in S
OBVIOUS

(* A sequence with one more element at its end.                            *)
LEMMA Longer ==
  ASSUME NEW S, NEW s \in Seq(S), NEW a \in S, NEW t, t = Append(s, a)
  PROVE  /\ t \in Seq(S) /\ Len(s) \in Nat /\ Len(t) = Len(s) + 1
         /\ DOMAIN s = 1 .. Len(s) /\ DOMAIN t = 1 .. (Len(s) + 1)
         /\ \A k \in 1 .. Len(s) : t[k] = s[k]
         /\ t[Len(s) + 1] = a
OBVIOUS

(* Without its last element.                                               *)
LEMMA Shorter ==
  ASSUME NEW S, NEW s \in Seq(S), s # << >>, NEW t, t = SubSeq(s, 1, Len(s) - 1)
  PROVE  /\ t \in Seq(S) /\ Len(s) \in Nat \ {0} /\ Len(t) = Len(s) - 1
         /\ DOMAIN s = 1 .. Len(s) /\ DOMAIN t = 1 .. (Len(s) - 1)
         /\ \A k \in 1 .. (Len(s) - 1) : t[k] = s[k]
<1>1. Len(s) \in Nat /\ DOMAIN s = 1 .. Len(s) /\ \A k \in 1 .. Len(s) : s[k] \in S
  BY Element
<1>2. Len(s) # 0
  OBVIOUS
<1>3. t = [k \in 1 .. (Len(s) - 1) |-> s[k]]
  BY <1>1, <1>2
<1>. QED  BY <1>1, <1>2, <1>3

(* The activations below the last one.                                     *)
LEMMA OuterShorter ==
  ASSUME acts \in Seq(Activation), acts # << >>
  PROVE  /\ Outer \in Seq(Activation) /\ Len(acts) \in Nat \ {0} /\ Len(Outer) = Len(acts) - 1
         /\ DOMAIN acts = 1 .. Len(acts) /\ DOMAIN Outer = 1 .. (Len(acts) - 1)
         /\ \A k \in 1 .. (Len(acts) - 1) : Outer[k] = acts[k]
<1>. DEFINE outer == SubSeq(acts, 1, Len(acts) - 1)
<1>1. /\ outer \in Seq(Activation) /\ Len(acts) \in Nat \ {0} /\ Len(outer) = Len(acts) - 1
      /\ DOMAIN acts = 1 .. Len(acts) /\ DOMAIN outer = 1 .. (Len(acts) - 1)
      /\ \A k \in 1 .. (Len(acts) - 1) : outer[k] = acts[k]
  BY Shorter, Zenon
<1>. QED  BY <1>1, Zenon DEF Outer

(* The last activation.                                                    *)
LEMMA LastOne ==
  ASSUME GuestInv, acts # << >>
  PROVE  /\ Last \in Activation /\ Last = acts[Len(acts)] /\ Len(acts) \in DOMAIN acts /\ Len(acts) \in Nat \ {0}
         /\ DOMAIN acts = 1 .. Len(acts)
BY DEF GuestInv, Last

(* A call's frame lies below the depth.                                    *)
LEMMA FramesCounted ==
  ASSUME GuestInv
  PROVE  /\ IsFiniteSet(Calls) /\ depth \in Nat
         /\ \A k \in Calls : Index(k) \in 0 .. (depth - 1)
<1>1. Len(acts) \in Nat /\ DOMAIN acts = 1 .. Len(acts)
  BY DEF GuestInv
<1>2. IsFiniteSet(1 .. Len(acts))
  BY <1>1, FS_Interval
<1>3. IsFiniteSet(Calls)
  BY <1>1, <1>2, FS_Subset DEF Calls
<1>4. depth = Cardinality(Calls) /\ depth \in Nat
  BY <1>3, FS_CardinalityType DEF GuestInv
<1>5. ASSUME NEW k \in Calls
      PROVE  Index(k) \in 0 .. (depth - 1)
  <2>. DEFINE below == {j \in Calls : j < k}
              others == Calls \ {k}
  <2>1. IsFiniteSet(others) /\ Cardinality(others) = Cardinality(Calls) - 1
    BY <1>3, FS_RemoveElement
  <2>2. below \subseteq others
    BY <1>1 DEF Calls
  <2>3. IsFiniteSet(below) /\ Cardinality(below) <= Cardinality(others)
    <3>. HIDE DEF below, others
    <3>. QED  BY <2>1, <2>2, FS_Subset
  <2>4. Cardinality(below) \in Nat
    <3>. HIDE DEF below
    <3>. QED  BY <2>3, FS_CardinalityType
  <2>5. Index(k) = Cardinality(below)
    BY DEF Index
  <2>. HIDE DEF below, others
  <2>. QED  BY <1>4, <2>1, <2>3, <2>4, <2>5
<1>. QED  BY <1>3, <1>4, <1>5

(* A step that leaves the functions, the trace and the return addresses.   *)
LEMMA LinksSame ==
  ASSUME LinksTrue, depth = Cardinality(Calls), Calls' = Calls, UNCHANGED trace,
         \A k \in Calls : ReturnAddress(k)' = ReturnAddress(k)
  PROVE  depth' = Cardinality(Calls)' /\ LinksTrue' /\ DOMAIN frames' = DOMAIN frames
<1>1. depth' = depth /\ frames' = frames
  BY DEF trace
<1>2. \A k : Index(k)' = Index(k)
  BY DEF Index
<1>. QED  BY <1>1, <1>2 DEF LinksTrue

(* The next instruction has an address.                                    *)
LEMMA NextAddress ==
  ASSUME NEW p \in Address
  PROVE  NextPc(p) \in Address
BY TraceAssumption DEF NextPc, Address

(* Only the register that is named changes.                                *)
LEMMA RegisterSet ==
  ASSUME reg \in [Registers -> Address], NEW r \in Registers, NEW v \in Address
  PROVE  /\ SetReg(reg, r, v) \in [Registers -> Address]
         /\ r = RLNK => SetReg(reg, r, v)[RLNK] = v
         /\ r # RLNK => SetReg(reg, r, v)[RLNK] = reg[RLNK]
BY TraceAssumption DEF SetReg

(* A call puts a frame on top of those there are.                          *)
LEMMA CallTraced ==
  ASSUME GuestInv, MayCall, acts' = Append(acts, Called),
         reg' \in [Registers -> Address], pc' \in Address,
         NEW insn, NEW lnk, NEW target, TraceJmp(insn, lnk, target), reg'[RLNK] = lnk
  PROVE  GuestInv'
<1>. DEFINE n == Len(acts)
<1>1. Called \in Activation /\ Called.kind = "call" /\ Called.stored = FALSE
  BY TraceAssumption DEF Called, Activation, Address
<1>2. acts \in Seq(Activation)
  BY DEF GuestInv
<1>3. /\ acts' \in Seq(Activation) /\ n \in Nat /\ Len(acts') = n + 1
      /\ DOMAIN acts = 1 .. n /\ DOMAIN acts' = 1 .. (n + 1)
      /\ \A k \in 1 .. n : acts'[k] = acts[k]
      /\ acts'[n + 1] = Called
  BY <1>1, <1>2, Longer
<1>. HIDE DEF n
<1>4. n > 0 => acts[n].stored = TRUE
  <2>1. n > 0 => acts # << >>
    BY DEF n
  <2>2. acts # << >> => acts[n].stored
    BY DEF MayCall, Last, n
  <2>3. n > 0 => n \in 1 .. n
    BY <1>3
  <2>4. n > 0 => acts[n] \in Activation
    BY <1>2, <2>3, Element DEF n
  <2>5. n > 0 => acts[n].stored \in BOOLEAN
    BY <2>4 DEF Activation
  <2>. QED  BY <2>1, <2>2, <2>5, Zenon
<1>5. LinkKept'
  <2>1. ASSUME NEW k \in 1 .. (n + 1), acts'[k].kind = "irq"
        PROVE  acts'[k].stored = TRUE
    <3>1. k # n + 1
      BY <1>1, <1>3, <2>1
    <3>2. k \in 1 .. n
      BY <1>3, <3>1
    <3>. QED  BY <1>3, <2>1, <3>2 DEF GuestInv, LinkKept
  <2>2. ASSUME NEW k \in 1 .. n
        PROVE  acts'[k].stored = TRUE \/ acts'[k + 1].kind = "irq"
    <3>1. CASE k = n
      BY <1>3, <1>4, <3>1
    <3>2. CASE k # n
      <4>1. k \in 1 .. (n - 1) /\ k + 1 \in 1 .. n
        BY <1>3, <3>2
      <4>2. acts[k].stored = TRUE \/ acts[k + 1].kind = "irq"
        BY <4>1 DEF GuestInv, LinkKept, n
      <4>3. acts'[k] = acts[k] /\ acts'[k + 1] = acts[k + 1]
        BY <1>3, <4>1
      <4>. QED  BY <4>2, <4>3
    <3>. QED  BY <3>1, <3>2
  <2>3. Len(acts') - 1 = n
    BY <1>3
  <2>. QED  BY <1>3, <2>1, <2>2, <2>3 DEF LinkKept
<1>6. Calls' = Calls \cup {n + 1} /\ n + 1 \notin Calls /\ \A k \in Calls : k \in 1 .. n
  <2>1. \A k \in 1 .. (n + 1) : k \in 1 .. n \/ k = n + 1
    BY <1>3
  <2>2. n + 1 \notin 1 .. n /\ n + 1 \in 1 .. (n + 1) /\ \A k \in 1 .. n : k \in 1 .. (n + 1)
    BY <1>3
  <2>. QED  BY <1>1, <1>3, <2>1, <2>2 DEF Calls
<1>7. IsFiniteSet(Calls) /\ depth \in Nat /\ depth = Cardinality(Calls)
  BY FramesCounted DEF GuestInv
<1>8. /\ depth' = depth + 1 /\ depth < MAX_STACK_TRACE_DEPTH
      /\ frames' = [frames EXCEPT ![depth] = [insn_pc |-> insn, lnk_pc |-> lnk, target_pc |-> target]]
  BY DEF TraceJmp
<1>9. depth' = Cardinality(Calls)'
  <2>1. Cardinality(Calls \cup {n + 1}) = Cardinality(Calls) + 1
    BY <1>6, <1>7, FS_AddElement
  <2>. QED  BY <1>6, <1>7, <1>8, <2>1
<1>10. DOMAIN frames' = 0 .. (MAX_STACK_TRACE_DEPTH - 1) /\ depth \in DOMAIN frames
  BY <1>7, <1>8, TraceAssumption DEF GuestInv
<1>11. frames'[depth].lnk_pc = lnk /\ \A k : k # depth => frames'[k] = frames[k]
  BY <1>8, <1>10
<1>12. LinksTrue'
  <2>. SUFFICES ASSUME NEW k \in Calls'
                PROVE  frames'[Index(k)'].lnk_pc = ReturnAddress(k)'
    BY DEF LinksTrue
  <2>1. CASE k = n + 1
    <3>1. {j \in Calls' : j < n + 1} = Calls
      BY <1>3, <1>6
    <3>2. Index(k)' = depth
      BY <1>7, <2>1, <3>1 DEF Index
    <3>3. ReturnAddress(k)' = reg'[RLNK]
      BY <1>1, <1>3, <2>1 DEF ReturnAddress
    <3>. QED  BY <1>11, <3>2, <3>3
  <2>2. CASE k # n + 1
    <3>1. k \in Calls /\ k \in 1 .. n
      BY <1>6, <2>2
    <3>2. {j \in Calls' : j < k} = {j \in Calls : j < k}
      BY <1>3, <1>6, <3>1
    <3>3. Index(k)' = Index(k) /\ Index(k) # depth
      <4>1. Index(k) \in 0 .. (depth - 1)
        BY <3>1, FramesCounted
      <4>2. Index(k)' = Index(k)
        BY <3>2 DEF Index
      <4>. QED  BY <1>7, <4>1, <4>2
    <3>4. ReturnAddress(k)' = ReturnAddress(k)
      <4>1. CASE k = n
        BY <1>3, <1>4, <3>1, <4>1 DEF ReturnAddress
      <4>2. CASE k # n
        <5>1. k + 1 \in 1 .. n /\ k # n + 1 /\ acts'[k] = acts[k]
          BY <1>3, <3>1, <4>2
        <5>2. acts'[k + 1] = acts[k + 1]
          BY <1>3, <5>1
        <5>. QED  BY <1>3, <4>2, <5>1, <5>2 DEF ReturnAddress, n
      <4>. QED  BY <4>1, <4>2
    <3>5. frames[Index(k)].lnk_pc = ReturnAddress(k)
      BY <3>1 DEF GuestInv, LinksTrue
    <3>. QED  BY <1>11, <3>3, <3>4, <3>5
  <2>. QED  BY <2>1, <2>2
<1>. QED  BY <1>3, <1>5, <1>9, <1>10, <1>12 DEF GuestInv

(* A return takes the top frame away; the function below has its own link  *)
(* address on the stack, or there is none.                                 *)
LEMMA ReturnTraced ==
  ASSUME GuestInv, ~damaged, In("call", FALSE), acts' = Outer, UNCHANGED reg, pc' \in Address, TraceReturn
  PROVE  GuestInv' /\ ~damaged'
<1>. DEFINE n == Len(acts)
<1>1. acts # << >> /\ acts \in Seq(Activation)
  BY DEF In, GuestInv
<1>2. /\ acts' \in Seq(Activation) /\ n \in Nat \ {0} /\ Len(acts') = n - 1
      /\ DOMAIN acts = 1 .. n /\ DOMAIN acts' = 1 .. (n - 1)
      /\ \A k \in 1 .. (n - 1) : acts'[k] = acts[k]
  BY <1>1, OuterShorter
<1>3. acts[n].kind = "call"
  BY DEF In, Last
<1>4. \A k \in 1 .. (n - 1) : acts[k].stored = TRUE \/ acts[k + 1].kind = "irq"
  BY DEF GuestInv, LinkKept
<1>. HIDE DEF n
<1>5. LinkKept'
  <2>1. \A k \in 1 .. (n - 1) : k \in 1 .. n
    BY <1>2
  <2>2. \A k \in 1 .. ((n - 1) - 1) : k \in 1 .. (n - 1) /\ k + 1 \in 1 .. (n - 1)
    BY <1>2
  <2>3. \A k \in DOMAIN acts' : acts'[k].kind = "irq" => acts'[k].stored = TRUE
    BY <1>2, <2>1 DEF GuestInv, LinkKept
  <2>. QED  BY <1>2, <1>4, <2>2, <2>3 DEF LinkKept
<1>6. Calls' = Calls \ {n} /\ n \in Calls
  <2>1. n \in 1 .. n /\ \A k : k \in 1 .. (n - 1) <=> k \in 1 .. n /\ k # n
    BY <1>2
  <2>. QED  BY <1>2, <1>3, <2>1 DEF Calls
<1>7. IsFiniteSet(Calls) /\ depth \in Nat /\ depth = Cardinality(Calls) /\ Index(n) \in 0 .. (depth - 1)
  BY <1>6, FramesCounted DEF GuestInv
<1>8. depth > 0 /\ ~(depth - 1 < 0)
  BY <1>7
<1>9. depth' = depth - 1 /\ frames' = frames
  BY <1>8 DEF TraceReturn
<1>10. ~damaged'
  BY <1>8, Zenon DEF TraceReturn
<1>11. depth' = Cardinality(Calls)'
  <2>1. Cardinality(Calls \ {n}) = Cardinality(Calls) - 1
    BY <1>6, <1>7, FS_RemoveElement
  <2>. QED  BY <1>6, <1>7, <1>9, <2>1
<1>12. LinksTrue'
  <2>. SUFFICES ASSUME NEW k \in Calls'
                PROVE  frames'[Index(k)'].lnk_pc = ReturnAddress(k)'
    BY DEF LinksTrue
  <2>1. k \in Calls /\ k \in 1 .. (n - 1)
    BY <1>2, <1>6 DEF Calls
  <2>2. {j \in Calls' : j < k} = {j \in Calls : j < k}
    BY <1>2, <1>6, <2>1
  <2>3. Index(k)' = Index(k)
    BY <2>2 DEF Index
  <2>4. ReturnAddress(k)' = ReturnAddress(k)
    <3>1. CASE k = n - 1
      <4>1. k + 1 = n
        BY <1>2, <3>1
      <4>2. acts[k].stored = TRUE
        BY <1>3, <1>4, <2>1, <4>1
      <4>. QED  BY <1>2, <2>1, <4>2 DEF ReturnAddress
    <3>2. CASE k # n - 1
      <4>1. k + 1 \in 1 .. (n - 1) /\ k # n
        BY <1>2, <2>1, <3>2
      <4>. QED  BY <1>2, <2>1, <3>2, <4>1 DEF ReturnAddress, n
    <3>. QED  BY <3>1, <3>2
  <2>. QED  BY <1>9, <2>1, <2>3, <2>4 DEF GuestInv, LinksTrue
<1>13. reg' \in [Registers -> Address] /\ DOMAIN frames' = 0 .. (MAX_STACK_TRACE_DEPTH - 1)
  BY <1>9 DEF GuestInv
<1>. QED  BY <1>2, <1>5, <1>10, <1>11, <1>12, <1>13 DEF GuestInv

(* What neither calls nor returns: the function's own instructions.        *)
LEMMA InsideTraced ==
  ASSUME GuestInv, UNCHANGED <<acts, trace>>, reg' \in [Registers -> Address], pc' \in Address,
         reg'[RLNK] = reg[RLNK]
  PROVE  GuestInv'
<1>1. Calls' = Calls
  BY DEF Calls
<1>2. \A k \in Calls : ReturnAddress(k)' = ReturnAddress(k)
  BY DEF ReturnAddress
<1>3. acts' \in Seq(Activation) /\ LinkKept'
  BY DEF GuestInv, LinkKept
<1>4. depth' = Cardinality(Calls)' /\ LinksTrue' /\ DOMAIN frames' = DOMAIN frames
  BY <1>1, <1>2, LinksSame DEF GuestInv
<1>. QED  BY <1>3, <1>4 DEF GuestInv

(* A function stores its link register, or takes it back: the address that *)
(* it will return to has moved.                                            *)
LEMMA LinkMoved ==
  ASSUME GuestInv, UNCHANGED trace, acts # << >>, Last.kind = "call",
         NEW a \in Activation, acts' = Append(Outer, a), a.kind = "call",
         reg' \in [Registers -> Address], pc' \in Address,
         NEW link,
         (Last.stored = TRUE /\ Last.link = link) \/ (Last.stored = FALSE /\ reg[RLNK] = link),
         (a.stored = TRUE /\ a.link = link) \/ (a.stored = FALSE /\ reg'[RLNK] = link)
  PROVE  GuestInv'
<1>. DEFINE n == Len(acts)
<1>1. acts \in Seq(Activation)
  BY DEF GuestInv
<1>2. /\ acts' \in Seq(Activation) /\ n \in Nat \ {0} /\ Len(acts') = n
      /\ DOMAIN acts = 1 .. n /\ DOMAIN acts' = 1 .. n
      /\ \A k \in 1 .. (n - 1) : acts'[k] = acts[k]
      /\ acts'[n] = a
  <2>1. /\ Outer \in Seq(Activation) /\ n \in Nat \ {0} /\ Len(Outer) = n - 1 /\ DOMAIN acts = 1 .. n
        /\ \A k \in 1 .. (n - 1) : Outer[k] = acts[k]
    BY <1>1, OuterShorter
  <2>. HIDE DEF n
  <2>2. /\ acts' \in Seq(Activation) /\ Len(acts') = Len(Outer) + 1 /\ DOMAIN acts' = 1 .. (Len(Outer) + 1)
        /\ \A k \in 1 .. Len(Outer) : acts'[k] = Outer[k]
        /\ acts'[Len(Outer) + 1] = a
    BY <2>1, Longer
  <2>3. Len(Outer) + 1 = n
    BY <2>1
  <2>. QED  BY <2>1, <2>2, <2>3
<1>3. Last = acts[n] /\ acts[n].kind = "call"
  BY DEF Last
<1>4. \A k \in 1 .. (n - 1) : acts[k].stored = TRUE \/ acts[k + 1].kind = "irq"
  BY DEF GuestInv, LinkKept
<1>5. n = Len(acts)
  OBVIOUS
<1>. HIDE DEF n
<1>6. \A k \in 1 .. n : k \in 1 .. (n - 1) \/ k = n
  BY <1>2
<1>7. \A k \in 1 .. (n - 1) : k \in 1 .. n /\ k + 1 \in 1 .. n /\ k # n
  BY <1>2
<1>8. \A k \in 1 .. n : acts'[k].kind = acts[k].kind
  BY <1>2, <1>3, <1>6
<1>9. LinkKept'
  <2>1. \A k \in 1 .. n : acts'[k].kind = "irq" => acts'[k].stored = TRUE
    BY <1>2, <1>6, <1>7 DEF GuestInv, LinkKept
  <2>2. \A k \in 1 .. (n - 1) : acts'[k].stored = TRUE \/ acts'[k + 1].kind = "irq"
    BY <1>2, <1>4, <1>7, <1>8
  <2>. QED  BY <1>2, <2>1, <2>2 DEF LinkKept
<1>10. Calls' = Calls
  BY <1>2, <1>8 DEF Calls
<1>11. ASSUME NEW k \in Calls
       PROVE  ReturnAddress(k)' = ReturnAddress(k)
  <2>1. CASE k = n
    <3>1. ReturnAddress(k)' = link
      BY <1>2, <2>1 DEF ReturnAddress
    <3>2. ReturnAddress(k) = link
      BY <1>3, <1>5, <2>1 DEF ReturnAddress
    <3>. QED  BY <3>1, <3>2
  <2>2. CASE k # n
    <3>1. k \in 1 .. (n - 1)
      BY <1>2, <1>6, <2>2 DEF Calls
    <3>2. acts'[k] = acts[k] /\ k + 1 \in 1 .. n
      BY <1>2, <1>7, <3>1
    <3>3. CASE acts[k].stored = TRUE
      BY <3>2, <3>3 DEF ReturnAddress
    <3>4. CASE acts[k].stored # TRUE
      <4>1. acts[k + 1].kind = "irq"
        BY <1>4, <3>1, <3>4
      <4>2. k + 1 # n
        BY <1>3, <4>1
      <4>3. k + 1 \in 1 .. (n - 1)
        BY <1>6, <3>2, <4>2
      <4>4. acts'[k + 1] = acts[k + 1]
        BY <1>2, <4>3
      <4>. QED  BY <1>2, <1>5, <2>2, <3>2, <4>4 DEF ReturnAddress
    <3>. QED  BY <3>3, <3>4
  <2>. QED  BY <2>1, <2>2
<1>12. depth' = Cardinality(Calls)' /\ LinksTrue' /\ DOMAIN frames' = DOMAIN frames
  BY <1>10, <1>11, LinksSame DEF GuestInv
<1>. QED  BY <1>2, <1>9, <1>12 DEF GuestInv

(* A handler keeps the link register of what it interrupts.                *)
LEMMA InterruptTraced ==
  ASSUME GuestInv, Interrupt
  PROVE  GuestInv'
<1>. DEFINE n == Len(acts)
            a == [kind |-> "irq", stored |-> TRUE, link |-> reg[RLNK], resume |-> pc]
<1>1. acts' = Append(acts, a) /\ pc' = Vector /\ reg' = reg /\ UNCHANGED trace
  BY DEF Interrupt
<1>2. a \in Activation /\ a.kind = "irq" /\ a.stored = TRUE /\ a.link = reg[RLNK]
  BY TraceAssumption DEF GuestInv, Activation
<1>0. a.link = reg[RLNK]
  OBVIOUS
<1>. HIDE DEF a
<1>3. /\ acts' \in Seq(Activation) /\ n \in Nat /\ Len(acts') = n + 1
      /\ DOMAIN acts = 1 .. n /\ DOMAIN acts' = 1 .. (n + 1)
      /\ \A k \in 1 .. n : acts'[k] = acts[k]
      /\ acts'[n + 1] = a
  BY <1>1, <1>2, Longer DEF GuestInv
<1>4. /\ \A k \in 1 .. n : acts[k].kind = "irq" => acts[k].stored = TRUE
      /\ \A k \in 1 .. (n - 1) : acts[k].stored = TRUE \/ acts[k + 1].kind = "irq"
  BY <1>3 DEF GuestInv, LinkKept
<1>5. n = Len(acts)
  OBVIOUS
<1>. HIDE DEF n
<1>6. /\ \A k \in 1 .. (n + 1) : k \in 1 .. n \/ k = n + 1
      /\ \A k \in 1 .. n : k \in 1 .. (n + 1) /\ k # n + 1 /\ (k = n \/ (k \in 1 .. (n - 1) /\ k + 1 \in 1 .. n))
  BY <1>3
<1>7. LinkKept'
  <2>1. \A k \in 1 .. (n + 1) : acts'[k].kind = "irq" => acts'[k].stored = TRUE
    BY <1>2, <1>3, <1>4, <1>6
  <2>2. \A k \in 1 .. n : acts'[k].stored = TRUE \/ acts'[k + 1].kind = "irq"
    BY <1>2, <1>3, <1>4, <1>6
  <2>3. Len(acts') - 1 = n
    BY <1>3
  <2>. QED  BY <1>3, <2>1, <2>2, <2>3 DEF LinkKept
<1>8. Calls' = Calls
  <2>1. ~("irq" = "call")
    OBVIOUS
  <2>. QED  BY <1>2, <1>3, <1>6, <2>1 DEF Calls
<1>9. ASSUME NEW k \in Calls
      PROVE  ReturnAddress(k)' = ReturnAddress(k)
  <2>0. k \in 1 .. n
    BY <1>3 DEF Calls
  <2>1. k \in 1 .. n /\ acts'[k] = acts[k] /\ k # n + 1
    <3>1. acts'[k] = acts[k]
      BY <1>3, <2>0
    <3>2. k # n + 1
      BY <1>6, <2>0
    <3>. QED  BY <2>0, <3>1, <3>2
  <2>2. CASE k = n
    <3>1. acts'[k + 1] = a
      BY <1>3, <2>2
    <3>2. k # Len(acts')
      BY <1>3, <2>1, <2>2
    <3>3. k = Len(acts)
      BY <1>5, <2>2
    <3>. QED  BY <1>0, <2>1, <3>1, <3>2, <3>3, Zenon DEF ReturnAddress
  <2>3. CASE k # n
    <3>1. k + 1 \in 1 .. n
      BY <1>6, <2>0, <2>3
    <3>2. acts'[k + 1] = acts[k + 1]
      BY <1>3, <3>1
    <3>3. k # Len(acts')
      BY <1>3, <2>1
    <3>4. k # Len(acts)
      BY <1>5, <2>3
    <3>. QED  BY <2>1, <3>2, <3>3, <3>4, Zenon DEF ReturnAddress
  <2>. QED  BY <2>2, <2>3, Zenon
<1>10. depth' = Cardinality(Calls)' /\ LinksTrue' /\ DOMAIN frames' = DOMAIN frames
  BY <1>1, <1>8, <1>9, LinksSame DEF GuestInv
<1>. QED  BY <1>1, <1>3, <1>7, <1>10, GuestAssumption DEF GuestInv

(* It gives the link register back.                                        *)
LEMMA ResumeTraced ==
  ASSUME GuestInv, Resume
  PROVE  GuestInv'
<1>. DEFINE n == Len(acts)
<1>1. acts # << >> /\ acts \in Seq(Activation) /\ acts' = Outer /\ UNCHANGED trace
  BY DEF Resume, In, GuestInv
<1>2. /\ acts' \in Seq(Activation) /\ n \in Nat \ {0} /\ Len(acts') = n - 1
      /\ DOMAIN acts = 1 .. n /\ DOMAIN acts' = 1 .. (n - 1)
      /\ \A k \in 1 .. (n - 1) : acts'[k] = acts[k]
  BY <1>1, OuterShorter
<1>3. Last = acts[n] /\ acts[n].kind = "irq" /\ Last \in Activation
  BY <1>1, LastOne DEF Resume, In, Last
<1>4. reg' \in [Registers -> Address] /\ reg'[RLNK] = acts[n].link /\ pc' \in Address
  <2>1. Last.link \in Address /\ Last.resume \in Address
    BY <1>3 DEF Activation
  <2>2. reg' = SetReg(reg, RLNK, Last.link) /\ pc' = Last.resume
    BY DEF Resume
  <2>. QED  BY <1>3, <2>1, <2>2, RegisterSet, TraceAssumption DEF GuestInv
<1>5. /\ \A k \in 1 .. n : acts[k].kind = "irq" => acts[k].stored = TRUE
      /\ \A k \in 1 .. (n - 1) : acts[k].stored = TRUE \/ acts[k + 1].kind = "irq"
  BY <1>2 DEF GuestInv, LinkKept
<1>6. n = Len(acts)
  OBVIOUS
<1>. HIDE DEF n
<1>7. /\ \A k \in 1 .. n : k \in 1 .. (n - 1) \/ k = n
      /\ \A k \in 1 .. (n - 1) : k \in 1 .. n /\ k # n /\ (k = n - 1 \/ (k \in 1 .. ((n - 1) - 1) /\ k + 1 \in 1 .. (n - 1)))
      /\ \A k \in 1 .. ((n - 1) - 1) : k \in 1 .. (n - 1) /\ k + 1 \in 1 .. (n - 1)
  BY <1>2
<1>8. LinkKept'
  <2>1. \A k \in 1 .. (n - 1) : acts'[k].kind = "irq" => acts'[k].stored = TRUE
    BY <1>2, <1>5, <1>7
  <2>2. \A k \in 1 .. ((n - 1) - 1) : acts'[k].stored = TRUE \/ acts'[k + 1].kind = "irq"
    BY <1>2, <1>5, <1>7
  <2>. QED  BY <1>2, <2>1, <2>2 DEF LinkKept
<1>9. Calls' = Calls
  <2>1. ~("irq" = "call")
    OBVIOUS
  <2>. QED  BY <1>2, <1>3, <1>7, <2>1 DEF Calls
<1>10. ASSUME NEW k \in Calls
       PROVE  ReturnAddress(k)' = ReturnAddress(k)
  <2>1. k \in 1 .. (n - 1) /\ acts'[k] = acts[k] /\ k # n
    BY <1>2, <1>9 DEF Calls
  <2>2. CASE k = n - 1
    <3>1. k + 1 = n
      BY <1>2, <2>2
    <3>. QED  BY <1>2, <1>4, <1>6, <2>1, <2>2, <3>1 DEF ReturnAddress
  <2>3. CASE k # n - 1
    <3>1. acts'[k + 1] = acts[k + 1]
      BY <1>2, <1>7, <2>1, <2>3
    <3>. QED  BY <1>2, <1>6, <2>1, <2>3, <3>1 DEF ReturnAddress
  <2>. QED  BY <2>2, <2>3
<1>11. depth' = Cardinality(Calls)' /\ LinksTrue' /\ DOMAIN frames' = DOMAIN frames
  BY <1>1, <1>9, <1>10, LinksSame DEF GuestInv
<1>. QED  BY <1>2, <1>4, <1>8, <1>11 DEF GuestInv

(* Every step of the guest in normal form.                                 *)
LEMMA GuestTraced ==
  ASSUME GuestInv, ~damaged, GNext
  PROVE  GuestInv' /\ ~damaged'
<1>1. reg \in [Registers -> Address] /\ pc \in Address /\ RLNK \in Registers /\ RLNK # 0 /\ 0 \in Registers
  BY TraceAssumption DEF GuestInv
<1>2. NextPc(pc) \in Address
  BY <1>1, NextAddress
<1>3. /\ SetReg(reg, RLNK, NextPc(pc)) \in [Registers -> Address]
      /\ SetReg(reg, RLNK, NextPc(pc))[RLNK] = NextPc(pc)
  BY <1>1, <1>2, RegisterSet
<1>4. CASE Call
  <2>1. MayCall /\ acts' = Append(acts, Called)
    BY <1>4 DEF Call
  <2>2. \E insn, lnk, target : TraceJmp(insn, lnk, target) /\ lnk = NextPc(pc)
    <3>1. ASSUME NEW to \in Entries, JmpILnk(to)
          PROVE  \E insn, lnk, target : TraceJmp(insn, lnk, target) /\ lnk = NextPc(pc)
      BY <3>1 DEF JmpILnk
    <3>2. ASSUME NEW rs1 \in Registers \ {0, RLNK}, Jmp(RLNK, rs1)
          PROVE  \E insn, lnk, target : TraceJmp(insn, lnk, target) /\ lnk = NextPc(pc)
      BY <3>2 DEF Jmp, Record
    <3>. QED  BY <1>4, <3>1, <3>2 DEF Call
  <2>3. reg' = SetReg(reg, RLNK, NextPc(pc)) /\ pc' \in Address
    <3>1. ASSUME NEW to \in Entries, JmpILnk(to)
          PROVE  reg' = SetReg(reg, RLNK, NextPc(pc)) /\ pc' \in Address
      BY <3>1, GuestAssumption DEF JmpILnk
    <3>2. ASSUME NEW rs1 \in Registers \ {0, RLNK}, Jmp(RLNK, rs1)
          PROVE  reg' = SetReg(reg, RLNK, NextPc(pc)) /\ pc' \in Address
      BY <1>3, <3>2 DEF Jmp
    <3>. QED  BY <1>4, <3>1, <3>2 DEF Call
  <2>4. PICK insn, lnk, target : TraceJmp(insn, lnk, target) /\ lnk = NextPc(pc)
    BY <2>2
  <2>5. GuestInv'
    BY <1>3, <2>1, <2>3, <2>4, CallTraced
  <2>6. ~damaged'
    BY <2>4, Zenon DEF TraceJmp
  <2>. QED  BY <2>5, <2>6
<1>5. CASE StoreLink
  <2>. DEFINE a == [Last EXCEPT !.stored = TRUE, !.link = reg[RLNK]]
  <2>1. acts # << >> /\ Last.kind = "call" /\ Last.stored = FALSE /\ acts' = Append(Outer, a)
    BY <1>5 DEF StoreLink, In
  <2>2. Last \in Activation
    BY <2>1, LastOne
  <2>3. a \in Activation /\ a.kind = "call" /\ a.stored = TRUE /\ a.link = reg[RLNK]
    BY <1>1, <2>1, <2>2 DEF Activation
  <2>4. reg' = reg /\ pc' \in Address /\ UNCHANGED trace
    BY <1>2, <1>5 DEF StoreLink, Compute, SetReg
  <2>. HIDE DEF a
  <2>5. GuestInv'
    BY <1>1, <2>1, <2>3, <2>4, LinkMoved
  <2>. QED  BY <2>4, <2>5, Zenon DEF trace
<1>6. CASE LoadLink
  <2>. DEFINE a == [Last EXCEPT !.stored = FALSE]
  <2>1. acts # << >> /\ Last.kind = "call" /\ Last.stored = TRUE /\ acts' = Append(Outer, a)
    BY <1>6 DEF LoadLink, In
  <2>2. Last \in Activation /\ Last.link \in Address
    BY <2>1, LastOne DEF Activation
  <2>3. a \in Activation /\ a.kind = "call" /\ a.stored = FALSE
    BY <2>1, <2>2 DEF Activation
  <2>4. reg' = SetReg(reg, RLNK, Last.link) /\ pc' = NextPc(pc) /\ UNCHANGED trace
    BY <1>6 DEF LoadLink, Compute
  <2>5. reg' \in [Registers -> Address] /\ reg'[RLNK] = Last.link
    BY <1>1, <2>2, <2>4, RegisterSet
  <2>. HIDE DEF a
  <2>6. GuestInv'
    BY <1>2, <2>1, <2>3, <2>4, <2>5, LinkMoved
  <2>. QED  BY <2>4, <2>6, Zenon DEF trace
<1>7. CASE Return
  <2>1. In("call", FALSE) /\ acts' = Outer /\ reg' = SetReg(reg, 0, NextPc(pc)) /\ pc' = reg'[RLNK] /\ TraceReturn
    BY <1>7 DEF Return, Jmp, Record
  <2>2. reg' = reg /\ pc' \in Address
    BY <1>1, <2>1 DEF SetReg
  <2>. QED  BY <2>1, <2>2, ReturnTraced
<1>8. CASE Interrupt
  <2>1. GuestInv'
    BY <1>8, InterruptTraced
  <2>. QED  BY <1>8, <2>1, Zenon DEF Interrupt, trace
<1>9. CASE Resume
  <2>1. GuestInv'
    BY <1>9, ResumeTraced
  <2>. QED  BY <1>9, <2>1, Zenon DEF Resume, trace
<1>10. CASE Inside
  <2>1. UNCHANGED acts /\ UNCHANGED trace /\ pc' \in Address
        /\ reg' \in [Registers -> Address] /\ reg'[RLNK] = reg[RLNK]
    <3>1. ASSUME NEW to \in Address, JmpI(to)
          PROVE  UNCHANGED trace /\ pc' \in Address /\ reg' \in [Registers -> Address] /\ reg'[RLNK] = reg[RLNK]
      BY <1>1, <3>1 DEF JmpI
    <3>2. ASSUME NEW rs1 \in Registers \ {0, RLNK}, Jmp(0, rs1)
          PROVE  UNCHANGED trace /\ pc' \in Address /\ reg' \in [Registers -> Address] /\ reg'[RLNK] = reg[RLNK]
      BY <1>1, <3>2 DEF Jmp, Record, SetReg
    <3>3. ASSUME NEW rd \in Registers \ {RLNK}, NEW value \in Address, Compute(rd, value)
          PROVE  UNCHANGED trace /\ pc' \in Address /\ reg' \in [Registers -> Address] /\ reg'[RLNK] = reg[RLNK]
      BY <1>1, <1>2, <3>3, RegisterSet DEF Compute
    <3>. QED  BY <1>10, <3>1, <3>2, <3>3 DEF Inside
  <2>2. GuestInv'
    BY <2>1, InsideTraced
  <2>. QED  BY <2>1, <2>2, Zenon DEF trace
<1>11. CASE (MayCall /\ CallPanic /\ UNCHANGED acts) \/ (Exited /\ UNCHANGED acts)
  <2>1. UNCHANGED acts /\ UNCHANGED trace /\ UNCHANGED <<reg, pc>>
    BY <1>11 DEF CallPanic, Exited, vars
  <2>2. GuestInv'
    BY <1>1, <2>1, InsideTraced
  <2>. QED  BY <2>1, <2>2, Zenon DEF trace
<1>. QED  BY <1>4, <1>5, <1>6, <1>7, <1>8, <1>9, <1>10, <1>11 DEF GNext
-----------------------------------------------------------------------------
(* The symbol table.                                                       *)
Entry == [vm_addr : {Value[t] : t \in Tokens}, sym_type : Tokens, symbol : Tokens]

(* The groups of the file that have been read.                             *)
Count == (Len(read) + 2) \div 3

(* The node of group g: the last group comes first.                        *)
NodeOf(g) == table[Count + 1 - g]

(* Each group read has its node.                                           *)
Tabled ==
  /\ Len(table) = Count
  /\ \A g \in 1 .. Count :
       /\ NodeOf(g).vm_addr = Value[read[3 * g - 2]]
       /\ 3 * g <= Len(read) => NodeOf(g).symbol = read[3 * g]
       /\ 3 * g > Len(read) /\ g > 1 => NodeOf(g).symbol = read[3 * g - 3]

(* Before the end of the file every group is whole, and the name of the    *)
(* last one is what an incomplete group finds in the buffer.               *)
Buffered ==
  /\ phase = "load" => buffer \in [vm_addr : Tokens, sym_type : Tokens, symbol : Tokens]
  /\ file # << >> => /\ phase = "load" /\ Len(read) = 3 * Count
                     /\ Count > 0 => buffer.symbol = read[3 * Count]

(* The inductive invariant of LastDefinition.                              *)
SymbolInv ==
  /\ phase \in {"load", "run"}
  /\ file \in Seq(Tokens) /\ read \in Seq(Tokens) /\ table \in Seq(Entry)
  /\ Tabled /\ Buffered

(* A sequence made of two.                                                 *)
LEMMA Joined ==
  ASSUME NEW S, NEW a, NEW b, a \in Seq(S), b \in Seq(S), NEW t, t = a \o b
  PROVE  /\ t \in Seq(S) /\ Len(t) = Len(a) + Len(b) /\ Len(a) \in Nat /\ Len(b) \in Nat
         /\ \A k \in 1 .. Len(a) : t[k] = a[k]
         /\ \A k \in 1 .. Len(b) : t[Len(a) + k] = b[k]
OBVIOUS

(* The two parts of a sequence.                                            *)
LEMMA Split ==
  ASSUME NEW S, NEW s \in Seq(S), NEW m \in 0 .. Len(s), NEW t, t = SubSeq(s, 1, m), NEW u, u = SubSeq(s, m + 1, Len(s))
  PROVE  /\ t \in Seq(S) /\ Len(t) = m /\ \A k \in 1 .. m : t[k] = s[k]
         /\ u \in Seq(S) /\ Len(u) = Len(s) - m
<1>1. Len(s) \in Nat /\ \A k \in 1 .. Len(s) : s[k] \in S
  BY Element
<1>2. t = [k \in 1 .. m |-> s[k]]
  BY <1>1
<1>3. u = [k \in 1 .. (Len(s) - m) |-> s[m + k]]
  BY <1>1
<1>4. \A k \in 1 .. (Len(s) - m) : m + k \in 1 .. Len(s)
  BY <1>1
<1>5. u \in Seq(S) /\ Len(u) = Len(s) - m
  BY <1>1, <1>3, <1>4
<1>. QED  BY <1>1, <1>2, <1>5

(* Nothing is read yet.                                                    *)
LEMMA SymbolInit == Symbols!Init => SymbolInv
<1>. SUFFICES ASSUME Symbols!Init
              PROVE  SymbolInv
  OBVIOUS
<1>1. PICK n \in 0 .. MAX_TOKENS : file \in [1 .. n -> Tokens]
  BY DEF Symbols!Init
<1>2. n \in Nat
  BY TokenAssumption
<1>3. file \in Seq(Tokens)
  BY <1>1, <1>2
<1>4. read = << >> /\ table = << >> /\ phase = "load" /\ buffer \in [vm_addr : Tokens, sym_type : Tokens, symbol : Tokens]
  BY DEF Symbols!Init
<1>5. Len(read) = 0 /\ Len(table) = 0 /\ Count = 0
  BY <1>4 DEF Count
<1>. QED  BY <1>3, <1>4, <1>5 DEF SymbolInv, Tabled, Buffered

(* A group adds its node in front.                                         *)
LEMMA GroupRead ==
  ASSUME SymbolInv, Symbols!ReadSymbol
  PROVE  SymbolInv'
<1>. DEFINE l == Len(read)
            c == Count
            m == IF Len(file) < 3 THEN Len(file) ELSE 3
            node == Symbols!Node(buffer')
<1>1. file # << >> /\ phase = "load" /\ file \in Seq(Tokens) /\ read \in Seq(Tokens) /\ table \in Seq(Entry)
  BY DEF Symbols!ReadSymbol, SymbolInv
<1>2. Len(file) \in Nat \ {0} /\ \A k \in 1 .. Len(file) : file[k] \in Tokens
  <2>1. Len(file) \in Nat /\ Len(file) # 0
    BY <1>1
  <2>. QED  BY <1>1, <2>1, Element
<1>3. m \in 1 .. 3 /\ m <= Len(file) /\ (m < 3 => m = Len(file))
  <2>1. CASE Len(file) < 3
    <3>1. m = Len(file)
      BY <2>1
    <3>. HIDE DEF m
    <3>. QED  BY <1>2, <2>1, <3>1
  <2>2. CASE ~(Len(file) < 3)
    <3>1. m = 3
      BY <2>2
    <3>. HIDE DEF m
    <3>. QED  BY <1>2, <2>2, <3>1
  <2>. QED  BY <2>1, <2>2
<1>4. c \in Nat /\ l = 3 * c /\ l \in Nat
  <2>1. l \in Nat /\ l = 3 * c
    BY <1>1 DEF SymbolInv, Buffered
  <2>. QED  BY <2>1 DEF Count
<1>5. read' = read \o SubSeq(file, 1, m) /\ table' = <<node>> \o table /\ phase' = "load"
  BY <1>1 DEF Symbols!ReadSymbol
<1>6. file' = SubSeq(file, 4, Len(file))
  BY DEF Symbols!ReadSymbol
<1>7. /\ buffer' = [vm_addr |-> buffer'.vm_addr, sym_type |-> buffer'.sym_type, symbol |-> buffer'.symbol]
      /\ buffer'.vm_addr = file[1]
      /\ buffer'.sym_type = IF 2 <= Len(file) THEN file[2] ELSE buffer.sym_type
      /\ buffer'.symbol = IF 3 <= Len(file) THEN file[3] ELSE buffer.symbol
  BY <1>2 DEF Symbols!ReadSymbol, Symbols!Scanned
<1>8. buffer' \in [vm_addr : Tokens, sym_type : Tokens, symbol : Tokens]
  <2>1. buffer.sym_type \in Tokens /\ buffer.symbol \in Tokens
    BY <1>1 DEF SymbolInv, Buffered
  <2>2. buffer'.vm_addr \in Tokens /\ buffer'.sym_type \in Tokens /\ buffer'.symbol \in Tokens
    BY <1>2, <1>7, <2>1
  <2>. QED  BY <1>7, <2>2
<1>9. node \in Entry /\ node.vm_addr = Value[file[1]] /\ node.symbol = buffer'.symbol
  BY <1>7, <1>8 DEF Symbols!Node, Entry
<1>10. file' \in Seq(Tokens) /\ (file' # << >> => m = 3)
  <2>1. CASE m = 3
    <3>1. file' \in Seq(Tokens)
      BY <1>1, <1>2, <1>3, <1>6, <2>1, Split
    <3>. QED  BY <2>1, <3>1
  <2>2. CASE m # 3
    BY <1>2, <1>3, <1>6, <2>2
  <2>. QED  BY <2>1, <2>2
<1>. DEFINE front == SubSeq(file, 1, m)
<1>11. front \in Seq(Tokens) /\ Len(front) = m /\ \A k \in 1 .. m : front[k] = file[k]
  <2>1. m \in 0 .. Len(file)
    BY <1>2, <1>3
  <2>. HIDE DEF m
  <2>. QED  BY <1>1, <2>1, Split
<1>12. read' = read \o front
  BY <1>5
<1>. HIDE DEF l, c, m, node, front
<1>13. /\ read' \in Seq(Tokens) /\ Len(read') = l + m
       /\ \A k \in 1 .. l : read'[k] = read[k]
       /\ \A k \in 1 .. m : read'[l + k] = file[k]
  <2>1. read \in Seq(Tokens) /\ front \in Seq(Tokens)
    BY <1>1, <1>11
  <2>2. /\ read' \in Seq(Tokens) /\ Len(read') = Len(read) + Len(front)
        /\ \A k \in 1 .. Len(read) : read'[k] = read[k]
        /\ \A k \in 1 .. Len(front) : read'[Len(read) + k] = front[k]
    BY <1>12, <2>1, Joined
  <2>. QED  BY <1>11, <2>2 DEF l
<1>14. <<node>> \in Seq(Entry) /\ Len(<<node>>) = 1 /\ <<node>>[1] = node
  BY <1>9
<1>15. Len(table) = c
  BY DEF SymbolInv, Tabled, c
<1>16. /\ table' \in Seq(Entry) /\ Len(table') = c + 1 /\ table'[1] = node
       /\ \A k \in 1 .. c : table'[1 + k] = table[k]
  <2>. DEFINE one == <<node>>
  <2>1. one \in Seq(Entry) /\ Len(one) = 1 /\ one[1] = node /\ table' = one \o table
    BY <1>5, <1>14
  <2>. HIDE DEF one
  <2>2. table \in Seq(Entry) /\ one \in Seq(Entry) /\ table' = one \o table
    BY <1>1, <2>1
  <2>3. /\ table' \in Seq(Entry) /\ Len(table') = Len(one) + Len(table)
        /\ \A k \in 1 .. Len(one) : table'[k] = one[k]
        /\ \A k \in 1 .. Len(table) : table'[Len(one) + k] = table[k]
    BY <2>2, Joined
  <2>. QED  BY <1>4, <1>15, <2>1, <2>3
<1>17. Count' = c + 1
  <2>1. (l + m + 2) \div 3 = c + 1
    BY <1>3, <1>4
  <2>. QED  BY <1>13, <2>1 DEF Count
<1>18. ASSUME NEW g \in 1 .. (c + 1)
       PROVE  /\ NodeOf(g)'.vm_addr = Value[read'[3 * g - 2]]
              /\ 3 * g <= Len(read') => NodeOf(g)'.symbol = read'[3 * g]
              /\ 3 * g > Len(read') /\ g > 1 => NodeOf(g)'.symbol = read'[3 * g - 3]
  <2>1. CASE g = c + 1
    <3>1. NodeOf(g)' = node
      <4>1. (c + 1) + 1 - g = 1
        BY <1>4, <2>1
      <4>. QED  BY <1>16, <1>17, <4>1 DEF NodeOf
    <3>2. 3 * g - 2 = l + 1 /\ 3 * g = l + 3 /\ 3 * g - 3 = l
      BY <1>4, <2>1
    <3>3. read'[3 * g - 2] = file[1]
      BY <1>3, <1>13, <3>2
    <3>4. ASSUME 3 * g <= Len(read')
          PROVE  node.symbol = read'[3 * g]
      <4>1. m = 3 /\ 3 <= Len(file)
        BY <1>2, <1>3, <1>4, <1>13, <3>2, <3>4
      <4>. QED  BY <1>7, <1>9, <1>13, <3>2, <4>1
    <3>5. ASSUME 3 * g > Len(read'), g > 1
          PROVE  node.symbol = read'[3 * g - 3]
      <4>1. m < 3 /\ ~(3 <= Len(file)) /\ c > 0 /\ l \in 1 .. l
        BY <1>2, <1>3, <1>4, <1>13, <2>1, <3>2, <3>5
      <4>2. buffer.symbol = read[l]
        BY <1>1, <1>4, <4>1 DEF SymbolInv, Buffered, c
      <4>. QED  BY <1>7, <1>9, <1>13, <3>2, <4>1, <4>2
    <3>. QED  BY <1>9, <3>1, <3>3, <3>4, <3>5
  <2>2. CASE g # c + 1
    <3>1. g \in 1 .. c
      BY <1>4, <2>2
    <3>2. NodeOf(g)' = NodeOf(g)
      <4>1. c + 1 - g \in 1 .. c /\ (c + 1) + 1 - g = 1 + (c + 1 - g)
        BY <1>4, <3>1
      <4>. QED  BY <1>16, <1>17, <4>1 DEF NodeOf, c
    <3>3. 3 * g - 2 \in 1 .. l /\ 3 * g \in 1 .. l /\ 3 * g <= l /\ ~(3 * g > Len(read'))
      BY <1>3, <1>4, <1>13, <3>1
    <3>4. NodeOf(g).vm_addr = Value[read[3 * g - 2]] /\ NodeOf(g).symbol = read[3 * g]
      BY <3>1, <3>3 DEF SymbolInv, Tabled, c, l
    <3>. QED  BY <1>13, <3>2, <3>3, <3>4
  <2>. QED  BY <2>1, <2>2
<1>19. Tabled'
  BY <1>16, <1>17, <1>18 DEF Tabled
<1>20. Buffered'
  <2>1. ASSUME file' # << >>
        PROVE  Len(read') = 3 * (c + 1) /\ buffer'.symbol = read'[3 * (c + 1)]
    <3>1. m = 3 /\ 3 * (c + 1) = l + 3 /\ 3 <= Len(file)
      BY <1>2, <1>3, <1>4, <1>10, <2>1
    <3>. QED  BY <1>7, <1>13, <3>1
  <2>. QED  BY <1>5, <1>8, <1>17, <2>1 DEF Buffered
<1>. QED  BY <1>5, <1>10, <1>13, <1>16, <1>19, <1>20 DEF SymbolInv

(* Every step of load_symtable() keeps the invariant.                      *)
LEMMA SymbolStep == SymbolInv /\ [Symbols!Next]_symbolVars => SymbolInv'
<1>. SUFFICES ASSUME SymbolInv, [Symbols!Next]_symbolVars
              PROVE  SymbolInv'
  OBVIOUS
<1>1. CASE Symbols!EndOfFile
  <2>1. UNCHANGED <<file, read, table>> /\ phase' = "run" /\ file = << >>
    BY <1>1 DEF Symbols!EndOfFile
  <2>. QED  BY <2>1 DEF SymbolInv, Tabled, Buffered, NodeOf, Count
<1>2. CASE Symbols!Run \/ UNCHANGED symbolVars
  <2>1. UNCHANGED <<file, read, buffer, table, phase>>
    BY <1>2 DEF Symbols!Run, Symbols!vars, symbolVars
  <2>. QED  BY <2>1 DEF SymbolInv, Tabled, Buffered, NodeOf, Count
<1>. QED  BY <1>1, <1>2, GroupRead DEF Symbols!Next

(* A set of numbers up to n has a greatest one.                            *)
LEMMA GreatestExists ==
  ASSUME NEW n \in Nat, NEW T, T \subseteq 1 .. n, T # {}
  PROVE  \E x \in T : \A y \in T : y <= x
<1>. DEFINE U == {n - x : x \in T}
<1>1. U \subseteq Nat /\ U # {}
  OBVIOUS
<1>. HIDE DEF U
<1>2. PICK m \in U : \A y \in U : ~(<<y, m>> \in OpToRel(<, Nat))
  BY <1>1, NatLessThanWellFounded, WFMin
<1>3. \A y \in U : ~(y < m)
  BY <1>1, <1>2 DEF OpToRel
<1>4. PICK x \in T : m = n - x
  BY DEF U
<1>5. ASSUME NEW y \in T
      PROVE  y <= x
  <2>1. n - y \in U
    BY DEF U
  <2>2. ~(n - y < n - x)
    BY <1>3, <1>4, <2>1
  <2>3. y \in Nat /\ x \in Nat
    OBVIOUS
  <2>. QED  BY <2>2, <2>3
<1>. QED  BY <1>5

(* The first node with an address is that of its last definition.          *)
LEMMA LookUp ==
  ASSUME SymbolInv, NEW addr
  PROVE  LET defs == {g \in Symbols!Groups : Symbols!Defines(g, addr)}
             last == CHOOSE g \in defs : \A h \in defs : h <= g
         IN  /\ Symbols!Matches(addr) # {} <=> defs # {}
             /\ defs # {} /\ Symbols!Whole(last) => Symbols!Find(addr) = read[3 * last]
             /\ defs # {} /\ ~Symbols!Whole(last) /\ last > 1 => Symbols!Find(addr) = read[3 * last - 3]
<1>. DEFINE defs == {g \in Symbols!Groups : Symbols!Defines(g, addr)}
            last == CHOOSE g \in defs : \A h \in defs : h <= g
            fits == Symbols!Matches(addr)
            first == CHOOSE k \in fits : \A j \in fits : k <= j
<1>1. Len(read) \in Nat /\ Count \in Nat /\ Symbols!Groups = 1 .. Count
  BY DEF SymbolInv, Count, Symbols!Groups
<1>2. Len(table) = Count /\ DOMAIN table = 1 .. Count
  BY DEF SymbolInv, Tabled
<1>3. \A g \in 1 .. Count : g \in defs <=> Value[read[3 * g - 2]] = addr
  BY <1>1 DEF Symbols!Defines
<1>4. \A g \in 1 .. Count : Count + 1 - g \in fits <=> NodeOf(g).vm_addr = addr
  <2>1. \A g \in 1 .. Count : Count + 1 - g \in 1 .. Count
    BY <1>1
  <2>. QED  BY <1>2, <2>1 DEF Symbols!Matches, NodeOf
<1>5. \A g \in 1 .. Count : g \in defs <=> Count + 1 - g \in fits
  BY <1>3, <1>4 DEF SymbolInv, Tabled
<1>6. defs \subseteq 1 .. Count /\ fits \subseteq 1 .. Count
  BY <1>1, <1>2 DEF Symbols!Matches
<1>7. Symbols!Find(addr) = table[first].symbol
  BY DEF Symbols!Find
<1>8. last = CHOOSE g \in defs : \A h \in defs : h <= g
  OBVIOUS
<1>9. first = CHOOSE k \in fits : \A j \in fits : k <= j
  OBVIOUS
<1>. HIDE DEF defs, last, fits, first
<1>10. \A j \in fits : Count + 1 - j \in defs
  <2>1. \A j \in 1 .. Count : Count + 1 - j \in 1 .. Count /\ Count + 1 - (Count + 1 - j) = j
    BY <1>1
  <2>. QED  BY <1>5, <1>6, <2>1
<1>11. fits # {} <=> defs # {}
  BY <1>5, <1>6, <1>10
<1>12. ASSUME defs # {}
       PROVE  last \in 1 .. Count /\ Symbols!Find(addr) = NodeOf(last).symbol
  <2>1. \E g \in defs : \A h \in defs : h <= g
    BY <1>1, <1>6, <1>12, GreatestExists
  <2>2. last \in defs /\ \A h \in defs : h <= last
    BY <1>8, <2>1
  <2>3. last \in 1 .. Count /\ Count + 1 - last \in fits
    BY <1>5, <1>6, <2>2
  <2>4. \A j \in fits : Count + 1 - last <= j
    <3>1. ASSUME NEW j \in fits
          PROVE  Count + 1 - last <= j
      <4>1. Count + 1 - j <= last /\ j \in 1 .. Count
        BY <1>6, <1>10, <2>2
      <4>. QED  BY <1>1, <2>3, <4>1
    <3>. QED  BY <3>1
  <2>5. first \in fits /\ \A j \in fits : first <= j
    BY <1>9, <2>3, <2>4
  <2>6. first = Count + 1 - last
    <3>1. first <= Count + 1 - last /\ Count + 1 - last <= first /\ first \in 1 .. Count
      BY <1>6, <2>3, <2>4, <2>5
    <3>. QED  BY <1>1, <2>3, <3>1
  <2>. QED  BY <1>7, <2>3, <2>6 DEF NodeOf
<1>13. ASSUME defs # {}
       PROVE  /\ 3 * last <= Len(read) => Symbols!Find(addr) = read[3 * last]
              /\ ~(3 * last <= Len(read)) /\ last > 1 => Symbols!Find(addr) = read[3 * last - 3]
  <2>1. last \in 1 .. Count /\ Symbols!Find(addr) = NodeOf(last).symbol
    BY <1>12, <1>13
  <2>2. ~(3 * last <= Len(read)) => 3 * last > Len(read)
    BY <1>1, <2>1
  <2>. QED  BY <2>1, <2>2 DEF SymbolInv, Tabled
<1>. QED  BY <1>11, <1>13 DEF defs, last, fits, Symbols!Whole
-----------------------------------------------------------------------------
(* Both aids together: each step is one of the table or one of the guest.  *)
LEMMA AidsStep ==
  ASSUME [AidsNext]_<<gvars, symbolVars, normal>>
  PROVE  /\ [Symbols!Next]_symbolVars
         /\ normal' = normal
         /\ normal => GNext \/ UNCHANGED gvars
BY DEF AidsNext, Execute, gvars

(* The guest in normal form: an interrupt and the handler's end, which are *)
(* no steps of CallTrace, leave the counters; the others are.              *)
LEMMA GuestCounts ==
  ASSUME TraceInv, GNext
  PROVE  TraceInv'
<1>1. CASE Interrupt \/ Resume
  <2>1. UNCHANGED counters /\ UNCHANGED host
    BY <1>1 DEF Interrupt, Resume, counters, trace, history
  <2>. QED  BY <2>1, OthersKeep
<1>2. CASE ~(Interrupt \/ Resume)
  <2>1. 0 \in Registers /\ RLNK \in Registers
    BY TraceAssumption
  <2>2. CASE Call
    <3>1. ASSUME NEW to \in Entries, JmpILnk(to)
          PROVE  TraceInv'
      BY <3>1, CallCounts DEF JmpILnk
    <3>2. ASSUME NEW rs1 \in Registers \ {0, RLNK}, Jmp(RLNK, rs1)
          PROVE  TraceInv'
      <4>1. host = "running" /\ host' = host /\ TraceJmp(pc, NextPc(pc), pc')
        BY <3>2 DEF Jmp, Record
      <4>. QED  BY <4>1, CallCounts
    <3>. QED  BY <2>2, <3>1, <3>2 DEF Call
  <2>3. CASE StoreLink \/ LoadLink
    <3>1. UNCHANGED counters /\ UNCHANGED host
      BY <2>3 DEF StoreLink, LoadLink, Compute, counters, trace, history
    <3>. QED  BY <3>1, OthersKeep
  <2>4. CASE Return
    <3>1. host = "running" /\ host' = host /\ TraceReturn
      BY <2>4 DEF Return, Jmp, Record
    <3>. QED  BY <3>1, ReturnCounts
  <2>5. CASE Inside
    <3>1. [Next]_vars
      BY <2>1, <2>5 DEF Inside, Next
    <3>. QED  BY <3>1, StepCounts
  <2>6. CASE (MayCall /\ CallPanic /\ UNCHANGED acts) \/ (Exited /\ UNCHANGED acts)
    <3>1. [Next]_vars
      BY <2>6 DEF Next
    <3>. QED  BY <3>1, StepCounts
  <2>. QED  BY <1>2, <2>2, <2>3, <2>4, <2>5, <2>6 DEF GNext
<1>. QED  BY <1>1, <1>2

(* What holds of the guest if it is in normal form.                        *)
GuestTrue == normal => GuestInv /\ ~damaged

(* The guest starts with no function and no frame.                         *)
LEMMA GuestInit == AidsInit => GuestTrue
<1>. SUFFICES ASSUME AidsInit
              PROVE  GuestInv /\ ~damaged
  BY DEF GuestTrue
<1>1. acts = << >> /\ depth = 0 /\ pc = 0 /\ reg = [r \in Registers |-> 0] /\ DOMAIN frames = 0 .. (MAX_STACK_TRACE_DEPTH - 1)
  BY DEF AidsInit, GInit, Init
<1>2. acts \in Seq(Activation) /\ Len(acts) = 0 /\ DOMAIN acts = {}
  BY <1>1
<1>3. Calls = {} /\ LinkKept /\ LinksTrue
  BY <1>2 DEF Calls, LinkKept, LinksTrue
<1>4. Cardinality(Calls) = 0
  BY <1>3, FS_EmptySet
<1>5. 0 \in Address
  BY TraceAssumption DEF Address
<1>6. GuestInv
  BY <1>1, <1>2, <1>3, <1>4, <1>5 DEF GuestInv
<1>7. ~damaged
  BY Zenon DEF AidsInit, GInit, Init
<1>. QED  BY <1>6, <1>7

(* A guest that is in normal form stays so.                                *)
LEMMA GuestStep == GuestTrue /\ [AidsNext]_<<gvars, symbolVars, normal>> => GuestTrue'
<1>. SUFFICES ASSUME GuestTrue, [AidsNext]_<<gvars, symbolVars, normal>>, normal'
              PROVE  GuestInv' /\ ~damaged'
  BY DEF GuestTrue
<1>1. normal
  BY AidsStep, Zenon
<1>2. GuestInv /\ ~damaged
  BY <1>1, Zenon DEF GuestTrue
<1>3. CASE GNext
  BY <1>2, <1>3, GuestTraced
<1>4. CASE UNCHANGED gvars
  <2>1. UNCHANGED <<acts, trace, reg, pc>>
    BY <1>4 DEF gvars, vars
  <2>2. GuestInv'
    BY <1>2, <2>1, InsideTraced DEF GuestInv
  <2>. QED  BY <1>2, <2>1, <2>2, Zenon DEF trace
<1>. QED  BY <1>1, <1>3, <1>4, AidsStep, Zenon

(***************************************************************************)
(* The same through interrupts, and while the symbol table is loaded.      *)
(***************************************************************************)
THEOREM TraceDepthInterrupted == AidsSpec => []DepthReflects
<1>1. AidsInit => TraceInv
  BY InitCounts DEF AidsInit, GInit
<1>2. TraceInv /\ [AidsNext]_<<gvars, symbolVars, normal>> => TraceInv'
  <2>. SUFFICES ASSUME TraceInv, [AidsNext]_<<gvars, symbolVars, normal>>
                PROVE  TraceInv'
    OBVIOUS
  <2>1. [Next]_vars \/ GNext
    BY DEF AidsNext, Execute, gvars
  <2>. QED  BY <2>1, StepCounts, GuestCounts
<1>. QED  BY <1>1, <1>2, InvReflects, PTL DEF AidsSpec

(***************************************************************************)
(* However deep the calls nest, and at whatever instructions interrupts    *)
(* come in: the trace of a guest in call/return normal form has a frame    *)
(* for each function that has not returned, and the link address in it is  *)
(* the one that the function will return to, wherever the guest keeps it.  *)
(***************************************************************************)
THEOREM NormalFormMirrored == AidsSpec => []NormalFormTraced
<1>1. GuestTrue => NormalFormTraced
  <2>1. GuestInv /\ ~damaged => TraceMirrorsStack
    <3>. SUFFICES ASSUME GuestInv, ~damaged
                  PROVE  TraceMirrorsStack
      OBVIOUS
    <3>1. /\ depth = Cardinality(Calls)
          /\ \A k \in Calls : frames[Cardinality({j \in Calls : j < k})].lnk_pc = ReturnAddress(k)
      BY DEF GuestInv, LinksTrue, Index
    <3>. QED  BY <3>1, Zenon DEF TraceMirrorsStack
  <2>. QED  BY <2>1, Zenon DEF GuestTrue, NormalFormTraced
<1>. QED  BY <1>1, GuestInit, GuestStep, PTL DEF AidsSpec

(***************************************************************************)
(* Of any file, however its lines fall and wherever it ends: a look-up     *)
(* finds the last definition of an address, and a broken group at the end  *)
(* goes by the name of the group before it.                                *)
(***************************************************************************)
THEOREM LastDefinitionFound == AidsSpec => []LastDefinition
<1>1. AidsInit => SymbolInv
  BY SymbolInit DEF AidsInit
<1>2. SymbolInv /\ [AidsNext]_<<gvars, symbolVars, normal>> => SymbolInv'
  BY AidsStep, SymbolStep
<1>3. SymbolInv => LastDefinition
  BY LookUp DEF LastDefinition, Symbols!LastDefinition
<1>. QED  BY <1>1, <1>2, <1>3, PTL DEF AidsSpec
=============================================================================
