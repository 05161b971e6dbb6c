----------------------------- MODULE MtkRxProofs -----------------------------
(***************************************************************************)
(* Theorems about MtkRx, for every ring size, every set of fragments and   *)
(* every budget.                                                           *)
(***************************************************************************)
EXTENDS MtkRx, FiniteSetTheorems, TLAPS

USE DEF ringVars, hwVars, napiVars, memVars, devVars

-----------------------------------------------------------------------------
(* Ring positions and free fragments.                                      *)

(* The ring index after i: i + 1, or 0 after the last descriptor.          *)
LEMMA NextIdx ==
  ASSUME NEW i \in Slots
  PROVE  /\ NEXT_DESP_IDX(i) \in Slots
         /\ NEXT_DESP_IDX(i) = IF i = N - 1 THEN 0 ELSE i + 1
BY MtkRxAssumption DEF NEXT_DESP_IDX, Slots

(* The rank of an element in a finite set of numbers takes every value     *)
(* below the size of the set: the k-th free fragment of an allocation      *)
(* exists as long as there are more than k.                                *)
LEMMA RankExists ==
  ASSUME NEW S \in SUBSET Nat, IsFiniteSet(S), NEW k \in Nat, k < Cardinality(S)
  PROVE  \E f \in S : Cardinality({g \in S : g < f}) = k
<1>. DEFINE below(f) == {g \in S : g < f}
            card == Cardinality(S)
            rank == [f \in S |-> Cardinality(below(f))]
<1>1. card \in Nat
  BY FS_CardinalityType
<1>2. ASSUME NEW f \in S PROVE IsFiniteSet(below(f)) /\ Cardinality(below(f)) \in Nat
  <2>1. below(f) \in SUBSET S
    OBVIOUS
  <2>2. IsFiniteSet(below(f))
    BY <2>1, FS_Subset
  <2>. QED  BY <2>2, FS_CardinalityType
<1>3. ASSUME NEW f \in S, NEW T, IsFiniteSet(T), below(f) \in SUBSET T, f \in T
      PROVE  Cardinality(below(f)) < Cardinality(T)
  <2>1. Cardinality(below(f)) <= Cardinality(T)
    BY <1>3, FS_Subset
  <2>2. below(f) # T
    BY <1>3
  <2>3. Cardinality(below(f)) # Cardinality(T)
    BY <1>3, <2>2, FS_Subset
  <2>4. Cardinality(T) \in Nat
    BY <1>3, FS_CardinalityType
  <2>. QED  BY <2>1, <2>3, <2>4, <1>2
<1>4. ASSUME NEW f \in S PROVE rank[f] \in 0..(card - 1)
  <2>1. Cardinality(below(f)) < card
    BY <1>3
  <2>. QED  BY <2>1, <1>1, <1>2
<1>5. ASSUME NEW f \in S, NEW g \in S, f < g PROVE rank[f] < rank[g]
  <2>1. below(f) \in SUBSET below(g) /\ f \in below(g)
    <3>1. \A x \in S : x \in Int
      OBVIOUS
    <3>2. \A x \in S : x < f => x < g
      BY <1>5, <3>1
    <3>. QED  BY <1>5, <3>2
  <2>. QED  BY <2>1, <1>2, <1>3
<1>6. rank \in Injection(S, 0..(card - 1))
  <2>1. rank \in [S -> 0..(card - 1)]
    BY <1>4
  <2>2. ASSUME NEW f \in S, NEW g \in S, rank[f] = rank[g] PROVE f = g
    <3>1. rank[f] \in Nat /\ rank[g] \in Nat
      BY <1>2
    <3>. QED  BY <1>5, <2>2, <3>1
  <2>. QED  BY <2>1, <2>2 DEF Injection, IsInjective
<1>7. IsFiniteSet(0..(card - 1)) /\ Cardinality(0..(card - 1)) = card
  <2>1. card - 1 \in Int /\ 0 \in Int
    BY <1>1
  <2>. HIDE DEF card
  <2>2. Cardinality(0..(card - 1)) = IF 0 > card - 1 THEN 0 ELSE (card - 1) - 0 + 1
    BY <2>1, FS_Interval
  <2>. QED  BY <1>1, <2>1, <2>2, FS_Interval
<1>8. rank \in Surjection(S, 0..(card - 1))
  BY <1>6, <1>7, FS_Injection
<1>9. PICK f \in S : rank[f] = k
  <2>1. k \in 0..(card - 1)
    BY <1>1
  <2>. HIDE DEF rank, card
  <2>. QED  BY <1>8, <2>1 DEF Surjection
<1>. QED  BY <1>9

(* What the allocator hands out is free, and never the same fragment twice *)
(* to one allocation of the ring.                                          *)
LEMMA NthFree ==
  ASSUME NEW k \in Nat, k < Cardinality(Free)
  PROVE  /\ Nth(k) \in Free
         /\ Cardinality({g \in Free : g < Nth(k)}) = k
<1>1. Free \in SUBSET Nat /\ Free \in SUBSET Frags /\ IsFiniteSet(Frags)
  BY MtkRxAssumption DEF Free
<1>2. IsFiniteSet(Free)
  BY <1>1, FS_Subset
<1>3. \E f \in Free : Cardinality({g \in Free : g < f}) = k
  BY <1>1, <1>2, RankExists
<1>. QED  BY <1>3 DEF Nth

(* There are finitely many free fragments.                                 *)
LEMMA FreeCard == Cardinality(Free) \in Nat /\ IsFiniteSet(Free)
<1>1. Free \in SUBSET Frags /\ IsFiniteSet(Frags)
  BY MtkRxAssumption DEF Free
<1>2. IsFiniteSet(Free)
  BY <1>1, FS_Subset
<1>. QED  BY <1>2, FS_CardinalityType

(* An allocation of k fragments gets k different free ones.                *)
LEMMA FreshFragments ==
  ASSUME NEW k \in Nat, k <= N, k <= Cardinality(Free)
  PROVE  /\ Fresh(k) \in [Slots -> Frags \cup {None}]
         /\ \A i \in Slots : i < k => Fresh(k)[i] = Nth(i) /\ Nth(i) \in Free
         /\ \A i \in Slots : ~(i < k) => Fresh(k)[i] = None
         /\ \A i, j \in Slots : i < k /\ j < k /\ Nth(i) = Nth(j) => i = j
         /\ Listed(Fresh(k)) = {Nth(i) : i \in {j \in Slots : j < k}}
<1>1. \A i \in Slots : i \in Nat
  BY MtkRxAssumption DEF Slots
<1>2. \A i \in Slots : i < k => i < Cardinality(Free)
  BY <1>1, FreeCard
<1>3. \A i \in Slots : i < k =>
        Nth(i) \in Free /\ Cardinality({g \in Free : g < Nth(i)}) = i
  BY <1>1, <1>2, NthFree
<1>4. \A i \in Slots : i < k => Nth(i) \in Frags /\ Nth(i) # None
  BY <1>3, MtkRxAssumption DEF Free, None
<1>5. \A i \in Slots : Fresh(k)[i] = IF i < k THEN Nth(i) ELSE None
  BY DEF Fresh
<1>6. Fresh(k) \in [Slots -> Frags \cup {None}]
  BY <1>4 DEF Fresh
<1>7. \A i, j \in Slots : i < k /\ j < k /\ Nth(i) = Nth(j) => i = j
  <2>. SUFFICES ASSUME NEW i \in Slots, NEW j \in Slots, i < k, j < k, Nth(i) = Nth(j)
                PROVE  i = j
    OBVIOUS
  <2>1. Cardinality({g \in Free : g < Nth(i)}) = i
    BY <1>3
  <2>2. Cardinality({g \in Free : g < Nth(j)}) = j
    BY <1>3
  <2>. QED  BY <2>1, <2>2
<1>8. Listed(Fresh(k)) = {Nth(i) : i \in {j \in Slots : j < k}}
  BY <1>4, <1>5 DEF Listed
<1>. QED  BY <1>3, <1>5, <1>6, <1>7, <1>8

(* The allocator finds a fragment whenever there is one.                   *)
LEMMA MinFree == ASSUME Free # {} PROVE Min(Free) \in Free
<1>1. Cardinality(Free) \in Nat /\ Cardinality(Free) # 0
  BY FreeCard, FS_EmptySet
<1>2. Nth(0) \in Free /\ Cardinality({g \in Free : g < Nth(0)}) = 0
  BY <1>1, NthFree
<1>3. {g \in Free : g < Nth(0)} = {}
  <2>1. {g \in Free : g < Nth(0)} \in SUBSET Free
    OBVIOUS
  <2>2. IsFiniteSet({g \in Free : g < Nth(0)})
    BY <2>1, FreeCard, FS_Subset
  <2>. QED  BY <1>2, <2>2, FS_EmptySet
<1>4. \A g \in Free : g \in Nat
  BY MtkRxAssumption DEF Free
<1>5. \A g \in Free : Nth(0) <= g
  BY <1>2, <1>3, <1>4
<1>. QED  BY <1>2, <1>5 DEF Min

-----------------------------------------------------------------------------
(* The inductive invariant.                                                *)

\* How far index b is ahead of index a.
Dist(a, b) == IF b >= a THEN b - a ELSE b - a + N

\* Who may touch the ring when: the poll only while NAPI is scheduled, the DMA
\* and the poll only while the ring is there, and the holder of the rtnl lock
\* frees it after it has stopped both.
Control ==
  /\ live => sized
  /\ dmaOn => live
  /\ ~live => napi = "off"
  /\ (poll.pc # "idle") <=> (napi = "sched")
  /\ job \in {"napi", "dma", "free"} => live
  /\ job \in {"hw", "open"} => ~live
  /\ job \in {"dma", "free"} => napi = "off"
  /\ job = "free" => ~dmaOn

\* Who owns a fragment: the part of OwnBuffers about memory, and that a ring
\* that is not there holds none.
Fragments ==
  /\ live =>
       \A i \in Slots :
         /\ data[i] \in mapped \ (stack \cup leaked)
         /\ addr[i] = data[i]
         /\ \A j \in Slots \ {i} : data[j] # data[i]
  /\ mapped \subseteq InRing \cup leaked
  /\ ~live => data = [i \in Slots |-> None]

\* Once round the ring from the register CRX_IDX: first what the poll has given
\* back without telling the DMA, up to calc_idx, then the frames it has not
\* read, up to where the DMA writes, then what the DMA may still fill.
RingOrder ==
  live =>
    /\ Dist(crx, calc) <= Dist(NEXT_DESP_IDX(crx), drx)
    /\ \A i \in Slots :
         filled[i] <=> /\ Dist(crx, calc) <= Dist(NEXT_DESP_IDX(crx), i)
                       /\ Dist(NEXT_DESP_IDX(crx), i) < Dist(NEXT_DESP_IDX(crx), drx)

\* The budget of one call of mtk_napi_rx over its rounds of poll_again.
Rounds ==
  /\ poll.pc = "ack" => poll.total = Budget - poll.remain
  /\ poll.pc \in {"loop", "end"} =>
       /\ poll.total = Budget - poll.remain + poll.done
       /\ poll.done <= poll.remain

IInv == TypeOK /\ Control /\ Fragments /\ RingOrder /\ Rounds

(* The ring has a first and a last descriptor.                             *)
LEMMA SlotsType == 0 \in Slots /\ N - 1 \in Slots /\ Slots \subseteq Nat
BY MtkRxAssumption DEF Slots

PollType == [pc : {"idle", "ack", "loop", "end"}, remain : 0..Budget,
             done : 0..Budget, total : 0..Budget]

(* The local variables of mtk_napi_rx before it is called.                 *)
LEMMA PollIdleType ==
  /\ PollIdle \in PollType
  /\ [PollIdle EXCEPT !.pc = "ack"] \in PollType
BY MtkRxAssumption DEF PollIdle, PollType

(* The local variables of mtk_napi_rx after a round's step.                *)
LEMMA PollTypes ==
  ASSUME poll \in PollType, NEW pc \in {"idle", "ack", "loop", "end"}
  PROVE  /\ poll.remain \in 0..Budget /\ poll.done \in 0..Budget
         /\ poll.total \in 0..Budget
         /\ [poll EXCEPT !.pc = pc] \in PollType
         /\ \A d \in 0..Budget : [poll EXCEPT !.pc = pc, !.done = d] \in PollType
         /\ \A r \in 0..Budget : [poll EXCEPT !.pc = pc, !.remain = r] \in PollType
         /\ \A d, t \in 0..Budget : [poll EXCEPT !.done = d, !.total = t] \in PollType
BY DEF PollType

(* Before the first open nothing is allocated, mapped or enabled.          *)
LEMMA InitInv == Init => IInv
<1>. SUFFICES ASSUME Init PROVE IInv
  OBVIOUS
<1>. USE DEF Init
<1>1. TypeOK
  BY SlotsType, PollIdleType, MtkRxAssumption DEF TypeOK, PollType
<1>2. Control
  BY DEF Control, PollIdle
<1>3. Fragments
  BY DEF Fragments
<1>4. RingOrder
  BY DEF RingOrder
<1>5. Rounds
  BY DEF Rounds, PollIdle
<1>. QED  BY <1>1, <1>2, <1>3, <1>4, <1>5 DEF IInv

(* The types of what an attempt to open the ring leaves behind.            *)
LEMMA OpenType ==
  ASSUME TypeOK, Rounds, OpenOk \/ OpenFails,
         resetting' \in BOOLEAN, job' \in {"none", "napi", "dma", "free", "hw", "open"}
  PROVE  TypeOK'
<1>. USE DEF TypeOK
<1>1. CASE OpenOk
  <2>1. Fresh(N) \in [Slots -> Frags \cup {None}]
    BY <1>1, MtkRxAssumption, FreshFragments DEF OpenOk
  <2>2. Listed(Fresh(N)) \subseteq Frags
    BY <2>1 DEF Listed
  <2>. QED  BY <1>1, <2>1, <2>2, SlotsType DEF OpenOk
<1>2. CASE OpenFails
  <2>1. UNCHANGED <<live, sized, filled, calc, hwVars, napiVars>>
    BY <1>2 DEF OpenFails
  <2>2. PICK k \in Slots :
          \/ Cardinality(Free) >= k /\ Clean(Fresh(k), addr, mapped)
          \/ /\ Cardinality(Free) >= N
             /\ Clean(Fresh(N), [i \in Slots |-> IF i < k THEN Nth(i) ELSE addr[i]],
                      mapped \cup Listed(Fresh(k)))
    BY <1>2 DEF OpenFails
  <2>3. k \in Nat /\ k < N /\ N \in Nat
    BY MtkRxAssumption DEF Slots
  <2>4. CASE Cardinality(Free) >= k /\ Clean(Fresh(k), addr, mapped)
    <3>1. Fresh(k) \in [Slots -> Frags \cup {None}]
      BY <2>3, <2>4, FreshFragments, FreeCard
    <3>2. Listed(Fresh(k)) \subseteq Frags
      BY <3>1 DEF Listed
    <3>. QED  BY <2>1, <2>4, <3>2 DEF Clean
  <2>5. CASE /\ Cardinality(Free) >= N
             /\ Clean(Fresh(N), [i \in Slots |-> IF i < k THEN Nth(i) ELSE addr[i]],
                      mapped \cup Listed(Fresh(k)))
    <3>1. \A n \in {k, N} : Fresh(n) \in [Slots -> Frags \cup {None}]
      BY <2>3, <2>5, FreshFragments, FreeCard
    <3>2. \A n \in {k, N} : Listed(Fresh(n)) \subseteq Frags
      BY <3>1 DEF Listed
    <3>3. \A i \in Slots : i < k => Nth(i) \in Frags
      BY <2>3, <2>5, FreshFragments, FreeCard DEF Free
    <3>. QED  BY <2>1, <2>5, <3>2, <3>3 DEF Clean
  <2>. QED  BY <2>2, <2>4, <2>5
<1>. QED  BY <1>1, <1>2

(* Every step keeps the types; the poll's counters because of Rounds.      *)
LEMMA NextType == IInv /\ [Next]_vars => TypeOK'
<1>. SUFFICES ASSUME IInv, [Next]_vars PROVE TypeOK'
  OBVIOUS
<1>. USE DEF TypeOK, IInv
<1>0. /\ poll \in PollType /\ Budget \in Nat
      /\ poll' \in PollType <=> poll' \in [pc : {"idle", "ack", "loop", "end"},
                   remain : 0..Budget, done : 0..Budget, total : 0..Budget]
      /\ poll.remain \in 0..Budget /\ poll.done \in 0..Budget
      /\ poll.total \in 0..Budget
  BY MtkRxAssumption DEF PollType
<1>1. CASE UNCHANGED vars
  BY <1>1 DEF vars
<1>2. CASE Receive
  BY <1>2, NextIdx DEF Receive
<1>3. CASE Irq
  BY <1>3, <1>0, PollIdleType DEF Irq
<1>4. CASE PollAck
  <2>1. 0 \in 0..Budget /\ poll' = [poll EXCEPT !.pc = "loop", !.done = 0]
    BY <1>4, <1>0 DEF PollAck
  <2>2. poll' \in PollType
    BY <1>0, <2>1, PollTypes
  <2>. QED  BY <1>4, <2>2, <1>0, ZenonT(60) DEF PollAck
<1>5. ASSUME poll.pc = "loop", LoopGoes, Release
      PROVE  /\ Idx \in Slots /\ data[Idx] \in Frags
             /\ poll' \in PollType
             /\ UNCHANGED <<live, sized, hwVars, napi, enabling, leaked, devVars>>
             /\ filled' \in [Slots -> BOOLEAN] /\ calc' \in Slots
  <2>1. Idx \in Slots
    BY NextIdx DEF Idx
  <2>2. live /\ data[Idx] \in Frags
    BY <1>5, <2>1 DEF Control, Fragments
  <2>3. poll.done + 1 \in 0..Budget /\ poll.total + 1 \in 0..Budget
    BY <1>5, <1>0 DEF LoopGoes, Rounds
  <2>4. poll' \in PollType
    BY <1>5, <1>0, <2>3, PollTypes DEF Release
  <2>. QED  BY <1>5, <2>1, <2>2, <2>4 DEF Release
<1>6. CASE PollDrop
  BY <1>6, <1>0, <1>5 DEF PollDrop
<1>7. CASE PollSkip
  <2>1. Min(Free) \in Frags
    BY <1>7, MinFree DEF PollSkip, Free
  <2>. QED  BY <1>7, <1>0, <1>5, <2>1, ZenonT(60) DEF PollSkip, Replaced, Exchange
<1>8. CASE PollReceive
  <2>1. Min(Free) \in Frags
    BY <1>8, MinFree DEF PollReceive, Free
  <2>. QED  BY <1>8, <1>0, <1>5, <2>1, ZenonT(60) DEF PollReceive, Exchange
<1>9. CASE PollUpdate
  <2>1. poll' \in PollType
    BY <1>9, <1>0, PollTypes DEF PollUpdate
  <2>. QED  BY <1>9, <2>1, <1>0 DEF PollUpdate, CpuIdx
<1>10. CASE PollBudget
  BY <1>10, <1>0, PollIdleType DEF PollBudget
<1>11. CASE PollAgain
  <2>1. Remaining \in 0..Budget
    BY <1>11, <1>0 DEF PollAgain, Remaining, Rounds
  <2>2. poll' \in PollType
    BY <1>11, <1>0, <2>1, PollTypes DEF PollAgain
  <2>. QED  BY <1>11, <2>2, <1>0 DEF PollAgain
<1>12. CASE PollComplete
  BY <1>12, <1>0, PollIdleType DEF PollComplete
<1>13. CASE IrqEnable
  BY <1>13, ZenonT(60) DEF IrqEnable
<1>14. CASE \E f \in Frags : StackFrees(f)
  BY <1>14 DEF StackFrees
<1>15. CASE NdoOpen
  BY <1>15, OpenType DEF NdoOpen
<1>16. CASE NdoStop \/ ResetBegin
  BY <1>16 DEF NdoStop, ResetBegin, StopBegin
<1>17. CASE StopNapi \/ StopDma
  BY <1>17, ZenonT(60) DEF StopNapi, StopDma
<1>18. CASE StopFree
  BY <1>18, ZenonT(60) DEF StopFree, Clean, Listed
<1>19. CASE ResetHw
  BY <1>19, SlotsType DEF ResetHw
<1>20. CASE ResetOpen
  BY <1>20, OpenType DEF ResetOpen
<1>. QED
  BY <1>1, <1>2, <1>3, <1>4, <1>6, <1>7, <1>8, <1>9, <1>10, <1>11, <1>12,
     <1>13, <1>14, <1>15, <1>16, <1>17, <1>18, <1>19, <1>20
     DEF Next, Poll, Job

(* Every step keeps the order of poll, DMA, stop and reset.                *)
LEMMA NextControl == IInv /\ [Next]_vars => Control'
<1>. SUFFICES ASSUME IInv, [Next]_vars PROVE Control'
  OBVIOUS
<1>. USE DEF Control, IInv
<1>0. poll \in PollType /\ napi \in {"off", "idle", "sched"}
  BY DEF PollType, TypeOK
<1>1. CASE UNCHANGED vars
  BY <1>1 DEF vars
<1>2. CASE Receive
  BY <1>2 DEF Receive
<1>3. CASE Irq
  BY <1>3 DEF Irq, PollIdle
<1>4. CASE PollAck
  BY <1>4, <1>0 DEF PollAck, PollType
<1>5. CASE PollDrop \/ PollSkip \/ PollReceive
  <2>1. UNCHANGED <<live, sized, hwVars, napi, enabling, leaked, devVars>>
    BY <1>5 DEF PollDrop, PollSkip, PollReceive, Release
  <2>2. poll'.pc = poll.pc
    BY <1>5, <1>0 DEF PollDrop, PollSkip, PollReceive, Release, PollType
  <2>. QED  BY <2>1, <2>2
<1>6. CASE PollUpdate
  BY <1>6, <1>0 DEF PollUpdate, PollType
<1>7. CASE PollBudget
  BY <1>7 DEF PollBudget, PollIdle
<1>8. CASE PollAgain
  BY <1>8, <1>0 DEF PollAgain, PollType
<1>9. CASE PollComplete
  BY <1>9 DEF PollComplete, PollIdle
<1>10. CASE IrqEnable
  BY <1>10 DEF IrqEnable
<1>11. CASE \E f \in Frags : StackFrees(f)
  BY <1>11 DEF StackFrees
<1>12. CASE NdoOpen
  BY <1>12 DEF NdoOpen, OpenOk, OpenFails
<1>13. CASE NdoStop \/ ResetBegin
  BY <1>13 DEF NdoStop, ResetBegin, StopBegin
<1>14. CASE StopNapi \/ StopDma \/ StopFree \/ ResetHw
  BY <1>14 DEF StopNapi, StopDma, StopFree, ResetHw, NapiQuiet
<1>15. CASE ResetOpen
  BY <1>15 DEF ResetOpen, OpenOk, OpenFails
<1>. QED
  BY <1>1, <1>2, <1>3, <1>4, <1>5, <1>6, <1>7, <1>8, <1>9, <1>10, <1>11, <1>12,
     <1>13, <1>14, <1>15 DEF Next, Poll, Job

(* Every step keeps the account of the budget.                             *)
LEMMA NextRounds == IInv /\ [Next]_vars => Rounds'
<1>. SUFFICES ASSUME IInv, [Next]_vars PROVE Rounds'
  OBVIOUS
<1>. USE DEF Rounds, IInv
<1>0. poll \in PollType /\ Budget \in Nat
  BY MtkRxAssumption DEF PollType, TypeOK
<1>1. CASE UNCHANGED poll
  BY <1>1
<1>2. CASE Irq
  BY <1>2, <1>0 DEF Irq, PollIdle
<1>3. CASE PollAck
  BY <1>3, <1>0 DEF PollAck, PollType
<1>4. CASE LoopGoes /\ poll.pc = "loop" /\ Release
  BY <1>4, <1>0 DEF LoopGoes, Release, PollType
<1>5. CASE PollUpdate
  BY <1>5, <1>0 DEF PollUpdate, PollType
<1>6. CASE PollBudget
  BY <1>6, <1>0 DEF PollBudget, PollIdle
<1>7. CASE PollAgain
  BY <1>7, <1>0 DEF PollAgain, Remaining, PollType
<1>8. CASE PollComplete
  BY <1>8 DEF PollComplete, PollIdle
<1>9. Next => \/ UNCHANGED poll \/ Irq \/ PollAck \/ PollUpdate \/ PollBudget
              \/ PollAgain \/ PollComplete
              \/ LoopGoes /\ poll.pc = "loop" /\ Release
  BY DEF Next, Poll, Job, Receive, PollDrop, PollSkip, PollReceive, IrqEnable,
         StackFrees, NdoOpen, OpenOk, OpenFails, NdoStop, ResetBegin, StopBegin,
         StopNapi, StopDma, StopFree, ResetHw, ResetOpen
<1>. QED
  BY <1>1, <1>2, <1>3, <1>4, <1>5, <1>6, <1>7, <1>8, <1>9 DEF vars

(* Distances on the ring, from the index after r: they tell the indices    *)
(* apart, and grow by one from an index to the next, except across r.      *)
LEMMA Distances ==
  ASSUME NEW r \in Slots, NEW i \in Slots
  PROVE  /\ Dist(r, i) \in 0..(N - 1)
         /\ Dist(NEXT_DESP_IDX(r), i) \in 0..(N - 1)
         /\ Dist(NEXT_DESP_IDX(r), i) = N - 1 <=> i = r
         /\ i # r => Dist(NEXT_DESP_IDX(r), NEXT_DESP_IDX(i))
                       = Dist(NEXT_DESP_IDX(r), i) + 1
         /\ Dist(NEXT_DESP_IDX(r), NEXT_DESP_IDX(i)) = Dist(r, i)
         /\ NEXT_DESP_IDX(i) # r => Dist(r, NEXT_DESP_IDX(i)) = Dist(r, i) + 1
         /\ NEXT_DESP_IDX(i) = r => Dist(r, i) = N - 1
         /\ Dist(i, i) = 0
<1>. USE MtkRxAssumption DEF Slots, Dist
<1>1. NEXT_DESP_IDX(r) = IF r = N - 1 THEN 0 ELSE r + 1
  BY NextIdx
<1>2. NEXT_DESP_IDX(i) = IF i = N - 1 THEN 0 ELSE i + 1
  BY NextIdx
<1>. QED  BY <1>1, <1>2

(* Two indices equally far from a third are the same.                      *)
LEMMA DistanceUnique ==
  ASSUME NEW s \in Slots, NEW i \in Slots, NEW j \in Slots, Dist(s, i) = Dist(s, j)
  PROVE  i = j
BY MtkRxAssumption DEF Slots, Dist

(* Distances seen from a later index of the ring.                          *)
LEMMA DistanceShift ==
  ASSUME NEW r \in Slots, NEW k \in Slots, NEW i \in Slots
  PROVE  Dist(NEXT_DESP_IDX(k), i) =
           IF Dist(r, k) <= Dist(NEXT_DESP_IDX(r), i)
           THEN Dist(NEXT_DESP_IDX(r), i) - Dist(r, k)
           ELSE Dist(NEXT_DESP_IDX(r), i) - Dist(r, k) + N
<1>. USE MtkRxAssumption DEF Slots, Dist
<1>1. NEXT_DESP_IDX(r) = IF r = N - 1 THEN 0 ELSE r + 1
  BY NextIdx
<1>2. NEXT_DESP_IDX(k) = IF k = N - 1 THEN 0 ELSE k + 1
  BY NextIdx
<1>. QED  BY <1>1, <1>2

(* Every step keeps the order on the ring: the DMA fills the next          *)
(* descriptor, the poll gives the oldest one back, the register follows.   *)
LEMMA NextRingOrder == IInv /\ [Next]_vars => RingOrder'
<1>. SUFFICES ASSUME IInv, [Next]_vars, live' PROVE RingOrder'
  BY DEF RingOrder
<1>0. /\ crx \in Slots /\ drx \in Slots /\ calc \in Slots
      /\ filled \in [Slots -> BOOLEAN]
      /\ NEXT_DESP_IDX(crx) \in Slots
  BY NextIdx DEF IInv, TypeOK
<1>1. CASE UNCHANGED <<live, filled, calc, crx, drx>>
  BY <1>1 DEF IInv, RingOrder
<1>2. CASE Receive
  <2>. DEFINE s == NEXT_DESP_IDX(crx)
  <2>1. /\ drx # crx /\ live /\ live' /\ calc' = calc /\ crx' = crx
        /\ filled' = [filled EXCEPT ![drx] = TRUE] /\ drx' = NEXT_DESP_IDX(drx)
    BY <1>2 DEF Receive, IInv, Control
  <2>2. Dist(s, drx') = Dist(s, drx) + 1
    BY <1>0, <2>1, Distances
  <2>3. \A i \in Slots : Dist(s, i) \in Nat /\ (Dist(s, i) = Dist(s, drx) => i = drx)
    BY <1>0, Distances, DistanceUnique
  <2>4. Dist(crx, calc) \in Nat
    BY <1>0, Distances
  <2>5. Dist(crx, calc) <= Dist(s, drx')
    BY <1>0, <2>1, <2>2, <2>3, <2>4 DEF IInv, RingOrder
  <2>6. ASSUME NEW i \in Slots
        PROVE  filled'[i] <=> Dist(crx, calc) <= Dist(s, i) /\ Dist(s, i) < Dist(s, drx')
    <3>1. filled[i] <=> Dist(crx, calc) <= Dist(s, i) /\ Dist(s, i) < Dist(s, drx)
      BY <2>1 DEF IInv, RingOrder
    <3>2. Dist(crx, calc) <= Dist(s, drx)
      BY <2>1 DEF IInv, RingOrder
    <3>. QED  BY <3>1, <3>2, <1>0, <2>1, <2>2, <2>3, <2>4
  <2>. QED  BY <2>1, <2>5, <2>6 DEF RingOrder
<1>3. CASE poll.pc = "loop" /\ LoopGoes /\ Release
  <2>. DEFINE s == NEXT_DESP_IDX(crx)
  <2>1. /\ live /\ live' /\ drx' = drx /\ crx' = crx /\ calc' = Idx
        /\ filled' = [filled EXCEPT ![Idx] = FALSE] /\ filled[Idx]
    BY <1>3 DEF Release, LoopGoes, IInv, Control
  <2>2. Idx \in Slots /\ Dist(s, Idx) = Dist(crx, calc)
    BY <1>0, NextIdx, Distances DEF Idx
  <2>3. Dist(crx, calc) < Dist(s, drx)
    BY <2>1, <2>2 DEF IInv, RingOrder
  <2>4. Dist(s, drx) \in 0..(N - 1) /\ Dist(crx, calc) \in 0..(N - 1) /\ N \in Nat
    BY <1>0, Distances, MtkRxAssumption
  <2>5. Dist(crx, Idx) = Dist(crx, calc) + 1
    BY <1>0, <2>3, <2>4, Distances DEF Idx
  <2>6. \A i \in Slots : Dist(s, i) \in Nat /\ (Dist(s, i) = Dist(s, Idx) => i = Idx)
    BY <1>0, <2>2, Distances, DistanceUnique
  <2>7. ASSUME NEW i \in Slots
        PROVE  filled'[i] <=> Dist(crx, Idx) <= Dist(s, i) /\ Dist(s, i) < Dist(s, drx)
    <3>1. filled[i] <=> Dist(crx, calc) <= Dist(s, i) /\ Dist(s, i) < Dist(s, drx)
      BY <2>1 DEF IInv, RingOrder
    <3>. QED  BY <3>1, <1>0, <2>1, <2>2, <2>4, <2>5, <2>6
  <2>. QED  BY <2>1, <2>3, <2>4, <2>5, <2>7 DEF RingOrder
<1>4. CASE PollUpdate
  <2>1. /\ live /\ live' /\ UNCHANGED <<drx, filled, calc>> /\ crx' \in {calc, crx}
    BY <1>4 DEF PollUpdate, CpuIdx, IInv, Control
  <2>2. CASE crx' = crx
    BY <1>1, <2>1, <2>2
  <2>3. CASE crx' = calc
    <3>. DEFINE c == Dist(crx, calc)
                old(i) == Dist(NEXT_DESP_IDX(crx), i)
                new(i) == Dist(NEXT_DESP_IDX(calc), i)
    <3>1. \A i \in Slots : new(i) = IF c <= old(i) THEN old(i) - c ELSE old(i) - c + N
      BY <1>0, DistanceShift
    <3>2. /\ \A i \in Slots : old(i) \in 0..(N - 1)
          /\ c \in 0..(N - 1) /\ N \in Nat
      BY <1>0, Distances, MtkRxAssumption
    <3>3. c <= old(drx) /\ \A i \in Slots : filled[i] <=> c <= old(i) /\ old(i) < old(drx)
      BY <2>1 DEF IInv, RingOrder
    <3>. HIDE DEF c, old, new
    <3>4. 0 <= new(drx)
      BY <1>0, <3>1, <3>2, <3>3
    <3>5. \A i \in Slots : filled[i] <=> 0 <= new(i) /\ new(i) < new(drx)
      BY <1>0, <3>1, <3>2, <3>3
    <3>6. Dist(calc, calc) = 0
      BY <1>0, Distances
    <3>. QED  BY <2>1, <2>3, <3>4, <3>5, <3>6 DEF RingOrder, new
  <2>. QED  BY <2>1, <2>2, <2>3
<1>5. CASE OpenOk
  <2>1. /\ filled' = [i \in Slots |-> FALSE]
        /\ calc' = N - 1 /\ crx' = N - 1 /\ drx' = 0
    BY <1>5 DEF OpenOk
  <2>2. NEXT_DESP_IDX(N - 1) = 0
    BY SlotsType, NextIdx
  <2>3. Dist(N - 1, N - 1) = 0 /\ Dist(0, 0) = 0
    BY SlotsType, Distances
  <2>4. \A i \in Slots : Dist(0, i) \in Nat
    BY SlotsType DEF Dist
  <2>. QED  BY <2>1, <2>2, <2>3, <2>4 DEF RingOrder
<1>6. Next => \/ UNCHANGED <<live, filled, calc, crx, drx>>
              \/ Receive \/ PollUpdate \/ OpenOk \/ StopFree \/ ResetHw
              \/ poll.pc = "loop" /\ LoopGoes /\ Release
  BY DEF Next, Poll, Job, Irq, PollAck, PollBudget, PollAgain, PollComplete,
         PollDrop, PollSkip, PollReceive, IrqEnable, StackFrees, NdoOpen,
         OpenFails, NdoStop, ResetBegin, StopBegin, StopNapi, StopDma, ResetOpen
<1>7. ~StopFree /\ ~ResetHw
  BY DEF StopFree, ResetHw, IInv, Control
<1>. QED
  BY <1>1, <1>2, <1>3, <1>4, <1>5, <1>6, <1>7 DEF vars

(* Every step keeps the owners of the fragments.                           *)
LEMMA NextFragments == IInv /\ [Next]_vars => Fragments'
<1>. SUFFICES ASSUME IInv, [Next]_vars PROVE Fragments'
  OBVIOUS
<1>0. /\ data \in [Slots -> Frags \cup {None}] /\ addr \in [Slots -> Frags \cup {None}]
      /\ None \notin Frags /\ Slots # {} /\ mapped \subseteq Frags
  BY MtkRxAssumption, SlotsType DEF IInv, TypeOK, None
<1>1. CASE UNCHANGED <<live, data, addr, memVars>>
  BY <1>1 DEF IInv, Fragments, InRing
<1>2. CASE \E f \in Frags : StackFrees(f)
  BY <1>2 DEF StackFrees, IInv, Fragments, InRing
<1>3. CASE PollSkip \/ PollReceive
  <2>. DEFINE new == Min(Free)
  <2>1. /\ live /\ live' /\ leaked' = leaked
        /\ data' = [data EXCEPT ![Idx] = new] /\ addr' = [addr EXCEPT ![Idx] = new]
        /\ mapped' = (mapped \ {addr[Idx]}) \cup {new}
        /\ stack' \subseteq stack \cup {data[Idx]}
    BY <1>3 DEF PollSkip, PollReceive, Replaced, Exchange, Release, IInv, Control
  <2>2. Idx \in Slots
    BY NextIdx DEF Idx, IInv, TypeOK
  <2>3. new \in Free
    BY <1>3, MinFree DEF PollSkip, PollReceive
  <2>. HIDE DEF new
  <2>4. /\ new \in Frags /\ new \notin stack /\ new \notin leaked
        /\ \A i \in Slots : new # data[i]
    BY <2>3, <1>0 DEF Free, InRing
  <2>5. \A i \in Slots : /\ data[i] \in mapped \ (stack \cup leaked)
                         /\ addr[i] = data[i]
                         /\ \A j \in Slots \ {i} : data[j] # data[i]
    BY <2>1 DEF IInv, Fragments
  <2>6. \A i \in Slots : /\ data'[i] = IF i = Idx THEN new ELSE data[i]
                         /\ addr'[i] = IF i = Idx THEN new ELSE addr[i]
    BY <1>0, <2>1, <2>2
  <2>7. ASSUME NEW i \in Slots
        PROVE  /\ data'[i] \in mapped' \ (stack' \cup leaked')
               /\ addr'[i] = data'[i]
               /\ \A j \in Slots \ {i} : data'[j] # data'[i]
    <3>1. CASE i = Idx
      BY <3>1, <2>1, <2>2, <2>4, <2>5, <2>6
    <3>2. CASE i # Idx
      BY <3>2, <2>1, <2>2, <2>4, <2>5, <2>6
    <3>. QED  BY <3>1, <3>2
  <2>8. mapped' \subseteq InRing' \cup leaked'
    <3>1. SUFFICES ASSUME NEW f \in mapped', f \notin leaked PROVE f \in InRing'
      BY <2>1
    <3>2. CASE f = new
      BY <3>2, <1>0, <2>2, <2>4, <2>6 DEF InRing
    <3>3. CASE f # new
      <4>1. f \in mapped /\ f # data[Idx]
        BY <3>3, <2>1, <2>2, <2>5
      <4>2. PICK i \in Slots : f = data[i] /\ f # None
        BY <3>1, <4>1 DEF IInv, Fragments, InRing
      <4>3. data'[i] = f
        BY <4>1, <4>2, <2>6
      <4>. QED  BY <4>2, <4>3 DEF InRing
    <3>. QED  BY <3>2, <3>3
  <2>. QED  BY <2>1, <2>7, <2>8 DEF Fragments
<1>4. CASE OpenOk /\ ~live
  <2>1. /\ N \in Nat /\ N <= N /\ N <= Cardinality(Free)
        /\ \A i \in Slots : i < N
    BY <1>4, MtkRxAssumption, FreeCard DEF OpenOk, Slots
  <2>2. /\ \A i \in Slots : Fresh(N)[i] = Nth(i) /\ Nth(i) \in Free
        /\ \A i, j \in Slots : Nth(i) = Nth(j) => i = j
        /\ Listed(Fresh(N)) = {Nth(i) : i \in Slots}
    BY <2>1, FreshFragments
  <2>3. /\ live' /\ stack' = stack /\ leaked' = leaked
        /\ data' = Fresh(N) /\ addr' = Fresh(N)
        /\ mapped' = mapped \cup {Nth(i) : i \in Slots}
    BY <1>4, <2>2 DEF OpenOk
  <2>4. \A i \in Slots : Nth(i) \notin stack /\ Nth(i) \notin leaked /\ Nth(i) # None
    BY <2>2, <1>0 DEF Free
  <2>5. InRing = {} /\ mapped \subseteq leaked
    BY <1>4 DEF IInv, Fragments, InRing
  <2>6. {Nth(i) : i \in Slots} \subseteq InRing'
    BY <2>2, <2>3, <2>4 DEF InRing
  <2>. QED  BY <2>2, <2>3, <2>4, <2>5, <2>6 DEF Fragments
<1>5. CASE OpenFails /\ ~live
  <2>1. live' = live /\ sized' = sized
    BY <1>5 DEF OpenFails
  <2>2. PICK k \in Slots :
          \/ Cardinality(Free) >= k /\ Clean(Fresh(k), addr, mapped)
          \/ /\ Cardinality(Free) >= N
             /\ Clean(Fresh(N), [i \in Slots |-> IF i < k THEN Nth(i) ELSE addr[i]],
                      mapped \cup Listed(Fresh(k)))
    BY <1>5 DEF OpenFails
  <2>3. InRing = {} /\ mapped \subseteq leaked
    BY <1>5 DEF IInv, Fragments, InRing
  <2>4. data' = [i \in Slots |-> None]
    BY <2>2 DEF Clean
  <2>5. CASE Cardinality(Free) >= k /\ Clean(Fresh(k), addr, mapped)
    <3>1. mapped' \subseteq leaked'
      BY <2>3, <2>5 DEF Clean
    <3>. QED  BY <1>5, <2>1, <2>4, <3>1 DEF Fragments
  <2>6. CASE /\ Cardinality(Free) >= N
             /\ Clean(Fresh(N), [i \in Slots |-> IF i < k THEN Nth(i) ELSE addr[i]],
                      mapped \cup Listed(Fresh(k)))
    <3>. DEFINE a == [i \in Slots |-> IF i < k THEN Nth(i) ELSE addr[i]]
    <3>1. /\ N \in Nat /\ k \in Nat /\ N <= Cardinality(Free) /\ k <= Cardinality(Free)
          /\ k <= N /\ N <= N /\ \A i \in Slots : i < N
      BY <2>6, MtkRxAssumption, FreeCard DEF Slots
    <3>2. /\ \A i \in Slots : Fresh(N)[i] = Nth(i) /\ Nth(i) \in Free
          /\ Listed(Fresh(N)) = {Nth(i) : i \in Slots}
      BY <3>1, FreshFragments
    <3>3. Listed(Fresh(k)) = {Nth(i) : i \in {j \in Slots : j < k}}
      BY <3>1, FreshFragments
    <3>4. \A i \in Slots : Fresh(N)[i] # None
      BY <3>2, <1>0 DEF Free
    <3>5. \A f \in Listed(Fresh(k)) : f \in {a[i] : i \in {j \in Slots : Fresh(N)[j] # None}}
      BY <3>3, <3>4
    <3>6. Listed(Fresh(k)) \subseteq Listed(Fresh(N))
      BY <3>2, <3>3
    <3>7. Clean(Fresh(N), a, mapped \cup Listed(Fresh(k)))
      BY <2>6
    <3>. HIDE DEF a
    <3>8. mapped' \subseteq leaked'
      BY <2>3, <3>5, <3>6, <3>7 DEF Clean
    <3>. QED  BY <1>5, <2>1, <2>4, <3>8 DEF Fragments
  <2>. QED  BY <2>2, <2>5, <2>6
<1>6. CASE StopFree
  <2>1. live /\ sized
    BY <1>6 DEF StopFree, IInv, Control
  <2>2. /\ ~live' /\ data' = [i \in Slots |-> None] /\ leaked' = leaked
        /\ mapped' = mapped \ {addr[i] : i \in {j \in Slots : data[j] # None}}
    BY <1>6, <2>1 DEF StopFree, Clean
  <2>3. mapped' \subseteq leaked
    <3>1. \A f \in InRing : f \in {addr[i] : i \in {j \in Slots : data[j] # None}}
      BY <2>1 DEF InRing, IInv, Fragments
    <3>. QED  BY <3>1, <2>2 DEF IInv, Fragments
  <2>. QED  BY <2>2, <2>3 DEF Fragments
<1>7. Next => \/ UNCHANGED <<live, data, addr, memVars>>
              \/ \E f \in Frags : StackFrees(f)
              \/ PollSkip \/ PollReceive \/ StopFree
              \/ (OpenOk \/ OpenFails) /\ ~live
  <2>1. job = "open" => ~live
    BY DEF IInv, Control
  <2>. QED
    BY <2>1 DEF Next, Poll, Job, Receive, Irq, PollAck, PollBudget, PollAgain,
         PollComplete, PollUpdate, PollDrop, Release, IrqEnable, NdoOpen, NdoStop,
         ResetBegin, StopBegin, StopNapi, StopDma, ResetHw, ResetOpen
<1>. QED
  BY <1>1, <1>2, <1>3, <1>4, <1>5, <1>6, <1>7 DEF vars

-----------------------------------------------------------------------------
(* The invariant holds of every behaviour of the receive side.             *)
LEMMA RxInvariant == Spec => []IInv
<1>1. Init => IInv
  BY InitInv
<1>2. IInv /\ [Next]_vars => IInv'
  BY NextType, NextControl, NextFragments, NextRingOrder, NextRounds DEF IInv
<1>. QED  BY <1>1, <1>2, PTL DEF Spec

(* The receive ring's variables keep their types, and a call of            *)
(* mtk_napi_rx keeps within its budget, whatever the size of the ring.     *)
THEOREM RxTypeCorrect == Spec => []TypeOK
<1>1. IInv => TypeOK
  BY DEF IInv
<1>. QED  BY <1>1, RxInvariant, PTL

(* The DMA never writes to a fragment the stack or the allocator has too:  *)
(* each descriptor of a live ring has its own, mapped one, over every      *)
(* interleaving of the DMA, mtk_poll_rx, mtk_open, mtk_stop and the reset, *)
(* and whichever allocation or mapping fails. And the DMA never comes to a *)
(* descriptor whose frame mtk_poll_rx has not read.                        *)
THEOREM RingOwnsBuffers == Spec => []OwnBuffers
<1>1. IInv => OwnBuffers
  <2>. SUFFICES ASSUME IInv PROVE OwnBuffers
    OBVIOUS
  <2>1. poll.pc # "idle" => live
    BY DEF IInv, Control
  <2>2. ASSUME dmaOn, drx # crx PROVE ~filled[drx]
    <3>1. live /\ drx \in Slots /\ crx \in Slots
      BY <2>2 DEF IInv, Control, TypeOK
    <3>2. Dist(NEXT_DESP_IDX(crx), drx) \in Int
      BY <3>1, Distances
    <3>. QED  BY <3>1, <3>2 DEF IInv, RingOrder
  <2>. QED  BY <2>1, <2>2 DEF OwnBuffers, IInv, Fragments
<1>. QED  BY <1>1, RxInvariant, PTL

(* The work mtk_napi_rx reports is the work of all its rounds, and never   *)
(* more than NAPI allowed it.                                              *)
THEOREM WorkIsReported == Spec => []ReportsWork
<1>1. IInv => ReportsWork
  <2>1. TypeOK => poll.remain \in 0..Budget /\ poll.done \in 0..Budget /\ Budget \in Nat
    BY MtkRxAssumption DEF TypeOK
  <2>. QED  BY <2>1 DEF IInv, Rounds, ReportsWork
<1>. QED  BY <1>1, RxInvariant, PTL
=============================================================================
