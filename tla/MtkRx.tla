-------------------------------- MODULE MtkRx --------------------------------
(***************************************************************************)
(* The receive side of the Ethernet driver (mtk_eth_soc.c) on the MT7986:  *)
(* one PDMA ring whose descriptors lie in SRAM, each with a page fragment  *)
(* the DMA writes a frame to. The poll gives a filled fragment to the      *)
(* stack only when it has another to put in its place; whatever fails, the *)
(* descriptor goes back to the DMA.                                        *)
(*                                                                         *)
(* There is one device: which of two opens or frees the rings is the       *)
(* subject of MtkTx. Fragments are numbers, and the allocator hands out    *)
(* the lowest one that is free.                                            *)
(***************************************************************************)
EXTENDS Integers, FiniteSetsExt

CONSTANTS
  N,        \* dma_size: descriptors of the ring
  Frags,    \* the page fragments of the system
  Budget    \* frames a poll may handle

ASSUME MtkRxAssumption ==
  /\ N \in Nat \ {0, 1}
  /\ Frags \subseteq Nat \ {0}
  /\ IsFiniteSet(Frags)
  /\ Cardinality(Frags) > N
  /\ Budget \in Nat \ {0}

VARIABLES
  live,      \* ring->data is allocated
  sized,     \* ring->dma and dma_size are set, which no stop undoes
  data,      \* ring->data[i]: a fragment, or None
  addr,      \* rxd1 of descriptor i: the fragment it points to, or None
  filled,    \* filled[i]: RX_DMA_DONE
  calc,      \* calc_idx: the last descriptor the poll gave back
  crx,       \* MTK_PRX_CRX_IDX: the DMA stops before it
  drx,       \* the descriptor the DMA fills next
  dmaOn,     \* MTK_RX_DMA_EN
  status,    \* MTK_RX_DONE_INT in the interrupt status
  mask,      \* MTK_RX_DONE_INT in the interrupt mask: TRUE is enabled
  napi,      \* off, idle or sched
  poll,      \* where mtk_napi_rx is, and its local variables
  enabling,  \* napi_complete returned, mtk_rx_irq_enable is still to come
  mapped,    \* fragments mapped for the DMA
  stack,     \* fragments in skbs of the network stack
  leaked,    \* fragments nobody will free
  resetting, \* MTK_RESETTING
  job        \* where the holder of the rtnl lock is

ringVars == <<live, sized, data, addr, filled, calc>>
hwVars == <<crx, drx, dmaOn, status, mask>>
napiVars == <<napi, poll, enabling>>
memVars == <<mapped, stack, leaked>>
devVars == <<resetting, job>>
vars == <<ringVars, hwVars, napiVars, memVars, devVars>>

Slots == 0..(N - 1)
None == 0
NEXT_DESP_IDX(i) == (i + 1) % N
InRing == {data[i] : i \in Slots} \ {None}
Free == Frags \ (InRing \cup stack \cup leaked)

PollIdle == [pc |-> "idle", remain |-> Budget, done |-> 0, total |-> 0]

Init ==
  /\ live = FALSE /\ sized = FALSE
  /\ data = [i \in Slots |-> None] /\ addr = [i \in Slots |-> None]
  /\ filled = [i \in Slots |-> FALSE]
  /\ calc = N - 1 /\ crx = 0 /\ drx = 0
  /\ dmaOn = FALSE /\ status = FALSE /\ mask = FALSE
  /\ napi = "off" /\ poll = PollIdle /\ enabling = FALSE
  /\ mapped = {} /\ stack = {} /\ leaked = {}
  /\ resetting = FALSE /\ job = "none"

-----------------------------------------------------------------------------
(* The DMA, the interrupt and the stack.                                   *)

\* The DMA writes a frame to the next descriptor.
Receive ==
  /\ dmaOn
  /\ drx # crx
  /\ filled' = [filled EXCEPT ![drx] = TRUE]
  /\ drx' = NEXT_DESP_IDX(drx)
  /\ status' = TRUE
  /\ UNCHANGED <<live, sized, data, addr, calc, crx, dmaOn, mask, napiVars,
                 memVars, devVars>>

\* mtk_handle_irq_rx. While napi_disable waits, napi_schedule_prep refuses.
Irq ==
  /\ mask /\ status
  /\ napi = "idle"
  /\ job # "napi"
  /\ mask' = FALSE
  /\ napi' = "sched"
  /\ poll' = [PollIdle EXCEPT !.pc = "ack"]
  /\ UNCHANGED <<ringVars, crx, drx, dmaOn, status, enabling, memVars, devVars>>

StackFrees(f) ==
  /\ f \in stack
  /\ stack' = stack \ {f}
  /\ UNCHANGED <<ringVars, hwVars, napiVars, mapped, leaked, devVars>>

-----------------------------------------------------------------------------
(* mtk_napi_rx and mtk_poll_rx.                                            *)

PollAck ==
  /\ poll.pc = "ack"
  /\ poll' = [poll EXCEPT !.pc = "loop", !.done = 0]
  /\ status' = FALSE
  /\ UNCHANGED <<ringVars, crx, drx, dmaOn, mask, napi, enabling, memVars,
                 devVars>>

Idx == NEXT_DESP_IDX(calc)

LoopGoes == poll.done < poll.remain /\ filled[Idx]

\* release_desc: the descriptor is the DMA's again.
Release ==
  /\ filled' = [filled EXCEPT ![Idx] = FALSE]
  /\ calc' = Idx
  /\ poll' = [poll EXCEPT !.done = @ + 1, !.total = @ + 1]
  /\ UNCHANGED <<live, sized, hwVars, napi, enabling, leaked, devVars>>

\* The frame is dropped and its fragment stays: an unknown port, a reset, or no
\* fragment or mapping to replace it.
PollDrop ==
  /\ poll.pc = "loop"
  /\ LoopGoes
  /\ Release
  /\ UNCHANGED <<data, addr, mapped, stack>>

\* A new fragment is mapped, the old one unmapped; both data and rxd1 change.
Exchange ==
  LET new == Min(Free) IN
    /\ data' = [data EXCEPT ![Idx] = new]
    /\ addr' = [addr EXCEPT ![Idx] = new]
    /\ mapped' = (mapped \ {addr[Idx]}) \cup {new}

\* the new fragment is freed, and the old one, unmapped by now, stays
Replaced_Released ==
  /\ mapped' = mapped \ {addr[Idx]}
  /\ UNCHANGED <<data, addr>>

\* build_skb fails: the old fragment is freed, the new one takes its place.
Replaced == Exchange

PollSkip ==
  /\ poll.pc = "loop"
  /\ LoopGoes
  /\ ~resetting
  /\ Free # {}
  /\ Replaced
  /\ Release
  /\ UNCHANGED stack

\* napi_gro_receive
PollReceive ==
  /\ poll.pc = "loop"
  /\ LoopGoes
  /\ ~resetting
  /\ Free # {}
  /\ Exchange
  /\ stack' = stack \cup {data[Idx]}
  /\ Release

\* the index is written only when the budget was used up
CpuIdx_Lazy == IF poll.done = poll.remain THEN calc ELSE crx

\* mtk_update_rx_cpu_idx
CpuIdx == IF poll.done > 0 THEN calc ELSE crx

PollUpdate ==
  /\ poll.pc = "loop"
  /\ ~LoopGoes
  /\ crx' = CpuIdx
  /\ poll' = [poll EXCEPT !.pc = "end"]
  /\ UNCHANGED <<ringVars, drx, dmaOn, status, mask, napi, enabling, memVars,
                 devVars>>

Exhausted == poll.done = poll.remain

\* The whole budget was used: NAPI calls again, unless napi_disable waits.
PollBudget ==
  /\ poll.pc = "end"
  /\ Exhausted
  /\ \/ /\ job # "napi"
        /\ poll' = [PollIdle EXCEPT !.pc = "ack"]
        /\ UNCHANGED napi
     \/ /\ job = "napi"
        /\ poll' = PollIdle
        /\ napi' = "idle"
  /\ UNCHANGED <<ringVars, hwVars, enabling, memVars, devVars>>

\* the budget stays as it was
Remaining_Full == poll.remain

\* earlier rounds are forgotten
Remaining_Last == Budget - poll.done

\* goto poll_again, within the same call
Remaining == poll.remain - poll.done

PollAgain ==
  /\ poll.pc = "end"
  /\ ~Exhausted
  /\ status
  /\ poll' = [poll EXCEPT !.pc = "ack", !.remain = Remaining]
  /\ UNCHANGED <<ringVars, hwVars, napi, enabling, memVars, devVars>>

\* the interrupt is acknowledged at the end, not looked at again
PollComplete_Acks ==
  /\ poll.pc = "end"
  /\ ~Exhausted
  /\ poll' = PollIdle
  /\ napi' = "idle"
  /\ enabling' = TRUE
  /\ status' = FALSE
  /\ UNCHANGED <<ringVars, crx, drx, dmaOn, mask, memVars, devVars>>

PollComplete ==
  /\ poll.pc = "end"
  /\ ~Exhausted
  /\ ~status
  /\ poll' = PollIdle
  /\ napi' = "idle"
  /\ enabling' = TRUE
  /\ UNCHANGED <<ringVars, hwVars, memVars, devVars>>

IrqEnable ==
  /\ enabling
  /\ enabling' = FALSE
  /\ mask' = TRUE
  /\ UNCHANGED <<ringVars, crx, drx, dmaOn, status, napi, poll, memVars, devVars>>

-----------------------------------------------------------------------------
(* Open, stop and reset.                                                   *)

\* The fragments an allocation of the ring takes.
Nth(k) == CHOOSE f \in Free : Cardinality({g \in Free : g < f}) = k
Fresh(k) == [i \in Slots |-> IF i < k THEN Nth(i) ELSE None]
Listed(d) == {d[i] : i \in Slots} \ {None}

\* mtk_rx_clean frees and unmaps what data and rxd1 name; before the ring was
\* complete once, dma_size is 0 and it finds nothing.
Clean(d, a, m) ==
  /\ data' = [i \in Slots |-> None]
  /\ addr' = a
  /\ mapped' = IF sized THEN m \ {a[i] : i \in {j \in Slots : d[j] # None}} ELSE m
  /\ leaked' = IF sized THEN leaked ELSE leaked \cup Listed(d)
  /\ UNCHANGED stack

\* mtk_rx_alloc, mtk_start_dma, napi_enable and mtk_rx_irq_enable
OpenOk ==
  /\ Cardinality(Free) >= N
  /\ live' = TRUE /\ sized' = TRUE
  /\ data' = Fresh(N) /\ addr' = Fresh(N)
  /\ mapped' = mapped \cup Listed(Fresh(N))
  /\ filled' = [i \in Slots |-> FALSE]
  /\ calc' = N - 1 /\ crx' = N - 1 /\ drx' = 0
  /\ dmaOn' = TRUE /\ napi' = "idle" /\ mask' = TRUE
  /\ UNCHANGED <<status, poll, enabling, stack, leaked>>

\* No memory for the fragment of descriptor k, or no mapping for it; mtk_dma_free
\* then cleans up.
OpenFails ==
  /\ \E k \in Slots :
       \/ /\ Cardinality(Free) >= k
          /\ Clean(Fresh(k), addr, mapped)
       \/ /\ Cardinality(Free) >= N
          /\ Clean(Fresh(N), [i \in Slots |-> IF i < k THEN Nth(i) ELSE addr[i]],
                   mapped \cup Listed(Fresh(k)))
  /\ UNCHANGED <<live, sized, filled, calc, hwVars, napiVars>>

NdoOpen ==
  /\ job = "none"
  /\ ~live
  /\ OpenOk \/ OpenFails
  /\ UNCHANGED devVars

\* mtk_stop by the last user, which first disables the interrupt
StopBegin ==
  /\ job = "none"
  /\ live
  /\ mask' = FALSE
  /\ job' = "napi"
  /\ UNCHANGED <<ringVars, crx, drx, dmaOn, status, napiVars, memVars>>

NdoStop == StopBegin /\ UNCHANGED resetting

\* mtk_pending_work begins with mtk_stop
ResetBegin == StopBegin /\ resetting' = TRUE

NapiQuiet == napi = "idle"

StopNapi ==
  /\ job = "napi"
  /\ NapiQuiet
  /\ napi' = "off"
  /\ job' = "dma"
  /\ UNCHANGED <<ringVars, hwVars, poll, enabling, memVars, resetting>>

StopDma ==
  /\ job = "dma"
  /\ dmaOn' = FALSE
  /\ job' = "free"
  /\ UNCHANGED <<ringVars, crx, drx, status, mask, napiVars, memVars, resetting>>

StopFree ==
  /\ job = "free"
  /\ Clean(data, addr, mapped)
  /\ live' = FALSE
  /\ job' = IF resetting THEN "hw" ELSE "none"
  /\ UNCHANGED <<sized, filled, calc, hwVars, napiVars, resetting>>

\* mtk_hw_init clears the registers; mtk_open then opens or fails.
ResetHw ==
  /\ job = "hw"
  /\ crx' = 0 /\ drx' = 0
  /\ dmaOn' = FALSE /\ status' = FALSE /\ mask' = FALSE
  /\ job' = "open"
  /\ UNCHANGED <<ringVars, napiVars, memVars, resetting>>

ResetOpen ==
  /\ job = "open"
  /\ OpenOk \/ OpenFails
  /\ resetting' = FALSE
  /\ job' = "none"

-----------------------------------------------------------------------------
Poll ==
  \/ PollAck \/ PollDrop \/ PollSkip \/ PollReceive \/ PollUpdate
  \/ PollBudget \/ PollAgain \/ PollComplete

Job == StopNapi \/ StopDma \/ StopFree \/ ResetHw \/ ResetOpen

Next ==
  \/ Receive \/ Irq \/ Poll \/ IrqEnable
  \/ \E f \in Frags : StackFrees(f)
  \/ NdoOpen \/ NdoStop \/ ResetBegin \/ Job

Spec == Init /\ [][Next]_vars

\* Interrupts are delivered, and code that runs goes on. No frame has to arrive,
\* and the stack may keep its skbs.
FairSpec ==
  /\ Spec
  /\ WF_vars(Irq)
  /\ WF_vars(Poll)
  /\ WF_vars(IrqEnable)
  /\ WF_vars(Job)

-----------------------------------------------------------------------------
(* Properties.                                                             *)

\* The variables keep their types; a call of mtk_napi_rx stays within its budget.
TypeOK ==
  /\ live \in BOOLEAN /\ sized \in BOOLEAN
  /\ data \in [Slots -> Frags \cup {None}]
  /\ addr \in [Slots -> Frags \cup {None}]
  /\ filled \in [Slots -> BOOLEAN]
  /\ calc \in Slots /\ crx \in Slots /\ drx \in Slots
  /\ dmaOn \in BOOLEAN /\ status \in BOOLEAN /\ mask \in BOOLEAN
  /\ napi \in {"off", "idle", "sched"}
  /\ poll \in [pc : {"idle", "ack", "loop", "end"}, remain : 0..Budget,
               done : 0..Budget, total : 0..Budget]
  /\ enabling \in BOOLEAN
  /\ mapped \in SUBSET Frags /\ stack \in SUBSET Frags /\ leaked \in SUBSET Frags
  /\ resetting \in BOOLEAN
  /\ job \in {"none", "napi", "dma", "free", "hw", "open"}

\* Whatever fails in mtk_poll_rx, a live ring has a fragment of its own behind
\* each descriptor, mapped and where rxd1 points, and neither the stack nor the
\* allocator has it too: the DMA never writes to memory of somebody else. No
\* mapping outlives its use, unless the cleanup of an allocation that failed
\* before the first one succeeded lost it. The poll walks a live ring only, and
\* the DMA never comes to a descriptor whose frame is still unread.
OwnBuffers ==
  /\ live =>
       \A i \in Slots :
         /\ data[i] \in mapped \ (stack \cup leaked)
         /\ addr[i] = data[i]
         /\ \A j \in Slots \ {i} : data[j] # data[i]
  /\ mapped \subseteq InRing \cup leaked
  /\ poll.pc # "idle" => live
  /\ dmaOn /\ drx # crx => ~filled[drx]

\* What mtk_napi_rx reports to NAPI, over all its rounds of poll_again, is what
\* it handled, and never more than its budget.
ReportsWork ==
  poll.pc = "end" =>
    /\ poll.total = Budget - poll.remain + poll.done
    /\ poll.total <= Budget

\* A received frame is taken from its descriptor, unless the ring is freed.
Handled == \A i \in Slots : (live /\ filled[i]) ~> (~live \/ ~filled[i])

\* A DMA that ran out of descriptors gets new ones, even if there is no memory.
Replenished == (live /\ drx = crx) ~> (~live \/ drx # crx)
=============================================================================
