-------------------------------- MODULE MtkTx --------------------------------
(***************************************************************************)
(* The transmit side of the Ethernet driver (mtk_eth_soc.c): two network   *)
(* devices share one DMA ring, which start_xmit fills under page_lock, the *)
(* QDMA engine empties and the NAPI poll reclaims without that lock. The   *)
(* ring lives from the open of the first device to the stop of the last    *)
(* one, and a reset after a transmit timeout stops and opens them all.     *)
(*                                                                         *)
(* Actors: the stack's transmitter, of which page_lock lets one in; the    *)
(* DMA engine; the interrupt and the poll; and whoever holds the rtnl lock *)
(* (ndo_open, ndo_stop, the reset work). The stack's promise of another    *)
(* packet (xmit_more) may be followed by one or not.                       *)
(***************************************************************************)
EXTENDS Integers, FiniteSets

CONSTANTS
  N,         \* MTK_DMA_SIZE: descriptors of the ring
  Thresh,    \* ring->thresh: at this many free descriptors a queue stops
  Sizes,     \* descriptors of a packet, mtk_cal_txd_req
  Budget,    \* packets a poll may complete
  MacCount   \* MTK_MAC_COUNT: devices on the ring

ASSUME MtkTxAssumption ==
  /\ N \in Nat
  /\ Thresh \in Nat
  /\ N - 2 > Thresh
  /\ Sizes \subseteq Nat \ {0}
  /\ \A n \in Sizes : n < N - 2
  /\ Budget \in Nat \ {0}
  /\ MacCount \in Nat \ {0}

VARIABLES
  \* struct mtk_tx_ring
  alive,     \* ring->buf is allocated
  buf,       \* the skb of each tx_buf: its device, Dummy for a fragment, or NoSkb
  next,      \* next_free
  last,      \* last_free, which is also last_free_ptr
  free,      \* free_count
  \* the hardware
  own,       \* descriptors whose owner bit says DMA
  ctx,       \* MTK_QTX_CTX_PTR: the DMA may go up to here
  drx,       \* MTK_QTX_DRX_PTR: the DMA is done up to here
  dmaOn,     \* MTK_TX_DMA_EN
  status,    \* MTK_TX_DONE_INT in the interrupt status
  mask,      \* MTK_TX_DONE_INT in the interrupt mask: TRUE is enabled
  \* NAPI
  napi,      \* off, idle or sched
  poll,      \* where mtk_napi_tx is, and its local variables
  enabling,  \* napi_complete returned, mtk_tx_irq_enable is still to come
  \* queues and devices
  xmit,      \* the call of mtk_start_xmit that holds page_lock
  stopped,   \* stopped[m]: __QUEUE_STATE_DRV_XOFF
  bql,       \* bql[m]: packets sent and not completed, as the stack counts
  up,        \* up[m]: the stack has the device open and transmits on it
  refcnt,    \* dma_refcnt
  resetting, \* MTK_RESETTING
  work,      \* pending_work is queued
  job,       \* what the holder of the rtnl lock is doing
  \* ghost
  missed     \* the last wake-up came while a transmitter was about to stop

ringVars == <<alive, buf, next, last, free>>
hwVars == <<own, ctx, drx, dmaOn, status, mask>>
napiVars == <<napi, poll, enabling>>
queueVars == <<xmit, stopped, bql, missed>>
devVars == <<up, refcnt, resetting, work, job>>
vars == <<ringVars, hwVars, napiVars, queueVars, devVars>>

Slots == 0..(N - 1)
Nowhere == N                       \* what a pointer register is after a reset
Macs == 0..(MacCount - 1)
NoSkb == -1                        \* tx_buf->skb is NULL
Dummy == MacCount                  \* MTK_DMA_DUMMY_DESC
Succ(i) == (i + 1) % N             \* txd2 of descriptor i
Ahead(a, b) == (b - a + N) % N
Between(a, b) == {i \in Slots : Ahead(a, i) \in 1..(Ahead(a, b) - 1)}
InRing == {i \in Slots : buf[i] # NoSkb}
EmptyBuf == [i \in Slots |-> NoSkb]
NoneDone == [m \in Macs |-> 0]

XmitAt(pc, m) == [pc |-> pc, dev |-> m, n |-> 0, more |-> FALSE]
XmitIdle == XmitAt("idle", 0)
PollIdle == [pc |-> "idle", dma |-> Nowhere, left |-> Budget, done |-> NoneDone]
NoJob == [op |-> "none", phase |-> "stop", dev |-> 0, pc |-> "idle", drift |-> 0]

\* dma_refcnt minus the devices that are open, now or, while somebody holds the
\* rtnl lock, when the lock was taken; only the properties use it.
Users == Cardinality({m \in Macs : up[m]})
Drift == IF job = NoJob THEN refcnt - Users ELSE job.drift

Init ==
  /\ alive = FALSE /\ buf = EmptyBuf /\ next = 0 /\ last = N - 1 /\ free = 0
  /\ own = {} /\ ctx = Nowhere /\ drx = Nowhere
  /\ dmaOn = FALSE /\ status = FALSE /\ mask = FALSE
  /\ napi = "off" /\ poll = PollIdle /\ enabling = FALSE
  /\ xmit = XmitIdle
  /\ stopped = [m \in Macs |-> FALSE]
  /\ bql = NoneDone
  /\ up = [m \in Macs |-> FALSE]
  /\ refcnt = 0 /\ resetting = FALSE /\ work = FALSE /\ job = NoJob
  /\ missed = FALSE

-----------------------------------------------------------------------------
(* mtk_start_xmit: from taking page_lock to giving it back.                *)

\* the test of MTK_RESETTING is left out
Refused_Never == FALSE

\* During a reset the packet is dropped, and nothing changes.
Refused == resetting

\* any free descriptor will do
RingFull_Zero(n) == free = 0

RingFull(n) == free <= n

\* The stack calls for a device that is up and whose queue is not stopped.
XmitEnter(m, n, more) ==
  /\ xmit.pc = "idle"
  /\ up[m]
  /\ ~stopped[m]
  /\ ~Refused
  /\ xmit' = IF RingFull(n) THEN XmitAt("stop", m)
             ELSE [pc |-> "map", dev |-> m, n |-> n, more |-> more]
  /\ UNCHANGED <<ringVars, hwVars, napiVars, stopped, bql, missed, devVars>>

\* skb_cow_head, a DMA mapping or the search for a descriptor fails: what was
\* mapped is given back and the packet is dropped.
XmitDrop ==
  /\ xmit.pc = "map"
  /\ alive
  /\ xmit' = XmitIdle
  /\ UNCHANGED <<ringVars, hwVars, napiVars, stopped, bql, missed, devVars>>

\* mtk_tx_map: the packet takes n descriptors from next_free on; the DMA is
\* told unless another packet is to follow.
Taken(n) == {(next + k) % N : k \in 0..(n - 1)}

Kicks == stopped[xmit.dev] \/ ~xmit.more

XmitMap ==
  /\ xmit.pc = "map"
  /\ alive
  /\ last \notin Taken(xmit.n)
  /\ buf' = [i \in Slots |-> IF i = next THEN xmit.dev
                             ELSE IF i \in Taken(xmit.n) THEN Dummy ELSE buf[i]]
  /\ own' = own \cup Taken(xmit.n)
  /\ bql' = [bql EXCEPT ![xmit.dev] = @ + 1]
  /\ next' = (next + xmit.n) % N
  /\ free' = free - xmit.n
  /\ ctx' = IF Kicks THEN next' ELSE ctx
  /\ xmit' = XmitAt("check", xmit.dev)
  /\ UNCHANGED <<alive, last, drx, dmaOn, status, mask, napiVars, stopped,
                 missed, devVars>>

XmitCheck ==
  /\ xmit.pc = "check"
  /\ xmit' = IF free <= Thresh THEN XmitAt("stop", xmit.dev) ELSE XmitIdle
  /\ UNCHANGED <<ringVars, hwVars, napiVars, stopped, bql, missed, devVars>>

\* netif_stop_queue, on a full ring (NETDEV_TX_BUSY) or below the threshold
XmitStop ==
  /\ xmit.pc = "stop"
  /\ stopped' = [stopped EXCEPT ![xmit.dev] = TRUE]
  /\ xmit' = XmitIdle
  /\ UNCHANGED <<ringVars, hwVars, napiVars, bql, missed, devVars>>

-----------------------------------------------------------------------------
(* The DMA engine and the interrupt.                                       *)

\* The engine sends the next descriptor, gives it back and says so.
Send ==
  /\ dmaOn
  /\ Succ(drx) # ctx
  /\ drx' = Succ(drx)
  /\ own' = own \ {Succ(drx)}
  /\ status' = TRUE
  /\ UNCHANGED <<ringVars, ctx, dmaOn, mask, napiVars, queueVars, devVars>>

\* mtk_handle_irq_tx. While napi_disable waits, napi_schedule_prep refuses.
Irq ==
  /\ mask /\ status
  /\ napi = "idle"
  /\ job.pc # "napi"
  /\ mask' = FALSE
  /\ napi' = "sched"
  /\ poll' = [PollIdle EXCEPT !.pc = "ack"]
  /\ UNCHANGED <<ringVars, own, ctx, drx, dmaOn, status, enabling, queueVars,
                 devVars>>

-----------------------------------------------------------------------------
(* mtk_napi_tx.                                                            *)

PollGoes(from, to) == poll.pc = from /\ poll' = [poll EXCEPT !.pc = to]

PollAck ==
  /\ PollGoes("ack", "read")
  /\ status' = FALSE
  /\ UNCHANGED <<ringVars, own, ctx, drx, dmaOn, mask, napi, enabling,
                 queueVars, devVars>>

\* mtk_poll_tx_qdma reads how far the DMA is once, before its loop.
PollRead ==
  /\ poll.pc = "read"
  /\ poll' = [PollIdle EXCEPT !.pc = "loop", !.dma = drx]
  /\ UNCHANGED <<ringVars, hwVars, napi, enabling, queueVars, devVars>>

\* the DMA pointer is not compared
LoopGoes_NoDma ==
  /\ poll.left > 0
  /\ last \notin own
  /\ buf[Succ(last)] # NoSkb

LoopGoes ==
  /\ poll.dma # last
  /\ poll.left > 0
  /\ last \notin own
  /\ buf[Succ(last)] # NoSkb

\* One turn of the loop: mtk_tx_unmap, last_free, free_count. The skb goes with
\* the first descriptor of its packet.
PollReclaim ==
  /\ poll.pc = "loop"
  /\ LoopGoes
  /\ LET i == Succ(last) IN
       /\ poll' = IF buf[i] \in Macs
                  THEN [poll EXCEPT !.done[buf[i]] = @ + 1, !.left = @ - 1]
                  ELSE poll
       /\ buf' = [buf EXCEPT ![i] = NoSkb]
       /\ last' = i
       /\ free' = free + 1
  /\ UNCHANGED <<alive, next, hwVars, napi, enabling, queueVars, devVars>>

\* only the queue of the first device is looked at
Wakes_First == stopped[0] /\ free > Thresh

\* netdev_completed_queue, and the test whether to wake the queues
Wakes == (\E m \in Macs : stopped[m]) /\ free > Thresh

\* the interrupt is acknowledged after the ring was walked
PollComplete_Acks ==
  /\ poll.pc = "loop"
  /\ ~LoopGoes
  /\ bql' = [m \in Macs |-> bql[m] - poll.done[m]]
  /\ poll' = [poll EXCEPT !.pc = IF Wakes THEN "wake" ELSE "end",
                         !.dma = Nowhere, !.done = NoneDone]
  /\ missed' = (missed \/ (~Wakes /\ xmit.pc = "stop"))
  /\ status' = FALSE
  /\ UNCHANGED <<ringVars, own, ctx, drx, dmaOn, mask, napi, enabling, xmit,
                 stopped, devVars>>

PollComplete ==
  /\ poll.pc = "loop"
  /\ ~LoopGoes
  /\ bql' = [m \in Macs |-> bql[m] - poll.done[m]]
  /\ poll' = [poll EXCEPT !.pc = IF Wakes THEN "wake" ELSE "end",
                         !.dma = Nowhere, !.done = NoneDone]
  /\ missed' = (missed \/ (~Wakes /\ xmit.pc = "stop"))
  /\ UNCHANGED <<ringVars, hwVars, napi, enabling, xmit, stopped, devVars>>

\* mtk_wake_queue
PollWake ==
  /\ PollGoes("wake", "end")
  /\ stopped' = [m \in Macs |-> FALSE]
  /\ missed' = (xmit.pc = "stop")
  /\ UNCHANGED <<ringVars, hwVars, napi, enabling, xmit, bql, devVars>>

\* A poll that used its budget or finds a new interrupt is called again, unless
\* napi_disable waits for it.
More == poll.left = 0 \/ status

PollAgain ==
  /\ poll.pc = "end"
  /\ More
  /\ job.pc # "napi"
  /\ poll' = [PollIdle EXCEPT !.pc = "ack"]
  /\ UNCHANGED <<ringVars, hwVars, napi, enabling, queueVars, devVars>>

PollEnd ==
  /\ poll.pc = "end"
  /\ \/ ~More /\ enabling' = TRUE
     \/ More /\ job.pc = "napi" /\ UNCHANGED enabling
  /\ poll' = PollIdle
  /\ napi' = "idle"
  /\ UNCHANGED <<ringVars, hwVars, queueVars, devVars>>

IrqEnable ==
  /\ enabling
  /\ enabling' = FALSE
  /\ mask' = TRUE
  /\ UNCHANGED <<ringVars, own, ctx, drx, dmaOn, status, napi, poll, queueVars,
                 devVars>>

-----------------------------------------------------------------------------
(* mtk_open and mtk_stop, called with the rtnl lock held.                  *)

FirstUser == refcnt = 0

\* the queue is not started
Started_Not(m) == stopped

\* netif_start_queue
Started(m) == [stopped EXCEPT ![m] = FALSE]

\* The first user allocates the ring (mtk_start_dma), enables NAPI and the
\* interrupt; refcount_set or refcount_inc; netif_start_queue.
OpenDev(m) ==
  /\ IF FirstUser
     THEN /\ alive' = TRUE /\ buf' = EmptyBuf
          /\ next' = 0 /\ last' = N - 1 /\ free' = N - 2
          /\ own' = {} /\ ctx' = 0 /\ drx' = N - 1 /\ dmaOn' = TRUE
          /\ napi' = "idle" /\ mask' = TRUE
          /\ refcnt' = 1
     ELSE /\ refcnt' = refcnt + 1
          /\ UNCHANGED <<ringVars, own, ctx, drx, dmaOn, napi, mask>>
  /\ stopped' = Started(m)
  /\ UNCHANGED <<status, poll, enabling, xmit, bql, missed>>

\* A failed open (no PHY, no memory) leaves the device down.
NdoOpen(m) ==
  /\ job = NoJob
  /\ ~up[m]
  /\ OpenDev(m)
  /\ up' = [up EXCEPT ![m] = TRUE]
  /\ UNCHANGED <<resetting, work, job>>

\* dev_close waits for the transmitters of the device, then calls mtk_stop.
Deactivate(m) ==
  /\ up[m]
  /\ xmit.pc = "idle" \/ xmit.dev # m
  /\ up' = [up EXCEPT ![m] = FALSE]

NdoStop(m) ==
  /\ job = NoJob
  /\ Deactivate(m)
  /\ job' = [op |-> "close", phase |-> "stop", dev |-> m, pc |-> "disable",
             drift |-> Drift]
  /\ UNCHANGED <<ringVars, hwVars, napiVars, queueVars, refcnt, resetting, work>>

\* The reset goes on to the next device, or past the last one to pc.
NextDev(pc, after) ==
  IF job.dev + 1 \in Macs THEN [job EXCEPT !.dev = @ + 1, !.pc = pc]
  ELSE [job EXCEPT !.dev = 0, !.pc = after]

StopReturns ==
  job' = CASE job.op = "close" -> NoJob
           [] job.op = "reset" /\ job.phase = "stop" -> NextDev("disable", "hw")
           [] OTHER -> NextDev("open", "done")

\* netif_tx_disable, then refcount_dec_and_test, which refuses to go below zero
LastUser == refcnt = 1

StopDisable ==
  /\ job.pc = "disable"
  /\ xmit.pc = "idle" \/ xmit.dev # job.dev
  /\ stopped' = [stopped EXCEPT ![job.dev] = TRUE]
  /\ refcnt' = IF refcnt = 0 THEN 0 ELSE refcnt - 1
  /\ \/ LastUser /\ mask' = FALSE /\ job' = [job EXCEPT !.pc = "napi"]
     \/ ~LastUser /\ StopReturns /\ UNCHANGED mask
  /\ UNCHANGED <<ringVars, own, ctx, drx, dmaOn, status, napiVars, xmit, bql,
                 missed, up, resetting, work>>

\* napi_disable waits until the poll has come to its end.
StopNapi ==
  /\ job.pc = "napi"
  /\ napi = "idle"
  /\ napi' = "off"
  /\ job' = [job EXCEPT !.pc = "dma"]
  /\ UNCHANGED <<ringVars, hwVars, poll, enabling, queueVars, up, refcnt,
                 resetting, work>>

\* mtk_stop_dma takes page_lock.
PageLockFree == xmit.pc = "idle"

StopDma ==
  /\ job.pc = "dma"
  /\ PageLockFree
  /\ dmaOn' = FALSE
  /\ job' = [job EXCEPT !.pc = "free"]
  /\ UNCHANGED <<ringVars, own, ctx, drx, status, mask, napiVars, queueVars,
                 up, refcnt, resetting, work>>

\* netdev_reset_queue for every device
ResetQueues == NoneDone

\* mtk_dma_free, mtk_tx_clean
StopFree ==
  /\ job.pc = "free"
  /\ alive' = FALSE
  /\ buf' = EmptyBuf
  /\ own' = {}
  /\ bql' = ResetQueues
  /\ StopReturns
  /\ UNCHANGED <<next, last, free, ctx, drx, dmaOn, status, mask, napiVars,
                 xmit, stopped, missed, up, refcnt, resetting, work>>

-----------------------------------------------------------------------------
(* The watchdog and mtk_pending_work.                                      *)

\* mtk_tx_timeout; during a reset the carrier is off and the watchdog quiet.
Watchdog(m) ==
  /\ up[m] /\ stopped[m]
  /\ ~resetting /\ ~work
  /\ work' = TRUE
  /\ UNCHANGED <<ringVars, hwVars, napiVars, queueVars, up, refcnt, resetting,
                 job>>

ResetBegin ==
  /\ work
  /\ job = NoJob
  /\ work' = FALSE
  /\ resetting' = TRUE
  /\ job' = [op |-> "reset", phase |-> "stop", dev |-> 0, pc |-> "disable",
             drift |-> Drift]
  /\ UNCHANGED <<ringVars, hwVars, napiVars, queueVars, up, refcnt>>

\* mtk_hw_deinit, mtk_hw_init: the frame engine is reset, its registers cleared.
ResetHw ==
  /\ job.pc = "hw"
  /\ ctx' = Nowhere /\ drx' = Nowhere
  /\ dmaOn' = FALSE /\ status' = FALSE /\ mask' = FALSE
  /\ job' = [job EXCEPT !.phase = "open", !.pc = "open"]
  /\ UNCHANGED <<ringVars, own, napiVars, queueVars, up, refcnt, resetting, work>>

ResetOpen ==
  /\ job.pc = "open"
  /\ OpenDev(job.dev)
  /\ job' = NextDev("open", "done")
  /\ UNCHANGED <<up, resetting, work>>

\* mtk_open failed: dev_close, which for a device that is up calls mtk_stop
ResetOpenFails ==
  /\ job.pc = "open"
  /\ \/ /\ Deactivate(job.dev)
        /\ job' = [job EXCEPT !.pc = "disable"]
     \/ /\ ~up[job.dev]
        /\ job' = NextDev("open", "done")
        /\ UNCHANGED up
  /\ UNCHANGED <<ringVars, hwVars, napiVars, queueVars, refcnt, resetting, work>>

ResetDone ==
  /\ job.pc = "done"
  /\ resetting' = FALSE
  /\ job' = NoJob
  /\ UNCHANGED <<ringVars, hwVars, napiVars, queueVars, up, refcnt, work>>

-----------------------------------------------------------------------------
Transmit == XmitDrop \/ XmitMap \/ XmitCheck \/ XmitStop

Poll ==
  \/ PollAck \/ PollRead \/ PollReclaim \/ PollComplete \/ PollWake
  \/ PollAgain \/ PollEnd

Stop == StopDisable \/ StopNapi \/ StopDma \/ StopFree

Reset == ResetHw \/ ResetOpen \/ ResetOpenFails \/ ResetDone

Next ==
  \/ \E m \in Macs, n \in Sizes, more \in BOOLEAN : XmitEnter(m, n, more)
  \/ Transmit \/ Send \/ Irq \/ Poll \/ IrqEnable
  \/ \E m \in Macs : NdoOpen(m) \/ NdoStop(m) \/ Watchdog(m)
  \/ Stop \/ ResetBegin \/ Reset

-----------------------------------------------------------------------------
(* Properties.                                                             *)

\* The variables keep their types; free_count stays within the ring, whatever
\* transmitter and poll do at the same time.
TypeOK ==
  /\ alive \in BOOLEAN
  /\ buf \in [Slots -> Macs \cup {NoSkb, Dummy}]
  /\ next \in Slots /\ last \in Slots
  /\ free \in 0..(N - 2)
  /\ own \in SUBSET Slots
  /\ ctx \in Slots \cup {Nowhere} /\ drx \in Slots \cup {Nowhere}
  /\ dmaOn \in BOOLEAN /\ status \in BOOLEAN /\ mask \in BOOLEAN
  /\ napi \in {"off", "idle", "sched"}
  /\ poll \in [pc : {"idle", "ack", "read", "loop", "wake", "end"},
               dma : Slots \cup {Nowhere}, left : 0..Budget,
               done : [Macs -> 0..Budget]]
  /\ enabling \in BOOLEAN
  /\ xmit \in [pc : {"idle", "map", "check", "stop"}, dev : Macs,
               n : Sizes \cup {0}, more : BOOLEAN]
  /\ stopped \in [Macs -> BOOLEAN]
  /\ bql \in [Macs -> 0..(N - 2 + Budget)]
  /\ up \in [Macs -> BOOLEAN]
  /\ refcnt \in Nat
  /\ resetting \in BOOLEAN /\ work \in BOOLEAN
  /\ job \in [op : {"none", "close", "reset"}, phase : {"stop", "open"},
              dev : Macs, pc : {"idle", "disable", "napi", "dma", "free", "hw",
                                "open", "done"}, drift : Int]
  /\ missed \in BOOLEAN

\* No transmitter writes and no poll walks a ring that mtk_stop has freed:
\* MTK_RESETTING turns new transmitters away, page_lock in mtk_stop_dma waits
\* for the one inside and napi_disable for the poll. And whenever mtk_open looks
\* at it, dma_refcnt says whether there is a ring: mtk_open never allocates over
\* a live one and never calls napi_enable twice (a BUG). A device that failed to
\* reopen gives up a reference it never had; then its ring may go too early.
RingAlive ==
  /\ Drift >= 0 => ((xmit.pc = "map" \/ poll.pc # "idle") => alive)
  /\ job.pc \in {"idle", "open"} =>
       /\ (refcnt > 0) <=> alive
       /\ (refcnt > 0) <=> (napi # "off")

\* The lock-free ring adds up: the buffers in use are exactly those between
\* last_free and next_free, free_count counts the rest less the two that stay
\* unused, and a buffer is not given back while the DMA owns its descriptor.
\* The stack's count of unfinished packets is the packets in the ring plus those
\* the poll is about to report: netdev_completed_queue never reports more than
\* was sent (a BUG in dql_completed), over stops and resets too.
Accounting ==
  /\ alive =>
       /\ InRing = Between(last, next)
       /\ free = N - 2 - Cardinality(InRing)
       /\ dmaOn => own \subseteq InRing
  /\ \A m \in Macs :
       bql[m] = Cardinality({i \in Slots : buf[i] = m}) + poll.done[m]

\* Everything the DMA was given is sent and reclaimed, and nothing is running.
Quiet ==
  /\ job = NoJob /\ ~work
  /\ xmit.pc = "idle" /\ napi = "idle" /\ ~enabling
  /\ dmaOn /\ ~status /\ Succ(drx) = ctx /\ last = drx

\* A queue is not left stopped with nothing under way to wake it, unless the
\* poll's wake-up fell between a transmitter's look at free_count and its
\* netif_stop_queue, or packets the stack promised to follow up (xmit_more)
\* were never given to the DMA: the two cases left to the watchdog.
WokenUnlessMissed ==
  \A m \in Macs :
    Quiet /\ up[m] /\ stopped[m] => missed \/ ctx # next \/ Drift < 0

\* descriptor i was given to the DMA and is not reclaimed
Kicked(i) == ctx \in Slots /\ i \in Between(last, ctx)

\* Each descriptor given to the DMA is reclaimed, by the poll or by a stop: no
\* interrupt is lost between acknowledging it, reading the DMA's pointer,
\* napi_complete and enabling the interrupt again.
Reclaimed ==
  \A i \in Slots : (alive /\ Kicked(i)) ~> (buf[i] = NoSkb \/ Drift # 0)

\* A stopped queue of a device that is up is started again, if not by the poll
\* then by the watchdog's reset.
Unstuck ==
  \A m \in Macs :
    (up[m] /\ stopped[m]) ~> (~up[m] \/ ~stopped[m] \/ Drift # 0)

\* mtk_pending_work: "stop all devices to make sure that dma is properly shut
\* down". Violated: a reset opens devices that were down, and once such a device
\* is opened for good the count no longer reaches zero.
ResetShutsDown == job.pc = "hw" => ~alive

-----------------------------------------------------------------------------
Spec == Init /\ [][Next]_vars

\* Code that runs goes on, the DMA sends what it was given, interrupts are
\* delivered, the watchdog timer runs and the rtnl lock is handed out fairly.
\* Nobody has to transmit, open or close.
FairSpec ==
  /\ Spec
  /\ WF_vars(Transmit)
  /\ WF_vars(Send)
  /\ WF_vars(Irq)
  /\ WF_vars(Poll)
  /\ WF_vars(IrqEnable)
  /\ WF_vars((Stop \/ Reset))
  /\ \A m \in Macs : WF_vars(Watchdog(m))
  /\ SF_vars(ResetBegin)
=============================================================================
