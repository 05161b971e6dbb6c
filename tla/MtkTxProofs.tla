----------------------------- MODULE MtkTxProofs -----------------------------
(***************************************************************************)
(* Theorems about MtkTx, for every ring size, threshold, set of packet     *)
(* sizes, budget and number of devices.                                    *)
(***************************************************************************)
EXTENDS MtkTx, FiniteSetTheorems, TLAPS

USE DEF ringVars, hwVars, napiVars, queueVars, devVars

-----------------------------------------------------------------------------
(* The inductive invariant.                                                *)

\* What the holder of the rtnl lock may be doing; a reset is marked as one.
JobShape ==
  \/ job = NoJob
  \/ job.op = "close" /\ job.pc \in {"disable", "napi", "dma", "free"}
  \/ /\ job.op = "reset" /\ job.pc # "idle" /\ resetting
     /\ job.pc \in {"open", "done"} => job.phase = "open"
     /\ job.pc = "hw" => job.phase = "stop"

\* The ring and NAPI live as long as somebody has a reference, except while the
\* last one is being given up: NAPI goes first, then the DMA, then the ring.
Lifetime ==
  /\ (poll.pc # "idle") <=> (napi = "sched")
  /\ IF job.pc \in {"napi", "dma", "free"}
     THEN /\ refcnt = 0 /\ alive
          /\ (job.pc = "napi") <=> (napi # "off")
     ELSE /\ (refcnt > 0) <=> alive
          /\ (refcnt > 0) <=> (napi # "off")
  /\ dmaOn => alive /\ job.pc # "free"
  /\ ~alive => buf = EmptyBuf

\* The transmitter inside page_lock: its device is up, and what it found free
\* is still free.
Transmitter ==
  /\ xmit.pc # "idle" => up[xmit.dev]
  /\ xmit.pc = "map" => xmit.n \in Sizes /\ xmit.n < free

\* The count a close started from, and the transmitter a reset waits for.
References ==
  /\ job.op = "close" /\ job.pc = "disable" =>
       job.drift = refcnt - Users - 1 /\ ~up[job.dev]
  /\ job.op = "reset" /\ job.drift >= 0 /\ xmit.pc = "map" => alive
  /\ job.op = "reset" /\ job.pc = "free" => xmit.pc = "idle"

\* Once round the ring: last_free, the DMA's position, what the DMA was told of,
\* next_free. The poll stops where the DMA was when it looked.
RingOrder ==
  /\ alive => /\ Ahead(last, next) >= 1
              /\ free = N - 1 - Ahead(last, next)
              /\ InRing = Between(last, next)
  /\ dmaOn => /\ drx \in Slots /\ ctx \in Slots
              /\ Ahead(last, drx) + Ahead(drx, next) = Ahead(last, next)
              /\ Ahead(drx, ctx) \in 1..Ahead(drx, next)
              /\ own \subseteq Between(drx, next)
              /\ poll.pc = "loop" =>
                   poll.dma \in Slots /\ Ahead(last, poll.dma) <= Ahead(last, drx)

\* The packets of each device that the stack still counts.
Counts ==
  /\ \A m \in Macs :
       /\ bql[m] = Cardinality({i \in Slots : buf[i] = m}) + poll.done[m]
       /\ poll.done[m] + poll.left <= Budget
  /\ poll.pc # "loop" => poll.done = NoneDone

\* A reset waits for the transmitter of each device in turn, and starts the
\* queue of each device it opens.
ResetOrder ==
  job.op = "reset" =>
    IF job.phase = "stop"
    THEN /\ xmit.pc # "idle" =>
              /\ job.pc # "hw"
              /\ xmit.dev >= job.dev
              /\ job.pc # "disable" => xmit.dev # job.dev
         /\ job.pc = "hw" => job.dev = 0
    ELSE /\ xmit.pc = "idle"
         /\ job.pc # "done" => ~up[job.dev] \/ job.pc = "open"
         /\ \A m \in Macs : (m < job.dev \/ job.pc = "done") /\ up[m] => ~stopped[m]

\* A queue that is stopped, or about to be, has packets in the ring whose poll
\* will wake it, or the poll is on its way.
Waking ==
  \A m \in Macs :
    /\ job.op # "reset" /\ Drift >= 0 /\ ~missed /\ up[m]
    /\ stopped[m] \/ (xmit.pc = "stop" /\ xmit.dev = m)
    => free < N - 2 \/ poll.pc \in {"loop", "wake"}

IInv == /\ TypeOK /\ JobShape /\ Lifetime /\ Transmitter /\ References
        /\ RingOrder /\ Counts /\ ResetOrder /\ Waking

-----------------------------------------------------------------------------
(* Ring positions.                                                         *)

(* The ring has at least three descriptors, and the constants their types. *)
LEMMA Sizing ==
  /\ N \in Nat /\ N >= 3 /\ 0 \in Slots /\ N - 1 \in Slots /\ Slots \subseteq Nat
  /\ Nowhere \notin Slots /\ Thresh \in Nat /\ Budget \in Nat /\ Budget > 0
  /\ MacCount \in Nat /\ MacCount > 0
  /\ 0 \in Macs /\ Macs \subseteq Nat /\ NoSkb \notin Macs /\ Dummy \notin Macs
  /\ Dummy # NoSkb
BY MtkTxAssumption DEF Slots, Nowhere, Macs, NoSkb, Dummy

(* A packet has at least one descriptor, and fits an empty ring.           *)
LEMMA PacketSize == ASSUME NEW n \in Sizes PROVE n \in Nat /\ n >= 1 /\ n < N - 2
<1>1. n \in Nat /\ n # 0
  BY MtkTxAssumption
<1>. QED  BY <1>1, MtkTxAssumption

(* Ahead, Succ and a step of k without the modulus.                        *)
LEMMA AheadIs ==
  ASSUME NEW a \in Slots, NEW b \in Slots
  PROVE  /\ Ahead(a, b) = IF b >= a THEN b - a ELSE b - a + N
         /\ Ahead(a, b) \in 0..(N - 1)
         /\ Ahead(a, b) \in Nat
<1>. USE Sizing DEF Slots
<1>1. Ahead(a, b) = IF b >= a THEN b - a ELSE b - a + N
  BY DEF Ahead
<1>. QED  BY <1>1

(* k descriptors further on from a, without the modulus.                   *)
LEMMA StepIs ==
  ASSUME NEW a \in Slots, NEW k \in 0..(N - 1)
  PROVE  /\ (a + k) % N = IF a + k < N THEN a + k ELSE a + k - N
         /\ (a + k) % N \in Slots
<1>. USE Sizing DEF Slots
<1>1. (a + k) % N = IF a + k < N THEN a + k ELSE a + k - N
  OBVIOUS
<1>. QED  BY <1>1

(* The successor of a descriptor, without the modulus.                     *)
LEMMA SuccIs ==
  ASSUME NEW a \in Slots
  PROVE  /\ Succ(a) = IF a = N - 1 THEN 0 ELSE a + 1
         /\ Succ(a) \in Slots
<1>. USE Sizing DEF Slots
<1>1. Succ(a) = IF a = N - 1 THEN 0 ELSE a + 1
  BY DEF Succ
<1>. QED  BY <1>1

(* Moving along the ring: one further from a brings every b but a itself   *)
(* one nearer, and k further from b takes it k further from a, as long as  *)
(* that is less than once round.                                           *)
LEMMA RingMoves ==
  ASSUME NEW a \in Slots, NEW b \in Slots
  PROVE  /\ Ahead(a, a) = 0
         /\ Ahead(a, b) = 0 <=> a = b
         /\ a # b => Ahead(Succ(a), b) = Ahead(a, b) - 1
         /\ Ahead(a, b) < N - 1 => Ahead(a, Succ(b)) = Ahead(a, b) + 1
<1>. USE Sizing DEF Slots
<1>1. /\ Ahead(a, a) = 0
      /\ Ahead(a, b) = IF b >= a THEN b - a ELSE b - a + N
  BY AheadIs
<1>2. /\ Succ(a) \in Slots /\ Succ(a) = IF a = N - 1 THEN 0 ELSE a + 1
      /\ Succ(b) \in Slots /\ Succ(b) = IF b = N - 1 THEN 0 ELSE b + 1
  BY SuccIs
<1>3. /\ Ahead(Succ(a), b) = IF b >= Succ(a) THEN b - Succ(a) ELSE b - Succ(a) + N
      /\ Ahead(a, Succ(b)) = IF Succ(b) >= a THEN Succ(b) - a ELSE Succ(b) - a + N
  BY <1>2, AheadIs
<1>4. Ahead(a, b) = 0 <=> a = b
  BY <1>1
<1>5. a # b => Ahead(Succ(a), b) = Ahead(a, b) - 1
  BY <1>1, <1>2, <1>3
<1>6. Ahead(a, b) < N - 1 => Ahead(a, Succ(b)) = Ahead(a, b) + 1
  BY <1>1, <1>2, <1>3
<1>. QED  BY <1>1, <1>4, <1>5, <1>6

(* A step of k from b takes it k further from a, short of once round.      *)
LEMMA RingSteps ==
  ASSUME NEW a \in Slots, NEW b \in Slots, NEW k \in 0..(N - 1), Ahead(a, b) + k < N
  PROVE  Ahead(a, (b + k) % N) = Ahead(a, b) + k
<1>. USE Sizing DEF Slots
<1>1. (b + k) % N \in Slots /\ (b + k) % N = IF b + k < N THEN b + k ELSE b + k - N
  BY StepIs
<1>2. Ahead(a, b) = IF b >= a THEN b - a ELSE b - a + N
  BY AheadIs
<1>3. Ahead(a, (b + k) % N)
        = IF (b + k) % N >= a THEN ((b + k) % N) - a ELSE (((b + k) % N) - a) + N
  BY <1>1, AheadIs
<1>. QED  BY <1>1, <1>2, <1>3

(* Every distance less than once round is that of some descriptor.         *)
LEMMA RingReach ==
  ASSUME NEW a \in Slots, NEW k \in 0..(N - 1)
  PROVE  (a + k) % N \in Slots /\ Ahead(a, (a + k) % N) = k
<1>1. Ahead(a, a) = 0
  BY RingMoves
<1>2. Ahead(a, a) + k < N
  BY <1>1, Sizing
<1>3. Ahead(a, (a + k) % N) = Ahead(a, a) + k
  BY <1>2, RingSteps
<1>. QED  BY <1>1, <1>3, StepIs

(* Distances to two indices tell which way round they lie.                 *)
LEMMA RingChain ==
  ASSUME NEW a \in Slots, NEW b \in Slots, NEW c \in Slots
  PROVE  /\ Ahead(a, b) <= Ahead(a, c) <=> Ahead(a, b) + Ahead(b, c) = Ahead(a, c)
         /\ Ahead(a, b) > Ahead(a, c) <=> Ahead(a, b) + Ahead(b, c) = Ahead(a, c) + N
         /\ Ahead(a, b) = Ahead(a, c) <=> b = c
<1>. USE Sizing DEF Slots
<1>1. /\ Ahead(a, b) = IF b >= a THEN b - a ELSE b - a + N
      /\ Ahead(a, c) = IF c >= a THEN c - a ELSE c - a + N
      /\ Ahead(b, c) = IF c >= b THEN c - b ELSE c - b + N
  BY AheadIs
<1>. QED  BY <1>1

(* The n descriptors of a packet are those less than n ahead of next_free. *)
LEMMA TakenAhead ==
  ASSUME next \in Slots, NEW n \in 0..(N - 1)
  PROVE  /\ Taken(n) = {i \in Slots : Ahead(next, i) < n}
         /\ \A i \in Slots : Ahead(next, i) \in Nat
<1>. USE Sizing
<1>1. \A i \in Slots : Ahead(next, i) \in 0..(N - 1)
  BY AheadIs
<1>2. ASSUME NEW i \in Taken(n) PROVE i \in Slots /\ Ahead(next, i) < n
  <2>1. PICK k \in 0..(n - 1) : i = (next + k) % N
    BY <1>2 DEF Taken
  <2>2. k \in 0..(N - 1)
    OBVIOUS
  <2>3. i \in Slots /\ Ahead(next, i) = k
    BY <2>1, <2>2, RingReach
  <2>. QED  BY <2>3
<1>3. ASSUME NEW i \in Slots, Ahead(next, i) < n PROVE i \in Taken(n)
  <2>. DEFINE k == Ahead(next, i)
  <2>1. k \in 0..(n - 1) /\ k \in 0..(N - 1)
    BY <1>1, <1>3
  <2>. HIDE DEF k
  <2>3. (next + k) % N \in Slots /\ Ahead(next, (next + k) % N) = k
    BY <2>1, RingReach
  <2>4. (next + k) % N = i
    BY <2>3, RingChain, ZenonT(60) DEF k
  <2>. QED  BY <2>1, <2>4 DEF Taken
<1>4. \A i \in Taken(n) : i \in Slots /\ Ahead(next, i) < n
  BY <1>2
<1>5. \A i \in Slots : Ahead(next, i) < n => i \in Taken(n)
  BY <1>3
<1>6. \A i \in Slots : Ahead(next, i) \in Nat
  BY <1>1
<1>. QED  BY <1>4, <1>5, <1>6

(* An index between a and b is nearer to a than b is.                      *)
LEMMA InBetween ==
  \A a, b, i : i \in Slots =>
    (i \in Between(a, b) <=> Ahead(a, i) \in 1..(Ahead(a, b) - 1))
BY DEF Between

(* What lies between two indices is one less than their distance.          *)
LEMMA BetweenCard ==
  ASSUME NEW a \in Slots, NEW b \in Slots, Ahead(a, b) >= 1
  PROVE  /\ IsFiniteSet(Between(a, b))
         /\ Cardinality(Between(a, b)) = Ahead(a, b) - 1
<1>. USE Sizing
<1>. DEFINE n == Ahead(a, b) - 1
            f == [i \in Between(a, b) |-> Ahead(a, i)]
<1>1. n \in Nat /\ n < N
  BY AheadIs
<1>2. Between(a, b) = {i \in Slots : Ahead(a, i) \in 1..n}
  BY DEF Between
<1>. HIDE DEF n
<1>3. f \in [Between(a, b) -> 1..n]
  BY <1>2
<1>4. \A i, j \in Between(a, b) : f[i] = f[j] => i = j
  BY <1>2, RingChain, ZenonT(60)
<1>5. ASSUME NEW k \in 1..n PROVE \E i \in Between(a, b) : f[i] = k
  <2>1. k \in 0..(N - 1)
    BY <1>1
  <2>3. (a + k) % N \in Slots /\ Ahead(a, (a + k) % N) = k
    BY <2>1, RingReach
  <2>. QED  BY <2>3, <1>2
<1>6. f \in Bijection(Between(a, b), 1..n)
  BY <1>3, <1>4, <1>5 DEF Bijection, Injection, Surjection, IsInjective
<1>7. ExistsBijection(Between(a, b), 1..n)
  BY <1>6 DEF ExistsBijection
<1>8. IsFiniteSet(Between(a, b))
  <2>1. IsFiniteSet(Slots)
    BY FS_Interval DEF Slots
  <2>2. Between(a, b) \in SUBSET Slots
    BY DEF Between
  <2>. QED  BY <2>1, <2>2, FS_Subset
<1>9. Cardinality(1..n) = n
  <2>1. Cardinality(1..n) = IF 1 > n THEN 0 ELSE n - 1 + 1
    BY <1>1, FS_Interval
  <2>. QED  BY <1>1, <2>1
<1>10. Cardinality(1..n) = Cardinality(Between(a, b))
  BY <1>7, <1>8, FS_Bijection
<1>. QED  BY <1>8, <1>9, <1>10 DEF n

-----------------------------------------------------------------------------
(* Types.                                                                  *)

PollPcs == {"idle", "ack", "read", "loop", "wake", "end"}
PollType == [pc : PollPcs, dma : Slots \cup {Nowhere}, left : 0..Budget,
             done : [Macs -> 0..Budget]]
XmitType == [pc : {"idle", "map", "check", "stop"}, dev : Macs,
             n : Sizes \cup {0}, more : BOOLEAN]
JobPcs == {"idle", "disable", "napi", "dma", "free", "hw", "open", "done"}
JobType == [op : {"none", "close", "reset"}, phase : {"stop", "open"},
            dev : Macs, pc : JobPcs, drift : Int]

\* TypeOK in terms of the three records above.
Types ==
  /\ alive \in BOOLEAN
  /\ buf \in [Slots -> Macs \cup {NoSkb, Dummy}]
  /\ next \in Slots /\ last \in Slots
  /\ free \in 0..(N - 2)
  /\ own \in SUBSET Slots
  /\ ctx \in Slots \cup {Nowhere} /\ drx \in Slots \cup {Nowhere}
  /\ dmaOn \in BOOLEAN /\ status \in BOOLEAN /\ mask \in BOOLEAN
  /\ napi \in {"off", "idle", "sched"}
  /\ poll \in PollType
  /\ enabling \in BOOLEAN
  /\ xmit \in XmitType
  /\ stopped \in [Macs -> BOOLEAN]
  /\ bql \in [Macs -> 0..(N - 2 + Budget)]
  /\ up \in [Macs -> BOOLEAN]
  /\ refcnt \in Nat
  /\ resetting \in BOOLEAN /\ work \in BOOLEAN
  /\ job \in JobType
  /\ missed \in BOOLEAN

(* Types is TypeOK, with the record types named.                           *)
LEMMA TypesAre == (TypeOK <=> Types) /\ (TypeOK' <=> Types')
BY DEF TypeOK, Types, PollType, PollPcs, XmitType, JobType, JobPcs

(* The records at rest.                                                    *)
LEMMA IdleTypes ==
  /\ PollIdle \in PollType /\ [PollIdle EXCEPT !.pc = "ack"] \in PollType
  /\ \A d \in Slots \cup {Nowhere} :
       [PollIdle EXCEPT !.pc = "loop", !.dma = d] \in PollType
  /\ \A m \in Macs, pc \in {"idle", "map", "check", "stop"} : XmitAt(pc, m) \in XmitType
  /\ XmitIdle \in XmitType
  /\ NoJob \in JobType
  /\ NoneDone \in [Macs -> 0..Budget]
<1>. USE Sizing
<1>1. NoneDone \in [Macs -> 0..Budget]
  BY DEF NoneDone
<1>2. PollIdle \in PollType
  BY <1>1 DEF PollIdle, PollType, PollPcs
<1>3. [PollIdle EXCEPT !.pc = "ack"] \in PollType
  BY <1>2 DEF PollType, PollPcs
<1>4. ASSUME NEW d \in Slots \cup {Nowhere}
      PROVE  [PollIdle EXCEPT !.pc = "loop", !.dma = d] \in PollType
  BY <1>2 DEF PollType, PollPcs
<1>5. \A m \in Macs, pc \in {"idle", "map", "check", "stop"} : XmitAt(pc, m) \in XmitType
  BY DEF XmitAt, XmitType
<1>6. XmitIdle \in XmitType
  BY <1>5 DEF XmitIdle
<1>7. NoJob \in JobType
  BY DEF NoJob, JobType, JobPcs
<1>. QED  BY <1>1, <1>2, <1>3, <1>4, <1>5, <1>6, <1>7

(* Where a stop or an open goes on, and that it keeps what the reset       *)
(* started from.                                                           *)
LEMMA NextDevType ==
  ASSUME job \in JobType, NEW pc \in JobPcs, NEW after \in JobPcs
  PROVE  /\ NextDev(pc, after) \in JobType
         /\ NextDev(pc, after).op = job.op /\ NextDev(pc, after).phase = job.phase
         /\ NextDev(pc, after).drift = job.drift
         /\ \/ /\ job.dev + 1 \in Macs /\ NextDev(pc, after).dev = job.dev + 1
               /\ NextDev(pc, after).pc = pc
            \/ /\ job.dev + 1 \notin Macs /\ NextDev(pc, after).dev = 0
               /\ NextDev(pc, after).pc = after
BY Sizing DEF NextDev, JobType

(* Where mtk_stop returns to: a close is over, a reset goes on.            *)
LEMMA StopReturnsTo ==
  ASSUME job \in JobType, StopReturns
  PROVE  /\ job' \in JobType
         /\ \/ job.op = "close" /\ job' = NoJob
            \/ job.op = "reset" /\ job.phase = "stop" /\ job' = NextDev("disable", "hw")
            \/ /\ job.op # "close" /\ ~(job.op = "reset" /\ job.phase = "stop")
               /\ job' = NextDev("open", "done")
<1>1. \/ job.op = "close" /\ job' = NoJob
      \/ job.op = "reset" /\ job.phase = "stop" /\ job' = NextDev("disable", "hw")
      \/ /\ job.op # "close" /\ ~(job.op = "reset" /\ job.phase = "stop")
         /\ job' = NextDev("open", "done")
  BY DEF StopReturns
<1>2. /\ NoJob \in JobType /\ NextDev("disable", "hw") \in JobType
      /\ NextDev("open", "done") \in JobType
  BY IdleTypes, NextDevType, ZenonT(60) DEF JobPcs
<1>. QED  BY <1>1, <1>2

(* Users is a number, and grows and shrinks with the devices that are up.  *)
LEMMA UsersCount ==
  ASSUME up \in [Macs -> BOOLEAN]
  PROVE  /\ Users \in Nat
         /\ \A m \in Macs : up[m] => Users >= 1
<1>. DEFINE U == {m \in Macs : up[m]}
<1>1. IsFiniteSet(Macs)
  BY Sizing, FS_Interval DEF Macs
<1>2. U \in SUBSET Macs
  OBVIOUS
<1>3. IsFiniteSet(U)
  BY <1>1, <1>2, FS_Subset
<1>4. Cardinality(U) \in Nat /\ (Cardinality(U) = 0 <=> U = {})
  BY <1>3, FS_CardinalityType, FS_EmptySet
<1>. QED  BY <1>4 DEF Users

(* An open adds a user, a close takes one away.                            *)
LEMMA UsersChange ==
  ASSUME up \in [Macs -> BOOLEAN], NEW d \in Macs
  PROVE  /\ up' = [up EXCEPT ![d] = TRUE] /\ ~up[d] => Users' = Users + 1
         /\ up' = [up EXCEPT ![d] = FALSE] /\ up[d] => Users' = Users - 1
<1>. DEFINE U == {m \in Macs : up[m]}
<1>1. IsFiniteSet(Macs)
  BY Sizing, FS_Interval DEF Macs
<1>2. U \in SUBSET Macs
  OBVIOUS
<1>3. IsFiniteSet(U)
  BY <1>1, <1>2, FS_Subset
<1>4. ASSUME up' = [up EXCEPT ![d] = TRUE], ~up[d] PROVE Users' = Users + 1
  <2>1. {m \in Macs : up'[m]} = U \cup {d} /\ d \notin U
    BY <1>4
  <2>2. Cardinality(U \cup {d}) = Cardinality(U) + 1
    BY <2>1, <1>3, FS_AddElement
  <2>. QED  BY <2>1, <2>2 DEF Users
<1>5. ASSUME up' = [up EXCEPT ![d] = FALSE], up[d] PROVE Users' = Users - 1
  <2>1. {m \in Macs : up'[m]} = U \ {d} /\ d \in U
    BY <1>5
  <2>2. Cardinality(U \ {d}) = Cardinality(U) - 1
    BY <2>1, <1>3, FS_RemoveElement
  <2>. QED  BY <2>1, <2>2 DEF Users
<1>. QED  BY <1>4, <1>5

(* The drift of the reference count is an integer.                         *)
LEMMA DriftType == TypeOK => Drift \in Int
BY UsersCount, TypesAre DEF Types, Drift, JobType

(* The packets of a device in the ring are at most its buffers in use.     *)
LEMMA CountBound ==
  ASSUME TypeOK, Lifetime, RingOrder, NEW m \in Macs
  PROVE  /\ Cardinality({i \in Slots : buf[i] = m}) \in 0..(N - 2)
         /\ alive => Cardinality({i \in Slots : buf[i] = m}) <= N - 2 - free
         /\ IsFiniteSet({i \in Slots : buf[i] = m})
<1>. DEFINE S == {i \in Slots : buf[i] = m}
<1>1. IsFiniteSet(Slots)
  BY Sizing, FS_Interval DEF Slots
<1>2. S \in SUBSET Slots
  OBVIOUS
<1>3. IsFiniteSet(S) /\ Cardinality(S) \in Nat
  BY <1>1, <1>2, FS_Subset, FS_CardinalityType
<1>4. CASE ~alive
  <2>1. S = {}
    BY <1>4, Sizing DEF Lifetime, EmptyBuf
  <2>2. Cardinality(S) = 0
    BY <2>1, FS_EmptySet
  <2>. QED  BY <1>3, <1>4, <2>2, Sizing
<1>5. CASE alive
  <2>1. /\ last \in Slots /\ next \in Slots /\ Ahead(last, next) >= 1
        /\ free = N - 1 - Ahead(last, next) /\ InRing = Between(last, next)
        /\ free \in 0..(N - 2)
    BY <1>5 DEF TypeOK, RingOrder
  <2>2. IsFiniteSet(InRing) /\ Cardinality(InRing) = Ahead(last, next) - 1
    BY <2>1, BetweenCard
  <2>3. S \in SUBSET InRing
    BY Sizing DEF InRing
  <2>4. Cardinality(S) <= Cardinality(InRing)
    BY <2>2, <2>3, FS_Subset
  <2>5. Ahead(last, next) \in Nat
    BY <2>1, AheadIs
  <2>. QED  BY <1>3, <2>1, <2>2, <2>4, <2>5, Sizing
<1>. QED  BY <1>4, <1>5

(* The buffer after last_free, if there is one, lies before next_free.     *)
LEMMA ReclaimFacts ==
  ASSUME IInv, PollReclaim
  PROVE  /\ alive /\ Succ(last) \in Slots /\ Succ(last) \in InRing
         /\ Ahead(last, next) >= 2 /\ Succ(last) # next
         /\ last # next /\ last \in Slots /\ next \in Slots
         /\ free = N - 1 - Ahead(last, next) /\ InRing = Between(last, next)
         /\ free' = free + 1 /\ last' = Succ(last) /\ free' \in 0..(N - 2)
         /\ buf' = [buf EXCEPT ![Succ(last)] = NoSkb]
         /\ UNCHANGED <<alive, next, hwVars, napi, enabling, queueVars, devVars>>
<1>. DEFINE i == Succ(last)
<1>1. /\ last \in Slots /\ next \in Slots /\ buf \in [Slots -> Macs \cup {NoSkb, Dummy}]
      /\ free \in 0..(N - 2)
  BY DEF IInv, TypeOK
<1>2. i \in Slots
  BY <1>1, SuccIs
<1>3. buf[i] # NoSkb
  BY DEF PollReclaim, LoopGoes
<1>4. alive /\ i \in InRing
  BY <1>2, <1>3 DEF IInv, Lifetime, EmptyBuf, InRing
<1>5. /\ free = N - 1 - Ahead(last, next) /\ InRing = Between(last, next)
      /\ Ahead(last, next) >= 1
  BY <1>4 DEF IInv, RingOrder
<1>6. Ahead(last, last) = 0 /\ Ahead(last, i) = 1
  <2>1. Ahead(last, last) = 0
    BY <1>1, RingMoves
  <2>. QED  BY <1>1, <2>1, RingMoves, Sizing
<1>7. Ahead(last, next) \in Nat
  BY <1>1, AheadIs
<1>8. Ahead(last, next) >= 2
  BY <1>4, <1>5, <1>6, <1>7 DEF Between
<1>9. i # next /\ last # next
  BY <1>6, <1>8
<1>10. /\ free' = free + 1 /\ last' = i /\ buf' = [buf EXCEPT ![i] = NoSkb]
       /\ UNCHANGED <<alive, next, hwVars, napi, enabling, queueVars, devVars>>
  BY DEF PollReclaim
<1>11. free' \in 0..(N - 2)
  BY <1>1, <1>5, <1>7, <1>8, <1>10, Sizing
<1>. QED  BY <1>1, <1>2, <1>4, <1>5, <1>8, <1>9, <1>10, <1>11

(* The local variables of mtk_napi_tx after its steps.                     *)
LEMMA PollTypes ==
  ASSUME poll \in PollType, NEW pc \in PollPcs
  PROVE  /\ [poll EXCEPT !.pc = pc] \in PollType
         /\ \A d \in Slots \cup {Nowhere} : \A f \in [Macs -> 0..Budget] :
              [poll EXCEPT !.pc = pc, !.dma = d, !.done = f] \in PollType
         /\ \A m \in Macs : \A d \in 0..Budget, l \in 0..Budget :
              [poll EXCEPT !.done[m] = d, !.left = l] \in PollType
         /\ poll.left \in 0..Budget /\ poll.done \in [Macs -> 0..Budget]
BY DEF PollType, PollPcs

(* A change of one field of the rtnl lock holder's state.                  *)
LEMMA JobTypes ==
  ASSUME job \in JobType, NEW pc \in JobPcs
  PROVE  /\ [job EXCEPT !.pc = pc] \in JobType
         /\ [job EXCEPT !.phase = "open", !.pc = pc] \in JobType
         /\ job.dev \in Macs /\ job.drift \in Int /\ job.pc \in JobPcs
         /\ job.op \in {"none", "close", "reset"} /\ job.phase \in {"stop", "open"}
BY DEF JobType

(* mtk_open keeps the types, for a first and for a later user.             *)
LEMMA OpenDevType ==
  ASSUME TypeOK, NEW m \in Macs, OpenDev(m), job' \in JobType,
         up' \in [Macs -> BOOLEAN], resetting' \in BOOLEAN, work' \in BOOLEAN
  PROVE  TypeOK'
<1>1. EmptyBuf \in [Slots -> Macs \cup {NoSkb, Dummy}]
  BY DEF EmptyBuf
<1>2. CASE FirstUser
  BY <1>1, <1>2, TypesAre, Sizing DEF OpenDev, Types, Started
<1>3. CASE ~FirstUser
  BY <1>3, TypesAre DEF OpenDev, Types, Started
<1>. QED  BY <1>2, <1>3

(* Every step keeps the types; free_count and bql need the ring order.     *)
LEMMA NextType == IInv /\ [Next]_vars => TypeOK'
<1>. SUFFICES ASSUME IInv, [Next]_vars PROVE Types'
  BY TypesAre
<1>. USE DEF Types
<1>0. /\ Types /\ TypeOK
      /\ xmit.dev \in Macs /\ job.dev \in Macs /\ poll.left \in 0..Budget
      /\ poll.done \in [Macs -> 0..Budget]
  BY TypesAre DEF IInv, PollType, XmitType, JobType
<1>1. CASE UNCHANGED vars
  BY <1>0, <1>1 DEF vars
<1>2. CASE \E m \in Macs, n \in Sizes, more \in BOOLEAN : XmitEnter(m, n, more)
  <2>. PICK m \in Macs, n \in Sizes, more \in BOOLEAN : XmitEnter(m, n, more)
    BY <1>2
  <2>1. xmit' \in XmitType
    BY IdleTypes DEF XmitEnter, XmitType
  <2>. QED  BY <1>0, <2>1 DEF XmitEnter
<1>3. CASE XmitDrop
  BY <1>0, <1>3, IdleTypes, ZenonT(60) DEF XmitDrop
<1>4. CASE XmitMap
  <2>1. /\ xmit.n \in Nat /\ xmit.n \in 0..(N - 1) /\ xmit.n >= 1 /\ xmit.n < free /\ alive
    <3>1. alive /\ xmit.n \in Sizes /\ xmit.n < free
      BY <1>4 DEF XmitMap, IInv, Transmitter
    <3>2. xmit.n \in Nat /\ xmit.n >= 1 /\ xmit.n < N - 2
      BY <3>1, PacketSize
    <3>. QED  BY <3>1, <3>2, Sizing
  <2>2. Taken(xmit.n) \subseteq Slots /\ (next + xmit.n) % N \in Slots
    BY <1>0, <2>1, TakenAhead, StepIs
  <2>3. buf' \in [Slots -> Macs \cup {NoSkb, Dummy}]
    BY <1>0, <1>4 DEF XmitMap
  <2>4. bql' \in [Macs -> 0..(N - 2 + Budget)]
    <3>1. /\ bql[xmit.dev] = Cardinality({i \in Slots : buf[i] = xmit.dev}) + poll.done[xmit.dev]
          /\ poll.done[xmit.dev] \in 0..Budget
      BY <1>0 DEF IInv, Counts
    <3>2. /\ Cardinality({i \in Slots : buf[i] = xmit.dev}) <= N - 2 - free
          /\ Cardinality({i \in Slots : buf[i] = xmit.dev}) \in 0..(N - 2)
      BY <1>0, <2>1, CountBound DEF IInv
    <3>3. bql[xmit.dev] + 1 \in 0..(N - 2 + Budget)
      BY <1>0, <2>1, <3>1, <3>2, Sizing
    <3>. QED  BY <1>0, <1>4, <3>3 DEF XmitMap
  <2>5. free' \in 0..(N - 2)
    BY <1>0, <1>4, <2>1, Sizing DEF XmitMap
  <2>6. xmit' \in XmitType
    BY <1>0, <1>4, IdleTypes DEF XmitMap
  <2>. QED  BY <1>0, <1>4, <2>2, <2>3, <2>4, <2>5, <2>6 DEF XmitMap
<1>5. CASE XmitCheck
  <2>1. xmit' \in XmitType
    BY <1>0, <1>5, IdleTypes DEF XmitCheck
  <2>. QED  BY <1>0, <1>5, <2>1 DEF XmitCheck
<1>6. CASE XmitStop
  <2>1. xmit' \in XmitType
    BY <1>6, IdleTypes DEF XmitStop
  <2>2. stopped' \in [Macs -> BOOLEAN]
    BY <1>0, <1>6 DEF XmitStop
  <2>. QED  BY <1>0, <1>6, <2>1, <2>2 DEF XmitStop
<1>7. CASE Send
  <2>1. drx \in Slots
    BY <1>7 DEF Send, IInv, RingOrder
  <2>2. Succ(drx) \in Slots
    BY <2>1, SuccIs
  <2>. QED  BY <1>0, <1>7, <2>2 DEF Send
<1>8. CASE Irq
  BY <1>0, <1>8, IdleTypes DEF Irq
<1>9. CASE PollAck
  <2>1. poll' \in PollType
    BY <1>0, <1>9, PollTypes DEF PollAck, PollGoes, PollPcs
  <2>. QED  BY <1>0, <1>9, <2>1, ZenonT(60) DEF PollAck
<1>10. CASE PollRead
  <2>1. poll' \in PollType
    BY <1>0, <1>10, IdleTypes DEF PollRead
  <2>. QED  BY <1>0, <1>10, <2>1 DEF PollRead
<1>11. CASE PollReclaim
  <2>1. poll' \in PollType
    <3>1. CASE buf[Succ(last)] \in Macs
      <4>. DEFINE m == buf[Succ(last)]
      <4>1. poll.done[m] + poll.left <= Budget /\ poll.left > 0
        BY <1>11, <3>1 DEF PollReclaim, LoopGoes, IInv, Counts
      <4>. HIDE DEF m, Types
      <4>5. poll.done[m] \in 0..Budget
        BY <1>0, <3>1 DEF m
      <4>2. poll.done[m] + 1 \in 0..Budget /\ poll.left - 1 \in 0..Budget
        BY <1>0, <4>5, <4>1, Sizing
      <4>3. poll' = [poll EXCEPT !.done[m] = poll.done[m] + 1, !.left = poll.left - 1]
        BY <1>11, <3>1 DEF PollReclaim, m
      <4>. QED  BY <1>0, <3>1, <4>2, <4>3, PollTypes DEF m, Types, PollPcs
    <3>2. CASE buf[Succ(last)] \notin Macs
      BY <1>0, <1>11, <3>2 DEF PollReclaim
    <3>. QED  BY <3>1, <3>2
  <2>2. buf' \in [Slots -> Macs \cup {NoSkb, Dummy}]
    BY <1>0, <1>11, ReclaimFacts
  <2>. QED  BY <1>0, <1>11, <2>1, <2>2, ReclaimFacts
<1>12. CASE PollComplete
  <2>1. poll' \in PollType
    BY <1>0, <1>12, PollTypes, IdleTypes DEF PollComplete, PollPcs
  <2>2. bql' \in [Macs -> 0..(N - 2 + Budget)]
    <3>1. ASSUME NEW m \in Macs PROVE bql[m] - poll.done[m] \in 0..(N - 2 + Budget)
      <4>1. bql[m] = Cardinality({i \in Slots : buf[i] = m}) + poll.done[m]
        BY DEF IInv, Counts
      <4>2. Cardinality({i \in Slots : buf[i] = m}) \in 0..(N - 2)
        BY <1>0, CountBound DEF IInv
      <4>. QED  BY <1>0, <4>1, <4>2, Sizing
    <3>. QED  BY <1>12, <3>1 DEF PollComplete
  <2>3. missed' \in BOOLEAN
    BY <1>12 DEF PollComplete
  <2>. QED  BY <1>0, <1>12, <2>1, <2>2, <2>3 DEF PollComplete
<1>13. CASE PollWake
  <2>1. poll' \in PollType
    BY <1>0, <1>13, PollTypes DEF PollWake, PollGoes, PollPcs
  <2>. QED  BY <1>0, <1>13, <2>1 DEF PollWake
<1>14. CASE PollAgain \/ PollEnd
  <2>1. poll' \in PollType
    BY <1>14, IdleTypes DEF PollAgain, PollEnd
  <2>2. enabling' \in BOOLEAN /\ napi' \in {"off", "idle", "sched"}
    BY <1>0, <1>14 DEF PollAgain, PollEnd
  <2>3. UNCHANGED <<ringVars, hwVars, queueVars, devVars>>
    BY <1>14 DEF PollAgain, PollEnd
  <2>. QED  BY <1>0, <2>1, <2>2, <2>3
<1>15. CASE IrqEnable
  BY <1>0, <1>15, ZenonT(60) DEF IrqEnable
<1>16. CASE \E m \in Macs : NdoOpen(m)
  <2>. PICK m \in Macs : NdoOpen(m)
    BY <1>16
  <2>1. OpenDev(m) /\ job' = job /\ up' = [up EXCEPT ![m] = TRUE]
        /\ resetting' = resetting /\ work' = work
    BY DEF NdoOpen
  <2>. QED  BY <1>0, <2>1, OpenDevType, TypesAre
<1>17. CASE \E m \in Macs : NdoStop(m)
  <2>1. Drift \in Int
    BY <1>0, DriftType
  <2>2. job' \in JobType
    BY <1>17, <2>1 DEF NdoStop, JobType, JobPcs
  <2>. QED  BY <1>0, <1>17, <2>2 DEF NdoStop, Deactivate
<1>18. CASE \E m \in Macs : Watchdog(m)
  BY <1>0, <1>18 DEF Watchdog
<1>19. CASE StopDisable
  <2>1. job' \in JobType
    BY <1>0, <1>19, JobTypes, StopReturnsTo DEF StopDisable, JobPcs
  <2>2. refcnt' \in Nat
    BY <1>0, <1>19 DEF StopDisable
  <2>3. stopped' \in [Macs -> BOOLEAN]
    BY <1>0, <1>19 DEF StopDisable
  <2>4. mask' \in BOOLEAN
    BY <1>0, <1>19 DEF StopDisable
  <2>5. UNCHANGED <<ringVars, own, ctx, drx, dmaOn, status, napiVars, xmit, bql,
                    missed, up, resetting, work>>
    BY <1>19 DEF StopDisable
  <2>. QED  BY <1>0, <2>1, <2>2, <2>3, <2>4, <2>5
<1>20. CASE StopNapi
  <2>1. job' \in JobType
    BY <1>0, <1>20, JobTypes DEF StopNapi, JobPcs
  <2>. QED  BY <1>0, <1>20, <2>1 DEF StopNapi
<1>21. CASE StopDma
  <2>1. job' \in JobType
    BY <1>0, <1>21, JobTypes DEF StopDma, JobPcs
  <2>. QED  BY <1>0, <1>21, <2>1, ZenonT(60) DEF StopDma
<1>22. CASE StopFree
  <2>1. job' \in JobType
    BY <1>0, <1>22, StopReturnsTo DEF StopFree
  <2>2. bql' \in [Macs -> 0..(N - 2 + Budget)]
    BY <1>22, Sizing DEF StopFree, ResetQueues, NoneDone
  <2>. QED  BY <1>0, <1>22, <2>1, <2>2, ZenonT(60) DEF StopFree, EmptyBuf
<1>23. CASE ResetBegin
  <2>1. Drift \in Int
    BY <1>0, DriftType
  <2>2. job' \in JobType
    BY <1>23, <2>1, Sizing DEF ResetBegin, JobType, JobPcs
  <2>. QED  BY <1>0, <1>23, <2>2, ZenonT(60) DEF ResetBegin
<1>24. CASE ResetHw
  <2>1. job' \in JobType
    BY <1>0, <1>24, JobTypes DEF ResetHw, JobPcs
  <2>. QED  BY <1>0, <1>24, <2>1 DEF ResetHw
<1>25. CASE ResetOpen
  <2>1. job' \in JobType
    BY <1>0, <1>25, NextDevType DEF ResetOpen, JobPcs
  <2>. QED  BY <1>0, <1>25, <2>1, OpenDevType, TypesAre DEF ResetOpen
<1>26. CASE ResetOpenFails
  <2>1. job' \in JobType
    <3>1. job \in JobType /\ {"open", "done", "disable"} \subseteq JobPcs
      BY <1>0 DEF JobPcs
    <3>2. NextDev("open", "done") \in JobType /\ [job EXCEPT !.pc = "disable"] \in JobType
      BY <3>1, NextDevType, JobTypes
    <3>. QED  BY <1>26, <3>2 DEF ResetOpenFails
  <2>2. up' \in [Macs -> BOOLEAN]
    BY <1>0, <1>26 DEF ResetOpenFails, Deactivate
  <2>3. UNCHANGED <<ringVars, hwVars, napiVars, queueVars, refcnt, resetting, work>>
    BY <1>26 DEF ResetOpenFails
  <2>. QED  BY <1>0, <2>1, <2>2, <2>3
<1>27. CASE ResetDone
  BY <1>0, <1>27, IdleTypes, ZenonT(60) DEF ResetDone
<1>. QED
  BY <1>1, <1>2, <1>3, <1>4, <1>5, <1>6, <1>7, <1>8, <1>9, <1>10, <1>11, <1>12,
     <1>13, <1>14, <1>15, <1>16, <1>17, <1>18, <1>19, <1>20, <1>21, <1>22, <1>23,
     <1>24, <1>25, <1>26, <1>27
     DEF Next, Transmit, Poll, Stop, Reset

-----------------------------------------------------------------------------
(* The rtnl lock, the references and the life of the ring.                 *)

(* Every step leaves the holder of the rtnl lock in a state of its code.   *)
LEMMA NextJobShape == IInv /\ [Next]_vars => JobShape'
<1>. SUFFICES ASSUME IInv, [Next]_vars PROVE JobShape'
  OBVIOUS
<1>0. /\ job \in JobType /\ JobShape
      /\ NoJob.op = "none" /\ NoJob.pc = "idle"
  BY TypesAre DEF IInv, Types, NoJob
<1>1. CASE UNCHANGED <<job, resetting>>
  BY <1>0, <1>1 DEF JobShape
<1>2. CASE \E m \in Macs : NdoStop(m)
  BY <1>2 DEF NdoStop, JobShape
<1>3. ASSUME job.pc \in {"disable", "free"}, StopReturns, resetting' = resetting
      PROVE  JobShape'
  <2>1. \/ job.op = "close" /\ job' = NoJob
        \/ job.op = "reset" /\ job.phase = "stop" /\ job' = NextDev("disable", "hw")
        \/ /\ job.op # "close" /\ ~(job.op = "reset" /\ job.phase = "stop")
           /\ job' = NextDev("open", "done")
    BY <1>0, <1>3, StopReturnsTo
  <2>2. job.op # "close" => job.op = "reset" /\ resetting
    BY <1>0, <1>3 DEF JobShape
  <2>3. CASE job.op = "close"
    BY <2>1, <2>3 DEF JobShape
  <2>4. CASE job.op = "reset" /\ job.phase = "stop"
    <3>1. /\ job'.op = "reset" /\ job'.phase = "stop" /\ job'.pc \in {"disable", "hw"}
      BY <1>0, <2>1, <2>4, NextDevType DEF JobPcs
    <3>. QED  BY <1>3, <2>2, <2>4, <3>1 DEF JobShape
  <2>5. CASE job.op = "reset" /\ job.phase = "open"
    <3>1. /\ job'.op = "reset" /\ job'.phase = "open" /\ job'.pc \in {"open", "done"}
      BY <1>0, <2>1, <2>5, NextDevType DEF JobPcs
    <3>. QED  BY <1>3, <2>2, <2>5, <3>1 DEF JobShape
  <2>. QED  BY <1>0, <2>2, <2>3, <2>4, <2>5 DEF JobType
<1>4. CASE StopDisable
  <2>1. CASE StopReturns
    BY <1>3, <1>4, <2>1 DEF StopDisable
  <2>2. CASE job' = [job EXCEPT !.pc = "napi"]
    <3>1. job'.op = job.op /\ job'.pc = "napi" /\ resetting' = resetting
      BY <1>0, <1>4, <2>2 DEF StopDisable, JobType
    <3>. QED  BY <1>0, <1>4, <3>1 DEF JobShape, StopDisable
  <2>. QED  BY <1>4, <2>1, <2>2 DEF StopDisable
<1>5. CASE StopNapi \/ StopDma
  <2>1. job'.op = job.op /\ job'.pc \in {"dma", "free"} /\ resetting' = resetting
    BY <1>0, <1>5 DEF StopNapi, StopDma, JobType
  <2>. QED  BY <1>0, <1>5, <2>1 DEF JobShape, StopNapi, StopDma
<1>6. CASE StopFree
  BY <1>3, <1>6 DEF StopFree
<1>7. CASE ResetBegin
  BY <1>7 DEF ResetBegin, JobShape
<1>8. CASE ResetHw
  <2>1. /\ job'.op = job.op /\ job'.pc = "open" /\ job'.phase = "open"
        /\ resetting' = resetting
    BY <1>0, <1>8 DEF ResetHw, JobType
  <2>. QED  BY <1>0, <1>8, <2>1 DEF JobShape, ResetHw
<1>9. CASE ResetOpen \/ ResetOpenFails
  <2>1. /\ job.op = "reset" /\ resetting /\ resetting' = resetting /\ job.phase = "open"
    BY <1>0, <1>9 DEF JobShape, ResetOpen, ResetOpenFails
  <2>2. CASE job' = NextDev("open", "done")
    BY <1>0, <2>1, <2>2, NextDevType DEF JobShape, JobPcs
  <2>3. CASE job' = [job EXCEPT !.pc = "disable"]
    <3>1. job'.op = job.op /\ job'.pc = "disable"
      BY <1>0, <2>3 DEF JobType
    <3>. QED  BY <2>1, <3>1 DEF JobShape
  <2>. QED  BY <1>9, <2>2, <2>3 DEF ResetOpen, ResetOpenFails
<1>10. CASE ResetDone
  BY <1>10 DEF ResetDone, JobShape
<1>11. Next => \/ UNCHANGED <<job, resetting>>
               \/ \E m \in Macs : NdoStop(m)
               \/ Stop \/ ResetBegin \/ Reset
  BY DEF Next, XmitEnter, Transmit, XmitDrop, XmitMap, XmitCheck, XmitStop, Send, Irq,
         Poll, PollAck, PollRead, PollReclaim, PollComplete, PollWake, PollAgain,
         PollEnd, IrqEnable, NdoOpen, Watchdog
<1>. QED
  BY <1>1, <1>2, <1>4, <1>5, <1>6, <1>7, <1>8, <1>9, <1>10, <1>11
     DEF Stop, Reset, vars

(* Every step keeps ring, NAPI and reference count in step.                *)
LEMMA NextLifetime == IInv /\ [Next]_vars => Lifetime'
<1>. SUFFICES ASSUME IInv, [Next]_vars PROVE Lifetime'
  OBVIOUS
<1>0. /\ job \in JobType /\ poll \in PollType /\ Lifetime /\ JobShape /\ refcnt \in Nat
      /\ napi \in {"off", "idle", "sched"}
      /\ NoJob.pc = "idle" /\ PollIdle.pc = "idle"
      /\ [PollIdle EXCEPT !.pc = "ack"].pc = "ack"
      /\ \A d : [PollIdle EXCEPT !.pc = "loop", !.dma = d].pc = "loop"
  BY TypesAre DEF IInv, Types, NoJob, PollIdle
<1>1. CASE UNCHANGED <<job, alive, buf, napi, poll, refcnt, dmaOn>>
  BY <1>0, <1>1 DEF Lifetime
<1>2. CASE XmitMap
  BY <1>0, <1>2 DEF XmitMap, Lifetime
<1>3. CASE Irq
  BY <1>0, <1>3 DEF Irq, Lifetime
<1>4. ASSUME poll.pc # "idle", poll'.pc # "idle",
             UNCHANGED <<job, alive, napi, refcnt, dmaOn>>, alive \/ buf' = buf
      PROVE  Lifetime'
  BY <1>0, <1>4 DEF Lifetime
<1>5. CASE PollAck \/ PollRead \/ PollComplete \/ PollWake \/ PollAgain
  <2>1. poll.pc # "idle" /\ UNCHANGED <<job, alive, napi, refcnt, dmaOn, buf>>
    BY <1>5 DEF PollAck, PollRead, PollComplete, PollWake, PollAgain, PollGoes
  <2>2. poll'.pc # "idle"
    BY <1>0, <1>5 DEF PollAck, PollRead, PollComplete, PollWake, PollAgain, PollGoes,
                      PollType
  <2>. QED  BY <1>4, <2>1, <2>2
<1>6. CASE PollReclaim
  <2>1. poll.pc # "idle" /\ poll'.pc # "idle"
    BY <1>0, <1>6 DEF PollReclaim, PollType
  <2>2. alive /\ UNCHANGED <<job, alive, napi, refcnt, dmaOn>>
    BY <1>6, ReclaimFacts
  <2>. QED  BY <1>4, <2>1, <2>2
<1>7. CASE PollEnd
  BY <1>0, <1>7 DEF PollEnd, Lifetime
<1>8. CASE \E m \in Macs : NdoOpen(m)
  BY <1>0, <1>8 DEF NdoOpen, OpenDev, FirstUser, Lifetime
<1>9. CASE \E m \in Macs : NdoStop(m)
  BY <1>0, <1>9 DEF NdoStop, Lifetime
<1>10. StopReturns => job'.pc \notin {"napi", "dma", "free"}
  BY <1>0, StopReturnsTo, NextDevType DEF JobPcs
<1>11. CASE StopDisable
  <2>1. /\ UNCHANGED <<alive, buf, napi, poll, dmaOn>> /\ job.pc = "disable"
        /\ refcnt' = IF refcnt = 0 THEN 0 ELSE refcnt - 1
        /\ \/ refcnt = 1 /\ job'.pc = "napi"
           \/ refcnt # 1 /\ job'.pc \notin {"napi", "dma", "free"}
    BY <1>0, <1>10, <1>11 DEF StopDisable, LastUser, JobType
  <2>. QED  BY <1>0, <2>1 DEF Lifetime
<1>12. CASE StopNapi
  <2>1. job'.pc = "dma"
    BY <1>0, <1>12 DEF StopNapi, JobType
  <2>. QED  BY <1>0, <1>12, <2>1 DEF StopNapi, Lifetime
<1>13. CASE StopDma
  <2>1. job'.pc = "free"
    BY <1>0, <1>13 DEF StopDma, JobType
  <2>. QED  BY <1>0, <1>13, <2>1 DEF StopDma, Lifetime
<1>14. CASE StopFree
  <2>1. job'.pc \notin {"napi", "dma", "free"}
    BY <1>10, <1>14 DEF StopFree
  <2>. QED  BY <1>0, <1>14, <2>1 DEF StopFree, Lifetime
<1>15. CASE ResetBegin
  BY <1>0, <1>15 DEF ResetBegin, Lifetime
<1>16. CASE ResetHw
  <2>1. job'.pc = "open"
    BY <1>0, <1>16 DEF ResetHw, JobType
  <2>. QED  BY <1>0, <1>16, <2>1 DEF ResetHw, Lifetime
<1>17. CASE ResetOpen
  <2>1. job'.pc \in {"open", "done"}
    BY <1>0, <1>17, NextDevType DEF ResetOpen, JobPcs
  <2>. QED  BY <1>0, <1>17, <2>1 DEF ResetOpen, OpenDev, FirstUser, Lifetime
<1>18. CASE ResetOpenFails
  <2>1. job'.pc \in {"open", "done", "disable"}
    BY <1>0, <1>18, NextDevType DEF ResetOpenFails, JobPcs, JobType
  <2>. QED  BY <1>0, <1>18, <2>1 DEF ResetOpenFails, Lifetime
<1>19. CASE ResetDone
  BY <1>0, <1>19 DEF ResetDone, Lifetime
<1>20. Next => \/ UNCHANGED <<job, alive, buf, napi, poll, refcnt, dmaOn>>
               \/ XmitMap \/ Irq \/ Poll
               \/ \E m \in Macs : NdoOpen(m) \/ NdoStop(m)
               \/ Stop \/ ResetBegin \/ Reset
  BY DEF Next, XmitEnter, Transmit, XmitDrop, XmitCheck, XmitStop, Send, IrqEnable,
         Watchdog
<1>. QED
  BY <1>1, <1>2, <1>3, <1>5, <1>6, <1>7, <1>8, <1>9, <1>11, <1>12, <1>13, <1>14,
     <1>15, <1>16, <1>17, <1>18, <1>19, <1>20 DEF Poll, Stop, Reset, vars

-----------------------------------------------------------------------------
(* The transmitter.                                                        *)

\* The steps of mtk_start_xmit, by what they do to its state.
LEMMA XmitSteps ==
  ASSUME IInv, Next
  PROVE  \/ UNCHANGED xmit
         \/ xmit' = XmitIdle /\ (XmitDrop \/ XmitCheck \/ XmitStop)
         \/ xmit' = XmitAt("stop", xmit.dev) /\ xmit.pc = "check" /\ XmitCheck
         \/ xmit' = XmitAt("check", xmit.dev) /\ xmit.pc = "map" /\ XmitMap
         \/ \E m \in Macs, n \in Sizes, more \in BOOLEAN : XmitEnter(m, n, more)
BY DEF Next, Transmit, XmitDrop, XmitMap, XmitCheck, XmitStop, Send, Irq,
       Poll, PollAck, PollRead, PollReclaim, PollComplete, PollWake, PollAgain,
       PollEnd, IrqEnable, NdoOpen, OpenDev, NdoStop, Watchdog, Stop, StopDisable,
       StopNapi, StopDma, StopFree, ResetBegin, Reset, ResetHw, ResetOpen,
       ResetOpenFails, ResetDone

(* The steps of the other actors, by what they do to the count of free     *)
(* descriptors and to the devices that are up.                             *)
LEMMA OtherSteps ==
  ASSUME IInv, Next
  PROVE  /\ \/ UNCHANGED free
            \/ XmitMap \/ PollReclaim
            \/ FirstUser /\ free' = N - 2 /\ (ResetOpen \/ \E m \in Macs : NdoOpen(m))
         /\ \/ UNCHANGED <<up, xmit>>
            \/ UNCHANGED up
            \/ UNCHANGED xmit /\ \E m \in Macs : NdoOpen(m)
            \/ UNCHANGED xmit /\ \E m \in Macs : NdoStop(m)
            \/ UNCHANGED xmit /\ ResetOpenFails
BY DEF Next, Transmit, XmitEnter, XmitDrop, XmitMap, XmitCheck, XmitStop, Send, Irq,
       Poll, PollAck, PollRead, PollReclaim, PollComplete, PollWake, PollAgain,
       PollEnd, IrqEnable, NdoOpen, OpenDev, NdoStop, Watchdog, Stop, StopDisable,
       StopNapi, StopDma, StopFree, ResetBegin, Reset, ResetHw, ResetOpen,
       ResetOpenFails, ResetDone

(* Every step leaves the transmitter a device and its descriptors.         *)
LEMMA NextTransmitter == IInv /\ [Next]_vars => Transmitter'
<1>. SUFFICES ASSUME IInv, [Next]_vars PROVE Transmitter'
  OBVIOUS
<1>0. /\ xmit \in XmitType /\ xmit.dev \in Macs /\ Transmitter /\ job \in JobType
      /\ up \in [Macs -> BOOLEAN] /\ free \in 0..(N - 2) /\ N \in Nat
  BY TypesAre, Sizing DEF IInv, Types, XmitType
<1>1. CASE UNCHANGED <<xmit, up, free>>
  BY <1>1, <1>0 DEF Transmitter
<1>. SUFFICES ASSUME Next PROVE Transmitter'
  BY <1>1 DEF vars
<1>2. (xmit'.pc # "idle" => up'[xmit'.dev])
  <2>1. CASE UNCHANGED up
    <3>1. CASE \E m \in Macs, n \in Sizes, more \in BOOLEAN : XmitEnter(m, n, more)
      BY <2>1, <3>1 DEF XmitEnter, XmitAt
    <3>2. CASE UNCHANGED xmit
      BY <1>0, <2>1, <3>2 DEF Transmitter
    <3>. QED  BY <1>0, <2>1, <3>1, <3>2, XmitSteps DEF XmitIdle, XmitAt, Transmitter
  <2>2. CASE UNCHANGED xmit /\ \E m \in Macs : NdoOpen(m)
    BY <1>0, <2>2 DEF NdoOpen, Transmitter
  <2>3. CASE UNCHANGED xmit /\ \E m \in Macs : NdoStop(m)
    BY <1>0, <2>3 DEF NdoStop, Deactivate, Transmitter
  <2>4. CASE UNCHANGED xmit /\ ResetOpenFails
    <3>1. job.dev \in Macs
      BY <1>0 DEF JobType
    <3>. QED  BY <1>0, <2>4, <3>1 DEF ResetOpenFails, Deactivate, Transmitter
  <2>. QED  BY <2>1, <2>2, <2>3, <2>4, OtherSteps
<1>3. (xmit'.pc = "map" => xmit'.n \in Sizes /\ xmit'.n < free')
  <2>1. CASE \E m \in Macs, n \in Sizes, more \in BOOLEAN : XmitEnter(m, n, more)
    <3>. PICK m \in Macs, n \in Sizes, more \in BOOLEAN : XmitEnter(m, n, more)
      BY <2>1
    <3>1. n \in Nat
      BY PacketSize
    <3>2. UNCHANGED free
      BY DEF XmitEnter
    <3>3. xmit' = XmitAt("stop", m)
          \/ (free > n /\ xmit' = [pc |-> "map", dev |-> m, n |-> n, more |-> more])
      BY <1>0, <3>1 DEF XmitEnter, RingFull
    <3>. QED  BY <1>0, <3>1, <3>2, <3>3 DEF XmitAt
  <2>2. CASE UNCHANGED xmit
    <3>. SUFFICES ASSUME xmit.pc = "map" PROVE xmit.n \in Sizes /\ xmit.n < free'
      BY <2>2
    <3>1. xmit.n \in Sizes /\ xmit.n < free /\ xmit.n \in Nat /\ xmit.n < N - 2
      BY <1>0, PacketSize DEF Transmitter
    <3>2. ~XmitMap
      BY <2>2 DEF XmitMap, XmitAt
    <3>3. free' = free \/ free' = free + 1 \/ free' = N - 2
      BY <3>2, OtherSteps, ReclaimFacts
    <3>. QED  BY <1>0, <3>1, <3>3
  <2>. QED  BY <2>1, <2>2, XmitSteps DEF XmitIdle, XmitAt
<1>. QED  BY <1>2, <1>3 DEF Transmitter

(* Every step keeps what a close and a reset started from.                 *)
LEMMA NextReferences == IInv /\ [Next]_vars => References'
<1>. SUFFICES ASSUME IInv, [Next]_vars PROVE References'
  OBVIOUS
<1>0. /\ xmit \in XmitType /\ xmit.dev \in Macs /\ References /\ job \in JobType
      /\ up \in [Macs -> BOOLEAN] /\ refcnt \in Nat /\ JobShape /\ Transmitter
      /\ NoJob.op = "none" /\ Lifetime /\ Users \in Nat
  BY TypesAre, UsersCount DEF IInv, Types, XmitType, NoJob
<1>1. CASE UNCHANGED vars
  BY <1>1, <1>0 DEF References, vars, Users
<1>. SUFFICES ASSUME Next PROVE References'
  BY <1>1
<1>2. CASE UNCHANGED <<job, xmit, alive, refcnt, up>>
  BY <1>0, <1>2 DEF References, Users
<1>3. CASE \E m \in Macs, n \in Sizes, more \in BOOLEAN : XmitEnter(m, n, more)
  <2>1. UNCHANGED <<job, alive, refcnt, up>> /\ ~resetting
    BY <1>3 DEF XmitEnter, Refused
  <2>2. job.op # "reset"
    BY <1>0, <2>1 DEF JobShape
  <2>. QED  BY <1>0, <2>1, <2>2 DEF References, Users
<1>4. CASE Transmit
  <2>1. UNCHANGED <<job, alive, refcnt, up>> /\ xmit.pc # "idle" /\ xmit'.pc # "map"
    BY <1>4 DEF Transmit, XmitDrop, XmitMap, XmitCheck, XmitStop, XmitAt, XmitIdle
  <2>. QED  BY <1>0, <2>1 DEF References, Users
<1>5. CASE \E m \in Macs : NdoOpen(m)
  <2>1. job' = job /\ job.op = "none"
    BY <1>0, <1>5 DEF NdoOpen
  <2>. QED  BY <2>1 DEF References
<1>6. CASE \E m \in Macs : NdoStop(m)
  <2>. PICK m \in Macs : NdoStop(m)
    BY <1>6
  <2>1. Drift = refcnt - Users /\ refcnt' = refcnt
    BY DEF NdoStop, Drift
  <2>2. Users' = Users - 1
    BY <1>0, UsersChange DEF NdoStop, Deactivate
  <2>3. job'.op = "close" /\ job'.drift = Drift /\ ~up'[job'.dev]
    BY <1>0 DEF NdoStop, Deactivate
  <2>. QED  BY <1>0, <2>1, <2>2, <2>3 DEF References
<1>7. ASSUME job.op = "close" => job'.op = "none" \/ (job'.op = "close" /\ job'.pc # "disable"),
             job.op # "close" => job'.op # "close",
             job'.op = "reset" => job.op = "reset" /\ job'.drift = job.drift,
             xmit' = xmit,
             job'.op = "reset" /\ xmit.pc = "map" => (alive => alive'),
             job'.op = "reset" /\ job'.pc = "free" => xmit.pc = "idle"
      PROVE  References'
  BY <1>0, <1>7 DEF References
<1>8. CASE StopDisable
  <2>1. xmit' = xmit /\ alive' = alive
    BY <1>8 DEF StopDisable
  <2>2. CASE StopReturns
    <3>1. /\ job.op = "close" => job' = NoJob
          /\ job.op # "close" => job'.op = job.op /\ job'.drift = job.drift
          /\ job'.pc # "free"
      BY <1>0, <2>2, StopReturnsTo, NextDevType DEF JobPcs, NoJob
    <3>. QED  BY <1>0, <1>7, <2>1, <3>1
  <2>3. CASE job' = [job EXCEPT !.pc = "napi"]
    <3>1. job'.op = job.op /\ job'.drift = job.drift /\ job'.pc = "napi"
      BY <1>0, <2>3 DEF JobType
    <3>. QED  BY <1>0, <1>7, <2>1, <3>1
  <2>. QED  BY <1>8, <2>2, <2>3 DEF StopDisable
<1>9. CASE StopNapi
  <2>1. /\ xmit' = xmit /\ alive' = alive
        /\ job'.op = job.op /\ job'.drift = job.drift /\ job'.pc = "dma"
    BY <1>0, <1>9 DEF StopNapi, JobType
  <2>. QED  BY <1>0, <1>7, <2>1
<1>10. CASE StopDma
  <2>1. /\ xmit' = xmit /\ alive' = alive /\ xmit.pc = "idle"
        /\ job'.op = job.op /\ job'.drift = job.drift /\ job'.pc = "free"
    BY <1>0, <1>10 DEF StopDma, JobType, PageLockFree
  <2>. QED  BY <1>0, <1>7, <2>1
<1>11. CASE StopFree
  <2>1. /\ xmit' = xmit /\ job.pc = "free"
        /\ job.op = "close" => job' = NoJob
        /\ job.op # "close" => job'.op = job.op /\ job'.drift = job.drift
        /\ job'.pc # "free"
    BY <1>0, <1>11, StopReturnsTo, NextDevType DEF StopFree, JobPcs, NoJob
  <2>. QED  BY <1>0, <1>7, <2>1 DEF References
<1>12. CASE ResetBegin
  <2>1. /\ job = NoJob /\ job'.op = "reset" /\ job'.pc = "disable"
        /\ job'.drift = refcnt - Users
        /\ UNCHANGED <<alive, xmit, refcnt, up>>
    BY <1>12 DEF ResetBegin, Drift
  <2>2. xmit.pc = "map" => Users >= 1
    BY <1>0, UsersCount DEF Transmitter
  <2>3. refcnt > 0 <=> alive
    BY <1>0, <2>1 DEF Lifetime, NoJob
  <2>. QED  BY <1>0, <2>1, <2>2, <2>3 DEF References
<1>13. CASE ResetHw
  <2>1. /\ xmit' = xmit /\ alive' = alive
        /\ job'.op = job.op /\ job'.drift = job.drift /\ job'.pc = "open"
        /\ job.op = "reset"
    BY <1>0, <1>13 DEF ResetHw, JobType, JobShape, NoJob
  <2>. QED  BY <1>0, <1>7, <2>1
<1>14. CASE ResetOpen \/ ResetOpenFails
  <2>1. job.op = "reset" /\ xmit' = xmit /\ (alive => alive')
    BY <1>0, <1>14 DEF ResetOpen, ResetOpenFails, OpenDev, JobShape, NoJob
  <2>2. CASE job' = NextDev("open", "done")
    <3>1. job'.op = job.op /\ job'.drift = job.drift /\ job'.pc \in {"open", "done"}
      BY <1>0, <2>2, NextDevType DEF JobPcs
    <3>. QED  BY <1>7, <2>1, <3>1
  <2>3. CASE job' = [job EXCEPT !.pc = "disable"]
    <3>1. job'.op = job.op /\ job'.drift = job.drift /\ job'.pc = "disable"
      BY <1>0, <2>3 DEF JobType
    <3>. QED  BY <1>7, <2>1, <3>1
  <2>. QED  BY <1>14, <2>2, <2>3 DEF ResetOpen, ResetOpenFails
<1>15. CASE ResetDone
  BY <1>0, <1>15 DEF ResetDone, References
<1>16. \/ UNCHANGED <<job, xmit, alive, refcnt, up>>
       \/ \E m \in Macs, n \in Sizes, more \in BOOLEAN : XmitEnter(m, n, more)
       \/ Transmit \/ \E m \in Macs : NdoOpen(m) \/ NdoStop(m)
       \/ Stop \/ ResetBegin \/ Reset
  BY DEF Next, Send, Irq, Poll, PollAck, PollRead, PollReclaim, PollComplete, PollWake,
         PollAgain, PollEnd, IrqEnable, Watchdog
<1>. QED
  BY <1>2, <1>3, <1>4, <1>5, <1>6, <1>8, <1>9, <1>10, <1>11, <1>12, <1>13, <1>14,
     <1>15, <1>16 DEF Stop, Reset

(* Every step keeps the reset ahead of the transmitters it lets go.        *)
LEMMA NextResetOrder == IInv /\ [Next]_vars => ResetOrder'
<1>. SUFFICES ASSUME IInv, [Next]_vars, job'.op = "reset" PROVE ResetOrder'
  BY DEF ResetOrder
<1>0. /\ xmit \in XmitType /\ xmit.dev \in Macs /\ job \in JobType /\ JobShape
      /\ job.dev \in Macs /\ ResetOrder
      /\ up \in [Macs -> BOOLEAN] /\ stopped \in [Macs -> BOOLEAN]
      /\ NoJob.op = "none" /\ NoJob.pc = "idle" /\ job.phase \in {"stop", "open"}
  BY TypesAre DEF IInv, Types, XmitType, JobType, NoJob
<1>1. \A m \in Macs : m \in Nat /\ m < MacCount /\ MacCount \in Nat
  BY Sizing DEF Macs
<1>2. ASSUME UNCHANGED job,
             xmit'.pc # "idle" => xmit.pc # "idle" /\ xmit'.dev = xmit.dev,
             \A m \in Macs : up'[m] => up[m],
             \A m \in Macs : stopped'[m] =>
               stopped[m] \/ xmit.pc # "idle" \/ (m = job.dev /\ job.pc = "disable")
      PROVE  ResetOrder'
  BY <1>0, <1>1, <1>2 DEF ResetOrder
<1>3. CASE UNCHANGED <<job, xmit, up, stopped>>
  BY <1>2, <1>3
<1>4. CASE \E m \in Macs, n \in Sizes, more \in BOOLEAN : XmitEnter(m, n, more)
  BY <1>0, <1>4 DEF XmitEnter, Refused, JobShape
<1>5. CASE Transmit
  <2>1. /\ UNCHANGED <<job, up>> /\ xmit.pc # "idle"
        /\ xmit'.pc # "idle" => xmit'.dev = xmit.dev
    BY <1>5 DEF Transmit, XmitDrop, XmitMap, XmitCheck, XmitStop, XmitIdle, XmitAt
  <2>. QED  BY <1>2, <2>1
<1>6. CASE PollWake
  <2>1. UNCHANGED <<job, xmit, up>> /\ \A m \in Macs : ~stopped'[m]
    BY <1>6 DEF PollWake
  <2>. QED  BY <1>2, <2>1
<1>7. CASE \E m \in Macs : NdoOpen(m) \/ NdoStop(m)
  BY <1>0, <1>7 DEF NdoOpen, NdoStop
<1>8. ASSUME StopReturns, UNCHANGED <<xmit, up>>,
             xmit.pc # "idle" => xmit.dev # job.dev,
             \A m \in Macs : stopped'[m] => stopped[m] \/ m = job.dev,
             job.pc \in {"disable", "free"}
      PROVE  ResetOrder'
  <2>1. job.op = "reset"
    BY <1>0, <1>8, StopReturnsTo, NextDevType DEF JobShape, JobPcs
  <2>2. CASE job.phase = "stop"
    <3>1. /\ job'.phase = "stop"
          /\ \/ job'.dev = job.dev + 1 /\ job'.pc = "disable"
             \/ job.dev + 1 \notin Macs /\ job'.dev = 0 /\ job'.pc = "hw"
      BY <1>0, <1>8, <2>1, <2>2, StopReturnsTo, NextDevType DEF JobPcs
    <3>2. xmit.pc # "idle" => xmit.dev >= job.dev /\ xmit.dev # job.dev
      BY <1>0, <1>8, <2>1, <2>2 DEF ResetOrder
    <3>3. xmit.pc # "idle" => job.dev + 1 \in Macs /\ xmit.dev >= job.dev + 1
      BY <1>0, <1>1, <3>2, Sizing DEF Macs
    <3>. QED  BY <1>8, <3>1, <3>3 DEF ResetOrder
  <2>3. CASE job.phase = "open"
    <3>1. /\ job'.phase = "open"
          /\ \/ job'.dev = job.dev + 1 /\ job'.pc = "open"
             \/ job.dev + 1 \notin Macs /\ job'.dev = 0 /\ job'.pc = "done"
      BY <1>0, <1>8, <2>1, <2>3, StopReturnsTo, NextDevType DEF JobPcs
    <3>2. /\ xmit.pc = "idle" /\ ~up[job.dev]
          /\ \A m \in Macs : m < job.dev /\ up[m] => ~stopped[m]
      BY <1>0, <1>8, <2>1, <2>3 DEF ResetOrder
    <3>3. \A m \in Macs : (m < job'.dev \/ job'.pc = "done") => m < job.dev \/ m = job.dev
      BY <1>0, <1>1, <3>1, Sizing DEF Macs
    <3>. QED  BY <1>8, <3>1, <3>2, <3>3 DEF ResetOrder
  <2>. QED  BY <1>0, <2>2, <2>3
<1>9. CASE StopDisable
  <2>1. /\ UNCHANGED <<xmit, up>> /\ job.pc = "disable"
        /\ xmit.pc # "idle" => xmit.dev # job.dev
        /\ \A m \in Macs : stopped'[m] => stopped[m] \/ m = job.dev
    BY <1>0, <1>9 DEF StopDisable
  <2>2. CASE StopReturns
    BY <1>8, <2>1, <2>2
  <2>3. CASE job' = [job EXCEPT !.pc = "napi"]
    <3>1. job'.op = job.op /\ job'.phase = job.phase /\ job'.dev = job.dev /\ job'.pc = "napi"
      BY <1>0, <2>3 DEF JobType
    <3>. QED  BY <1>0, <1>1, <2>1, <3>1 DEF ResetOrder
  <2>. QED  BY <1>9, <2>2, <2>3 DEF StopDisable
<1>10. CASE StopNapi \/ StopDma
  <2>1. /\ UNCHANGED <<xmit, up, stopped>> /\ job.pc \in {"napi", "dma"}
        /\ job'.op = job.op /\ job'.phase = job.phase /\ job'.dev = job.dev
        /\ job'.pc \in {"dma", "free"}
    BY <1>0, <1>10 DEF StopNapi, StopDma, JobType
  <2>. QED  BY <1>0, <2>1 DEF ResetOrder
<1>11. CASE StopFree
  <2>1. /\ UNCHANGED <<xmit, up, stopped>> /\ job.pc = "free" /\ StopReturns
    BY <1>11 DEF StopFree
  <2>2. job.op = "reset" => xmit.pc = "idle"
    BY <2>1 DEF IInv, References
  <2>3. job.op = "reset"
    BY <1>0, <2>1, StopReturnsTo, NextDevType DEF JobShape, JobPcs
  <2>. QED  BY <1>8, <2>1, <2>2, <2>3
<1>12. CASE ResetBegin
  BY <1>0, <1>1, <1>12 DEF ResetBegin, ResetOrder
<1>13. CASE ResetHw
  <2>1. /\ UNCHANGED <<xmit, up, stopped>> /\ job.pc = "hw"
        /\ job'.op = job.op /\ job'.phase = "open" /\ job'.dev = job.dev
        /\ job'.pc = "open"
    BY <1>0, <1>13 DEF ResetHw, JobType
  <2>2. job.phase = "stop" /\ job.op = "reset"
    BY <1>0, <2>1 DEF JobShape
  <2>3. xmit.pc = "idle" /\ job.dev = 0
    BY <1>0, <2>1, <2>2 DEF ResetOrder
  <2>. QED  BY <1>0, <1>1, <2>1, <2>2, <2>3 DEF ResetOrder
<1>14. ASSUME job.pc = "open", job' = NextDev("open", "done"), UNCHANGED <<xmit, up>>,
             \A m \in Macs : stopped'[m] => stopped[m],
             up[job.dev] => ~stopped'[job.dev]
      PROVE  ResetOrder'
  <2>1. job.phase = "open" /\ job.op = "reset"
    BY <1>0, <1>14 DEF JobShape
  <2>2. /\ job'.phase = "open"
        /\ \/ job'.dev = job.dev + 1 /\ job'.pc = "open"
           \/ job.dev + 1 \notin Macs /\ job'.dev = 0 /\ job'.pc = "done"
    BY <1>0, <1>14, <2>1, NextDevType DEF JobPcs
  <2>3. /\ xmit.pc = "idle"
        /\ \A m \in Macs : m < job.dev /\ up[m] => ~stopped[m]
    BY <1>0, <2>1 DEF ResetOrder
  <2>4. \A m \in Macs : (m < job'.dev \/ job'.pc = "done") => m < job.dev \/ m = job.dev
    BY <1>0, <1>1, <2>2, Sizing DEF Macs
  <2>. QED  BY <1>14, <2>2, <2>3, <2>4 DEF ResetOrder
<1>15. CASE ResetOpen
  <2>1. /\ job.pc = "open" /\ job' = NextDev("open", "done") /\ UNCHANGED <<xmit, up>>
        /\ stopped' = [stopped EXCEPT ![job.dev] = FALSE]
    BY <1>15 DEF ResetOpen, OpenDev, Started
  <2>. QED  BY <1>0, <1>14, <2>1
<1>16. CASE ResetOpenFails
  <2>1. job.pc = "open" /\ UNCHANGED <<xmit, stopped>>
    BY <1>16 DEF ResetOpenFails
  <2>2. CASE ~up[job.dev] /\ job' = NextDev("open", "done") /\ UNCHANGED up
    BY <1>14, <2>1, <2>2
  <2>3. CASE Deactivate(job.dev) /\ job' = [job EXCEPT !.pc = "disable"]
    <3>1. /\ job'.op = job.op /\ job'.phase = job.phase /\ job'.dev = job.dev
          /\ job'.pc = "disable"
      BY <1>0, <2>3 DEF JobType
    <3>2. job.phase = "open" /\ job.op = "reset"
      BY <1>0, <2>1 DEF JobShape
    <3>3. /\ ~up'[job.dev] /\ \A m \in Macs : up'[m] => up[m]
      BY <1>0, <2>3 DEF Deactivate
    <3>. QED  BY <1>0, <1>1, <2>1, <3>1, <3>2, <3>3 DEF ResetOrder
  <2>. QED  BY <1>16, <2>2, <2>3 DEF ResetOpenFails
<1>17. CASE ResetDone
  BY <1>0, <1>17 DEF ResetDone
<1>18. Next => \/ UNCHANGED <<job, xmit, up, stopped>>
               \/ \E m \in Macs, n \in Sizes, more \in BOOLEAN : XmitEnter(m, n, more)
               \/ Transmit \/ PollWake \/ \E m \in Macs : NdoOpen(m) \/ NdoStop(m)
               \/ Stop \/ ResetBegin \/ Reset
  BY DEF Next, Send, Irq, Poll, PollAck, PollRead, PollReclaim, PollComplete,
         PollAgain, PollEnd, IrqEnable, Watchdog
<1>. QED
  BY <1>3, <1>4, <1>5, <1>6, <1>7, <1>9, <1>10, <1>11, <1>12, <1>13, <1>15, <1>16,
     <1>17, <1>18 DEF Stop, Reset, vars

(* Every step leaves a stopped queue somebody to wake it.                  *)
LEMMA NextWaking == IInv /\ [Next]_vars => Waking'
<1>. SUFFICES ASSUME IInv, [Next]_vars PROVE Waking'
  OBVIOUS
<1>0. /\ xmit \in XmitType /\ xmit.dev \in Macs /\ job \in JobType /\ JobShape
      /\ up \in [Macs -> BOOLEAN] /\ stopped \in [Macs -> BOOLEAN]
      /\ NoJob.op = "none" /\ NoJob.pc = "idle" /\ refcnt \in Nat
      /\ N \in Nat /\ free \in 0..(N - 2) /\ Thresh \in Nat /\ Thresh < N - 2
      /\ Users \in Nat /\ Drift \in Int /\ Waking /\ poll \in PollType
  BY TypesAre, UsersCount, DriftType, Sizing, MtkTxAssumption
     DEF IInv, Types, XmitType, NoJob
<1>. SUFFICES ASSUME NEW m \in Macs, job'.op # "reset", Drift' >= 0, ~missed', up'[m],
                     stopped'[m] \/ (xmit'.pc = "stop" /\ xmit'.dev = m)
              PROVE  free' < N - 2 \/ poll'.pc \in {"loop", "wake"}
  BY DEF Waking
<1>1. ASSUME UNCHANGED <<job, up, refcnt>> PROVE Drift' = Drift
  BY <1>1 DEF Drift, Users
<1>2. ASSUME job.op # "reset", Drift >= 0, ~missed, up[m],
             stopped[m] \/ (xmit.pc = "stop" /\ xmit.dev = m)
      PROVE  free < N - 2 \/ poll.pc \in {"loop", "wake"}
  BY <1>0, <1>2 DEF Waking
<1>3. CASE UNCHANGED <<job, up, refcnt, missed, stopped, xmit, free, poll>>
  BY <1>1, <1>2, <1>3
<1>4. CASE \E d \in Macs, n \in Sizes, more \in BOOLEAN : XmitEnter(d, n, more)
  <2>. PICK d \in Macs, n \in Sizes, more \in BOOLEAN : XmitEnter(d, n, more)
    BY <1>4
  <2>1. UNCHANGED <<job, up, refcnt, missed, stopped, free, poll>>
    BY DEF XmitEnter
  <2>2. n \in Nat /\ n < N - 2
    BY PacketSize
  <2>3. xmit'.pc = "stop" => free <= n
    BY DEF XmitEnter, RingFull, XmitAt
  <2>. QED  BY <1>0, <1>1, <1>2, <2>1, <2>2, <2>3
<1>5. CASE XmitDrop
  BY <1>1, <1>2, <1>5 DEF XmitDrop, XmitIdle, XmitAt
<1>6. CASE XmitMap
  <2>1. /\ UNCHANGED <<job, up, refcnt, missed, stopped, poll>> /\ xmit'.pc = "check"
        /\ free' = free - xmit.n
    BY <1>6 DEF XmitMap, XmitAt
  <2>2. xmit.n \in Nat
    BY <1>6, PacketSize DEF XmitMap, IInv, Transmitter
  <2>. QED  BY <1>0, <1>1, <1>2, <2>1, <2>2
<1>7. CASE XmitCheck
  <2>1. UNCHANGED <<job, up, refcnt, missed, stopped, free, poll>>
    BY <1>7 DEF XmitCheck
  <2>2. xmit'.pc = "stop" => free <= Thresh
    BY <1>7 DEF XmitCheck, XmitAt, XmitIdle
  <2>. QED  BY <1>0, <1>1, <1>2, <2>1, <2>2
<1>8. CASE XmitStop
  <2>1. UNCHANGED <<job, up, refcnt, missed, free, poll>> /\ xmit'.pc = "idle"
    BY <1>8 DEF XmitStop, XmitIdle, XmitAt
  <2>2. stopped'[m] => stopped[m] \/ (xmit.pc = "stop" /\ xmit.dev = m)
    BY <1>0, <1>8 DEF XmitStop
  <2>. QED  BY <1>1, <1>2, <2>1, <2>2
<1>9. CASE PollReclaim
  BY <1>0, <1>9 DEF PollReclaim, PollType
<1>10. CASE PollComplete
  <2>1. UNCHANGED <<job, up, refcnt, stopped, xmit, free>>
    BY <1>10 DEF PollComplete
  <2>2. /\ poll'.pc = IF Wakes THEN "wake" ELSE "end"
        /\ ~Wakes => xmit.pc # "stop"
    BY <1>0, <1>10 DEF PollComplete, PollType
  <2>3. CASE ~Wakes
    <3>1. stopped[m]
      BY <2>1, <2>2, <2>3
    <3>. QED  BY <1>0, <2>1, <2>3, <3>1 DEF Wakes
  <2>. QED  BY <2>2, <2>3
<1>11. CASE PollWake
  BY <1>11 DEF PollWake
<1>12. CASE Irq \/ PollAck \/ PollRead \/ PollAgain \/ PollEnd
  <2>1. UNCHANGED <<job, up, refcnt, missed, stopped, xmit, free>>
    BY <1>12 DEF Irq, PollAck, PollRead, PollAgain, PollEnd
  <2>2. poll.pc \in {"loop", "wake"} => poll'.pc \in {"loop", "wake"}
    <3>1. CASE Irq
      <4>1. poll.pc = "idle"
        BY <3>1 DEF Irq, IInv, Lifetime
      <4>. QED  BY <4>1
    <3>2. CASE PollAck \/ PollRead \/ PollAgain \/ PollEnd
      BY <3>2 DEF PollAck, PollRead, PollAgain, PollEnd, PollGoes
    <3>. QED  BY <1>12, <3>1, <3>2
  <2>. QED  BY <1>1, <1>2, <2>1, <2>2
<1>13. CASE \E d \in Macs : NdoOpen(d)
  <2>. PICK d \in Macs : NdoOpen(d)
    BY <1>13
  <2>1. /\ job = NoJob /\ job' = NoJob /\ ~up[d] /\ up' = [up EXCEPT ![d] = TRUE]
        /\ refcnt' = refcnt + 1 /\ UNCHANGED <<xmit, missed, poll>>
        /\ stopped' = [stopped EXCEPT ![d] = FALSE]
        /\ refcnt # 0 => free' = free
    BY DEF NdoOpen, OpenDev, FirstUser, Started
  <2>2. Users' = Users + 1
    BY <1>0, <2>1, UsersChange
  <2>3. Drift' = Drift /\ Drift = refcnt - Users
    BY <1>0, <2>1, <2>2 DEF Drift
  <2>4. m # d
    BY <1>0, <2>1 DEF IInv, Transmitter
  <2>5. up[m] /\ (stopped'[m] => stopped[m])
    BY <1>0, <2>1, <2>4
  <2>6. Users >= 1
    BY <1>0, <2>5, UsersCount
  <2>. QED  BY <1>0, <1>2, <2>1, <2>3, <2>5, <2>6
<1>14. CASE \E d \in Macs : NdoStop(d)
  <2>. PICK d \in Macs : NdoStop(d)
    BY <1>14
  <2>1. /\ job = NoJob /\ UNCHANGED <<xmit, missed, poll, stopped, free>>
        /\ up' = [up EXCEPT ![d] = FALSE] /\ job' # NoJob /\ job'.drift = Drift
    BY <1>0 DEF NdoStop, Deactivate
  <2>2. Drift' = Drift /\ up[m]
    BY <1>0, <2>1 DEF Drift
  <2>. QED  BY <1>0, <1>2, <2>1, <2>2
<1>15. ASSUME job' = NoJob, refcnt' = 0, UNCHANGED up PROVE FALSE
  <2>1. Drift' = 0 - Users
    BY <1>15 DEF Drift, Users
  <2>2. Users >= 1
    BY <1>0, <1>15, UsersCount
  <2>. QED  BY <1>0, <2>1, <2>2
<1>16. ASSUME StopReturns, job.pc \in {"disable", "free"}
       PROVE  job' = NoJob /\ job.op = "close" /\ job # NoJob
  <2>1. job.op \in {"close", "reset"}
    BY <1>0, <1>16 DEF JobShape
  <2>2. job.op = "reset" => job'.op = "reset"
    BY <1>0, <1>16, StopReturnsTo, NextDevType DEF JobPcs
  <2>. QED  BY <1>0, <1>16, <2>1, <2>2, StopReturnsTo
<1>17. ASSUME job.op # "reset", Drift >= 0, UNCHANGED <<up, missed, xmit, free, poll>>,
              stopped'[m] => stopped[m]
       PROVE  free' < N - 2 \/ poll'.pc \in {"loop", "wake"}
  BY <1>2, <1>17
<1>18. CASE StopDisable
  <2>1. /\ UNCHANGED <<xmit, missed, poll, free, up>> /\ job.pc = "disable"
        /\ refcnt' = IF refcnt = 0 THEN 0 ELSE refcnt - 1
        /\ stopped' = [stopped EXCEPT ![job.dev] = TRUE]
    BY <1>18 DEF StopDisable
  <2>2. job.op = "close" =>
          /\ job.drift = refcnt - Users - 1 /\ job # NoJob /\ Drift = job.drift
          /\ stopped'[m] => stopped[m]
    <3>1. job.op = "close" => job.drift = refcnt - Users - 1 /\ ~up[job.dev]
      BY <2>1 DEF IInv, References
    <3>. QED  BY <1>0, <2>1, <3>1 DEF Drift
  <2>3. CASE StopReturns /\ ~LastUser
    <3>1. job.op = "close" /\ job' = NoJob
      BY <1>16, <2>1, <2>3
    <3>2. refcnt # 0
      BY <1>15, <2>1, <3>1
    <3>3. Drift' = refcnt - 1 - Users
      BY <1>0, <2>1, <3>1, <3>2 DEF Drift, Users
    <3>4. Drift = refcnt - Users - 1
      BY <2>2, <3>1
    <3>5. Drift' = Drift
      BY <1>0, <3>3, <3>4
    <3>. QED  BY <1>0, <1>17, <2>1, <2>2, <3>1, <3>5
  <2>4. CASE job' = [job EXCEPT !.pc = "napi"]
    <3>1. job'.op = job.op /\ job'.drift = job.drift /\ job'.pc = "napi"
      BY <1>0, <2>4 DEF JobType
    <3>2. job.op = "close" /\ Drift' = job.drift
      BY <1>0, <2>1, <3>1 DEF Drift, JobShape
    <3>. QED  BY <1>17, <2>1, <2>2, <3>2
  <2>. QED  BY <1>18, <2>3, <2>4 DEF StopDisable
<1>19. CASE StopNapi \/ StopDma
  <2>1. /\ UNCHANGED <<xmit, missed, poll, free, up, stopped>> /\ job.pc \in {"napi", "dma"}
        /\ job'.op = job.op /\ job'.drift = job.drift /\ job'.pc \in {"dma", "free"}
    BY <1>0, <1>19 DEF StopNapi, StopDma, JobType
  <2>2. Drift' = Drift
    BY <1>0, <2>1 DEF Drift
  <2>. QED  BY <1>17, <2>1, <2>2
<1>20. CASE StopFree
  <2>1. job.pc = "free" /\ StopReturns /\ UNCHANGED <<up, refcnt>>
    BY <1>20 DEF StopFree
  <2>2. refcnt = 0
    BY <2>1 DEF IInv, Lifetime
  <2>. QED  BY <1>15, <1>16, <2>1, <2>2
<1>21. CASE ResetBegin
  BY <1>21 DEF ResetBegin
<1>22. CASE ResetHw \/ ResetOpen \/ ResetOpenFails
  <2>1. job.op = "reset" /\ job.pc \in {"hw", "open"}
    BY <1>0, <1>22 DEF ResetHw, ResetOpen, ResetOpenFails, JobShape
  <2>2. CASE job' = NextDev("open", "done")
    BY <1>0, <2>1, <2>2, NextDevType DEF JobPcs
  <2>3. CASE job' = [job EXCEPT !.pc = "disable"] \/ ResetHw
    BY <1>0, <2>1, <2>3 DEF JobType, ResetHw
  <2>. QED  BY <1>22, <2>2, <2>3 DEF ResetOpen, ResetOpenFails
<1>23. CASE ResetDone
  <2>1. job.pc = "done" /\ UNCHANGED <<xmit, stopped, up>>
    BY <1>23 DEF ResetDone
  <2>2. job.op = "reset" /\ job.phase = "open"
    BY <1>0, <2>1 DEF JobShape
  <2>3. xmit.pc = "idle" /\ (up[m] => ~stopped[m])
    BY <2>1, <2>2 DEF IInv, ResetOrder
  <2>. QED  BY <2>1, <2>3
<1>24. Next => \/ UNCHANGED <<job, up, refcnt, missed, stopped, xmit, free, poll>>
               \/ \E d \in Macs, n \in Sizes, more \in BOOLEAN : XmitEnter(d, n, more)
               \/ Transmit \/ Irq \/ Poll \/ \E d \in Macs : NdoOpen(d) \/ NdoStop(d)
               \/ Stop \/ ResetBegin \/ Reset
  BY DEF Next, Send, IrqEnable, Watchdog
<1>. QED
  BY <1>3, <1>4, <1>5, <1>6, <1>7, <1>8, <1>9, <1>10, <1>11, <1>12, <1>13, <1>14,
     <1>18, <1>19, <1>20, <1>21, <1>22, <1>23, <1>24
     DEF Transmit, Poll, Stop, Reset, vars

-----------------------------------------------------------------------------
(* The ring.                                                               *)

(* What the ring's first user finds: an empty ring, the DMA at its start.  *)
LEMMA FreshRing ==
  ASSUME NEW m \in Macs, OpenDev(m), FirstUser, poll.pc = "idle"
  PROVE  RingOrder'
<1>1. /\ buf' = EmptyBuf /\ next' = 0 /\ last' = N - 1 /\ free' = N - 2
      /\ own' = {} /\ ctx' = 0 /\ drx' = N - 1 /\ poll' = poll
  BY DEF OpenDev
<1>2. 0 \in Slots /\ N - 1 \in Slots /\ N \in Nat /\ N >= 3
  BY Sizing
<1>3. Ahead(N - 1, 0) = 1 /\ Ahead(N - 1, N - 1) = 0
  BY <1>2, AheadIs
<1>4. Between(N - 1, 0) = {} /\ InRing' = {}
  BY <1>1, <1>3 DEF Between, InRing, EmptyBuf
<1>. QED  BY <1>1, <1>2, <1>3, <1>4 DEF RingOrder

(* A packet mapped onto the descriptors from next_free on.                 *)
LEMMA MapRing ==
  ASSUME IInv, XmitMap
  PROVE  /\ xmit.n \in Nat /\ xmit.n >= 1 /\ Taken(xmit.n) \cap InRing = {}
         /\ Taken(xmit.n) \subseteq Slots /\ next \in Taken(xmit.n)
         /\ RingOrder'
<1>. DEFINE n == xmit.n
            t == Ahead(last, next)
<1>0. /\ next \in Slots /\ last \in Slots /\ free \in 0..(N - 2) /\ N \in Nat /\ N >= 3
      /\ drx \in Slots \cup {Nowhere} /\ ctx \in Slots \cup {Nowhere}
      /\ buf \in [Slots -> Macs \cup {NoSkb, Dummy}] /\ xmit.dev \in Macs
      /\ own \subseteq Slots
  BY TypesAre, Sizing DEF IInv, Types, XmitType
<1>1. alive /\ n \in Nat /\ n >= 1 /\ n < free /\ n \in 0..(N - 1)
  <2>1. alive /\ n \in Sizes /\ n < free
    BY DEF XmitMap, IInv, Transmitter
  <2>2. n \in Nat /\ n >= 1
    BY <2>1, PacketSize
  <2>. QED  BY <1>0, <2>1, <2>2
<1>2. t \in Nat /\ t >= 1 /\ t = N - 1 - free /\ InRing = Between(last, next)
  <2>1. t \in Nat
    BY <1>0, AheadIs
  <2>2. t >= 1 /\ free = N - 1 - t /\ InRing = Between(last, next)
    BY <1>1 DEF IInv, RingOrder
  <2>. QED  BY <1>0, <2>1, <2>2
<1>3. /\ Taken(n) = {i \in Slots : Ahead(next, i) < n}
      /\ \A i \in Slots : Ahead(next, i) \in Nat
  BY <1>0, <1>1, TakenAhead
<1>4. /\ next' = (next + n) % N /\ free' = free - n /\ own' = own \cup Taken(n)
      /\ ctx' = next' \/ ctx' = ctx
      /\ UNCHANGED <<alive, last, drx, dmaOn, poll>>
      /\ buf' = [i \in Slots |-> IF i = next THEN xmit.dev
                                 ELSE IF i \in Taken(n) THEN Dummy ELSE buf[i]]
  BY DEF XmitMap
<1>5. next' \in Slots /\ Ahead(next, next) = 0
  BY <1>0, <1>1, <1>4, StepIs, RingMoves
<1>. HIDE DEF n, t
<1>6. Ahead(last, next') = t + n
  <2>1. t + n < N
    BY <1>0, <1>1, <1>2
  <2>. QED  BY <1>0, <1>1, <1>4, <2>1, RingSteps DEF t
<1>7. \A i \in Slots : /\ Ahead(last, i) \in Nat /\ Ahead(last, i) < N
                       /\ t <= Ahead(last, i) <=> t + Ahead(next, i) = Ahead(last, i)
                       /\ t > Ahead(last, i) <=> t + Ahead(next, i) = Ahead(last, i) + N
  BY <1>0, AheadIs, RingChain DEF t
<1>8. \A i \in Slots : i \in Taken(n) <=> Ahead(last, i) \in t..(t + n - 1)
  BY <1>0, <1>1, <1>2, <1>3, <1>7
<1>9. \A i \in Slots : i \in InRing <=> Ahead(last, i) \in 1..(t - 1)
  BY <1>2 DEF Between, t
<1>10. Taken(n) \cap InRing = {} /\ Taken(n) \subseteq Slots /\ next \in Taken(n)
  <2>1. Taken(n) \cap InRing = {}
    BY <1>1, <1>2, <1>3, <1>7, <1>8, <1>9
  <2>. QED  BY <1>0, <1>1, <1>3, <1>5, <2>1
<1>11. InRing' = Between(last, next')
  <2>1. \A i \in Slots : i \in InRing' <=> i \in InRing \/ i \in Taken(n)
    BY <1>0, <1>4, <1>10, Sizing DEF InRing
  <2>2. \A i \in Slots : i \in Between(last, next') <=> Ahead(last, i) \in 1..(t + n - 1)
    BY <1>1, <1>2, <1>6, InBetween
  <2>3. \A i \in Slots : i \in InRing' <=> i \in Between(last, next')
    BY <1>1, <1>2, <1>7, <1>8, <1>9, <2>1, <2>2
  <2>. QED  BY <2>3 DEF InRing, Between
<1>12. /\ Ahead(last', next') >= 1 /\ free' = N - 1 - Ahead(last', next')
       /\ InRing' = Between(last', next')
  BY <1>0, <1>1, <1>2, <1>4, <1>6, <1>11
<1>13. ASSUME dmaOn
       PROVE  /\ drx \in Slots /\ ctx' \in Slots
              /\ Ahead(last, drx) + Ahead(drx, next') = Ahead(last, next')
              /\ Ahead(drx, ctx') \in 1..Ahead(drx, next')
              /\ own' \subseteq Between(drx, next')
              /\ poll.pc = "loop" =>
                   poll.dma \in Slots /\ Ahead(last, poll.dma) <= Ahead(last, drx)
  <2>. DEFINE q == Ahead(drx, next)
  <2>1. /\ drx \in Slots /\ ctx \in Slots /\ Ahead(last, drx) + q = t
        /\ Ahead(drx, ctx) \in 1..q /\ own \subseteq Between(drx, next)
        /\ poll.pc = "loop" =>
             poll.dma \in Slots /\ Ahead(last, poll.dma) <= Ahead(last, drx)
    BY <1>13 DEF IInv, RingOrder, t
  <2>2. q \in Nat /\ q >= 1 /\ q <= t /\ Ahead(last, drx) \in Nat
    BY <1>0, <1>2, <2>1, AheadIs
  <2>. HIDE DEF q
  <2>3. Ahead(drx, next') = q + n
    <3>1. q + n < N
      BY <1>0, <1>1, <1>2, <2>2
    <3>. QED  BY <1>0, <1>1, <1>4, <2>1, <3>1, RingSteps DEF q
  <2>4. Ahead(drx, ctx') \in 1..(q + n)
    BY <1>1, <1>4, <2>1, <2>2, <2>3
  <2>5. \A i \in Slots : /\ Ahead(drx, i) \in Nat /\ Ahead(drx, i) < N
                         /\ q <= Ahead(drx, i) <=> q + Ahead(next, i) = Ahead(drx, i)
                         /\ q > Ahead(drx, i) <=> q + Ahead(next, i) = Ahead(drx, i) + N
    BY <1>0, <2>1, AheadIs, RingChain DEF q
  <2>6. \A i \in Taken(n) : i \in Slots /\ Ahead(drx, i) \in 1..(q + n - 1)
    BY <1>0, <1>1, <1>2, <1>3, <2>2, <2>5
  <2>7. \A i \in own : i \in Slots /\ Ahead(drx, i) \in 1..(q + n - 1)
    BY <1>1, <2>1, <2>2, <2>5 DEF Between, q
  <2>8. own' \subseteq Between(drx, next')
    <3>1. \A i \in Slots : i \in Between(drx, next') <=> Ahead(drx, i) \in 1..(q + n - 1)
      BY <1>1, <2>2, <2>3, InBetween
    <3>. QED  BY <1>4, <2>6, <2>7, <3>1
  <2>9. Ahead(last, drx) + (q + n) = t + n
    BY <1>1, <1>2, <2>1, <2>2
  <2>. QED  BY <1>4, <1>5, <1>6, <2>1, <2>3, <2>4, <2>8, <2>9
<1>14. RingOrder'
  BY <1>4, <1>12, <1>13 DEF RingOrder
<1>. QED  BY <1>1, <1>10, <1>14 DEF n

(* A turn of the poll's loop moves last_free up by one, not past the DMA.  *)
LEMMA ReclaimRing == ASSUME IInv, PollReclaim PROVE RingOrder'
<1>. DEFINE s == Succ(last)
<1>0. /\ alive /\ s \in Slots /\ last \in Slots /\ next \in Slots /\ last # next
      /\ Ahead(last, next) >= 2 /\ free = N - 1 - Ahead(last, next)
      /\ InRing = Between(last, next)
      /\ free' = free + 1 /\ last' = s /\ buf' = [buf EXCEPT ![s] = NoSkb]
      /\ UNCHANGED <<alive, next, hwVars>>
  BY ReclaimFacts
<1>1. /\ N \in Nat /\ N >= 3 /\ free \in 0..(N - 2)
      /\ buf \in [Slots -> Macs \cup {NoSkb, Dummy}]
  BY Sizing DEF IInv, TypeOK
<1>2. \A i \in Slots : /\ Ahead(last, i) \in Nat
                       /\ Ahead(last, i) = 0 <=> i = last
                       /\ i # last => Ahead(s, i) = Ahead(last, i) - 1
                       /\ Ahead(s, i) \in Nat
  BY <1>0, AheadIs, RingMoves
<1>3. \A i \in Slots : Ahead(s, i) = 0 <=> i = s
  BY <1>0, RingMoves
<1>. HIDE DEF s
<1>4. Ahead(s, last) = N - 1
  <2>1. Ahead(last, s) = 1
    BY <1>0, <1>2, <1>3, RingMoves, Sizing DEF s
  <2>2. Ahead(last, s) + Ahead(s, last) = Ahead(last, last) + N
    BY <1>0, <1>1, <1>2, <2>1, RingChain
  <2>. QED  BY <1>0, <1>1, <1>2, <2>1, <2>2
<1>5. InRing' = Between(s, next)
  <2>1. \A i \in Slots : i \in InRing' <=> i \in InRing /\ i # s
    BY <1>0, <1>1 DEF InRing
  <2>2. \A i \in Slots : i \in InRing <=> Ahead(last, i) \in 1..(Ahead(last, next) - 1)
    BY <1>0 DEF Between
  <2>3. \A i \in Slots : i \in Between(s, next) <=> Ahead(s, i) \in 1..(Ahead(last, next) - 2)
    BY <1>0, <1>2 DEF Between
  <2>4. Ahead(last, next) <= N - 1
    BY <1>0, <1>1, <1>2
  <2>5. \A i \in Slots : i \in InRing' <=> i \in Between(s, next)
    BY <1>0, <1>1, <1>2, <1>3, <1>4, <2>1, <2>2, <2>3, <2>4
  <2>. QED  BY <2>5 DEF InRing, Between
<1>6. /\ Ahead(last', next') >= 1 /\ free' = N - 1 - Ahead(last', next')
      /\ InRing' = Between(last', next')
  BY <1>0, <1>1, <1>2, <1>5
<1>7. ASSUME dmaOn
      PROVE  /\ drx \in Slots /\ ctx \in Slots
             /\ Ahead(s, drx) + Ahead(drx, next) = Ahead(s, next)
             /\ Ahead(drx, ctx) \in 1..Ahead(drx, next)
             /\ own \subseteq Between(drx, next)
             /\ poll.dma \in Slots /\ Ahead(s, poll.dma) <= Ahead(s, drx)
  <2>1. poll.pc = "loop" /\ poll.dma # last
    BY DEF PollReclaim, LoopGoes
  <2>2. /\ drx \in Slots /\ ctx \in Slots
        /\ Ahead(last, drx) + Ahead(drx, next) = Ahead(last, next)
        /\ Ahead(drx, ctx) \in 1..Ahead(drx, next)
        /\ own \subseteq Between(drx, next)
        /\ poll.dma \in Slots /\ Ahead(last, poll.dma) <= Ahead(last, drx)
    BY <1>7, <2>1 DEF IInv, RingOrder
  <2>3. Ahead(last, poll.dma) >= 1 /\ Ahead(last, drx) >= 1 /\ drx # last
    BY <1>2, <2>1, <2>2
  <2>4. Ahead(drx, next) \in Nat
    BY <1>0, <2>2, AheadIs
  <2>. QED  BY <1>0, <1>2, <2>1, <2>2, <2>3, <2>4
<1>8. poll'.dma = poll.dma
  <2>1. poll \in PollType
    BY TypesAre DEF IInv, Types
  <2>. QED  BY <2>1 DEF PollReclaim, PollType
<1>. QED  BY <1>0, <1>6, <1>7, <1>8 DEF RingOrder

(* A descriptor sent: the DMA moves up by one, not past what it was told.  *)
LEMMA SendRing == ASSUME IInv, Send PROVE RingOrder'
<1>. DEFINE s == Succ(drx)
<1>0. /\ dmaOn /\ s # ctx /\ drx' = s /\ own' = own \ {s}
      /\ UNCHANGED <<ringVars, ctx, dmaOn, poll>>
      /\ N \in Nat /\ N >= 3 /\ last \in Slots /\ next \in Slots
  BY Sizing DEF Send, IInv, TypeOK
<1>1. alive
  BY <1>0 DEF IInv, Lifetime
<1>2. /\ Ahead(last, next) >= 1 /\ free = N - 1 - Ahead(last, next)
      /\ InRing = Between(last, next)
      /\ drx \in Slots /\ ctx \in Slots
      /\ Ahead(last, drx) + Ahead(drx, next) = Ahead(last, next)
      /\ Ahead(drx, ctx) \in 1..Ahead(drx, next)
      /\ own \subseteq Between(drx, next)
      /\ poll.pc = "loop" =>
           poll.dma \in Slots /\ Ahead(last, poll.dma) <= Ahead(last, drx)
  BY <1>0, <1>1 DEF IInv, RingOrder
<1>3. /\ s \in Slots
      /\ \A i \in Slots : i # drx => Ahead(s, i) = Ahead(drx, i) - 1
      /\ \A i \in Slots : Ahead(drx, i) \in Nat /\ (Ahead(drx, i) = 0 <=> i = drx)
      /\ \A i \in Slots : Ahead(s, i) \in Nat /\ (Ahead(s, i) = 0 <=> i = s)
      /\ \A i \in Slots : Ahead(last, i) \in 0..(N - 1)
  BY <1>0, <1>2, SuccIs, RingMoves, AheadIs
<1>4. Ahead(drx, next) >= 1 /\ Ahead(last, drx) < N - 1
  BY <1>0, <1>2, <1>3
<1>5. Ahead(last, s) = Ahead(last, drx) + 1
  BY <1>0, <1>2, <1>4, RingMoves
<1>. HIDE DEF s
<1>6. /\ Ahead(s, next) = Ahead(drx, next) - 1
      /\ Ahead(s, ctx) = Ahead(drx, ctx) - 1 /\ Ahead(s, ctx) >= 1
  BY <1>0, <1>2, <1>3, <1>4
<1>7. own' \subseteq Between(s, next)
  <2>1. ASSUME NEW i \in own, i # s PROVE i \in Slots /\ Ahead(s, i) \in 1..(Ahead(s, next) - 1)
    <3>1. i \in Slots /\ Ahead(drx, i) \in 1..(Ahead(drx, next) - 1)
      BY <1>2 DEF Between
    <3>2. i # drx /\ Ahead(s, i) # 0 /\ Ahead(s, i) \in Nat
      BY <1>3, <2>1, <3>1
    <3>. QED  BY <1>0, <1>3, <1>6, <3>1, <3>2
  <2>. QED  BY <1>0, <2>1 DEF Between
<1>8. Ahead(last, s) + Ahead(s, next) = Ahead(last, next)
  BY <1>0, <1>2, <1>3, <1>5, <1>6
<1>9. Ahead(s, ctx) \in 1..Ahead(s, next)
  BY <1>0, <1>2, <1>3, <1>6
<1>10. poll.pc = "loop" => poll.dma \in Slots /\ Ahead(last, poll.dma) <= Ahead(last, s)
  BY <1>0, <1>2, <1>3, <1>5
<1>11. InRing' = InRing
  BY <1>0 DEF InRing
<1>. QED  BY <1>0, <1>2, <1>3, <1>7, <1>8, <1>9, <1>10, <1>11 DEF RingOrder

(* Every step keeps the order round the ring.                              *)
LEMMA NextRingOrder == IInv /\ [Next]_vars => RingOrder'
<1>. SUFFICES ASSUME IInv, [Next]_vars PROVE RingOrder'
  OBVIOUS
<1>0. RingOrder /\ Lifetime /\ JobShape /\ poll \in PollType /\ job \in JobType
  BY TypesAre DEF IInv, Types
<1>1. ASSUME UNCHANGED <<ringVars, own, ctx, drx, dmaOn>>,
             poll'.pc = "loop" => poll'.dma = drx \/ poll' = poll
      PROVE  RingOrder'
  <2>1. InRing' = InRing
    BY <1>1 DEF InRing
  <2>2. ASSUME dmaOn PROVE drx \in Slots /\ Ahead(last, drx) <= Ahead(last, drx)
    <3>1. drx \in Slots /\ last \in Slots
      BY <1>0, <2>2 DEF RingOrder, IInv, TypeOK
    <3>2. Ahead(last, drx) \in Nat
      BY <3>1, AheadIs
    <3>. QED  BY <3>1, <3>2
  <2>. QED  BY <1>0, <1>1, <2>1, <2>2 DEF RingOrder
<1>2. CASE UNCHANGED <<ringVars, own, ctx, drx, dmaOn, poll>>
  BY <1>1, <1>2
<1>3. CASE Irq \/ PollAck \/ PollComplete \/ PollWake \/ PollAgain \/ PollEnd
  <2>1. UNCHANGED <<ringVars, own, ctx, drx, dmaOn>>
    BY <1>3 DEF Irq, PollAck, PollComplete, PollWake, PollAgain, PollEnd
  <2>2. CASE PollComplete
    <3>1. poll'.pc = IF Wakes THEN "wake" ELSE "end"
      BY <1>0, <2>2 DEF PollComplete, PollType
    <3>. QED  BY <1>1, <2>1, <3>1
  <2>3. CASE Irq \/ PollAgain \/ PollEnd
    BY <1>1, <2>1, <2>3 DEF Irq, PollAgain, PollEnd, PollIdle
  <2>4. CASE PollAck \/ PollWake
    <3>1. poll'.pc \in {"read", "end"}
      BY <1>0, <2>4 DEF PollAck, PollWake, PollGoes, PollType
    <3>. QED  BY <1>1, <2>1, <3>1
  <2>. QED  BY <1>3, <2>2, <2>3, <2>4
<1>4. CASE PollRead
  <2>1. UNCHANGED <<ringVars, own, ctx, drx, dmaOn>> /\ poll'.dma = drx
    BY <1>4 DEF PollRead, PollIdle
  <2>. QED  BY <1>1, <2>1
<1>5. CASE XmitMap
  BY <1>5, MapRing
<1>6. CASE PollReclaim
  BY <1>6, ReclaimRing
<1>7. CASE Send
  BY <1>7, SendRing
<1>8. ASSUME NEW m \in Macs, OpenDev(m), job.pc \in {"idle", "open"} PROVE RingOrder'
  <2>1. CASE FirstUser
    <3>1. poll.pc = "idle"
      BY <1>0, <1>8, <2>1 DEF FirstUser, Lifetime
    <3>. QED  BY <1>8, <2>1, <3>1, FreshRing
  <2>2. CASE ~FirstUser
    BY <1>1, <1>8, <2>2 DEF OpenDev
  <2>. QED  BY <2>1, <2>2
<1>9. CASE \E m \in Macs : NdoOpen(m)
  BY <1>8, <1>9 DEF NdoOpen, NoJob
<1>10. CASE ResetOpen
  <2>1. job.dev \in Macs
    BY <1>0 DEF JobType
  <2>. QED  BY <1>8, <1>10, <2>1 DEF ResetOpen
<1>11. CASE StopDma \/ ResetHw
  <2>1. UNCHANGED ringVars /\ ~dmaOn'
    BY <1>11 DEF StopDma, ResetHw
  <2>2. InRing' = InRing
    BY <2>1 DEF InRing
  <2>. QED  BY <1>0, <2>1, <2>2 DEF RingOrder
<1>12. CASE StopFree
  <2>1. ~alive' /\ dmaOn' = dmaOn /\ job.pc = "free"
    BY <1>12 DEF StopFree
  <2>. QED  BY <1>0, <2>1 DEF RingOrder, Lifetime
<1>13. Next => \/ UNCHANGED <<ringVars, own, ctx, drx, dmaOn, poll>>
               \/ XmitMap \/ Send \/ Irq \/ Poll
               \/ \E m \in Macs : NdoOpen(m)
               \/ StopDma \/ StopFree \/ ResetHw \/ ResetOpen
  BY DEF Next, XmitEnter, Transmit, XmitDrop, XmitCheck, XmitStop, IrqEnable, NdoStop,
         Watchdog, Stop, StopDisable, StopNapi, ResetBegin, Reset, ResetOpenFails, ResetDone
<1>. QED
  BY <1>2, <1>3, <1>4, <1>5, <1>6, <1>7, <1>9, <1>10, <1>11, <1>12, <1>13 DEF Poll, vars

-----------------------------------------------------------------------------
(* Byte queue limits.                                                      *)

(* The stack's counts and the poll's, after every step.                    *)
LEMMA NextCounts == IInv /\ [Next]_vars => Counts'
<1>. SUFFICES ASSUME IInv, [Next]_vars PROVE Counts'
  OBVIOUS
<1>. DEFINE Of(m) == {i \in Slots : buf[i] = m}
            OfNext(m) == {i \in Slots : buf'[i] = m}
<1>0. /\ Counts /\ Lifetime /\ JobShape /\ poll \in PollType /\ job \in JobType
      /\ poll.done \in [Macs -> 0..Budget] /\ poll.left \in 0..Budget
      /\ Budget \in Nat /\ bql \in [Macs -> 0..(N - 2 + Budget)] /\ N \in Nat
      /\ buf \in [Slots -> Macs \cup {NoSkb, Dummy}] /\ xmit.dev \in Macs
      /\ \A m \in Macs : m # NoSkb /\ m # Dummy
  BY TypesAre, Sizing DEF IInv, Types, PollType, XmitType
<1>1. \A m \in Macs : IsFiniteSet(Of(m)) /\ Cardinality(Of(m)) \in Nat
  <2>1. ASSUME NEW m \in Macs PROVE IsFiniteSet(Of(m)) /\ Cardinality(Of(m)) \in Nat
    BY CountBound, FS_CardinalityType DEF IInv
  <2>. QED  BY <2>1
<1>2. \A m \in Macs : /\ bql[m] = Cardinality(Of(m)) + poll.done[m]
                      /\ poll.done[m] + poll.left <= Budget
                      /\ poll.done[m] \in Nat
  BY <1>0 DEF Counts
<1>. HIDE DEF Of, OfNext
<1>3. ASSUME UNCHANGED <<buf, bql>>,
             poll' = poll \/ (poll'.done = NoneDone /\ poll'.left \in 0..Budget
                              /\ poll.done = NoneDone)
      PROVE  Counts'
  <2>1. \A m \in Macs : NoneDone[m] = 0
    BY DEF NoneDone
  <2>. QED  BY <1>0, <1>3, <2>1 DEF Counts
<1>4. CASE UNCHANGED <<buf, bql, poll>>
  BY <1>3, <1>4
<1>5. CASE Irq \/ PollAck \/ PollRead \/ PollWake \/ PollAgain \/ PollEnd
  <2>1. UNCHANGED <<buf, bql>>
    BY <1>5 DEF Irq, PollAck, PollRead, PollWake, PollAgain, PollEnd
  <2>2. poll.pc # "loop"
    BY <1>5 DEF Irq, PollAck, PollRead, PollWake, PollAgain, PollEnd, PollGoes, IInv, Lifetime
  <2>3. poll.done = NoneDone
    BY <1>0, <2>2 DEF Counts
  <2>4. CASE Irq \/ PollRead \/ PollAgain \/ PollEnd
    <3>1. \/ poll' = PollIdle \/ poll' = [PollIdle EXCEPT !.pc = "ack"]
          \/ poll' = [PollIdle EXCEPT !.pc = "loop", !.dma = drx]
      BY <2>4 DEF Irq, PollRead, PollAgain, PollEnd
    <3>2. PollIdle \in PollType /\ PollIdle.done = NoneDone /\ PollIdle.left = Budget
      BY IdleTypes DEF PollIdle
    <3>3. poll'.done = NoneDone /\ poll'.left = Budget
      BY <3>1, <3>2 DEF PollType
    <3>. QED  BY <1>0, <1>3, <2>1, <2>3, <3>3
  <2>5. CASE PollAck \/ PollWake
    <3>1. poll'.done = poll.done /\ poll'.left = poll.left
      BY <1>0, <2>5 DEF PollAck, PollWake, PollGoes, PollType
    <3>. QED  BY <1>0, <1>3, <2>1, <2>3, <3>1
  <2>. QED  BY <1>5, <2>4, <2>5
<1>6. CASE XmitMap
  <2>. DEFINE d == xmit.dev
              T == Taken(xmit.n)
  <2>1. T \cap InRing = {} /\ T \subseteq Slots /\ next \in T
    BY <1>6, MapRing
  <2>2. /\ buf' = [i \in Slots |-> IF i = next THEN d
                                   ELSE IF i \in T THEN Dummy ELSE buf[i]]
        /\ bql' = [bql EXCEPT ![d] = @ + 1] /\ poll' = poll
    BY <1>6 DEF XmitMap
  <2>. HIDE DEF d, T
  <2>3. \A i \in T : buf[i] = NoSkb
    BY <2>1 DEF InRing
  <2>4. d \in Macs
    BY <1>0 DEF d
  <2>5. ASSUME NEW m \in Macs
        PROVE  bql'[m] = Cardinality(OfNext(m)) + poll.done[m]
    <3>1. CASE m = d
      <4>1. OfNext(m) = Of(m) \cup {next} /\ next \notin Of(m)
        BY <1>0, <2>1, <2>2, <2>3, <3>1 DEF Of, OfNext
      <4>2. Cardinality(Of(m) \cup {next}) = Cardinality(Of(m)) + 1
        BY <1>1, <4>1, FS_AddElement
      <4>3. bql'[m] = bql[m] + 1
        BY <1>0, <2>2, <2>4, <3>1
      <4>4. bql[m] = Cardinality(Of(m)) + poll.done[m] /\ Cardinality(Of(m)) \in Nat
        BY <1>1, <1>2
      <4>5. poll.done[m] \in Nat
        BY <1>0
      <4>. QED  BY <4>1, <4>2, <4>3, <4>4, <4>5
    <3>2. CASE m # d
      <4>1. OfNext(m) = Of(m)
        BY <1>0, <2>1, <2>2, <2>3, <3>2 DEF Of, OfNext
      <4>2. bql'[m] = bql[m]
        BY <1>0, <2>2, <2>4, <3>2
      <4>. QED  BY <1>2, <4>1, <4>2
    <3>. QED  BY <3>1, <3>2
  <2>. QED  BY <1>0, <2>2, <2>5 DEF Counts, OfNext
<1>7. CASE PollReclaim
  <2>. DEFINE s == Succ(last)
              p == buf[s]
  <2>1. s \in Slots /\ buf' = [buf EXCEPT ![s] = NoSkb] /\ UNCHANGED bql
    BY <1>7, ReclaimFacts
  <2>2. /\ poll.pc = "loop" /\ poll.left > 0
        /\ poll' = IF p \in Macs THEN [poll EXCEPT !.done[p] = @ + 1, !.left = @ - 1]
                   ELSE poll
    BY <1>7 DEF PollReclaim, LoopGoes
  <2>. HIDE DEF s
  <2>3. CASE p \notin Macs
    <3>1. \A m \in Macs : OfNext(m) = Of(m)
      BY <1>0, <2>1, <2>3 DEF Of, OfNext
    <3>. QED  BY <1>0, <1>2, <2>1, <2>2, <2>3, <3>1 DEF Counts, Of, OfNext
  <2>4. CASE p \in Macs
    <3>. HIDE DEF p
    <3>1. /\ poll'.pc = poll.pc /\ poll'.left = poll.left - 1
          /\ poll'.done = [poll.done EXCEPT ![p] = poll.done[p] + 1]
      BY <1>0, <2>2, <2>4 DEF PollType
    <3>2. ASSUME NEW m \in Macs
          PROVE  /\ bql[m] = Cardinality(OfNext(m)) + poll'.done[m]
                 /\ poll'.done[m] + poll'.left <= Budget
      <4>0. /\ poll.done[m] \in Nat /\ poll.left \in Nat /\ Cardinality(Of(m)) \in Nat
            /\ bql[m] = Cardinality(Of(m)) + poll.done[m]
            /\ poll.done[m] + poll.left <= Budget
        BY <1>0, <1>1, <1>2
      <4>1. CASE m = p
        <5>1. OfNext(m) = Of(m) \ {s} /\ s \in Of(m)
          BY <1>0, <2>1, <4>1 DEF p, Of, OfNext
        <5>2. Cardinality(Of(m) \ {s}) = Cardinality(Of(m)) - 1
          BY <1>1, <5>1, FS_RemoveElement
        <5>3. poll'.done[m] = poll.done[m] + 1
          BY <1>0, <2>4, <3>1, <4>1
        <5>. QED  BY <1>0, <3>1, <4>0, <5>1, <5>2, <5>3
      <4>2. CASE m # p
        <5>1. OfNext(m) = Of(m)
          BY <1>0, <2>1, <4>2 DEF p, Of, OfNext
        <5>2. poll'.done[m] = poll.done[m]
          BY <1>0, <2>4, <3>1, <4>2
        <5>. QED  BY <1>0, <3>1, <4>0, <5>1, <5>2
      <4>. QED  BY <4>1, <4>2
    <3>. QED  BY <2>1, <2>2, <3>1, <3>2 DEF Counts, OfNext
  <2>. QED  BY <2>3, <2>4
<1>8. CASE PollComplete
  <2>1. /\ buf' = buf /\ bql' = [m \in Macs |-> bql[m] - poll.done[m]]
        /\ poll'.done = NoneDone /\ poll'.left = poll.left
    BY <1>0, <1>8 DEF PollComplete, PollType
  <2>2. ASSUME NEW m \in Macs
        PROVE  /\ bql'[m] = Cardinality(Of(m)) + poll'.done[m]
               /\ poll'.done[m] + poll'.left <= Budget
    <3>1. NoneDone[m] = 0 /\ bql'[m] = bql[m] - poll.done[m]
      BY <2>1 DEF NoneDone
    <3>2. poll.done[m] \in Nat /\ Cardinality(Of(m)) \in Nat
      BY <1>0, <1>1
    <3>. QED  BY <1>0, <1>2, <2>1, <3>1, <3>2
  <2>. QED  BY <1>8, <2>1, <2>2 DEF Counts, Of
<1>9. ASSUME buf' = EmptyBuf, bql' = NoneDone \/ (bql' = bql /\ buf = EmptyBuf),
             poll' = poll, poll.pc = "idle"
      PROVE  Counts'
  <2>1. poll.done = NoneDone
    BY <1>0, <1>9 DEF Counts
  <2>2. ASSUME NEW m \in Macs
        PROVE  bql'[m] = Cardinality(OfNext(m)) + poll.done[m]
    <3>1. CASE buf = EmptyBuf /\ bql' = bql
      BY <1>2, <1>9, <3>1 DEF Of, OfNext
    <3>2. CASE bql' = NoneDone
      <4>1. OfNext(m) = {}
        BY <1>0, <1>9 DEF EmptyBuf, OfNext
      <4>2. Cardinality({}) = 0
        BY FS_EmptySet
      <4>. QED  BY <2>1, <3>2, <4>1, <4>2 DEF NoneDone
    <3>. QED  BY <1>9, <3>1, <3>2
  <2>. QED  BY <1>0, <1>9, <2>1, <2>2 DEF Counts, OfNext
<1>10. ASSUME NEW m \in Macs, OpenDev(m), job.pc \in {"idle", "open"} PROVE Counts'
  <2>1. CASE FirstUser
    <3>1. poll.pc = "idle" /\ buf = EmptyBuf
      BY <1>0, <1>10, <2>1 DEF FirstUser, Lifetime
    <3>. QED  BY <1>9, <1>10, <2>1, <3>1 DEF OpenDev
  <2>2. CASE ~FirstUser
    BY <1>3, <1>10, <2>2 DEF OpenDev
  <2>. QED  BY <2>1, <2>2
<1>11. CASE \E m \in Macs : NdoOpen(m)
  BY <1>10, <1>11 DEF NdoOpen, NoJob
<1>12. CASE ResetOpen
  <2>1. job.dev \in Macs
    BY <1>0 DEF JobType
  <2>. QED  BY <1>10, <1>12, <2>1 DEF ResetOpen
<1>13. CASE StopFree
  <2>1. poll.pc = "idle"
    BY <1>0, <1>13 DEF StopFree, Lifetime
  <2>. QED  BY <1>9, <1>13, <2>1 DEF StopFree, ResetQueues
<1>14. Next => \/ UNCHANGED <<buf, bql, poll>>
               \/ XmitMap \/ Irq \/ Poll
               \/ \E m \in Macs : NdoOpen(m)
               \/ StopFree \/ ResetOpen
  BY DEF Next, XmitEnter, Transmit, XmitDrop, XmitCheck, XmitStop, Send, IrqEnable, NdoStop,
         Watchdog, Stop, StopDisable, StopNapi, StopDma, ResetBegin, Reset, ResetHw,
         ResetOpenFails, ResetDone
<1>. QED
  BY <1>4, <1>5, <1>6, <1>7, <1>8, <1>11, <1>12, <1>13, <1>14 DEF Poll, vars

-----------------------------------------------------------------------------
(* The invariant, and what follows from it.                                *)

(* The driver starts with both devices down and no ring.                   *)
LEMMA InitInv == Init => IInv
<1>. SUFFICES ASSUME Init PROVE IInv
  OBVIOUS
<1>. USE Sizing DEF Init
<1>1. TypeOK
  <2>1. /\ EmptyBuf \in [Slots -> Macs \cup {NoSkb, Dummy}]
        /\ NoneDone \in [Macs -> 0..(N - 2 + Budget)]
        /\ [m \in Macs |-> FALSE] \in [Macs -> BOOLEAN]
    BY DEF EmptyBuf, NoneDone
  <2>2. PollIdle \in PollType /\ XmitIdle \in XmitType /\ NoJob \in JobType
    BY IdleTypes
  <2>3. /\ buf \in [Slots -> Macs \cup {NoSkb, Dummy}]
        /\ next \in Slots /\ last \in Slots /\ free \in 0..(N - 2)
        /\ own \in SUBSET Slots
        /\ ctx \in Slots \cup {Nowhere} /\ drx \in Slots \cup {Nowhere}
        /\ napi \in {"off", "idle", "sched"}
        /\ bql \in [Macs -> 0..(N - 2 + Budget)] /\ refcnt \in Nat
    BY <2>1
  <2>4. /\ alive \in BOOLEAN /\ dmaOn \in BOOLEAN /\ status \in BOOLEAN
        /\ mask \in BOOLEAN /\ enabling \in BOOLEAN /\ missed \in BOOLEAN
        /\ resetting \in BOOLEAN /\ work \in BOOLEAN
        /\ stopped \in [Macs -> BOOLEAN] /\ up \in [Macs -> BOOLEAN]
    BY <2>1
  <2>. QED  BY <2>2, <2>3, <2>4, TypesAre DEF Types
<1>2. NoJob.op = "none" /\ NoJob.pc = "idle" /\ PollIdle.pc = "idle"
      /\ XmitIdle.pc = "idle" /\ PollIdle.done = NoneDone /\ PollIdle.left = Budget
  BY DEF NoJob, PollIdle, XmitIdle, XmitAt
<1>3. JobShape /\ Lifetime /\ Transmitter /\ References /\ RingOrder /\ ResetOrder
  BY <1>2 DEF JobShape, Lifetime, Transmitter, References, RingOrder, ResetOrder
<1>4. Waking
  BY DEF Waking
<1>5. Counts
  <2>1. ASSUME NEW m \in Macs
        PROVE  bql[m] = Cardinality({i \in Slots : buf[i] = m}) + poll.done[m]
    <3>1. {i \in Slots : buf[i] = m} = {}
      BY DEF EmptyBuf
    <3>2. Cardinality({i \in Slots : buf[i] = m}) = 0
      BY <3>1, FS_EmptySet
    <3>3. bql[m] = 0 /\ poll.done[m] = 0
      BY <1>2 DEF NoneDone
    <3>. QED  BY <3>2, <3>3
  <2>2. \A m \in Macs : poll.done[m] + poll.left <= Budget
    BY <1>2 DEF NoneDone
  <2>. QED  BY <1>2, <2>1, <2>2 DEF Counts
<1>. QED  BY <1>1, <1>3, <1>4, <1>5 DEF IInv

(* The inductive invariant holds in every state of the driver.             *)
LEMMA TxInvariant == Spec => []IInv
<1>1. Init => IInv
  BY InitInv
<1>2. IInv /\ [Next]_vars => IInv'
  BY NextType, NextJobShape, NextLifetime, NextTransmitter, NextReferences,
     NextRingOrder, NextCounts, NextResetOrder, NextWaking DEF IInv
<1>. QED  BY <1>1, <1>2, PTL DEF Spec

(* The variables keep their types; free_count and the stack's counts of    *)
(* unfinished packets keep their bounds, however start_xmit, the poll, the *)
(* DMA, opens, stops and resets interleave.                                *)
THEOREM TxTypeCorrect == Spec => []TypeOK
<1>1. IInv => TypeOK
  BY DEF IInv
<1>. QED  BY <1>1, TxInvariant, PTL

(* No transmitter and no poll works on a ring that mtk_stop has freed, as  *)
(* long as the devices' references are all there, and mtk_open finds a     *)
(* ring exactly when somebody has a reference to it.                       *)
THEOREM RingOutlivesUsers == Spec => []RingAlive
<1>1. ASSUME IInv PROVE RingAlive
  <2>0. /\ TypeOK /\ JobShape /\ Lifetime /\ Transmitter /\ References
        /\ job \in JobType /\ up \in [Macs -> BOOLEAN] /\ xmit.dev \in Macs
        /\ refcnt \in Nat /\ NoJob.op = "none" /\ NoJob.pc = "idle"
    BY <1>1, TypesAre DEF IInv, Types, XmitType, NoJob
  <2>1. Users \in Nat /\ (xmit.pc = "map" => Users >= 1)
    BY <2>0, UsersCount DEF Transmitter
  <2>2. poll.pc # "idle" => alive
    BY <2>0 DEF Lifetime
  <2>3. ASSUME Drift >= 0, xmit.pc = "map" PROVE alive
    <3>1. CASE job = NoJob
      BY <2>0, <2>1, <2>3, <3>1 DEF Drift, Lifetime
    <3>2. CASE job.op = "close" /\ job.pc = "disable"
      <4>1. Drift = refcnt - Users - 1
        BY <2>0, <3>2 DEF Drift, References
      <4>. QED  BY <2>0, <2>1, <2>3, <3>2, <4>1 DEF Lifetime
    <3>3. CASE job.pc \in {"napi", "dma", "free"}
      BY <2>0, <3>3 DEF Lifetime
    <3>4. CASE job.op = "reset"
      BY <2>0, <2>3, <3>4 DEF Drift, References
    <3>. QED  BY <2>0, <3>1, <3>2, <3>3, <3>4 DEF JobShape
  <2>4. job.pc \in {"idle", "open"} =>
          ((refcnt > 0) <=> alive) /\ ((refcnt > 0) <=> (napi # "off"))
    BY <2>0 DEF Lifetime
  <2>. QED  BY <2>2, <2>3, <2>4 DEF RingAlive
<1>. QED  BY <1>1, TxInvariant, PTL

(* The lock-free ring adds up: the buffers in use are those between        *)
(* last_free and next_free, free_count counts the rest, no buffer is given *)
(* back while the DMA owns it, and the stack's count of unfinished packets *)
(* is what the ring and the poll hold.                                     *)
THEOREM RingAddsUp == Spec => []Accounting
<1>1. ASSUME IInv PROVE Accounting
  <2>0. /\ last \in Slots /\ next \in Slots /\ N \in Nat
    BY <1>1, Sizing DEF IInv, TypeOK
  <2>1. ASSUME alive
        PROVE  /\ InRing = Between(last, next)
               /\ free = N - 2 - Cardinality(InRing)
               /\ dmaOn => own \subseteq InRing
    <3>1. /\ Ahead(last, next) >= 1 /\ free = N - 1 - Ahead(last, next)
          /\ InRing = Between(last, next)
      BY <1>1, <2>1 DEF IInv, RingOrder
    <3>2. Ahead(last, next) \in Nat /\ Cardinality(InRing) = Ahead(last, next) - 1
      BY <2>0, <3>1, AheadIs, BetweenCard
    <3>3. ASSUME dmaOn, NEW i \in own PROVE i \in InRing
      <4>1. /\ drx \in Slots /\ i \in Between(drx, next)
            /\ Ahead(last, drx) + Ahead(drx, next) = Ahead(last, next)
        BY <1>1, <3>3 DEF IInv, RingOrder
      <4>2. i \in Slots /\ Ahead(drx, i) \in 1..(Ahead(drx, next) - 1)
        BY <4>1 DEF Between
      <4>3. /\ Ahead(last, drx) \in Nat /\ Ahead(drx, next) \in Nat
            /\ Ahead(last, i) \in Nat /\ Ahead(drx, i) \in Nat
            /\ Ahead(last, next) < N
        BY <2>0, <4>1, <4>2, AheadIs
      <4>4. \/ Ahead(last, drx) + Ahead(drx, i) = Ahead(last, i)
            \/ Ahead(last, drx) + Ahead(drx, i) = Ahead(last, i) + N
        BY <2>0, <4>1, <4>2, <4>3, RingChain
      <4>5. Ahead(last, i) \in 1..(Ahead(last, next) - 1)
        BY <2>0, <4>1, <4>2, <4>3, <4>4
      <4>. QED  BY <3>1, <4>2, <4>5, InBetween
    <3>4. free = N - 2 - Cardinality(InRing)
      BY <2>0, <3>1, <3>2
    <3>. QED  BY <3>1, <3>3, <3>4
  <2>2. \A m \in Macs :
          bql[m] = Cardinality({i \in Slots : buf[i] = m}) + poll.done[m]
    BY <1>1 DEF IInv, Counts
  <2>. QED  BY <2>1, <2>2 DEF Accounting
<1>. QED  BY <1>1, TxInvariant, PTL

(* No queue of a device that is up is left stopped with nothing under way  *)
(* to wake it, but for the two cases the watchdog is for: a wake-up that   *)
(* fell between a transmitter's look at free_count and its stop, and       *)
(* packets that were never given to the DMA.                               *)
THEOREM QueuesAreWoken == Spec => []WokenUnlessMissed
<1>1. ASSUME IInv PROVE WokenUnlessMissed
  <2>. SUFFICES ASSUME NEW m \in Macs, Quiet, up[m], stopped[m], ~missed, ctx = next,
                       ~(Drift < 0)
                PROVE  FALSE
    BY DEF WokenUnlessMissed
  <2>0. /\ job = NoJob /\ napi = "idle" /\ dmaOn /\ Succ(drx) = ctx /\ last = drx
        /\ last \in Slots /\ N \in Nat /\ N >= 3 /\ free \in 0..(N - 2) /\ Drift \in Int
        /\ NoJob.op = "none"
    BY <1>1, Sizing, DriftType DEF Quiet, IInv, TypeOK, NoJob
  <2>1. alive /\ poll.pc = "idle"
    BY <1>1, <2>0 DEF IInv, Lifetime
  <2>2. free = N - 1 - Ahead(last, next)
    BY <1>1, <2>1 DEF IInv, RingOrder
  <2>3. Ahead(last, last) = 0
    BY <2>0, RingMoves
  <2>4. Ahead(last, Succ(last)) = 1
    BY <2>0, <2>3, RingMoves
  <2>5. free = N - 2
    BY <2>0, <2>2, <2>4
  <2>6. free < N - 2 \/ poll.pc \in {"loop", "wake"}
    BY <1>1, <2>0 DEF IInv, Waking
  <2>. QED  BY <2>0, <2>1, <2>5, <2>6
<1>. QED  BY <1>1, TxInvariant, PTL

=============================================================================
