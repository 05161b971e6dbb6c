--------------------------- MODULE UITimerProofs ---------------------------
(***************************************************************************)
(* Proofs about UITimer, for any number of timers, client threads,         *)
(* addresses and add calls.                                                *)
(***************************************************************************)
EXTENDS UITimer, TLAPS

USE DEF lists, mem, hand, callers, history

(* The deadlines the code computes are struct timevals.                    *)
LEMMA TimevalTypes ==
  ASSUME NEW tv \in Timeval, NEW len \in Nat
  PROVE  /\ AddTimeout(tv, len) \in Timeval
         /\ RearmTimeout(tv, len) \in Timeval
         /\ Ticks(tv) \in Nat
<1>1. SEC \in Nat /\ SEC > 0
  BY ConstantsAssumption
<1>2. \A n \in Nat : n \div SEC \in Nat /\ n % SEC \in Nat
  BY <1>1
<1>. QED  BY <1>1, <1>2 DEF AddTimeout, RearmTimeout, Ticks, Timeval

(* The clock of the library gives a second and microseconds within it.     *)
LEMMA UptimeType == now \in Nat => SystemUptime \in Timeval
<1>1. SEC \in Nat /\ SEC > 0
  BY ConstantsAssumption
<1>. QED  BY <1>1 DEF SystemUptime, Timeval

----------------------------------------------------------------------------
(* Type correctness *)

(* The constants that stand for no block and no element.                   *)
LEMMA NullBlockOK == NullBlock \in Block /\ NoElem.ptr = NoPtr
BY ConstantsAssumption DEF NullBlock, Block, Timeval, Statuses, NoElem

(* The types hold when the library is loaded.                              *)
LEMMA InitType == Init => TypeOK
<1>. SUFFICES ASSUME Init PROVE TypeOK
  OBVIOUS
<1>. USE DEF Init
<1>1. now \in 0 .. MaxNow /\ arms \in 0 .. MaxArm
  BY ConstantsAssumption
<1>2. tval \in Timeval
  BY DEF Timeval
<1>3. /\ blk \in [Ptr -> Block] /\ call \in [Threads -> Calls]
      /\ work \in [Threads -> Works]
  BY NullBlockOK DEF Calls, Works
<1>4. fires \in [Arms -> Nat]
  OBVIOUS
<1>. QED  BY <1>1, <1>2, <1>3, <1>4 DEF TypeOK

(* The lock and the unlock of an API function keep the types.              *)
LEMMA SectionType ==
  ASSUME TypeOK, NEW t \in Threads
  PROVE  /\ \A op \in Api \ {"UITimer_Destory"}, found \in SUBSET Ptr :
              Begin(t, op, found) => /\ mutex' \in Threads \cup {NoThread}
                                     /\ work' \in [Threads -> Works]
         /\ End(t) => /\ mutex' \in Threads \cup {NoThread}
                      /\ work' \in [Threads -> Works]
         /\ work[t].found \subseteq Ptr
<1>1. \A op \in Api \ {"UITimer_Destory"}, found \in SUBSET Ptr :
        [op |-> op, found |-> found] \in Works
  BY DEF Works
<1>2. NoWork \in Works /\ work[t] \in Works /\ work \in [Threads -> Works]
  BY DEF Works, TypeOK
<1>3. work[t].found \subseteq Ptr
  BY <1>2 DEF Works, NoWork
<1>. QED  BY <1>1, <1>2, <1>3 DEF Begin, End, Lock, Unlock

(* Every step keeps the types, whatever the callers do.                    *)
LEMMA NextType == TypeOK /\ [Next]_vars => TypeOK'
<1>. SUFFICES ASSUME TypeOK, [Next]_vars PROVE TypeOK'
  OBVIOUS
<1>. USE DEF TypeOK
<1>1. CASE UNCHANGED vars
  BY <1>1 DEF vars
<1>2. CASE Tick
  BY <1>2, ConstantsAssumption DEF Tick
<1>3. CASE TimerStep
  <2>1. CASE ProcStart
    <3>1. OwnedByTemp \cap alloc \subseteq Ptr
      OBVIOUS
    <3>. QED  BY <2>1, <3>1 DEF ProcStart
  <2>2. CASE ProcTop
    BY <2>2, UptimeType DEF ProcTop
  <2>3. CASE ProcLock
    BY <2>3 DEF ProcLock, Lock, Threads
  <2>4. CASE ScanOneShot
    BY <2>4 DEF ScanOneShot
  <2>5. CASE MoveOneShot
    <3>1. scan \in Ptr
      BY <2>5 DEF MoveOneShot
    <3>2. OneShotElem(blk[scan]) \in Element
      BY <3>1 DEF OneShotElem, Element
    <3>3. alloc' \subseteq Ptr /\ blk' \in [Ptr -> Block]
      BY <2>5, NullBlockOK DEF MoveOneShot, Free
    <3>. QED  BY <2>5, <3>2, <3>3 DEF MoveOneShot
  <2>6. CASE ScanOneShotEnd
    BY <2>6 DEF ScanOneShotEnd
  <2>7. CASE ScanPeriodic
    <3>1. scan' \in Ptr
      BY <2>7 DEF ScanPeriodic, ToScan
    <3>. QED  BY <2>7, <3>1 DEF ScanPeriodic
  <2>8. CASE MarkPeriodic
    <3>1. scan \in Ptr
      BY <2>8 DEF MarkPeriodic
    <3>2. PeriodicElem(scan) \in Element
      BY <3>1 DEF PeriodicElem, Element
    <3>3. blk' \in [Ptr -> Block]
      BY <2>8, <3>1 DEF MarkPeriodic, Block, Statuses
    <3>. QED  BY <2>8, <3>2, <3>3 DEF MarkPeriodic
  <2>9. CASE ScanPeriodicEnd
    BY <2>9 DEF ScanPeriodicEnd, Unlock
  <2>10. CASE TempDone
    BY <2>10 DEF TempDone
  <2>11. CASE TakeOneShot
    BY <2>11 DEF TakeOneShot
  <2>12. CASE TakePeriodic
    BY <2>12 DEF TakePeriodic, Lock, Threads
  <2>13. CASE Rearm
    <3>1. /\ cur.ptr \in Ptr
          /\ \/ blk' = [blk EXCEPT
                    ![cur.ptr].timeout = RearmTimeout(tval, blk[cur.ptr].TimerLen),
                    ![cur.ptr].status = "IDLE",
                    ![cur.ptr].due = Ticks(tval) + blk[cur.ptr].TimerLen]
             \/ blk' = blk
          /\ tpc' \in {"fn", "after"}
      BY <2>13 DEF Rearm
    <3>2. blk[cur.ptr].TimerLen \in Nat
      BY <3>1 DEF Block
    <3>3. /\ RearmTimeout(tval, blk[cur.ptr].TimerLen) \in Timeval
          /\ Ticks(tval) \in Nat
      BY <3>2, TimevalTypes
    <3>4. Ticks(tval) + blk[cur.ptr].TimerLen \in Nat
      BY <3>2, <3>3
    <3>5. blk' \in [Ptr -> Block]
      BY <3>1, <3>3, <3>4 DEF Block, Statuses
    <3>. QED  BY <2>13, <3>1, <3>5 DEF Rearm, Unlock
  <2>14. CASE CallFn
    <3>1. fires' \in [Arms -> Nat]
      <4>1. \A a \in Arms : fires[a] + 1 \in Nat
        OBVIOUS
      <4>. QED  BY <2>14, <4>1 DEF CallFn
    <3>. QED  BY <2>14, <3>1 DEF CallFn
  <2>15. CASE CallbackReturn
    BY <2>15 DEF CallbackReturn
  <2>16. CASE AfterFn
    <3>1. alloc' \subseteq Ptr /\ blk' \in [Ptr -> Block]
      BY <2>16, NullBlockOK DEF AfterFn, Free
    <3>. QED  BY <2>16, <3>1 DEF AfterFn
  <2>. QED  BY <1>3, <2>1, <2>2, <2>3, <2>4, <2>5, <2>6, <2>7, <2>8, <2>9, <2>10,
               <2>11, <2>12, <2>13, <2>14, <2>15, <2>16 DEF TimerStep
<1>4. CASE MainStep
  <2>1. CASE UITimer_Init
    <3>1. ArmsOf(oneshot) \subseteq 0 .. MaxArm
      BY DEF ArmsOf, Block
    <3>. QED  BY <2>1, <3>1 DEF UITimer_Init
  <2>2. CASE UITimer_Destory
    <3>1. ArmsOf(oneshot) \subseteq 0 .. MaxArm
      BY DEF ArmsOf, Block
    <3>. QED  BY <2>2, <3>1, NullBlockOK DEF UITimer_Destory, DelAll, Free
  <2>3. CASE DestoryStop
    BY <2>3 DEF DestoryStop
  <2>4. CASE DestoryUnlock
    BY <2>4 DEF DestoryUnlock, Unlock
  <2>5. CASE DestoryJoin
    BY <2>5 DEF DestoryJoin
  <2>. QED  BY <1>4, <2>1, <2>2, <2>3, <2>4, <2>5 DEF MainStep
<1>5. ASSUME NEW t \in Threads, ApiCall(t) PROVE TypeOK'
  <2>1. ASSUME NEW kind \in Kinds, NEW id \in Ids, NEW len \in Lens,
               AddCall(t, kind, id, len)
        PROVE  TypeOK'
    <3>1. PICK p \in Ptr \ alloc :
            /\ alloc' = alloc \cup {p}
            /\ blk' = [blk EXCEPT ![p] =
                    [id |-> id, TimerLen |-> len, status |-> "IDLE",
                     timeout |-> AddTimeout(SystemUptime, len),
                     arm |-> arms + 1, due |-> now + len]]
            /\ call' = [call EXCEPT ![t] = [kind |-> kind, ptr |-> p]]
      BY <2>1 DEF AddCall
    <3>2. len \in Nat /\ now \in Nat
      BY ConstantsAssumption
    <3>3. AddTimeout(SystemUptime, len) \in Timeval
      BY <3>2, UptimeType, TimevalTypes
    <3>4. arms + 1 \in 0 .. MaxArm
      BY <2>1, ConstantsAssumption DEF AddCall
    <3>5. [id |-> id, TimerLen |-> len, status |-> "IDLE",
           timeout |-> AddTimeout(SystemUptime, len),
           arm |-> arms + 1, due |-> now + len] \in Block
      BY <3>2, <3>3, <3>4 DEF Block, Statuses
    <3>6. blk' \in [Ptr -> Block]
      BY <3>1, <3>5
    <3>7. call' \in [Threads -> Calls]
      BY <3>1 DEF Calls
    <3>. QED  BY <2>1, <3>1, <3>4, <3>6, <3>7 DEF AddCall
  <2>2. \A op, id : WithId(ListOf(op), id) \in SUBSET Ptr
    BY DEF WithId, ListOf
  <2>3. CASE AddSearch(t)
    <3>1. AddOp(call[t].kind) \in Api \ {"UITimer_Destory"}
      BY DEF AddOp, Api
    <3>. QED  BY <2>2, <2>3, <3>1, SectionType DEF AddSearch
  <2>4. ASSUME NEW op \in {"UIDelTimer", "UIDelPeriodicTimer",
                           "UIDelPeriodicTimer_retDataPtr"},
               NEW id \in Ids, DelSearch(t, op, id)
        PROVE  TypeOK'
    <3>1. op \in Api \ {"UITimer_Destory"}
      BY DEF Api
    <3>2. Expiring(id) \subseteq 0 .. MaxArm
      BY ConstantsAssumption DEF Expiring, Arms
    <3>. QED  BY <2>2, <2>4, <3>1, <3>2, SectionType DEF DelSearch
  <2>5. CASE DelAllLock(t)
    <3>1. "UIDelAllTimer" \in Api \ {"UITimer_Destory"} /\ {} \in SUBSET Ptr
      BY DEF Api
    <3>. QED  BY <2>5, <3>1, SectionType DEF DelAllLock
  <2>. QED  BY <1>5, <2>1, <2>3, <2>4, <2>5 DEF ApiCall, AddLock, Kinds
<1>6. ASSUME NEW t \in Threads, ApiWork(t) PROVE TypeOK'
  <2>1. /\ End(t) => /\ mutex' \in Threads \cup {NoThread}
                     /\ work' \in [Threads -> Works]
        /\ work[t].found \subseteq Ptr
    BY SectionType
  <2>2. ASSUME NEW p, NEW q \in Ptr, Overwrite(p, q), p \in Ptr
        PROVE  blk' \in [Ptr -> Block]
    <3>1. blk' = [blk EXCEPT ![q] =
                    [blk[q] EXCEPT !.timeout = blk[p].timeout, !.status = "IDLE",
                                   !.arm = blk[p].arm, !.due = blk[p].due]]
      BY <2>2 DEF Overwrite
    <3>2. [blk[q] EXCEPT !.timeout = blk[p].timeout, !.status = "IDLE",
                         !.arm = blk[p].arm, !.due = blk[p].due] \in Block
      BY <2>2 DEF Block, Statuses
    <3>. QED  BY <3>1, <3>2
  <2>3. CASE UIAddTimer(t)
    <3>. DEFINE p == call[t].ptr
    <3>1. p \in Ptr
      BY <2>3 DEF UIAddTimer
    <3>2. call' \in [Threads -> Calls]
      BY <2>3 DEF UIAddTimer, Calls
    <3>3. /\ oneshot' \subseteq Ptr /\ leaked' \subseteq Ptr
          /\ blk' \in [Ptr -> Block] /\ cancelled' \subseteq 0 .. MaxArm
      <4>1. CASE /\ oneshot' = oneshot \cup {p}
                 /\ UNCHANGED <<blk, cancelled, leaked>>
        BY <4>1, <3>1
      <4>2. CASE \E q \in work[t].found :
                   /\ Overwrite(p, q)
                   /\ cancelled' = cancelled \cup {blk[q].arm}
                   /\ leaked' = leaked \cup {p}
                   /\ UNCHANGED oneshot
        <5>1. PICK q \in Ptr :
                   /\ Overwrite(p, q)
                   /\ cancelled' = cancelled \cup {blk[q].arm}
                   /\ leaked' = leaked \cup {p}
                   /\ UNCHANGED oneshot
          BY <4>2, <2>1
        <5>2. blk[q].arm \in 0 .. MaxArm
          BY DEF Block
        <5>. QED  BY <5>1, <5>2, <3>1, <2>2
      <4>. QED  BY <4>1, <4>2, <2>3 DEF UIAddTimer
    <3>. QED  BY <2>1, <2>3, <3>2, <3>3 DEF UIAddTimer
  <2>4. CASE UIAddPeriodicTimer(t)
    <3>. DEFINE p == call[t].ptr
    <3>1. p \in Ptr
      BY <2>4 DEF UIAddPeriodicTimer
    <3>2. call' \in [Threads -> Calls]
      BY <2>4 DEF UIAddPeriodicTimer, Calls
    <3>3. /\ periodic' \subseteq Ptr /\ leaked' \subseteq Ptr
          /\ blk' \in [Ptr -> Block]
      <4>1. CASE /\ periodic' = periodic \cup {p}
                 /\ UNCHANGED <<blk, leaked>>
        BY <4>1, <3>1
      <4>2. CASE \E q \in work[t].found :
                   /\ Overwrite(p, q)
                   /\ leaked' = leaked \cup {p}
                   /\ UNCHANGED periodic
        BY <4>2, <3>1, <2>1, <2>2
      <4>. QED  BY <4>1, <4>2, <2>4 DEF UIAddPeriodicTimer
    <3>. QED  BY <2>1, <2>4, <3>2, <3>3 DEF UIAddPeriodicTimer
  <2>5. CASE UIDelTimer(t)
    <3>1. ArmsOf(work[t].found) \subseteq 0 .. MaxArm
      BY <2>1 DEF ArmsOf, Block
    <3>2. alloc' \subseteq Ptr /\ blk' \in [Ptr -> Block]
      BY <2>5, NullBlockOK DEF UIDelTimer, Free
    <3>. QED  BY <2>1, <2>5, <3>1, <3>2 DEF UIDelTimer
  <2>6. CASE UIDelPeriodicTimer(t) \/ UIDelPeriodicTimer_retDataPtr(t)
    <3>1. \A p \in Ptr : [blk[p] EXCEPT !.status = "DEL"] \in Block
      BY DEF Block, Statuses
    <3>2. blk' \in [Ptr -> Block]
      BY <2>6, <3>1, NullBlockOK
         DEF UIDelPeriodicTimer, UIDelPeriodicTimer_retDataPtr
    <3>. QED  BY <2>1, <2>6, <3>2
                 DEF UIDelPeriodicTimer, UIDelPeriodicTimer_retDataPtr
  <2>7. CASE UIDelAllTimer(t)
    <3>1. ArmsOf(oneshot) \subseteq 0 .. MaxArm
      BY DEF ArmsOf, Block
    <3>. QED  BY <2>1, <2>7, <3>1, NullBlockOK DEF UIDelAllTimer, DelAll, Free
  <2>. QED  BY <1>6, <2>3, <2>4, <2>5, <2>6, <2>7 DEF ApiWork
<1>. QED  BY <1>1, <1>2, <1>3, <1>4, <1>5, <1>6 DEF Next

(* Every variable keeps its type: in particular the deadlines stay struct  *)
(* timevals with no negative part, whatever callers and callbacks do.      *)
THEOREM TypeCorrect == Spec => []TypeOK
<1>1. Init => TypeOK
  BY InitType
<1>2. TypeOK /\ [Next]_vars => TypeOK'
  BY NextType
<1>. QED  BY <1>1, <1>2, PTL DEF Spec

----------------------------------------------------------------------------
(* Mutual exclusion. SectionsExclude is not inductive: whoever is in a     *)
(* section holds timerMutex, except that UITimer_Destory may have taken it *)
(* from the timer thread, and then the clients have nothing under way and  *)
(* call nothing; and UITimer_Init makes a new mutex only when no timer     *)
(* thread is left.                                                         *)

Exclusive ==
  /\ (~running /\ mpc = "idle") => tpc = "none"
  /\ \A t \in Threads :
       InSection(t) => (mutex = t \/ (mpc = "join" /\ t = TimerThread))
  /\ mpc # "idle" => Quiet
  /\ (call[TimerThread] # NotCalling \/ work[TimerThread] # NoWork)
        => tpc = "callback"

(* Nobody is not a thread, and the timer thread is not a client.           *)
LEMMA ThreadFacts ==
  /\ NoThread \notin Threads
  /\ TimerThread \in Threads /\ TimerThread \notin Clients
  /\ \A t \in Threads : t # TimerThread => t \in Clients
BY ConstantsAssumption DEF Threads, NoThread, TimerThread

(* Two threads in a section are one.                                       *)
LEMMA Alone ==
  ASSUME Exclusive, NEW t \in Threads, NEW u \in Threads,
         InSection(t), InSection(u)
  PROVE  t = u
<1>1. CASE mpc # "join"
  BY <1>1 DEF Exclusive
<1>2. CASE mpc = "join"
  <2>1. \A v \in Clients : work[v] = NoWork
    BY <1>2 DEF Exclusive, Quiet
  <2>2. t \notin Clients /\ u \notin Clients
    BY <2>1, ThreadFacts DEF InSection
  <2>. QED  BY <2>2, ThreadFacts
<1>. QED  BY <1>1, <1>2

(* While the timer thread scans or re-arms no function of the API is at    *)
(* work.                                                                   *)
LEMMA ScanAlone ==
  ASSUME Exclusive, tpc \in {"oneshot", "move", "periodic", "mark", "take"}
  PROVE  \A t \in Threads : work[t] = NoWork
<1>1. InSection(TimerThread) /\ work[TimerThread] = NoWork
  BY DEF InSection, Exclusive
<1>2. \A t \in Threads : InSection(t) => t = TimerThread
  BY <1>1, Alone, ThreadFacts
<1>. QED  BY <1>1, <1>2 DEF InSection

(* Nor when timerMutex is free, but for a callback while the library       *)
(* stops.                                                                  *)
LEMMA FreeAlone ==
  ASSUME Exclusive, mutex = NoThread
  PROVE  \A t \in Threads :
           InSection(t) => mpc = "join" /\ t = TimerThread
BY ThreadFacts DEF Exclusive

(* A function of the API that locks timerMutex is alone.                   *)
LEMMA BeginExclusive ==
  ASSUME TypeOK, Exclusive, NEW t \in Threads, NEW op, NEW found,
         Begin(t, op, found), UNCHANGED <<running, tpc, mpc, call>>,
         t = TimerThread => tpc = "callback",
         t # TimerThread => mpc = "idle"
  PROVE  Exclusive'
<1>1. /\ mutex = NoThread /\ mutex' = t /\ work[t] = NoWork
      /\ \A u \in Threads : u # t => work'[u] = work[u]
  BY DEF Begin, Lock, TypeOK
<1>2. \A u \in Threads : InSection(u) => mpc = "join" /\ u = TimerThread
  BY <1>1, FreeAlone
<1>3. ASSUME NEW u \in Threads, InSection(u)', u # t
      PROVE  mpc = "join" /\ u = TimerThread
  <2>1. InSection(u)
    BY <1>1, <1>3 DEF InSection
  <2>. QED  BY <2>1, <1>2
<1>4. (mpc # "idle" => Quiet)'
  BY <1>1, ThreadFacts DEF Exclusive, Quiet, Threads
<1>5. (call'[TimerThread] # NotCalling \/ work'[TimerThread] # NoWork)
         => tpc' = "callback"
  BY <1>1, ThreadFacts DEF Exclusive
<1>. QED  BY <1>1, <1>3, <1>4, <1>5 DEF Exclusive

(* A function of the API that unlocks it leaves nobody in a section.       *)
LEMMA EndExclusive ==
  ASSUME TypeOK, Exclusive, NEW t \in Threads, work[t] # NoWork, End(t),
         UNCHANGED <<running, tpc, mpc>>,
         \A u \in Threads : call'[u] \in {call[u], NotCalling}
  PROVE  Exclusive'
<1>1. /\ work'[t] = NoWork
      /\ \A u \in Threads : u # t => work'[u] = work[u]
  BY DEF End, TypeOK
<1>2. InSection(t) /\ \A u \in Threads : InSection(u) => u = t
  BY Alone DEF InSection
<1>3. t = TimerThread => tpc = "callback"
  BY DEF Exclusive
<1>4. \A u \in Threads : ~InSection(u)'
  <2>. SUFFICES ASSUME NEW u \in Threads, InSection(u)' PROVE FALSE
    OBVIOUS
  <2>1. CASE u = t
    BY <2>1, <1>1, <1>3 DEF InSection
  <2>2. CASE u # t
    BY <2>2, <1>1, <1>2 DEF InSection
  <2>. QED  BY <2>1, <2>2
<1>5. (mpc # "idle" => Quiet)'
  BY <1>1, ThreadFacts DEF Exclusive, Quiet, Threads
<1>6. (call'[TimerThread] # NotCalling \/ work'[TimerThread] # NoWork)
         => tpc' = "callback"
  BY <1>1, ThreadFacts DEF Exclusive
<1>. QED  BY <1>4, <1>5, <1>6 DEF Exclusive

(* When the library is loaded nobody is in a section.                      *)
LEMMA InitExclusive == Init => Exclusive
<1>. SUFFICES ASSUME Init PROVE Exclusive
  OBVIOUS
<1>1. \A t \in Threads : call[t] = NotCalling /\ work[t] = NoWork
  BY DEF Init
<1>2. \A t \in Threads : ~InSection(t)
  BY <1>1 DEF Init, InSection
<1>. QED  BY <1>1, <1>2, ThreadFacts DEF Init, Exclusive

(* Every step keeps the sections apart, if a stop or a start of the        *)
(* library finds and leaves its clients outside the library.               *)
LEMMA NextExclusive ==
  ASSUME {"start", "stop"} \subseteq Rules, TypeOK, Exclusive, [Next]_vars
  PROVE  Exclusive'
<1>1. ASSUME UNCHANGED <<running, tpc, mutex, callers>> PROVE Exclusive'
  BY <1>1 DEF Exclusive, InSection, Quiet
<1>2. CASE UNCHANGED vars \/ Tick
  BY <1>1, <1>2 DEF vars, Tick
<1>3. CASE TimerStep
  <2>0. UNCHANGED <<callers, running>>
    BY <1>3 DEF TimerStep, ProcStart, ProcTop, ProcLock, ScanOneShot,
         MoveOneShot, ScanOneShotEnd, ScanPeriodic, MarkPeriodic,
         ScanPeriodicEnd, TempDone, TakeOneShot, TakePeriodic, Rearm, CallFn,
         CallbackReturn, AfterFn
  <2>. DEFINE S == {"oneshot", "move", "periodic", "mark", "take"}
  <2>1. ASSUME tpc # "none", tpc # "callback", UNCHANGED mutex,
               tpc' \in S => tpc \in S
        PROVE  Exclusive'
    BY <2>0, <2>1 DEF Exclusive, InSection, Quiet
  <2>2. CASE \/ ProcStart \/ ProcTop \/ ScanOneShot \/ MoveOneShot
             \/ ScanOneShotEnd \/ ScanPeriodic \/ MarkPeriodic
             \/ TempDone \/ TakeOneShot \/ CallFn \/ AfterFn
    BY <2>1, <2>2 DEF ProcStart, ProcTop, ScanOneShot, MoveOneShot,
         ScanOneShotEnd, ScanPeriodic, MarkPeriodic, TempDone, TakeOneShot,
         CallFn, AfterFn
  <2>3. CASE CallbackReturn
    BY <2>0, <2>3 DEF CallbackReturn, Exclusive, InSection, Quiet
  <2>4. CASE ProcLock \/ TakePeriodic
    <3>1. /\ mutex = NoThread /\ mutex' = TimerThread
          /\ tpc \in {"lock", "temp"}
      BY <2>4 DEF ProcLock, TakePeriodic, Lock
    <3>2. \A t \in Threads : t # TimerThread => ~InSection(t)'
      BY <2>0, <3>1, FreeAlone DEF InSection
    <3>. QED  BY <2>0, <3>1, <3>2 DEF Exclusive, Quiet
  <2>5. CASE ScanPeriodicEnd \/ Rearm
    <3>1. tpc \in S /\ tpc' \notin S \cup {"none"} /\ tpc \notin {"none", "callback"}
      BY <2>5 DEF ScanPeriodicEnd, Rearm
    <3>2. \A t \in Threads : work[t] = NoWork
      BY <3>1, ScanAlone
    <3>3. \A t \in Threads : ~InSection(t)'
      BY <2>0, <3>1, <3>2 DEF InSection
    <3>. QED  BY <2>0, <3>1, <3>2, <3>3 DEF Exclusive, Quiet
  <2>. QED  BY <1>3, <2>2, <2>3, <2>4, <2>5 DEF TimerStep
<1>4. CASE MainStep
  <2>1. CASE SafeStart /\ UITimer_Init
    <3>1. /\ Quiet /\ tpc = "none" /\ tpc' = "start" /\ running' = TRUE
          /\ UNCHANGED callers
      BY <2>1 DEF SafeStart, UITimer_Init, Exclusive
    <3>2. call[TimerThread] = NotCalling /\ work[TimerThread] = NoWork
      BY <3>1 DEF Exclusive
    <3>3. \A t \in Threads : work[t] = NoWork
      BY <3>1, <3>2, ThreadFacts DEF Quiet
    <3>. QED  BY <3>1, <3>2, <3>3 DEF Exclusive, InSection, Quiet
  <2>2. CASE SafeStop /\ UITimer_Destory
    <3>1. /\ Quiet /\ mpc = "idle" /\ mpc' = "stop"
          /\ UNCHANGED <<tpc, running, mutex, call, work>>
      BY <2>2 DEF SafeStop, UITimer_Destory
    <3>. QED  BY <3>1 DEF Exclusive, InSection, Quiet
  <2>3. CASE DestoryStop
    BY <2>3 DEF DestoryStop, Exclusive, InSection, Quiet
  <2>4. CASE DestoryUnlock
    <3>1. /\ Quiet /\ mpc' = "join" /\ UNCHANGED <<running, tpc, call, work>>
      BY <2>4 DEF DestoryUnlock, Exclusive
    <3>2. \A t \in Threads : InSection(t)' => t = TimerThread
      BY <3>1, ThreadFacts DEF InSection, Quiet
    <3>. QED  BY <3>1, <3>2 DEF Exclusive, Quiet
  <2>5. CASE DestoryJoin
    <3>1. /\ Quiet /\ mpc' = "idle" /\ tpc = "exited" /\ tpc' = "none"
          /\ UNCHANGED <<running, call, work>>
      BY <2>5 DEF DestoryJoin, Exclusive
    <3>2. call[TimerThread] = NotCalling /\ work[TimerThread] = NoWork
      BY <3>1 DEF Exclusive
    <3>3. \A t \in Threads : ~InSection(t)'
      BY <3>1, <3>2, ThreadFacts DEF InSection, Quiet
    <3>. QED  BY <3>1, <3>2, <3>3 DEF Exclusive
  <2>. QED  BY <1>4, <2>1, <2>2, <2>3, <2>4, <2>5 DEF MainStep
<1>5. ASSUME NEW t \in Threads, ApiCall(t) PROVE Exclusive'
  <2>1. /\ call[t] # NotCalling \/ (\E f \in Api : MayCall(t, f))
        /\ UNCHANGED <<running, tpc, mpc>>
    BY <1>5 DEF ApiCall, AddLock, AddCall, AddSearch, DelSearch, DelAllLock, Api
  <2>2. /\ t = TimerThread => tpc = "callback"
        /\ t # TimerThread => mpc = "idle"
    BY <2>1, ThreadFacts DEF MayCall, Exclusive, Quiet
  <2>3. CASE \E kind \in Kinds, id \in Ids, len \in Lens :
               AddCall(t, kind, id, len)
    <3>1. /\ UNCHANGED <<running, tpc, mpc, mutex, work>>
          /\ \A u \in Threads : u # t => call'[u] = call[u]
      BY <2>3 DEF AddCall, TypeOK
    <3>. QED  BY <2>2, <3>1, ThreadFacts DEF Exclusive, InSection, Quiet, Threads
  <2>4. CASE \/ AddSearch(t) \/ DelAllLock(t)
             \/ \E op \in Api, id \in Ids : DelSearch(t, op, id)
    <3>1. UNCHANGED <<running, tpc, mpc, call>> /\ \E op, found : Begin(t, op, found)
      BY <2>4 DEF AddSearch, DelAllLock, DelSearch
    <3>. QED  BY <2>2, <3>1, BeginExclusive
  <2>. QED  BY <1>5, <2>3, <2>4 DEF ApiCall, AddLock, Kinds, Api
<1>6. ASSUME NEW t \in Threads, ApiWork(t) PROVE Exclusive'
  <2>1. /\ work[t].op # NoWork.op /\ End(t) /\ UNCHANGED <<running, tpc, mpc>>
        /\ call' = call \/ call' = [call EXCEPT ![t] = NotCalling]
    BY <1>6 DEF ApiWork, UIAddTimer, UIAddPeriodicTimer, UIDelTimer,
         UIDelPeriodicTimer, UIDelPeriodicTimer_retDataPtr, UIDelAllTimer, NoWork
  <2>2. \A u \in Threads : call'[u] \in {call[u], NotCalling}
    BY <2>1 DEF TypeOK
  <2>. QED  BY <2>1, <2>2, EndExclusive
<1>. QED  BY <1>2, <1>3, <1>4, <1>5, <1>6 DEF Next

(* If the library is only started and stopped while its clients are        *)
(* outside it and stay there, at most one thread is ever between a lock    *)
(* of timerMutex and the unlock, whatever else the callers do: then the    *)
(* unlock at the end of UITimer_Destory only opens a section beside which  *)
(* nobody is.                                                              *)
THEOREM SectionsAreExclusive ==
  {"start", "stop"} \subseteq Rules => (Spec => []SectionsExclude)
<1>. SUFFICES ASSUME {"start", "stop"} \subseteq Rules
              PROVE  Spec => []SectionsExclude
  OBVIOUS
<1>1. Init => TypeOK /\ Exclusive
  BY InitType, InitExclusive
<1>2. TypeOK /\ Exclusive /\ [Next]_vars => (TypeOK /\ Exclusive)'
  BY NextType, NextExclusive
<1>3. Exclusive => SectionsExclude
  BY Alone DEF SectionsExclude
<1>. QED  BY <1>1, <1>2, <1>3, PTL DEF Spec

----------------------------------------------------------------------------
(* Memory safety. MemorySafe is not inductive: that a freed block is not   *)
(* pointed to from elsewhere needs one owner for every block (Owners),     *)
(* that a delete does not free a block in temp_list and that UITimerProc   *)
(* does not free a listed one need StatusTells, and both need to know      *)
(* (Control) what cur is. That a timer found by a scan or a function is    *)
(* still there in its second step (Hands) needs Exclusive.                 *)

\* no pointer of the lists, of temp_list or of an add call is dangling
Valid ==
  /\ oneshot \cup periodic \subseteq alloc
  /\ \A e \in temp : e.type = "PERIODIC" => e.ptr \in alloc
  /\ \A t \in Threads : call[t] # NotCalling => call[t].ptr \in alloc

\* and no two of them are the same, but for a listed periodic timer
Owners ==
  /\ Valid
  /\ oneshot \cap periodic = {}
  /\ \A e \in temp : e.ptr \notin oneshot
  /\ \A t \in Threads :
       call[t] # NotCalling =>
         /\ call[t].ptr \notin oneshot \cup periodic
         /\ \A e \in temp : e.ptr # call[t].ptr
         /\ \A u \in Threads : u # t => call[u].ptr # call[t].ptr

\* the block of an add call in progress is not marked
CallsIdle ==
  \A t \in Threads : call[t] # NotCalling => blk[call[t].ptr].status = "IDLE"

AddOps == {"UIAddTimer", "UIAddPeriodicTimer"}
DelPeriodicOps == {"UIDelPeriodicTimer", "UIDelPeriodicTimer_retDataPtr"}

\* what a function of the API has found and may rely on
Holds(op, found, c) ==
  /\ found \subseteq ListOf(op)
  /\ op \in AddOps => /\ c # NotCalling
                      /\ op = AddOp(c.kind)
                      /\ found = WithId(ListOf(op), blk[c.ptr].id)
  /\ op \in {"UIAddPeriodicTimer", "UIDelPeriodicTimer_retDataPtr"}
        => \A p \in found : blk[p].status # "PROC"
  /\ op \in DelPeriodicOps => \A p \in found : cur.ptr # p
  /\ op = "UIDelAllTimer" => \A p \in periodic : PeriodicElem(p) \notin temp

Hands ==
  /\ tpc = "move" => scan \in oneshot /\ Expired(blk[scan].timeout, tval)
  /\ tpc = "mark" => scan \in periodic
  /\ \A t \in Threads :
       work[t] # NoWork => Holds(work[t].op, work[t].found, call[t])

IInv == /\ TypeOK /\ Exclusive /\ Control /\ Owners /\ StatusTells /\ UniqueIds
        /\ CallsIdle /\ Hands

(* An add under way has a block.                                           *)
LEMMA CallPtr ==
  ASSUME TypeOK, NEW t \in Threads, call[t] # NotCalling
  PROVE  call[t].ptr \in Ptr
BY DEF TypeOK, Calls

(* temp_list has copies of one-shot timers and pointers to periodic ones.  *)
LEMMA ElementFacts ==
  ASSUME TypeOK
  PROVE  /\ \A e \in temp : /\ e.type \in {"ONE_SHOT", "PERIODIC"}
                            /\ e.type = "ONE_SHOT" => e.ptr = NoPtr
                            /\ e.type = "PERIODIC" => /\ e = PeriodicElem(e.ptr)
                                                      /\ e.ptr \in Ptr
         /\ NoElem \notin temp /\ NoElem.ptr = NoPtr
BY DEF TypeOK, Element, PeriodicElem, NoElem

\* The memory part of the invariant only depends on the lists, the blocks,
\* temp_list and the calls in progress.
Shape == Owners /\ StatusTells /\ UniqueIds /\ CallsIdle

(* Steps that leave lists, blocks, temp_list and calls alone.              *)
LEMMA Frame ==
  ASSUME Shape, UNCHANGED <<lists, mem, temp, call>>,
         \/ UNCHANGED cur
         \/ cur = NoElem
  PROVE  /\ Owners' /\ UniqueIds' /\ CallsIdle'
         /\ UNCHANGED cur => StatusTells'
BY DEF Shape, Owners, Valid, UniqueIds, StatusTells, CallsIdle

(* The invariant holds when the library is loaded.                         *)
LEMMA InitInv == Init => IInv
<1>. SUFFICES ASSUME Init PROVE IInv
  OBVIOUS
<1>1. TypeOK /\ Exclusive
  BY InitType, InitExclusive
<1>2. Control /\ Owners /\ StatusTells /\ UniqueIds /\ CallsIdle
  BY DEF Init, Control, Owners, Valid, StatusTells, UniqueIds, CallsIdle
<1>3. Hands
  BY DEF Init, Hands
<1>. QED  BY <1>1, <1>2, <1>3 DEF IInv

(* The steps of UITimerProc keep the invariant.                            *)
LEMMA TimerStepInv ==
  ASSUME IInv, TimerStep, TypeOK'
  PROVE  Control' /\ Shape'
<1>. USE DEF IInv
<1>1. CASE \/ ProcTop \/ ProcLock \/ ScanOneShotEnd \/ ScanPeriodicEnd
           \/ TempDone \/ CallFn \/ CallbackReturn \/ ScanOneShot \/ ScanPeriodic
  <2>1. /\ UNCHANGED <<lists, mem, temp, call, cur, running, mpc>>
        /\ tpc # "none" /\ tpc' # "take"
        /\ tpc' \in {"move", "mark"} \/ UNCHANGED scan
        /\ tpc \notin {"move", "mark"}
        /\ tpc \in {"take", "fn", "callback", "after"}
             <=> tpc' \in {"take", "fn", "callback", "after"}
    BY <1>1 DEF ProcTop, ProcLock, ScanOneShotEnd, ScanPeriodicEnd, TempDone,
                CallFn, CallbackReturn, ScanOneShot, ScanPeriodic
  <2>2. Control'
    BY <2>1 DEF Control
  <2>. QED  BY <2>1, <2>2, Frame DEF Shape
<1>2. CASE ProcStart
  BY <1>2 DEF ProcStart, Control, Shape, Owners, Valid, StatusTells,
              UniqueIds, CallsIdle
<1>3. CASE MoveOneShot
  <2>. PICK p \in oneshot : /\ oneshot' = oneshot \ {p}
                            /\ temp' = temp \cup {OneShotElem(blk[p])}
                            /\ Free({p})
    BY <1>3 DEF MoveOneShot, Hands
  <2>1. /\ UNCHANGED <<running, periodic, cur, callers>>
        /\ tpc = "move" /\ tpc' = "oneshot" /\ scan' = NoPtr
    BY <1>3 DEF MoveOneShot
  <2>2. /\ OneShotElem(blk[p]).ptr = NoPtr /\ NoPtr \notin Ptr
        /\ OneShotElem(blk[p]).type = "ONE_SHOT"
    BY ConstantsAssumption DEF OneShotElem
  <2>3. \A q \in Ptr : q # p => blk'[q] = blk[q]
    BY DEF Free
  <2>4. p \in Ptr /\ alloc' = alloc \ {p}
    BY DEF Free, TypeOK
  <2>5. Control'
    BY <2>1 DEF Control
  <2>6. Owners'
    <3>1. \A t \in Threads : call[t] # NotCalling => call[t].ptr \in Ptr
      BY DEF TypeOK, Calls
    <3>. QED  BY <3>1, <2>1, <2>2, <2>4, ElementFacts DEF Owners, Valid, TypeOK
  <2>7. StatusTells'
    <3>1. p \notin periodic
      BY DEF Owners
    <3>2. \A e \in temp : e.type = "PERIODIC" => e.ptr \in Ptr /\ e.ptr # p
      BY ElementFacts DEF Owners
    <3>. QED  BY <3>1, <3>2, <2>1, <2>2, <2>3 DEF StatusTells, TypeOK
  <2>8. UniqueIds'
    BY <2>1, <2>3 DEF UniqueIds, Owners, TypeOK
  <2>9. CallsIdle'
    BY <2>1, <2>3, CallPtr DEF CallsIdle, Owners
  <2>. QED  BY <2>5, <2>6, <2>7, <2>8, <2>9 DEF Shape
<1>4. CASE MarkPeriodic
  <2>. PICK p \in periodic :
          /\ temp' = temp \cup {PeriodicElem(p)}
          /\ blk' = [blk EXCEPT ![p].status = IF @ # "DEL" THEN "PROC" ELSE @]
    BY <1>4 DEF MarkPeriodic, Hands
  <2>1. /\ UNCHANGED <<running, lists, cur, alloc, callers>>
        /\ tpc = "mark" /\ tpc' = "periodic" /\ scan' = NoPtr
        /\ periodic \subseteq alloc
    BY <1>4 DEF MarkPeriodic, Owners, Valid
  <2>2. /\ p \in Ptr
        /\ PeriodicElem(p).ptr = p /\ PeriodicElem(p).type = "PERIODIC"
    BY DEF TypeOK, PeriodicElem
  <2>3. /\ blk'[p].status = "PROC" /\ blk'[p].id = blk[p].id
        /\ \A q \in Ptr : q # p => blk'[q] = blk[q]
    BY <2>2 DEF StatusTells, TypeOK, Block
  <2>4. Control'
    BY <2>1 DEF Control
  <2>5. Owners'
    BY <2>1, <2>2 DEF Owners, Valid
  <2>6. StatusTells'
    BY <2>1, <2>2, <2>3, ElementFacts DEF StatusTells, TypeOK
  <2>7. UniqueIds'
    BY <2>1, <2>2, <2>3 DEF UniqueIds, TypeOK
  <2>8. CallsIdle'
    BY <2>1, <2>2, <2>3, CallPtr DEF CallsIdle, Owners
  <2>. QED  BY <2>4, <2>5, <2>6, <2>7, <2>8 DEF Shape
<1>5. CASE TakeOneShot \/ TakePeriodic
  <2>1. /\ UNCHANGED <<running, mpc, lists, mem, temp, call, scan>>
        /\ tpc = "temp" /\ tpc' \in {"fn", "take"} /\ cur = NoElem
        /\ cur' \in temp /\ (tpc' = "take" => cur'.type = "PERIODIC")
    BY <1>5 DEF TakeOneShot, TakePeriodic, Control
  <2>2. Control'
    BY <2>1 DEF Control
  <2>3. StatusTells'
    BY <2>1, ElementFacts DEF StatusTells
  <2>4. Owners' /\ UniqueIds' /\ CallsIdle'
    BY <2>1, Frame DEF Shape
  <2>. QED  BY <2>2, <2>3, <2>4 DEF Shape
<1>6. CASE Rearm
  <2>1. /\ UNCHANGED <<running, lists, temp, cur, scan, alloc, callers>>
        /\ tpc = "take" /\ tpc' \in {"fn", "after"}
        /\ cur \in temp /\ cur.type = "PERIODIC"
    BY <1>6 DEF Rearm, Control
  <2>. PICK e \in temp : e = cur /\ e.type = "PERIODIC"
    BY <2>1
  <2>2. e.ptr \in Ptr
    BY ElementFacts
  <2>3. /\ \A q \in Ptr : q # e.ptr => blk'[q] = blk[q]
        /\ blk'[e.ptr].id = blk[e.ptr].id
        /\ blk'[e.ptr].status \in {"IDLE", blk[e.ptr].status}
    <3>1. \/ blk' = [blk EXCEPT
                    ![e.ptr].timeout = RearmTimeout(tval, blk[e.ptr].TimerLen),
                    ![e.ptr].status = "IDLE",
                    ![e.ptr].due = Ticks(tval) + blk[e.ptr].TimerLen]
          \/ blk' = blk
      BY <1>6 DEF Rearm
    <3>. QED  BY <2>2, <3>1 DEF TypeOK, Block
  <2>4. Control'
    BY <2>1 DEF Control
  <2>5. Owners'
    BY <2>1 DEF Owners, Valid
  <2>6. StatusTells'
    <3>1. \A f \in temp : (f.type = "PERIODIC" /\ f # e)
             => f.ptr \in Ptr /\ f.ptr # e.ptr
      BY ElementFacts
    <3>. QED  BY <3>1, <2>1, <2>2, <2>3 DEF StatusTells, TypeOK
  <2>7. UniqueIds'
    BY <2>1, <2>2, <2>3 DEF UniqueIds, TypeOK
  <2>8. CallsIdle'
    BY <2>1, <2>3, CallPtr DEF CallsIdle, Owners
  <2>. QED  BY <2>4, <2>5, <2>6, <2>7, <2>8 DEF Shape
<1>7. CASE AfterFn
  <2>1. /\ UNCHANGED <<running, lists, scan, callers>>
        /\ tpc = "after" /\ tpc' = "temp"
        /\ temp' = temp \ {cur} /\ cur' = NoElem /\ cur \in temp
    BY <1>7 DEF AfterFn, Control
  <2>2. Control'
    BY <2>1 DEF Control
  <2>3. CASE UNCHANGED mem
    <3>1. Owners'
      BY <2>1, <2>3 DEF Owners, Valid
    <3>2. StatusTells'
      BY <2>1, <2>3 DEF StatusTells
    <3>3. UniqueIds' /\ CallsIdle'
      BY <2>1, <2>3 DEF UniqueIds, CallsIdle
    <3>. QED  BY <3>1, <3>2, <3>3, <2>2 DEF Shape
  <2>4. CASE /\ cur.type = "PERIODIC" /\ blk[cur.ptr].status = "DEL"
             /\ Free({cur.ptr})
    <3>1. /\ cur.ptr \in Ptr
          /\ cur.ptr \notin oneshot \cup periodic
          /\ \A t \in Threads : call[t] # NotCalling => call[t].ptr # cur.ptr
          /\ \A e \in temp : (e.type = "PERIODIC" /\ e # cur)
                               => e.ptr \in Ptr /\ e.ptr # cur.ptr
      BY <2>1, <2>4, ElementFacts DEF Owners, StatusTells
    <3>2. /\ alloc' = alloc \ {cur.ptr}
          /\ \A q \in Ptr : q # cur.ptr => blk'[q] = blk[q]
      BY <2>4 DEF Free
    <3>3. Owners'
      BY <2>1, <3>1, <3>2 DEF Owners, Valid
    <3>4. StatusTells'
      BY <2>1, <3>1, <3>2 DEF StatusTells, TypeOK
    <3>5. UniqueIds'
      BY <2>1, <3>1, <3>2 DEF UniqueIds, TypeOK
    <3>6. CallsIdle'
      BY <2>1, <3>1, <3>2, CallPtr DEF CallsIdle
    <3>. QED  BY <3>3, <3>4, <3>5, <3>6, <2>2 DEF Shape
  <2>. QED  BY <1>7, <2>3, <2>4 DEF AfterFn
<1>. QED  BY <1>1, <1>2, <1>3, <1>4, <1>5, <1>6, <1>7 DEF TimerStep

(* A block that DelAll frees is not in temp_list.                          *)
LEMMA DelAllInv ==
  ASSUME IInv, DelAll, UNCHANGED <<temp, call, cur>>,
         \A p \in periodic : PeriodicElem(p) \notin temp
  PROVE  Shape'
<1>. USE DEF IInv
<1>1. /\ oneshot' = {} /\ periodic' = {}
      /\ alloc' = alloc \ (oneshot \cup periodic)
      /\ \A q \in Ptr : q \notin oneshot \cup periodic => blk'[q] = blk[q]
  BY DEF DelAll, Free
<1>2. \A e \in temp : e.type = "PERIODIC"
                         => e.ptr \in Ptr /\ e.ptr \notin oneshot \cup periodic
  BY ElementFacts DEF Owners
<1>3. Owners'
  BY <1>1, <1>2 DEF Owners, Valid
<1>4. StatusTells'
  BY <1>1, <1>2 DEF StatusTells
<1>5. UniqueIds'
  BY <1>1 DEF UniqueIds
<1>6. CallsIdle'
  BY <1>1, CallPtr DEF CallsIdle, Owners
<1>. QED  BY <1>3, <1>4, <1>5, <1>6 DEF Shape

(* UITimer_Init and UITimer_Destory keep the invariant.                    *)
LEMMA MainStepInv ==
  ASSUME IInv, Disciplined, MainStep
  PROVE  Control' /\ Shape'
<1>. USE DEF IInv
<1>1. CASE UITimer_Init
  <2>1. /\ UNCHANGED <<temp, cur, mem, call, scan>> /\ cur = NoElem
        /\ scan = NoPtr
        /\ oneshot' = {} /\ periodic' = {} /\ running' = TRUE
        /\ tpc' = "start"
    BY <1>1 DEF UITimer_Init, Control
  <2>2. Control'
    BY <2>1 DEF Control
  <2>3. Owners' /\ StatusTells' /\ UniqueIds' /\ CallsIdle'
    BY <2>1 DEF Owners, Valid, StatusTells, UniqueIds, CallsIdle
  <2>. QED  BY <2>2, <2>3 DEF Shape
<1>2. CASE SafeDelAll /\ UITimer_Destory
  <2>1. Control'
    BY <1>2 DEF UITimer_Destory, Control
  <2>. QED  BY <1>2, <2>1, DelAllInv
               DEF UITimer_Destory, SafeDelAll, Disciplined, AllRules
<1>3. CASE DestoryStop \/ DestoryUnlock \/ DestoryJoin
  <2>1. UNCHANGED <<lists, mem, temp, call, cur>>
    BY <1>3 DEF DestoryStop, DestoryUnlock, DestoryJoin
  <2>2. Control'
    BY <1>3 DEF DestoryStop, DestoryUnlock, DestoryJoin, Control
  <2>. QED  BY <2>1, <2>2, Frame DEF Shape
<1>. QED  BY <1>1, <1>2, <1>3 DEF MainStep

(* What a disciplined delete frees is idle and not being processed; what   *)
(* it marks was pending.                                                   *)
LEMMA DelPeriodicFacts ==
  ASSUME IInv, NEW t \in Threads,
         UIDelPeriodicTimer(t) \/ UIDelPeriodicTimer_retDataPtr(t)
  PROVE  \E gone \in SUBSET periodic, mark \in SUBSET periodic :
           /\ \A p \in gone : blk[p].status = "IDLE" /\ cur.ptr # p
           /\ \A p \in mark : blk[p].status = "PROC"
           /\ periodic' = periodic \ (gone \cup mark)
           /\ alloc' = alloc \ gone
           /\ \A q \in Ptr : /\ q \notin gone \cup mark => blk'[q] = blk[q]
                             /\ q \in mark => blk'[q].status = "DEL"
<1>. DEFINE match == work[t].found
            P == {p \in match : blk[p].status = "PROC"}
            I == {p \in match : blk[p].status = "IDLE"}
<1>0. /\ match \subseteq periodic /\ \A p \in match : cur.ptr # p
      /\ UIDelPeriodicTimer_retDataPtr(t)
            => \A p \in match : blk[p].status # "PROC"
  <2>1. work[t].op \in DelPeriodicOps /\ work[t] # NoWork
    BY DEF UIDelPeriodicTimer, UIDelPeriodicTimer_retDataPtr, DelPeriodicOps,
           NoWork
  <2>2. Holds(work[t].op, work[t].found, call[t])
    BY <2>1 DEF IInv, Hands
  <2>. QED  BY <2>1, <2>2 DEF Holds, ListOf, DelPeriodicOps,
                              UIDelPeriodicTimer_retDataPtr
<1>1. /\ P \in SUBSET periodic /\ I \in SUBSET periodic
      /\ \A p \in match : blk[p].status \in {"IDLE", "PROC"}
      /\ match = P \cup I
  BY <1>0 DEF IInv, StatusTells
<1>2. /\ \A p \in match : cur.ptr # p
      /\ \A p \in I : blk[p].status = "IDLE" /\ cur.ptr # p
      /\ \A p \in P : blk[p].status = "PROC"
  BY <1>0
<1>3. \A p \in Ptr : [blk[p] EXCEPT !.status = "DEL"].status = "DEL"
  BY DEF IInv, TypeOK, Block
<1>4. CASE UIDelPeriodicTimer(t)
  <2>1. /\ periodic' = periodic \ (I \cup P)
        /\ alloc' = alloc \ I
        /\ \A q \in Ptr : /\ q \notin I \cup P => blk'[q] = blk[q]
                          /\ q \in P => blk'[q].status = "DEL"
    BY <1>3, <1>4 DEF UIDelPeriodicTimer
  <2>. HIDE DEF I, P, match
  <2>. QED  BY <1>1, <1>2, <2>1
<1>5. CASE UIDelPeriodicTimer_retDataPtr(t)
  <2>1. P = {}
    BY <1>0, <1>5
  <2>2. match \ P = I
    BY <1>1, <2>1
  <2>3. /\ periodic' = periodic \ I
        /\ alloc' = alloc \ I
        /\ \A q \in Ptr : q \notin I \cup P => blk'[q] = blk[q]
    BY <1>5, <2>2 DEF UIDelPeriodicTimer_retDataPtr
  <2>4. periodic' = periodic \ (I \cup P)
    BY <2>1, <2>3
  <2>. HIDE DEF I, P, match
  <2>. QED  BY <1>1, <1>2, <2>1, <2>3, <2>4
<1>. QED  BY <1>4, <1>5

(* The add and delete functions keep the invariant: what the callers must  *)
(* respect is in what the functions rely on, Holds.                        *)
LEMMA ApiInv ==
  ASSUME IInv, NEW t \in Threads, ApiCall(t) \/ ApiWork(t)
  PROVE  Control' /\ Shape'
<1>. USE DEF IInv
<1>0. UNCHANGED <<running, tpc, temp, cur, scan, mpc>>
  BY DEF ApiCall, AddLock, AddCall, AddSearch, DelSearch, DelAllLock, ApiWork,
         UIAddTimer, UIAddPeriodicTimer, UIDelTimer, UIDelPeriodicTimer,
         UIDelPeriodicTimer_retDataPtr, UIDelAllTimer
<1>1. Control'
  BY <1>0 DEF Control
<1>2. /\ NoPtr \notin Ptr
      /\ \A u \in Threads : call[u] # NotCalling
                             => call[u].ptr \in Ptr /\ call[u].kind \in Kinds
      /\ NotCalling.kind \notin Kinds /\ NotCalling.ptr = NoPtr
  BY ConstantsAssumption DEF TypeOK, Calls, NotCalling, Kinds
<1>3. ASSUME NEW kind \in Kinds, NEW id \in Ids, NEW len \in Lens,
             AddCall(t, kind, id, len)
      PROVE  Shape'
  <2>. PICK p \in Ptr \ alloc :
         /\ alloc' = alloc \cup {p}
         /\ blk' = [blk EXCEPT ![p] =
                    [id |-> id, TimerLen |-> len, status |-> "IDLE",
                     timeout |-> AddTimeout(SystemUptime, len),
                     arm |-> arms + 1, due |-> now + len]]
         /\ call' = [call EXCEPT ![t] = [kind |-> kind, ptr |-> p]]
    BY <1>3 DEF AddCall
  <2>0. /\ \A q \in Ptr : q # p => blk'[q] = blk[q]
        /\ blk'[p].status = "IDLE"
    BY DEF TypeOK
  <2>1. UNCHANGED lists /\ call[t] = NotCalling
    BY <1>3 DEF AddCall
  <2>2. /\ call'[t].ptr = p
        /\ \A u \in Threads : u # t => call'[u] = call[u]
    BY DEF TypeOK
  <2>3. /\ p \notin oneshot \cup periodic
        /\ \A e \in temp : e.ptr # p
        /\ \A u \in Threads : call[u].ptr # p
    <3>1. \A e \in temp : e.ptr # p
      BY <1>2, ElementFacts DEF Owners, Valid
    <3>2. \A u \in Threads : call[u].ptr # p
      BY <1>2 DEF Owners, Valid
    <3>. QED  BY <3>1, <3>2 DEF Owners, Valid
  <2>4. Owners'
    BY <1>0, <2>1, <2>2, <2>3 DEF Owners, Valid
  <2>5. StatusTells'
    BY <1>0, <2>0, <2>1, <2>3, ElementFacts DEF StatusTells, TypeOK
  <2>6. UniqueIds'
    BY <2>0, <2>1, <2>3 DEF UniqueIds, TypeOK
  <2>7. CallsIdle'
    BY <2>0, <2>2, <2>3, CallPtr DEF CallsIdle
  <2>. QED  BY <2>4, <2>5, <2>6, <2>7 DEF Shape
<1>10. ASSUME UNCHANGED <<lists, mem, call>> PROVE Shape'
  BY <1>0, <1>10, Frame DEF Shape
<1>11. work[t].op # "none" => Holds(work[t].op, work[t].found, call[t])
  BY DEF Hands, NoWork
<1>4. ASSUME NEW p \in Ptr, NEW q \in Ptr, Overwrite(p, q)
      PROVE  /\ \A r \in Ptr : r # q => blk'[r] = blk[r]
             /\ blk'[q].id = blk[q].id /\ blk'[q].status = "IDLE"
  BY <1>4 DEF Overwrite, TypeOK, Block
<1>5. CASE UIAddTimer(t)
  <2>1. /\ UNCHANGED <<periodic, alloc>>
        /\ work[t].op = "UIAddTimer"
        /\ call' = [call EXCEPT ![t] = NotCalling]
    BY <1>5 DEF UIAddTimer
  <2>0. /\ call[t] # NotCalling
        /\ work[t].found = WithId(oneshot, blk[call[t].ptr].id)
    BY <2>1, <1>11 DEF Holds, ListOf, AddOps
  <2>2. /\ call[t] # NotCalling /\ call[t].ptr \in Ptr
        /\ call'[t] = NotCalling
        /\ \A u \in Threads : u # t => call'[u] = call[u]
    BY <2>0, <2>1, <1>2 DEF TypeOK
  <2>3. CASE /\ WithId(oneshot, blk[call[t].ptr].id) = {}
             /\ oneshot' = oneshot \cup {call[t].ptr} /\ UNCHANGED blk
    <3>1. Owners'
      <4>1. Valid'
        BY <1>0, <2>1, <2>2, <2>3 DEF Owners, Valid
      <4>2. (\A e \in temp : e.ptr \notin oneshot)'
        BY <1>0, <2>1, <2>2, <2>3 DEF Owners
      <4>3. (\A u \in Threads :
               call[u] # NotCalling =>
                 /\ call[u].ptr \notin oneshot \cup periodic
                 /\ \A e \in temp : e.ptr # call[u].ptr)'
        BY <1>0, <2>1, <2>2, <2>3 DEF Owners
      <4>4. (\A u \in Threads : call[u] # NotCalling =>
               \A v \in Threads : v # u => call[v].ptr # call[u].ptr)'
        BY <1>2, <2>2 DEF Owners
      <4>5. (oneshot \cap periodic = {})'
        BY <2>1, <2>2, <2>3 DEF Owners
      <4>. QED  BY <4>1, <4>2, <4>3, <4>4, <4>5 DEF Owners
    <3>2. StatusTells'
      BY <1>0, <2>1, <2>3 DEF StatusTells
    <3>3. UniqueIds'
      BY <2>1, <2>2, <2>3 DEF UniqueIds, WithId, Owners
    <3>4. CallsIdle'
      BY <2>2, <2>3 DEF CallsIdle
    <3>. QED  BY <1>1, <3>1, <3>2, <3>3, <3>4 DEF Shape
  <2>4. CASE \E q \in WithId(oneshot, blk[call[t].ptr].id) :
                Overwrite(call[t].ptr, q) /\ UNCHANGED oneshot
    <3>. PICK q \in oneshot : Overwrite(call[t].ptr, q) /\ UNCHANGED oneshot
      BY <2>4 DEF WithId
    <3>1. /\ q \in Ptr /\ q \notin periodic
          /\ \A e \in temp : e.ptr # q
          /\ \A r \in Ptr : r # q => blk'[r] = blk[r]
          /\ blk'[q].id = blk[q].id
      BY <1>4, <2>2 DEF TypeOK, Owners
    <3>2. Owners'
      <4>1. Valid'
        BY <1>0, <2>1, <2>2 DEF Owners, Valid
      <4>2. (\A u \in Threads :
               call[u] # NotCalling =>
                 /\ call[u].ptr \notin oneshot \cup periodic
                 /\ \A e \in temp : e.ptr # call[u].ptr)'
        BY <1>0, <2>1, <2>2 DEF Owners
      <4>3. (\A u \in Threads : call[u] # NotCalling =>
               \A v \in Threads : v # u => call[v].ptr # call[u].ptr)'
        BY <1>2, <2>2 DEF Owners
      <4>. QED  BY <1>0, <2>1, <4>1, <4>2, <4>3 DEF Owners
    <3>3. StatusTells'
      BY <1>0, <2>1, <3>1, ElementFacts DEF StatusTells, TypeOK
    <3>4. UniqueIds'
      BY <2>1, <3>1 DEF UniqueIds, TypeOK
    <3>5. CallsIdle'
      BY <2>2, <3>1, CallPtr DEF CallsIdle, Owners
    <3>. QED  BY <1>1, <3>2, <3>3, <3>4, <3>5 DEF Shape
  <2>. QED  BY <1>5, <2>0, <2>3, <2>4 DEF UIAddTimer
<1>6. CASE UIAddPeriodicTimer(t)
  <2>1. /\ UNCHANGED <<oneshot, alloc>>
        /\ work[t].op = "UIAddPeriodicTimer"
        /\ call' = [call EXCEPT ![t] = NotCalling]
    BY <1>6 DEF UIAddPeriodicTimer
  <2>0. /\ call[t] # NotCalling
        /\ work[t].found = WithId(periodic, blk[call[t].ptr].id)
        /\ \A q \in work[t].found : blk[q].status # "PROC"
    BY <2>1, <1>11 DEF Holds, ListOf, AddOps
  <2>2. /\ call[t] # NotCalling /\ call[t].ptr \in Ptr
        /\ call'[t] = NotCalling
        /\ \A u \in Threads : u # t => call'[u] = call[u]
    BY <2>0, <2>1, <1>2 DEF TypeOK
  <2>3. CASE /\ WithId(periodic, blk[call[t].ptr].id) = {}
             /\ periodic' = periodic \cup {call[t].ptr} /\ UNCHANGED blk
    <3>1. Owners'
      <4>1. Valid'
        BY <1>0, <2>1, <2>2, <2>3 DEF Owners, Valid
      <4>2. (\A e \in temp : e.ptr \notin oneshot)'
        BY <1>0, <2>1, <2>2, <2>3 DEF Owners
      <4>3. (\A u \in Threads :
               call[u] # NotCalling =>
                 /\ call[u].ptr \notin oneshot \cup periodic
                 /\ \A e \in temp : e.ptr # call[u].ptr)'
        BY <1>0, <2>1, <2>2, <2>3 DEF Owners
      <4>4. (\A u \in Threads : call[u] # NotCalling =>
               \A v \in Threads : v # u => call[v].ptr # call[u].ptr)'
        BY <1>2, <2>2 DEF Owners
      <4>5. (oneshot \cap periodic = {})'
        BY <2>1, <2>2, <2>3 DEF Owners
      <4>. QED  BY <4>1, <4>2, <4>3, <4>4, <4>5 DEF Owners
    <3>2. StatusTells'
      BY <1>0, <2>1, <2>2, <2>3 DEF StatusTells, CallsIdle
    <3>3. UniqueIds'
      BY <2>1, <2>2, <2>3 DEF UniqueIds, WithId, Owners
    <3>4. CallsIdle'
      BY <2>2, <2>3 DEF CallsIdle
    <3>. QED  BY <1>1, <3>1, <3>2, <3>3, <3>4 DEF Shape
  <2>4. CASE \E q \in WithId(periodic, blk[call[t].ptr].id) :
                Overwrite(call[t].ptr, q) /\ UNCHANGED periodic
    <3>. PICK q \in WithId(periodic, blk[call[t].ptr].id) :
            Overwrite(call[t].ptr, q) /\ UNCHANGED periodic
      BY <2>4
    <3>1. /\ q \in Ptr /\ q \in periodic /\ blk[q].status = "IDLE"
          /\ \A r \in Ptr : r # q => blk'[r] = blk[r]
          /\ blk'[q].id = blk[q].id /\ blk'[q].status = "IDLE"
      BY <1>4, <2>0, <2>2 DEF TypeOK, WithId, StatusTells
    <3>2. Owners'
      <4>1. Valid'
        BY <1>0, <2>1, <2>2 DEF Owners, Valid
      <4>2. (\A u \in Threads :
               call[u] # NotCalling =>
                 /\ call[u].ptr \notin oneshot \cup periodic
                 /\ \A e \in temp : e.ptr # call[u].ptr)'
        BY <1>0, <2>1, <2>2 DEF Owners
      <4>3. (\A u \in Threads : call[u] # NotCalling =>
               \A v \in Threads : v # u => call[v].ptr # call[u].ptr)'
        BY <1>2, <2>2 DEF Owners
      <4>. QED  BY <1>0, <2>1, <4>1, <4>2, <4>3 DEF Owners
    <3>3. StatusTells'
      BY <1>0, <2>1, <3>1, ElementFacts DEF StatusTells, TypeOK
    <3>4. UniqueIds'
      BY <2>1, <3>1 DEF UniqueIds, TypeOK
    <3>5. CallsIdle'
      BY <2>2, <3>1, CallPtr DEF CallsIdle, Owners
    <3>. QED  BY <1>1, <3>2, <3>3, <3>4, <3>5 DEF Shape
  <2>. QED  BY <1>6, <2>0, <2>3, <2>4 DEF UIAddPeriodicTimer
<1>7. CASE UIDelTimer(t)
  <2>. DEFINE gone == work[t].found
  <2>1. /\ UNCHANGED <<periodic, call>>
        /\ oneshot' = oneshot \ gone /\ alloc' = alloc \ gone
        /\ \A q \in Ptr : q \notin gone => blk'[q] = blk[q]
    BY <1>7 DEF UIDelTimer, Free
  <2>2. gone \subseteq oneshot
    BY <1>7, <1>11 DEF UIDelTimer, Holds, ListOf
  <2>. HIDE DEF gone
  <2>3. Owners'
    BY <1>0, <2>1, <2>2, ElementFacts DEF Owners, Valid
  <2>4. StatusTells'
    BY <1>0, <2>1, <2>2, ElementFacts DEF StatusTells, Owners, TypeOK
  <2>5. UniqueIds'
    BY <2>1, <2>2 DEF UniqueIds, Owners, TypeOK
  <2>6. CallsIdle'
    BY <2>1, <2>2, CallPtr DEF CallsIdle, Owners
  <2>. QED  BY <1>1, <2>3, <2>4, <2>5, <2>6 DEF Shape
<1>8. CASE UIDelPeriodicTimer(t) \/ UIDelPeriodicTimer_retDataPtr(t)
  <2>. PICK gone \in SUBSET periodic, mark \in SUBSET periodic :
         /\ \A p \in gone : blk[p].status = "IDLE" /\ cur.ptr # p
         /\ \A p \in mark : blk[p].status = "PROC"
         /\ periodic' = periodic \ (gone \cup mark)
         /\ alloc' = alloc \ gone
         /\ \A q \in Ptr : /\ q \notin gone \cup mark => blk'[q] = blk[q]
                           /\ q \in mark => blk'[q].status = "DEL"
    BY <1>8, DelPeriodicFacts
  <2>1. UNCHANGED <<oneshot, call>>
    BY <1>8 DEF UIDelPeriodicTimer, UIDelPeriodicTimer_retDataPtr
  <2>2. \A e \in temp : e.type = "PERIODIC" => e.ptr \in Ptr /\ e.ptr \notin gone
    BY ElementFacts DEF StatusTells
  <2>3. Owners'
    BY <1>0, <2>1, <2>2 DEF Owners, Valid
  <2>4. StatusTells'
    BY <1>0, <2>1, <2>2 DEF StatusTells, TypeOK
  <2>5. UniqueIds'
    BY <2>1 DEF UniqueIds, Owners, TypeOK
  <2>6. CallsIdle'
    BY <2>1, CallPtr DEF CallsIdle, Owners
  <2>. QED  BY <1>1, <2>3, <2>4, <2>5, <2>6 DEF Shape
<1>9. CASE UIDelAllTimer(t)
  <2>1. \A p \in periodic : PeriodicElem(p) \notin temp
    BY <1>9, <1>11 DEF UIDelAllTimer, Holds
  <2>. QED  BY <1>0, <1>1, <1>9, <2>1, DelAllInv DEF UIDelAllTimer
<1>12. CASE ApiCall(t)
  <2>1. ASSUME AddSearch(t) \/ DelAllLock(t) \/ \E op, id : DelSearch(t, op, id)
        PROVE  Shape'
    <3>1. UNCHANGED <<lists, mem, call>>
      BY <2>1 DEF AddSearch, DelAllLock, DelSearch
    <3>. QED  BY <1>10, <3>1
  <2>. QED  BY <1>1, <1>3, <1>12, <2>1 DEF ApiCall, AddLock, Kinds
<1>13. CASE ApiWork(t)
  BY <1>5, <1>6, <1>7, <1>8, <1>9, <1>13 DEF ApiWork
<1>. QED  BY <1>1, <1>12, <1>13

(* What a function of the API relies on is kept by a step that leaves the  *)
(* lists and their blocks alone.                                           *)
LEMMA HoldsKept ==
  ASSUME TypeOK, NEW op, NEW found, NEW c, Holds(op, found, c),
         UNCHANGED lists, temp' \subseteq temp,
         \A p \in oneshot \cup periodic : blk'[p] = blk[p],
         c # NotCalling => blk'[c.ptr] = blk[c.ptr],
         cur' = cur \/ cur'.ptr \notin Ptr
  PROVE  Holds(op, found, c)'
<1>1. ListOf(op)' = ListOf(op) /\ ListOf(op) \subseteq oneshot \cup periodic
  BY DEF ListOf
<1>2. \A id : WithId(ListOf(op), id)' = WithId(ListOf(op), id)
  BY <1>1 DEF WithId
<1>3. found \subseteq ListOf(op) /\ found \subseteq Ptr
  BY <1>1 DEF Holds, TypeOK
<1>4. (op \in AddOps => /\ c # NotCalling
                        /\ op = AddOp(c.kind)
                        /\ found = WithId(ListOf(op), blk[c.ptr].id))'
  BY <1>1, <1>2 DEF Holds
<1>5. (op \in {"UIAddPeriodicTimer", "UIDelPeriodicTimer_retDataPtr"}
        => \A p \in found : blk[p].status # "PROC")'
  BY <1>1, <1>3 DEF Holds
<1>6. (op \in DelPeriodicOps => \A p \in found : cur.ptr # p)'
  BY <1>3 DEF Holds
<1>7. (op = "UIDelAllTimer" => \A p \in periodic : PeriodicElem(p) \notin temp)'
  BY DEF Holds
<1>. QED  BY <1>1, <1>3, <1>4, <1>5, <1>6, <1>7 DEF Holds

(* A step after which nobody is at work leaves nothing to rely on.         *)
LEMMA NoHands ==
  ASSUME tpc' \notin {"move", "mark"}, \A t \in Threads : work'[t] = NoWork
  PROVE  Hands'
BY DEF Hands

(* Steps of nobody in a section keep what others rely on.                  *)
LEMMA HandsKept ==
  ASSUME IInv, UNCHANGED <<lists, work, call>>, temp' \subseteq temp,
         \A p \in oneshot \cup periodic : blk'[p] = blk[p],
         \A t \in Threads :
           call[t] # NotCalling => blk'[call[t].ptr] = blk[call[t].ptr],
         cur' = cur \/ cur'.ptr \notin Ptr,
         tpc' \in {"move", "mark"} => UNCHANGED <<tpc, tval, scan>>
  PROVE  Hands'
<1>. USE DEF IInv
<1>1. ASSUME NEW t \in Threads, work[t] # NoWork
      PROVE  Holds(work[t].op, work[t].found, call[t])'
  <2>1. Holds(work[t].op, work[t].found, call[t])
    BY <1>1 DEF Hands
  <2>2. PICK op, found, c : op = work[t].op /\ found = work[t].found /\ c = call[t]
    OBVIOUS
  <2>3. Holds(op, found, c)'
    BY <2>1, <2>2, HoldsKept
  <2>4. work'[t].op = op /\ work'[t].found = found /\ call'[t] = c
    BY <2>2
  <2>. QED  BY <2>3, <2>4
<1>2. (tpc = "move" => scan \in oneshot /\ Expired(blk[scan].timeout, tval))'
  BY DEF Hands, Expired
<1>3. (tpc = "mark" => scan \in periodic)'
  BY DEF Hands
<1>. QED  BY <1>1, <1>2, <1>3 DEF Hands

(* Steps of UITimerProc keep what the scan and the API rely on.            *)
LEMMA TimerStepHands ==
  ASSUME IInv, TimerStep
  PROVE  Hands'
<1>. USE DEF IInv
<1>1. /\ UNCHANGED callers
      /\ cur.ptr \in Ptr \cup {NoPtr} /\ NoPtr \notin Ptr /\ NoElem.ptr = NoPtr
      /\ \A t \in Threads : call[t] # NotCalling => call[t].ptr \in Ptr
  <2>1. UNCHANGED callers
    BY DEF TimerStep, ProcStart, ProcTop, ProcLock, ScanOneShot,
         MoveOneShot, ScanOneShotEnd, ScanPeriodic, MarkPeriodic,
         ScanPeriodicEnd, TempDone, TakeOneShot, TakePeriodic, Rearm, CallFn,
         CallbackReturn, AfterFn
  <2>. QED  BY <2>1, ConstantsAssumption, CallPtr DEF TypeOK, Element, NoElem
<1>2. CASE \/ ProcStart \/ ProcTop \/ TempDone \/ CallFn \/ CallbackReturn
  <2>1. /\ UNCHANGED <<lists, mem, cur>> /\ tpc' \notin {"move", "mark"}
        /\ temp' \subseteq temp
    BY <1>2 DEF ProcStart, ProcTop, TempDone, CallFn, CallbackReturn
  <2>. QED  BY <1>1, <2>1, HandsKept
<1>3. CASE TakeOneShot
  <2>1. /\ UNCHANGED <<lists, mem, temp>> /\ tpc' = "fn" /\ cur'.ptr = NoPtr
    BY <1>3, ElementFacts DEF TakeOneShot
  <2>. QED  BY <1>1, <2>1, HandsKept
<1>4. CASE AfterFn
  <2>1. /\ UNCHANGED lists /\ cur \in temp
        /\ tpc' = "temp" /\ temp' \subseteq temp /\ cur' = NoElem
    BY <1>4 DEF AfterFn, Control
  <2>2. /\ \A p \in oneshot \cup periodic : blk'[p] = blk[p]
        /\ \A t \in Threads :
             call[t] # NotCalling => blk'[call[t].ptr] = blk[call[t].ptr]
    <3>1. CASE UNCHANGED mem
      BY <3>1
    <3>2. CASE /\ cur.type = "PERIODIC" /\ blk[cur.ptr].status = "DEL"
               /\ Free({cur.ptr})
      <4>1. /\ cur.ptr \notin oneshot \cup periodic
            /\ \A t \in Threads : call[t] # NotCalling => call[t].ptr # cur.ptr
        BY <2>1, <3>2 DEF Owners, StatusTells
      <4>2. \A p \in Ptr : p # cur.ptr => blk'[p] = blk[p]
        BY <3>2 DEF Free
      <4>. QED  BY <1>1, <4>1, <4>2 DEF TypeOK
    <3>. QED  BY <1>4, <3>1, <3>2 DEF AfterFn
  <2>. QED  BY <1>1, <2>1, <2>2, HandsKept
<1>5. CASE \/ ScanOneShot \/ MoveOneShot \/ ScanOneShotEnd \/ ScanPeriodic
           \/ MarkPeriodic \/ ScanPeriodicEnd \/ Rearm
  <2>1. tpc \in {"oneshot", "move", "periodic", "mark", "take"}
    BY <1>5 DEF ScanOneShot, MoveOneShot, ScanOneShotEnd, ScanPeriodic,
                MarkPeriodic, ScanPeriodicEnd, Rearm
  <2>2. \A t \in Threads : work'[t] = NoWork
    BY <1>1, <2>1, ScanAlone
  <2>3. CASE ScanOneShot
    BY <2>2, <2>3 DEF ScanOneShot, Hands, Expired
  <2>4. CASE ScanPeriodic
    BY <2>2, <2>4 DEF ScanPeriodic, ToScan, Hands
  <2>5. CASE MoveOneShot \/ ScanOneShotEnd \/ MarkPeriodic \/ ScanPeriodicEnd \/ Rearm
    <3>1. tpc' \notin {"move", "mark"}
      BY <2>5 DEF MoveOneShot, ScanOneShotEnd, MarkPeriodic, ScanPeriodicEnd,
                  Rearm
    <3>. QED  BY <2>2, <3>1, NoHands
  <2>. QED  BY <1>5, <2>3, <2>4, <2>5
<1>6. CASE ProcLock \/ TakePeriodic
  <2>1. /\ mutex = NoThread /\ tpc # "callback"
        /\ tpc' \notin {"move", "mark"}
    BY <1>6 DEF ProcLock, TakePeriodic, Lock
  <2>2. \A t \in Threads : work[t] # NoWork => t = TimerThread
    BY <2>1, FreeAlone DEF InSection
  <2>3. \A t \in Threads : work'[t] = NoWork
    BY <1>1, <2>1, <2>2 DEF Exclusive
  <2>. QED  BY <2>1, <2>3, NoHands
<1>. QED  BY <1>2, <1>3, <1>4, <1>5, <1>6 DEF TimerStep

(* So do UITimer_Init and UITimer_Destory.                                 *)
LEMMA MainStepHands ==
  ASSUME IInv, Disciplined, MainStep
  PROVE  Hands'
<1>. USE DEF IInv
<1>1. CASE SafeStart /\ UITimer_Init
  <2>1. /\ Quiet /\ tpc = "none" /\ tpc' = "start" /\ UNCHANGED callers
    BY <1>1 DEF SafeStart, UITimer_Init, Exclusive, Disciplined, AllRules
  <2>2. \A t \in Threads : work'[t] = NoWork
    BY <2>1, ThreadFacts DEF Exclusive, Quiet
  <2>. QED  BY <2>1, <2>2, NoHands
<1>2. CASE UITimer_Destory
  <2>1. mutex = NoThread /\ mpc = "idle" /\ UNCHANGED <<tpc, work>>
    BY <1>2 DEF UITimer_Destory
  <2>2. \A t \in Threads : ~InSection(t)
    BY <2>1, FreeAlone
  <2>3. tpc \notin {"move", "mark"} /\ \A t \in Threads : work[t] = NoWork
    BY <2>2, ThreadFacts DEF InSection
  <2>. QED  BY <2>1, <2>3, NoHands
<1>3. CASE DestoryStop \/ DestoryUnlock \/ DestoryJoin
  <2>1. /\ UNCHANGED <<lists, mem, temp, cur, work, call, tval, scan>>
        /\ UNCHANGED tpc \/ tpc' = "none"
    BY <1>3 DEF DestoryStop, DestoryUnlock, DestoryJoin
  <2>. QED  BY <2>1, HandsKept
<1>. QED  BY <1>1, <1>2, <1>3 DEF MainStep

(* And the functions of the API: one that locks timerMutex may rely on     *)
(* what it has just found, and on what its caller respects.                *)
LEMMA ApiHands ==
  ASSUME IInv, Disciplined, NEW t \in Threads, ApiCall(t) \/ ApiWork(t)
  PROVE  Hands'
<1>. USE DEF IInv
<1>1. Rules = {"readd", "delete", "retDataPtr", "delall", "start", "stop"}
  BY DEF Disciplined, AllRules
<1>2. ASSUME NEW kind, NEW id, NEW len, AddCall(t, kind, id, len)
      PROVE  Hands'
  <2>. PICK p \in Ptr \ alloc :
         /\ \A q \in Ptr : q # p => blk'[q] = blk[q]
         /\ \A u \in Threads : u # t => call'[u] = call[u]
    BY <1>2 DEF AddCall, TypeOK
  <2>1. /\ UNCHANGED <<lists, temp, cur, scan, tpc, tval, work>>
        /\ work[t] = NoWork
    BY <1>2 DEF AddCall
  <2>2. \A q \in oneshot \cup periodic : blk'[q] = blk[q]
    BY DEF Owners, Valid, TypeOK
  <2>3. ASSUME NEW u \in Threads, work[u] # NoWork
        PROVE  Holds(work[u].op, work[u].found, call[u])'
    <3>1. Holds(work[u].op, work[u].found, call[u]) /\ u # t
      BY <2>1, <2>3 DEF Hands
    <3>2. call[u] # NotCalling => blk'[call[u].ptr] = blk[call[u].ptr]
      BY CallPtr DEF Owners, Valid
    <3>3. PICK op, found, c : op = work[u].op /\ found = work[u].found /\ c = call[u]
      OBVIOUS
    <3>4. Holds(op, found, c)'
      BY <2>1, <2>2, <3>1, <3>2, <3>3, HoldsKept
    <3>5. work'[u].op = op /\ work'[u].found = found /\ call'[u] = c
      BY <2>1, <3>1, <3>3
    <3>. QED  BY <3>4, <3>5
  <2>4. (tpc = "move" => scan \in oneshot /\ Expired(blk[scan].timeout, tval))'
    BY <2>1, <2>2 DEF Hands, Expired
  <2>5. (tpc = "mark" => scan \in periodic)'
    BY <2>1 DEF Hands
  <2>. QED  BY <2>1, <2>3, <2>4, <2>5 DEF Hands
<1>3. ASSUME NEW op, NEW found, Begin(t, op, found), Holds(op, found, call[t]),
             UNCHANGED <<lists, blk, temp, cur, tpc, call>>,
             t = TimerThread => tpc = "callback",
             t # TimerThread => mpc = "idle"
      PROVE  Hands'
  <2>1. /\ mutex = NoThread /\ work'[t] = [op |-> op, found |-> found]
        /\ \A u \in Threads : u # t => work'[u] = work[u]
    BY <1>3 DEF Begin, Lock, TypeOK
  <2>2. \A u \in Threads : InSection(u) => mpc = "join" /\ u = TimerThread
    BY <2>1, FreeAlone
  <2>3. /\ tpc \notin {"move", "mark"}
        /\ \A u \in Threads : u # t => work[u] = NoWork
    BY <1>3, <2>2, ThreadFacts DEF InSection, Exclusive
  <2>4. Holds(op, found, call[t])'
    BY <1>3 DEF Holds, ListOf, WithId
  <2>. QED  BY <1>3, <2>1, <2>3, <2>4 DEF Hands
<1>4. CASE ApiCall(t)
  <2>1. /\ call[t] # NotCalling \/ (\E f \in Api : MayCall(t, f))
    BY <1>4 DEF ApiCall, AddLock, AddCall, AddSearch, DelSearch, DelAllLock, Api
  <2>2. /\ t = TimerThread => tpc = "callback"
        /\ t # TimerThread => mpc = "idle"
    BY <1>1, <2>1, ThreadFacts DEF MayCall, Exclusive, Quiet
  <2>3. \A op, id : WithId(ListOf(op), id) \subseteq ListOf(op)
    BY DEF WithId
  <2>4. CASE AddLock(t)
    <3>. DEFINE op == AddOp(call[t].kind)
                found == WithId(ListOf(op), blk[call[t].ptr].id)
    <3>1. /\ Begin(t, op, found) /\ call[t] # NotCalling
          /\ UNCHANGED <<lists, blk, temp, cur, tpc, call>>
      BY <2>4 DEF AddLock, AddSearch
    <3>2. Holds(op, found, call[t])
      <4>1. call[t].kind \in Kinds
        BY <3>1 DEF TypeOK, Calls
      <4>2. call[t].kind = "per" => \A p \in found : blk[p].status # "PROC"
        BY <2>4, <1>1 DEF AddLock, SafeReadd, Pending, ListOf, AddOp
      <4>. QED  BY <2>3, <3>1, <4>1, <4>2
                DEF Holds, AddOp, AddOps, DelPeriodicOps, Kinds
    <3>. HIDE DEF op, found
    <3>. QED  BY <1>3, <2>2, <3>1, <3>2
  <2>5. ASSUME NEW id, NEW op \in {"UIDelTimer"} \cup DelPeriodicOps,
               op \in DelPeriodicOps => SafeDel(id),
               op = "UIDelPeriodicTimer_retDataPtr" => SafeDelRet(id),
               DelSearch(t, op, id)
        PROVE  Hands'
    <3>1. PICK found : found = WithId(ListOf(op), id)
      OBVIOUS
    <3>2. /\ Begin(t, op, found)
          /\ UNCHANGED <<lists, blk, temp, cur, tpc, call>>
      BY <2>5, <3>1 DEF DelSearch
    <3>3. op \in DelPeriodicOps => found = WithId(periodic, id)
      BY <3>1 DEF DelPeriodicOps, ListOf
    <3>4. Holds(op, found, call[t])
      BY <1>1, <2>3, <2>5, <3>1, <3>3
         DEF Holds, AddOps, DelPeriodicOps, SafeDel, SafeDelRet, InProcess, Pending
    <3>. QED  BY <1>3, <2>2, <3>2, <3>4
  <2>6. CASE SafeDelAll /\ DelAllLock(t)
    <3>1. /\ Begin(t, "UIDelAllTimer", {})
          /\ UNCHANGED <<lists, blk, temp, cur, tpc, call>>
      BY <2>6 DEF DelAllLock
    <3>2. Holds("UIDelAllTimer", {}, call[t])
      BY <1>1, <2>6 DEF Holds, AddOps, DelPeriodicOps, SafeDelAll
    <3>. QED  BY <1>3, <2>2, <3>1, <3>2
  <2>. QED  BY <1>2, <1>4, <2>4, <2>5, <2>6 DEF ApiCall, DelPeriodicOps, SafeDelRet
<1>5. CASE ApiWork(t)
  <2>1. /\ work[t].op # NoWork.op /\ End(t) /\ UNCHANGED tpc
    BY <1>5 DEF ApiWork, UIAddTimer, UIAddPeriodicTimer, UIDelTimer,
         UIDelPeriodicTimer, UIDelPeriodicTimer_retDataPtr, UIDelAllTimer, NoWork
  <2>2. InSection(t) /\ \A u \in Threads : InSection(u) => u = t
    BY <2>1, Alone DEF InSection
  <2>3. /\ tpc \notin {"move", "mark"}
        /\ \A u \in Threads : u # t => work[u] = NoWork
    BY <2>1, <2>2, ThreadFacts DEF InSection, Exclusive
  <2>4. \A u \in Threads : work'[u] = NoWork
    BY <2>1, <2>3 DEF End, TypeOK
  <2>. QED  BY <2>1, <2>3, <2>4, NoHands
<1>. QED  BY <1>4, <1>5

(* Every step of disciplined callers keeps the invariant.                  *)
LEMMA NextInv == Disciplined /\ IInv /\ [Next]_vars => IInv'
<1>. SUFFICES ASSUME Disciplined, IInv, [Next]_vars PROVE IInv'
  OBVIOUS
<1>1. TypeOK'
  BY NextType DEF IInv
<1>2. Exclusive'
  BY NextExclusive DEF IInv, Disciplined, AllRules
<1>3. Control' /\ Shape' /\ Hands'
  <2>1. CASE UNCHANGED vars \/ Tick
    <3>1. UNCHANGED <<running, tpc, tval, mutex, lists, temp, hand, mem, callers>>
      BY <2>1 DEF vars, Tick
    <3>2. Control' /\ Shape'
      BY <3>1, Frame DEF IInv, Shape, Control
    <3>. QED  BY <3>1, <3>2, HandsKept
  <2>2. CASE TimerStep
    BY <2>2, <1>1, TimerStepInv, TimerStepHands
  <2>3. CASE MainStep
    BY <2>3, MainStepInv, MainStepHands
  <2>4. ASSUME NEW t \in Threads, ApiCall(t) \/ ApiWork(t)
        PROVE  Control' /\ Shape' /\ Hands'
    BY <2>4, ApiInv, ApiHands
  <2>. QED  BY <2>1, <2>2, <2>3, <2>4 DEF Next
<1>. QED  BY <1>1, <1>2, <1>3 DEF IInv, Shape

(* With disciplined callers the invariant holds in every state.            *)
LEMMA TimerInvariant == Disciplined => (Spec => []IInv)
<1>. SUFFICES ASSUME Disciplined PROVE Spec => []IInv
  OBVIOUS
<1>1. Init => IInv
  BY InitInv
<1>2. IInv /\ [Next]_vars => IInv'
  BY NextInv
<1>. QED  BY <1>1, <1>2, PTL DEF Spec

(* The invariant tells what the properties state.                          *)
LEMMA InvSafe == IInv => MemorySafe /\ OneOwner
<1>. SUFFICES ASSUME IInv PROVE MemorySafe /\ OneOwner
  OBVIOUS
<1>. USE DEF IInv
<1>1. scan # NoPtr => tpc \in {"move", "mark"}
  BY DEF Control
<1>2. \A t \in Threads : work[t].found \subseteq oneshot \cup periodic
  <2>1. \A t \in Threads : work[t] # NoWork => work[t].found \subseteq ListOf(work[t].op)
    BY DEF Hands, Holds
  <2>2. NoWork.found = {} /\ \A op : ListOf(op) \subseteq oneshot \cup periodic
    BY DEF NoWork, ListOf
  <2>. QED  BY <2>1, <2>2
<1>3. MemorySafe
  BY <1>1, <1>2 DEF MemorySafe, Owners, Valid, Hands
<1>. QED  BY <1>2, <1>3 DEF OneOwner, Owners, Hands

(* With callers who keep the six rules the library never holds, let alone  *)
(* follows, a pointer to a freed timer, however client threads, callbacks, *)
(* UITimerProc and UITimer_Destory interleave.                             *)
THEOREM MemorySafety == Disciplined => (Spec => []MemorySafe)
<1>1. IInv => MemorySafe
  BY InvSafe
<1>. QED  BY <1>1, TimerInvariant, PTL

(* With callers who keep the six rules every block has one owner, and what *)
(* a scan or a function of the API has found is still listed when it comes *)
(* to it, so that whoever frees a block is the only one that can reach it. *)
THEOREM BlocksHaveOneOwner == Disciplined => (Spec => []OneOwner)
<1>1. IInv => OneOwner
  BY InvSafe
<1>. QED  BY <1>1, TimerInvariant, PTL

(* With callers who keep the six rules no id is ever listed twice.         *)
THEOREM IdsAreUnique == Disciplined => (Spec => []UniqueIds)
<1>1. IInv => UniqueIds
  BY DEF IInv
<1>. QED  BY <1>1, TimerInvariant, PTL
=============================================================================
