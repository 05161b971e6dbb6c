------------------------- MODULE UITimerFateProofs -------------------------
(***************************************************************************)
(* More theorems about UITimer: what becomes of the timers and of their    *)
(* blocks. The invariants here rest on IInv of UITimerProofs.              *)
(***************************************************************************)
EXTENDS UITimerProofs

USE DEF lists, mem, hand, callers, history

----------------------------------------------------------------------------
(* Timers set and not yet expired                                          *)

\* The blocks that carry a one-shot timer, or may become one: listed in
\* time_list, or in the hands of an add call.
Armed == oneshot \cup {call[t].ptr : t \in {u \in Threads : call[u] # NotCalling}}

\* The private copies of expired one-shot timers.
Copies == {e \in temp : e.type = "ONE_SHOT"}

\* The function of this copy was called.
Fired(e) == e = cur /\ tpc \in {"callback", "after"}

(* What Armed is, and who does not own its blocks.                         *)
LEMMA ArmedFacts ==
  ASSUME IInv
  PROVE  /\ \A p : p \in Armed <=> \/ p \in oneshot
                                   \/ \E t \in Threads : call[t] # NotCalling /\ p = call[t].ptr
         /\ \A p : p \in Armed' <=> \/ p \in oneshot'
                                    \/ \E t \in Threads : call'[t] # NotCalling /\ p = call'[t].ptr
         /\ Armed \subseteq Ptr
         /\ \A p \in Armed : p \notin periodic /\ (\A e \in temp : e.ptr # p)
<1>1. \A p : p \in Armed <=> \/ p \in oneshot
                             \/ \E t \in Threads : call[t] # NotCalling /\ p = call[t].ptr
  BY DEF Armed
<1>2. \A p : p \in Armed' <=> \/ p \in oneshot'
                              \/ \E t \in Threads : call'[t] # NotCalling /\ p = call'[t].ptr
  BY DEF Armed
<1>3. Armed \subseteq Ptr
  BY <1>1, CallPtr DEF IInv, TypeOK
<1>4. \A p \in Armed : p \notin periodic /\ (\A e \in temp : e.ptr # p)
  BY <1>1 DEF IInv, Owners
<1>. QED  BY <1>1, <1>2, <1>3, <1>4

(* What a function of the API has found is in the list it searched, and an *)
(* add still has its block.                                                *)
LEMMA WorkFacts ==
  ASSUME IInv, NEW t \in Threads
  PROVE  /\ work[t].op = "UIAddTimer" =>
              call[t] # NotCalling /\ work[t].found \subseteq oneshot
         /\ work[t].op = "UIAddPeriodicTimer" =>
              call[t] # NotCalling /\ work[t].found \subseteq periodic
         /\ work[t].op = "UIDelTimer" => work[t].found \subseteq oneshot
         /\ work[t].op \in DelPeriodicOps => work[t].found \subseteq periodic
         /\ work[t].op = "UIDelAllTimer" =>
              \A p \in periodic : PeriodicElem(p) \notin temp
<1>1. work[t].op # "none" => Holds(work[t].op, work[t].found, call[t])
  BY DEF IInv, Hands, NoWork
<1>. QED  BY <1>1 DEF Holds, ListOf, AddOps, DelPeriodicOps

\* A step that arms nothing and calls nothing: some blocks and copies may go,
\* the others stay as they are.
Keeps ==
  /\ Armed' \subseteq Armed
  /\ \A p \in Armed' : blk'[p] = blk[p]
  /\ Copies' \subseteq Copies
  /\ UNCHANGED <<arms, fires>>
  /\ \A a \in cancelled' : a \in cancelled \/ \E p \in Armed \ Armed' : a = blk[p].arm
  /\ \A e \in Copies' : Fired(e) => Fired(e)'
  /\ now' \in Nat /\ now' >= now
  /\ tval' = tval \/ tval' = SystemUptime

\* An add that finds its id in time_list.
Replaces(t, q) ==
  /\ call[t] # NotCalling /\ q \in oneshot
  /\ call' = [call EXCEPT ![t] = NotCalling]
  /\ Overwrite(call[t].ptr, q)
  /\ cancelled' = cancelled \cup {blk[q].arm}
  /\ UNCHANGED <<now, tpc, tval, oneshot, temp, cur, arms, fires>>

(* The steps of the timer thread.                                          *)
LEMMA TimerSteps ==
  ASSUME IInv, TimerStep
  PROVE  Keeps \/ MoveOneShot \/ CallFn
<1>0. now \in Nat /\ TypeOK /\ Control /\ blk \in [Ptr -> Block]
  BY ConstantsAssumption DEF IInv, TypeOK
<1>1. UNCHANGED <<now, call, arms, cancelled>> /\ (tval' = tval \/ tval' = SystemUptime)
  BY DEF TimerStep, ProcStart, ProcTop, ProcLock, ScanOneShot, MoveOneShot,
         ScanOneShotEnd, ScanPeriodic, MarkPeriodic, ScanPeriodicEnd, TempDone,
         TakeOneShot, TakePeriodic, Rearm, CallFn, CallbackReturn, AfterFn
<1>2. ASSUME UNCHANGED <<oneshot, fires>>, \A p \in Armed : blk'[p] = blk[p],
             \A e \in temp' : e.type = "ONE_SHOT" => e \in temp /\ (Fired(e) => Fired(e)')
      PROVE  Keeps
  <2>1. Armed' = Armed
    BY <1>1, <1>2 DEF Armed
  <2>2. Copies' \subseteq Copies /\ \A e \in Copies' : Fired(e) => Fired(e)'
    BY <1>2 DEF Copies
  <2>. QED  BY <1>0, <1>1, <1>2, <2>1, <2>2 DEF Keeps
<1>3. CASE \/ ProcStart \/ ProcTop \/ ProcLock \/ ScanOneShot \/ ScanOneShotEnd
           \/ ScanPeriodic \/ ScanPeriodicEnd \/ TempDone \/ TakeOneShot
           \/ TakePeriodic \/ CallbackReturn
  <2>1. UNCHANGED <<oneshot, fires, blk>> /\ temp' \subseteq temp
    BY <1>3 DEF ProcStart, ProcTop, ProcLock, ScanOneShot, ScanOneShotEnd, ScanPeriodic,
                ScanPeriodicEnd, TempDone, TakeOneShot, TakePeriodic, CallbackReturn
  <2>2. \A e : Fired(e) => Fired(e)'
    BY <1>3 DEF ProcStart, ProcTop, ProcLock, ScanOneShot, ScanOneShotEnd, ScanPeriodic,
                ScanPeriodicEnd, TempDone, TakeOneShot, TakePeriodic, CallbackReturn, Fired
  <2>. QED  BY <1>2, <2>1, <2>2
<1>4. CASE MarkPeriodic
  <2>. PICK p \in periodic : /\ temp' = temp \cup {PeriodicElem(p)}
                             /\ blk' = [blk EXCEPT ![p].status =
                                          IF @ # "DEL" THEN "PROC" ELSE @]
    BY <1>4 DEF MarkPeriodic, IInv, Hands
  <2>1. p \in Ptr /\ UNCHANGED <<oneshot, fires, cur>> /\ tpc = "mark"
    BY <1>0, <1>4 DEF MarkPeriodic, TypeOK
  <2>2. \A q \in Armed : blk'[q] = blk[q]
    BY <1>0, <2>1, ArmedFacts
  <2>3. \A e \in temp' : e.type = "ONE_SHOT" => e \in temp /\ (Fired(e) => Fired(e)')
    BY <2>1 DEF PeriodicElem, Fired
  <2>. QED  BY <1>2, <2>1, <2>2, <2>3
<1>5. CASE Rearm
  <2>. PICK e \in temp :
         /\ e.type = "PERIODIC"
         /\ \/ blk' = blk
            \/ blk' = [blk EXCEPT
                         ![e.ptr].timeout = RearmTimeout(tval, blk[e.ptr].TimerLen),
                         ![e.ptr].status = "IDLE",
                         ![e.ptr].due = Ticks(tval) + blk[e.ptr].TimerLen]
    <3>1. cur \in temp /\ cur.type = "PERIODIC"
      BY <1>0, <1>5 DEF Rearm, Control
    <3>. QED  BY <1>5, <3>1 DEF Rearm
  <2>1. e.ptr \in Ptr /\ UNCHANGED <<oneshot, fires, temp>> /\ tpc = "take"
    BY <1>0, <1>5, ElementFacts DEF Rearm
  <2>2. \A q \in Armed : q \in Ptr /\ q # e.ptr
    BY ArmedFacts
  <2>3. \A q \in Armed : blk'[q] = blk[q]
    BY <1>0, <2>1, <2>2
  <2>4. \A f : ~Fired(f)
    BY <2>1 DEF Fired
  <2>. QED  BY <1>2, <2>1, <2>3, <2>4
<1>6. CASE AfterFn
  <2>1. /\ UNCHANGED <<oneshot, fires>> /\ temp' = temp \ {cur}
        /\ blk' = blk \/ blk' = [p \in Ptr |-> IF p \in {cur.ptr} THEN NullBlock ELSE blk[p]]
    BY <1>6 DEF AfterFn, Free
  <2>2. cur \in temp
    BY <1>0, <1>6 DEF AfterFn, Control
  <2>3. \A q \in Armed : q \in Ptr /\ q # cur.ptr
    BY <2>2, ArmedFacts
  <2>4. \A q \in Armed : blk'[q] = blk[q]
    BY <2>1, <2>3
  <2>5. \A e \in temp' : e \in temp /\ ~Fired(e)
    BY <2>1 DEF Fired
  <2>. QED  BY <1>2, <2>1, <2>4, <2>5
<1>. QED  BY <1>3, <1>4, <1>5, <1>6 DEF TimerStep

(* The steps of the other threads and of the callbacks.                    *)
LEMMA CallerSteps ==
  ASSUME IInv, Tick \/ MainStep \/ (\E t \in Threads : ApiCall(t) \/ ApiWork(t))
  PROVE  \/ Keeps
         \/ \E t \in Threads, kind \in Kinds, id \in Ids, len \in Lens : AddCall(t, kind, id, len)
         \/ \E t \in Threads, q \in oneshot : Replaces(t, q)
<1>0. now \in Nat /\ TypeOK /\ Control /\ blk \in [Ptr -> Block]
      /\ call \in [Threads -> Calls]
  BY ConstantsAssumption DEF IInv, TypeOK
<1>1. ASSUME UNCHANGED <<arms, fires, temp, cur, tval>>, now' \in Nat, now' >= now,
             UNCHANGED tpc \/ tpc \notin {"callback", "after"},
             \A p \in oneshot' : p \in Armed,
             \A u \in Threads : call'[u] # NotCalling => call'[u] = call[u],
             \A p \in Armed : p \in Armed' => blk'[p] = blk[p],
             \A a \in cancelled' : a \in cancelled \/ \E p \in Armed \ Armed' : a = blk[p].arm
      PROVE  Keeps
  <2>1. Armed' \subseteq Armed
    BY <1>1, ArmedFacts
  <2>2. Copies' = Copies /\ \A e : Fired(e) => Fired(e)'
    BY <1>1 DEF Copies, Fired
  <2>. QED  BY <1>1, <2>1, <2>2 DEF Keeps
<1>2. CASE Tick \/ DestoryStop \/ DestoryUnlock \/ DestoryJoin
  <2>1. /\ UNCHANGED <<arms, fires, temp, cur, tval, oneshot, call, blk, cancelled>>
        /\ UNCHANGED tpc \/ tpc \notin {"callback", "after"}
        /\ now' = now \/ now' = now + 1
    BY <1>2 DEF Tick, DestoryStop, DestoryUnlock, DestoryJoin
  <2>. QED  BY <1>0, <1>1, <2>1, ArmedFacts
<1>3. CASE UITimer_Init
  <2>1. /\ UNCHANGED <<arms, fires, temp, cur, tval, call, blk, now>>
        /\ oneshot' = {} /\ cancelled' = cancelled \cup ArmsOf(oneshot)
        /\ tpc = "none"
    BY <1>0, <1>3 DEF UITimer_Init, Control
  <2>2. \A p \in oneshot : p \in Armed \ Armed'
    BY <2>1, ArmedFacts DEF IInv, Owners
  <2>3. \A a \in cancelled' : a \in cancelled \/ \E p \in Armed \ Armed' : a = blk[p].arm
    BY <2>1, <2>2 DEF ArmsOf
  <2>. QED  BY <1>0, <1>1, <2>1, <2>3, ArmedFacts
<1>4. ASSUME DelAll, UNCHANGED <<arms, fires, temp, cur, tval, call, now, tpc>>
      PROVE  Keeps
  <2>1. /\ oneshot' = {} /\ cancelled' = cancelled \cup ArmsOf(oneshot)
        /\ \A p \in Ptr : p \notin oneshot \cup periodic => blk'[p] = blk[p]
    BY <1>4 DEF DelAll, Free
  <2>2. \A p \in oneshot : p \in Armed \ Armed'
    BY <1>4, <2>1, ArmedFacts DEF IInv, Owners
  <2>3. \A a \in cancelled' : a \in cancelled \/ \E p \in Armed \ Armed' : a = blk[p].arm
    BY <2>1, <2>2 DEF ArmsOf
  <2>4. \A p \in Armed : p \in Armed' => blk'[p] = blk[p]
    BY <2>1, <2>2, ArmedFacts
  <2>. QED  BY <1>0, <1>1, <1>4, <2>1, <2>3, <2>4
<1>5. CASE UITimer_Destory
  BY <1>4, <1>5 DEF UITimer_Destory
<1>6. ASSUME NEW t \in Threads, UIAddTimer(t)
      PROVE  Keeps \/ \E q \in oneshot : Replaces(t, q)
  <2>. DEFINE p == call[t].ptr
  <2>1. /\ call' = [call EXCEPT ![t] = NotCalling]
        /\ UNCHANGED <<now, tpc, tval, temp, cur, arms, fires>>
    BY <1>6 DEF UIAddTimer
  <2>2. call[t] # NotCalling /\ work[t].found \subseteq oneshot
    BY <1>6, WorkFacts DEF UIAddTimer
  <2>3. p \in Armed
    BY <2>2, ArmedFacts
  <2>4. CASE oneshot' = oneshot \cup {p} /\ UNCHANGED <<blk, cancelled>>
    <3>1. \A q \in oneshot' : q \in Armed
      BY <2>3, <2>4, ArmedFacts
    <3>2. \A u \in Threads : call'[u] # NotCalling => call'[u] = call[u]
      BY <1>0, <2>1
    <3>. QED  BY <1>0, <1>1, <2>1, <2>4, <3>1, <3>2
  <2>5. CASE \E q \in work[t].found :
                /\ Overwrite(p, q) /\ cancelled' = cancelled \cup {blk[q].arm}
                /\ UNCHANGED oneshot
    BY <2>1, <2>2, <2>5 DEF Replaces
  <2>. QED  BY <1>6, <2>4, <2>5 DEF UIAddTimer
<1>7. ASSUME NEW t \in Threads, UIAddPeriodicTimer(t) PROVE Keeps
  <2>. DEFINE p == call[t].ptr
  <2>1. /\ call' = [call EXCEPT ![t] = NotCalling]
        /\ UNCHANGED <<now, tpc, tval, temp, cur, arms, fires, oneshot, cancelled>>
    BY <1>7 DEF UIAddPeriodicTimer
  <2>2. blk' = blk \/ \E q \in periodic : Overwrite(p, q)
    BY <1>7, WorkFacts DEF UIAddPeriodicTimer
  <2>3. \A r \in Armed : blk'[r] = blk[r]
    <3>1. \A r \in Armed : r \in Ptr /\ r \notin periodic
      BY ArmedFacts
    <3>. QED  BY <1>0, <2>2, <3>1 DEF Overwrite
  <2>4. /\ \A q \in oneshot' : q \in Armed
        /\ \A u \in Threads : call'[u] # NotCalling => call'[u] = call[u]
    BY <1>0, <2>1, ArmedFacts
  <2>. QED  BY <1>0, <1>1, <2>1, <2>3, <2>4
<1>8. ASSUME NEW t \in Threads, UIDelTimer(t) PROVE Keeps
  <2>. DEFINE gone == work[t].found
  <2>1. /\ UNCHANGED <<now, tpc, tval, temp, cur, arms, fires, call>>
        /\ oneshot' = oneshot \ gone /\ gone \subseteq oneshot
        /\ cancelled' = cancelled \cup ArmsOf(gone)
        /\ \A p \in Ptr : p \notin gone => blk'[p] = blk[p]
    BY <1>8, WorkFacts DEF UIDelTimer, Free
  <2>. HIDE DEF gone
  <2>2. \A p \in gone : p \in Armed \ Armed'
    BY <2>1, ArmedFacts DEF IInv, Owners
  <2>3. \A a \in cancelled' : a \in cancelled \/ \E p \in Armed \ Armed' : a = blk[p].arm
    BY <2>1, <2>2 DEF ArmsOf
  <2>4. \A p \in Armed : p \in Armed' => blk'[p] = blk[p]
    BY <2>1, <2>2, ArmedFacts
  <2>5. \A p \in oneshot' : p \in Armed
    BY <2>1, ArmedFacts
  <2>. QED  BY <1>0, <1>1, <2>1, <2>3, <2>4, <2>5
<1>9. ASSUME NEW t \in Threads,
             UIDelPeriodicTimer(t) \/ UIDelPeriodicTimer_retDataPtr(t)
      PROVE  Keeps
  <2>1. /\ UNCHANGED <<now, tpc, tval, temp, cur, arms, fires, call, oneshot, cancelled>>
        /\ \A p \in Ptr : p \notin periodic => blk'[p] = blk[p]
    <3>1. work[t].found \subseteq periodic
      BY <1>9, WorkFacts
         DEF UIDelPeriodicTimer, UIDelPeriodicTimer_retDataPtr, DelPeriodicOps
    <3>. QED  BY <1>9, <3>1 DEF UIDelPeriodicTimer, UIDelPeriodicTimer_retDataPtr
  <2>. QED  BY <1>0, <1>1, <2>1, ArmedFacts
<1>10. ASSUME NEW t \in Threads, UIDelAllTimer(t) PROVE Keeps
  BY <1>4, <1>10 DEF UIDelAllTimer
<1>12. ASSUME NEW t \in Threads,
              AddSearch(t) \/ DelAllLock(t) \/ \E op, id : DelSearch(t, op, id)
       PROVE  Keeps
  <2>1. UNCHANGED <<now, tpc, tval, temp, cur, arms, fires, call, oneshot, cancelled, blk>>
    BY <1>12 DEF AddSearch, DelAllLock, DelSearch
  <2>. QED  BY <1>0, <1>1, <2>1, ArmedFacts
<1>11. ASSUME NEW t \in Threads, ApiCall(t) \/ ApiWork(t)
       PROVE  \/ Keeps
              \/ \E kind \in Kinds, id \in Ids, len \in Lens : AddCall(t, kind, id, len)
              \/ \E q \in oneshot : Replaces(t, q)
  BY <1>6, <1>7, <1>8, <1>9, <1>10, <1>11, <1>12 DEF ApiCall, ApiWork, AddLock, Kinds
<1>. QED  BY <1>2, <1>3, <1>5, <1>11 DEF MainStep

----------------------------------------------------------------------------
(* The fate of an add call                                                 *)

\* Each add call that may still run has one carrier, a block or a copy; it has
\* not run, unless the copy is the one whose function was just called, and
\* nobody cancelled it.
Fates ==
  /\ \A p \in Armed : /\ blk[p].arm \in 1..arms
                      /\ blk[p].arm \notin cancelled
                      /\ fires[blk[p].arm] = 0
  /\ \A p, q \in Armed : blk[p].arm = blk[q].arm => p = q
  /\ \A e \in Copies : /\ e.copy.arm \in 1..arms
                       /\ e.copy.arm \notin cancelled
                       /\ ~Fired(e) => fires[e.copy.arm] = 0
  /\ \A e, f \in Copies : e.copy.arm = f.copy.arm => e = f
  /\ \A p \in Armed, e \in Copies : blk[p].arm # e.copy.arm
  /\ cancelled \subseteq 1..arms
  /\ \A a \in Arms : a > arms => fires[a] = 0
  /\ OneShotFate

(* Every step keeps it.                                                    *)
LEMMA NextFates == Disciplined /\ IInv /\ Fates /\ [Next]_vars => Fates'
<1>. SUFFICES ASSUME Disciplined, IInv, Fates, [Next]_vars PROVE Fates'
  OBVIOUS
<1>0. /\ TypeOK /\ Control /\ arms \in Nat /\ MaxArm \in Nat /\ arms <= MaxArm
      /\ fires \in [Arms -> Nat] /\ blk \in [Ptr -> Block] /\ call \in [Threads -> Calls]
      /\ \A a \in 1..arms : a \in Arms
  BY ConstantsAssumption DEF IInv, TypeOK, Arms
<1>1. CASE Keeps
  <2>1. /\ \A p \in Armed' : p \in Armed /\ blk'[p] = blk[p]
        /\ \A e \in Copies' : e \in Copies /\ (Fired(e) => Fired(e)')
        /\ UNCHANGED <<arms, fires>>
        /\ \A a \in cancelled' : a \in cancelled \/ \E p \in Armed : p \notin Armed' /\ a = blk[p].arm
    BY <1>1 DEF Keeps
  <2>2. \A p \in Armed' : blk'[p].arm \notin cancelled'
    BY <2>1 DEF Fates
  <2>3. \A e \in Copies' : e.copy.arm \notin cancelled'
    BY <2>1 DEF Fates
  <2>4. cancelled' \subseteq 1..arms /\ \A a \in cancelled' : fires[a] = 0
    <3>1. \A a \in cancelled : a \in 1..arms /\ fires[a] = 0
      <4>1. \A a \in cancelled : a \in 1..arms
        BY DEF Fates
      <4>2. \A a \in Arms : a \in cancelled => fires[a] = 0
        BY DEF Fates, OneShotFate
      <4>. QED  BY <1>0, <4>1, <4>2
    <3>2. \A q \in Armed : blk[q].arm \in 1..arms /\ fires[blk[q].arm] = 0
      BY DEF Fates
    <3>. QED  BY <2>1, <3>1, <3>2
  <2>5. /\ \A p \in Armed' : blk'[p].arm \in 1..arms' /\ fires'[blk'[p].arm] = 0
        /\ \A p, q \in Armed' : blk'[p].arm = blk'[q].arm => p = q
        /\ \A e \in Copies' : /\ e.copy.arm \in 1..arms'
                              /\ ~Fired(e)' => fires'[e.copy.arm] = 0
        /\ \A e, f \in Copies' : e.copy.arm = f.copy.arm => e = f
        /\ \A p \in Armed', e \in Copies' : blk'[p].arm # e.copy.arm
        /\ \A a \in Arms : a > arms' => fires'[a] = 0
        /\ \A a \in Arms : fires'[a] <= 1
    BY <2>1 DEF Fates, OneShotFate
  <2>. QED  BY <2>1, <2>2, <2>3, <2>4, <2>5 DEF Fates, OneShotFate
<1>2. CASE \E t \in Threads, kind \in Kinds, id \in Ids, len \in Lens : AddCall(t, kind, id, len)
  <2>. PICK t \in Threads, kind \in Kinds, id \in Ids, len \in Lens : AddCall(t, kind, id, len)
    BY <1>2
  <2>1. PICK p \in Ptr \ alloc :
          /\ blk' = [blk EXCEPT ![p] =
                       [id |-> id, TimerLen |-> len, status |-> "IDLE",
                        timeout |-> AddTimeout(SystemUptime, len),
                        arm |-> arms + 1, due |-> now + len]]
          /\ call' = [call EXCEPT ![t] = [kind |-> kind, ptr |-> p]]
    BY DEF AddCall
  <2>2. /\ UNCHANGED <<oneshot, temp, cur, tpc, fires, cancelled>>
        /\ call[t] = NotCalling /\ arms' = arms + 1 /\ arms < MaxArm
    BY DEF AddCall
  <2>3. Copies' = Copies /\ \A e : Fired(e)' <=> Fired(e)
    BY <2>2 DEF Copies, Fired
  <2>4. \A q \in Armed : q \in Ptr /\ q # p
    BY ArmedFacts DEF IInv, Owners, Valid
  <2>5. \A q \in Armed' : q \in Armed \/ q = p
    BY <1>0, <2>1, <2>2, ArmedFacts
  <2>6. /\ blk'[p].arm = arms + 1
        /\ \A q \in Armed' : q # p => q \in Armed /\ blk'[q] = blk[q]
    BY <1>0, <2>1, <2>4, <2>5
  <2>7. arms + 1 \in Arms /\ fires[arms + 1] = 0 /\ arms + 1 \notin 1..arms
        /\ arms + 1 \in 1..(arms + 1) /\ 1..arms \subseteq 1..(arms + 1)
    BY <1>0, <2>2 DEF Fates, Arms
  <2>8. /\ \A q \in Armed' : /\ blk'[q].arm \in 1..arms' /\ blk'[q].arm \notin cancelled'
                             /\ fires'[blk'[q].arm] = 0
        /\ \A q, r \in Armed' : blk'[q].arm = blk'[r].arm => q = r
        /\ \A q \in Armed', e \in Copies' : blk'[q].arm # e.copy.arm
    BY <2>2, <2>3, <2>6, <2>7 DEF Fates
  <2>9. /\ \A e \in Copies' : /\ e.copy.arm \in 1..arms' /\ e.copy.arm \notin cancelled'
                              /\ ~Fired(e)' => fires'[e.copy.arm] = 0
        /\ \A e, f \in Copies' : e.copy.arm = f.copy.arm => e = f
        /\ cancelled' \subseteq 1..arms'
    BY <2>2, <2>3, <2>7 DEF Fates
  <2>10. (\A a \in Arms : a > arms' => fires'[a] = 0) /\ OneShotFate'
    BY <1>0, <2>2 DEF Fates, OneShotFate, Arms
  <2>. QED  BY <2>8, <2>9, <2>10 DEF Fates
<1>3. CASE \E t \in Threads, q \in oneshot : Replaces(t, q)
  <2>. PICK t \in Threads, q \in oneshot : Replaces(t, q)
    BY <1>3
  <2>. DEFINE p == call[t].ptr
  <2>1. /\ call' = [call EXCEPT ![t] = NotCalling] /\ Overwrite(p, q)
        /\ cancelled' = cancelled \cup {blk[q].arm}
        /\ UNCHANGED <<tpc, oneshot, temp, cur, arms, fires>>
        /\ call[t] # NotCalling
    BY DEF Replaces
  <2>2. p \in Armed /\ q \in Armed /\ p # q /\ p \in Ptr /\ q \in Ptr
    BY <2>1, ArmedFacts DEF IInv, Owners
  <2>3. Copies' = Copies /\ \A e : Fired(e)' <=> Fired(e)
    BY <2>1 DEF Copies, Fired
  <2>4. Armed' \subseteq Armed \ {p}
    <3>1. \A u \in Threads : call'[u] # NotCalling =>
            /\ call[u] # NotCalling /\ call'[u].ptr = call[u].ptr /\ call[u].ptr # p
      BY <1>0, <2>1 DEF IInv, Owners
    <3>2. p \notin oneshot
      BY <2>1 DEF IInv, Owners
    <3>. QED  BY <2>1, <3>1, <3>2, ArmedFacts
  <2>5. /\ blk'[q].arm = blk[p].arm
        /\ \A r \in Armed' : r # q => r \in Armed /\ r # p /\ blk'[r] = blk[r]
    <3>1. \A r \in Armed : r \in Ptr
      BY ArmedFacts
    <3>2. blk'[q].arm = blk[p].arm
      BY <1>0, <2>1, <2>2 DEF Overwrite, Block
    <3>3. \A r \in Ptr : r # q => blk'[r] = blk[r]
      BY <1>0, <2>1, <2>2 DEF Overwrite
    <3>. QED  BY <2>4, <3>1, <3>2, <3>3
  <2>. HIDE DEF p
  <2>6. /\ blk[p].arm \in 1..arms /\ blk[p].arm \notin cancelled /\ fires[blk[p].arm] = 0
        /\ blk[q].arm \in 1..arms /\ blk[q].arm # blk[p].arm /\ fires[blk[q].arm] = 0
        /\ \A r \in Armed : r # p => blk[r].arm # blk[p].arm
        /\ \A r \in Armed : r # q => blk[r].arm # blk[q].arm
        /\ \A e \in Copies : e.copy.arm # blk[p].arm /\ e.copy.arm # blk[q].arm
    BY <2>2 DEF Fates
  <2>7. /\ \A r \in Armed' : /\ blk'[r].arm \in 1..arms' /\ blk'[r].arm \notin cancelled'
                             /\ fires'[blk'[r].arm] = 0
        /\ \A r, x \in Armed' : blk'[r].arm = blk'[x].arm => r = x
        /\ \A r \in Armed', e \in Copies' : blk'[r].arm # e.copy.arm
    BY <2>1, <2>3, <2>5, <2>6 DEF Fates
  <2>8. /\ \A e \in Copies' : /\ e.copy.arm \in 1..arms' /\ e.copy.arm \notin cancelled'
                              /\ ~Fired(e)' => fires'[e.copy.arm] = 0
        /\ \A e, f \in Copies' : e.copy.arm = f.copy.arm => e = f
        /\ cancelled' \subseteq 1..arms'
    BY <2>1, <2>3, <2>6 DEF Fates
  <2>9. (\A a \in Arms : a > arms' => fires'[a] = 0) /\ OneShotFate'
    BY <1>0, <2>1, <2>6 DEF Fates, OneShotFate
  <2>. QED  BY <2>7, <2>8, <2>9 DEF Fates
<1>4. CASE MoveOneShot
  <2>. PICK p \in oneshot : /\ oneshot' = oneshot \ {p}
                            /\ temp' = temp \cup {OneShotElem(blk[p])}
                            /\ Free({p})
    BY <1>4 DEF MoveOneShot, IInv, Hands
  <2>. DEFINE n == OneShotElem(blk[p])
  <2>1. /\ UNCHANGED <<call, cur, arms, fires, cancelled>>
        /\ tpc = "move" /\ tpc' = "oneshot"
    BY <1>4 DEF MoveOneShot
  <2>2. p \in Armed /\ p \notin Armed' /\ Armed' \subseteq Armed
        /\ \A q \in Armed' : blk'[q] = blk[q]
    <3>1. p \in Armed /\ p \notin Armed' /\ Armed' \subseteq Armed
      BY <2>1, ArmedFacts DEF IInv, Owners
    <3>. QED  BY <3>1, ArmedFacts DEF Free
  <2>3. n.copy = blk[p] /\ Copies' = Copies \cup {n}
    BY DEF OneShotElem, Copies
  <2>4. \A e : ~Fired(e) /\ ~Fired(e)'
    BY <2>1 DEF Fired
  <2>. HIDE DEF n
  <2>5. /\ \A r \in Armed' : r \in Armed /\ r # p /\ blk'[r] = blk[r]
        /\ \A e \in Copies' : e \in Copies \/ e = n
    BY <2>2, <2>3
  <2>6. /\ \A r \in Armed' : /\ blk'[r].arm \in 1..arms' /\ blk'[r].arm \notin cancelled'
                             /\ fires'[blk'[r].arm] = 0
        /\ \A r, x \in Armed' : blk'[r].arm = blk'[x].arm => r = x
        /\ \A r \in Armed', e \in Copies' : blk'[r].arm # e.copy.arm
    BY <2>1, <2>2, <2>3, <2>5 DEF Fates
  <2>7. /\ \A e \in Copies' : /\ e.copy.arm \in 1..arms' /\ e.copy.arm \notin cancelled'
                              /\ fires'[e.copy.arm] = 0
        /\ \A e, f \in Copies' : e.copy.arm = f.copy.arm => e = f
    BY <2>1, <2>2, <2>3, <2>4, <2>5 DEF Fates
  <2>. QED  BY <2>1, <2>6, <2>7 DEF Fates, OneShotFate
<1>5. CASE CallFn
  <2>1. /\ UNCHANGED <<call, oneshot, blk, temp, cur, arms, cancelled>>
        /\ tpc = "fn" /\ tpc' = "callback" /\ cur \in temp
        /\ fires' = IF cur.type = "ONE_SHOT"
                    THEN [fires EXCEPT ![cur.copy.arm] = @ + 1] ELSE fires
    BY <1>0, <1>5 DEF CallFn, Control
  <2>2. Armed' = Armed /\ Copies' = Copies
    BY <2>1 DEF Armed, Copies
  <2>3. \A e : ~Fired(e) /\ (Fired(e)' <=> e = cur)
    BY <2>1 DEF Fired
  <2>4. CASE cur.type # "ONE_SHOT"
    <3>1. fires' = fires
      BY <2>1, <2>4
    <3>. QED  BY <2>1, <2>2, <2>3, <3>1 DEF Fates, OneShotFate
  <2>5. CASE cur.type = "ONE_SHOT"
    <3>. DEFINE a == cur.copy.arm
    <3>1. cur \in Copies
      BY <2>1, <2>5 DEF Copies
    <3>2. a \in 1..arms /\ a \in Arms /\ a \notin cancelled /\ fires[a] = 0
      BY <1>0, <2>3, <3>1 DEF Fates
    <3>. HIDE DEF a
    <3>3. fires'[a] = 1 /\ \A b \in Arms : b # a => fires'[b] = fires[b]
      BY <1>0, <2>1, <2>5, <3>2 DEF a
    <3>4. /\ \A p \in Armed : blk[p].arm # a
          /\ \A e \in Copies : e # cur => e.copy.arm # a
      BY <3>1 DEF Fates, a
    <3>5. /\ \A p \in Armed : blk[p].arm \in Arms /\ fires'[blk[p].arm] = 0
          /\ \A e \in Copies : e # cur => fires'[e.copy.arm] = 0
      BY <1>0, <2>3, <3>3, <3>4 DEF Fates
    <3>6. \A b \in Arms : /\ fires'[b] <= 1 /\ (b \in cancelled => fires'[b] = 0)
                          /\ b > arms => fires'[b] = 0
      <4>1. \A b \in Arms : /\ fires[b] <= 1 /\ (b \in cancelled => fires[b] = 0)
                            /\ b > arms => fires[b] = 0
        BY DEF Fates, OneShotFate
      <4>2. ~(a > arms)
        BY <1>0, <3>2
      <4>. QED  BY <3>2, <3>3, <4>1, <4>2
    <3>. QED  BY <2>1, <2>2, <2>3, <3>5, <3>6 DEF Fates, OneShotFate
  <2>. QED  BY <2>4, <2>5
<1>6. CASE UNCHANGED vars
  BY <1>6 DEF vars, Fates, Armed, Copies, Fired, OneShotFate
<1>. QED  BY <1>1, <1>2, <1>3, <1>4, <1>5, <1>6, TimerSteps, CallerSteps DEF Next

(* With disciplined callers the function of a UIAddTimer call runs at most *)
(* once, and never after a delete or a later add found the timer in        *)
(* time_list and took it out.                                              *)
THEOREM OneShotsRunOnce == Disciplined => (Spec => []OneShotFate)
<1>. SUFFICES ASSUME Disciplined PROVE Spec => []OneShotFate
  OBVIOUS
<1>1. Init => Fates
  BY DEF Init, Fates, Armed, Copies, OneShotFate
<1>2. IInv /\ Fates /\ [Next]_vars => Fates'
  BY NextFates
<1>3. Fates => OneShotFate
  BY DEF Fates
<1>. QED  BY <1>1, <1>2, <1>3, TimerInvariant, PTL DEF Spec

----------------------------------------------------------------------------
(* Time                                                                    *)

(* A second more is SEC ticks more.                                        *)
LEMMA Seconds ==
  ASSUME NEW x \in Nat, NEW y \in Nat, x < y
  PROVE  x * SEC + SEC <= y * SEC
<1>1. SEC \in Nat /\ SEC > 0
  BY ConstantsAssumption
<1>2. PICK d \in Nat : y = x + 1 + d
  <2>1. y - x - 1 \in Nat /\ y = x + 1 + (y - x - 1)
    OBVIOUS
  <2>. QED  BY <2>1
<1>3. y * SEC = x * SEC + SEC + d * SEC
  BY <1>1, <1>2
<1>4. d * SEC \in Nat /\ x * SEC \in Nat
  BY <1>1
<1>. QED  BY <1>1, <1>3, <1>4

(* The uptime as seconds and a fraction is the uptime, and the deadline of *)
(* an add, with its carry, is the uptime and the timer's length.           *)
LEMMA DeadlineTicks ==
  ASSUME now \in Nat, NEW len \in Nat
  PROVE  /\ SystemUptime.usec < SEC /\ Ticks(SystemUptime) = now
         /\ AddTimeout(SystemUptime, len).usec < SEC
         /\ Ticks(AddTimeout(SystemUptime, len)) = now + len
<1>1. SEC \in Nat /\ SEC > 0
  BY ConstantsAssumption
<1>2. \A n \in Nat : /\ n \div SEC \in Nat /\ n % SEC \in Nat /\ n % SEC < SEC
                     /\ n = (n \div SEC) * SEC + (n % SEC)
  BY <1>1
<1>. DEFINE s == now \div SEC
            u == now % SEC
            f == u + (len % SEC)
            l == len \div SEC
            c == f \div SEC
            r == f % SEC
<1>3. /\ s \in Nat /\ u \in Nat /\ u < SEC /\ now = s * SEC + u
      /\ l \in Nat /\ len = l * SEC + (f - u) /\ f \in Nat
  BY <1>2
<1>4. c \in Nat /\ r \in Nat /\ r < SEC /\ f = c * SEC + r
  BY <1>2, <1>3
<1>5. /\ SystemUptime = [sec |-> s, usec |-> u]
      /\ AddTimeout(SystemUptime, len) = [sec |-> s + l + c, usec |-> r]
  BY DEF SystemUptime, AddTimeout
<1>. HIDE DEF s, u, f, l, c, r
<1>6. Ticks(SystemUptime) = s * SEC + u
  BY <1>5 DEF Ticks
<1>7. Ticks(AddTimeout(SystemUptime, len)) = (s + l + c) * SEC + r
  BY <1>5 DEF Ticks
<1>8. (s + l + c) * SEC = s * SEC + l * SEC + c * SEC
  BY <1>1, <1>3, <1>4
<1>9. s * SEC \in Nat /\ l * SEC \in Nat /\ c * SEC \in Nat
  BY <1>1, <1>3, <1>4
<1>. QED  BY <1>1, <1>3, <1>4, <1>5, <1>6, <1>7, <1>8, <1>9

(* The test of the scans compares the times, of timevals whose fraction is *)
(* less than a second.                                                     *)
LEMMA ExpiredTicks ==
  ASSUME NEW a \in Timeval, NEW b \in Timeval, a.usec < SEC, b.usec < SEC, Expired(a, b)
  PROVE  Ticks(a) <= Ticks(b)
<1>1. SEC \in Nat /\ SEC > 0
  BY ConstantsAssumption
<1>2. a.sec \in Nat /\ a.usec \in Nat /\ b.sec \in Nat /\ b.usec \in Nat
  BY DEF Timeval
<1>3. a.sec * SEC \in Nat /\ b.sec * SEC \in Nat
  BY <1>1, <1>2
<1>4. CASE a.sec < b.sec
  <2>1. a.sec * SEC + SEC <= b.sec * SEC
    BY <1>2, <1>4, Seconds
  <2>. QED  BY <1>1, <1>2, <1>3, <2>1 DEF Ticks
<1>5. CASE a.sec = b.sec
  BY <1>2, <1>3, <1>5 DEF Expired, Ticks
<1>. QED  BY <1>2, <1>4, <1>5 DEF Expired

\* The deadlines of one-shot timers are normalised and are when they are due;
\* UITimerProc's snapshot is not ahead of the clock.
Deadlines ==
  /\ tval.usec < SEC /\ Ticks(tval) <= now
  /\ \A p \in Armed : blk[p].timeout.usec < SEC /\ Ticks(blk[p].timeout) = blk[p].due
  /\ \A e \in Copies : e.copy.due <= now

(* Every step keeps it.                                                    *)
LEMMA NextDeadlines == Disciplined /\ IInv /\ Deadlines /\ [Next]_vars => Deadlines'
<1>. SUFFICES ASSUME Disciplined, IInv, Deadlines, [Next]_vars PROVE Deadlines'
  OBVIOUS
<1>0. /\ TypeOK /\ now \in Nat /\ tval \in Timeval /\ Ticks(tval) \in Nat
      /\ blk \in [Ptr -> Block] /\ call \in [Threads -> Calls]
  <2>1. TypeOK /\ now \in Nat /\ tval \in Timeval
    BY ConstantsAssumption DEF IInv, TypeOK
  <2>2. 0 \in Nat
    OBVIOUS
  <2>. QED  BY <2>1, <2>2, TimevalTypes DEF TypeOK
<1>1. \A e \in Copies : e.copy.due \in Nat
  BY <1>0 DEF TypeOK, Copies, Element, Block
<1>2. SystemUptime.usec < SEC /\ Ticks(SystemUptime) = now
  <2>1. 0 \in Nat
    OBVIOUS
  <2>. QED  BY <1>0, <2>1, DeadlineTicks
<1>3. CASE Keeps
  <2>1. /\ \A p \in Armed' : p \in Armed /\ blk'[p] = blk[p]
        /\ \A e \in Copies' : e \in Copies
        /\ now' \in Nat /\ now' >= now
        /\ tval' = tval \/ tval' = SystemUptime
    BY <1>3 DEF Keeps
  <2>2. tval'.usec < SEC /\ Ticks(tval') <= now'
    BY <1>0, <1>2, <2>1 DEF Deadlines
  <2>3. \A e \in Copies' : e.copy.due <= now'
    BY <1>0, <1>1, <2>1 DEF Deadlines
  <2>4. Ticks(tval)' = Ticks(tval')
    BY DEF Ticks
  <2>5. \A p \in Armed' : blk'[p].timeout.usec < SEC /\ Ticks(blk'[p].timeout) = blk'[p].due
    BY <2>1 DEF Deadlines
  <2>. QED  BY <2>2, <2>3, <2>5 DEF Deadlines
<1>4. CASE \E t \in Threads, kind \in Kinds, id \in Ids, len \in Lens : AddCall(t, kind, id, len)
  <2>. PICK t \in Threads, kind \in Kinds, id \in Ids, len \in Lens : AddCall(t, kind, id, len)
    BY <1>4
  <2>1. PICK p \in Ptr \ alloc :
          /\ blk' = [blk EXCEPT ![p] =
                       [id |-> id, TimerLen |-> len, status |-> "IDLE",
                        timeout |-> AddTimeout(SystemUptime, len),
                        arm |-> arms + 1, due |-> now + len]]
          /\ call' = [call EXCEPT ![t] = [kind |-> kind, ptr |-> p]]
    BY DEF AddCall
  <2>2. UNCHANGED <<oneshot, temp, now, tval>> /\ call[t] = NotCalling
    BY DEF AddCall
  <2>3. Copies' = Copies
    BY <2>2 DEF Copies
  <2>4. \A q \in Armed : q \in Ptr /\ q # p
    BY ArmedFacts DEF IInv, Owners, Valid
  <2>5. \A q \in Armed' : q \in Armed \/ q = p
    BY <1>0, <2>1, <2>2, ArmedFacts
  <2>6. /\ blk'[p].timeout = AddTimeout(SystemUptime, len) /\ blk'[p].due = now + len
        /\ \A q \in Armed' : q # p => q \in Armed /\ blk'[q] = blk[q]
    BY <1>0, <2>1, <2>4, <2>5
  <2>7. len \in Nat
    BY ConstantsAssumption
  <2>8. blk'[p].timeout.usec < SEC /\ Ticks(blk'[p].timeout) = blk'[p].due
    BY <1>0, <2>6, <2>7, DeadlineTicks
  <2>9. \A q \in Armed' : blk'[q].timeout.usec < SEC /\ Ticks(blk'[q].timeout) = blk'[q].due
    BY <2>6, <2>8 DEF Deadlines
  <2>. QED  BY <2>2, <2>3, <2>9 DEF Deadlines
<1>5. CASE \E t \in Threads, q \in oneshot : Replaces(t, q)
  <2>. PICK t \in Threads, q \in oneshot : Replaces(t, q)
    BY <1>5
  <2>. DEFINE p == call[t].ptr
  <2>1. /\ call' = [call EXCEPT ![t] = NotCalling] /\ Overwrite(p, q)
        /\ UNCHANGED <<now, tval, oneshot, temp>>
        /\ call[t] # NotCalling
    BY DEF Replaces
  <2>2. p \in Armed /\ q \in Armed /\ p \in Ptr /\ q \in Ptr
    BY <2>1, ArmedFacts
  <2>3. Copies' = Copies
    BY <2>1 DEF Copies
  <2>4. Armed' \subseteq Armed
    <3>1. \A u \in Threads : call'[u] # NotCalling =>
            call[u] # NotCalling /\ call'[u].ptr = call[u].ptr
      BY <1>0, <2>1
    <3>. QED  BY <2>1, <3>1, ArmedFacts
  <2>5. /\ blk'[q].timeout = blk[p].timeout /\ blk'[q].due = blk[p].due
        /\ \A r \in Ptr : r # q => blk'[r] = blk[r]
    <3>1. blk'[q].timeout = blk[p].timeout /\ blk'[q].due = blk[p].due
      BY <1>0, <2>1, <2>2 DEF Overwrite, Block
    <3>2. \A r \in Ptr : r # q => blk'[r] = blk[r]
      BY <1>0, <2>1, <2>2 DEF Overwrite
    <3>. QED  BY <3>1, <3>2
  <2>. HIDE DEF p
  <2>6. \A r \in Armed' : blk'[r].timeout.usec < SEC /\ Ticks(blk'[r].timeout) = blk'[r].due
    BY <2>2, <2>4, <2>5, ArmedFacts DEF Deadlines
  <2>. QED  BY <2>1, <2>3, <2>6 DEF Deadlines
<1>6. CASE MoveOneShot
  <2>. PICK p \in oneshot : /\ oneshot' = oneshot \ {p}
                            /\ temp' = temp \cup {OneShotElem(blk[p])}
                            /\ Free({p}) /\ Expired(blk[p].timeout, tval)
    BY <1>6 DEF MoveOneShot, IInv, Hands
  <2>. DEFINE n == OneShotElem(blk[p])
  <2>1. UNCHANGED <<call, now, tval>>
    BY <1>6 DEF MoveOneShot
  <2>2. p \in Armed /\ p \in Ptr /\ \A q \in Armed' : q \in Armed /\ blk'[q] = blk[q]
    <3>1. p \in Armed /\ p \notin Armed' /\ Armed' \subseteq Armed
      BY <2>1, ArmedFacts DEF IInv, Owners
    <3>. QED  BY <3>1, ArmedFacts DEF Free
  <2>3. n.copy = blk[p] /\ Copies' = Copies \cup {n}
    BY DEF OneShotElem, Copies
  <2>. HIDE DEF n
  <2>4. /\ blk[p].timeout.usec < SEC /\ Ticks(blk[p].timeout) = blk[p].due
        /\ tval.usec < SEC /\ Ticks(tval) <= now
    BY <2>2 DEF Deadlines
  <2>5. blk[p].timeout \in Timeval /\ blk[p].due \in Nat
    BY <1>0, <2>2 DEF Block
  <2>6. Ticks(blk[p].timeout) <= Ticks(tval)
    BY <1>0, <2>4, <2>5, ExpiredTicks
  <2>7. blk[p].due <= now
    BY <1>0, <2>4, <2>5, <2>6
  <2>8. \A q \in Armed' : blk'[q].timeout.usec < SEC /\ Ticks(blk'[q].timeout) = blk'[q].due
    BY <2>2 DEF Deadlines
  <2>9. \A e \in Copies' : e.copy.due <= now
    BY <2>3, <2>7 DEF Deadlines
  <2>. QED  BY <2>1, <2>4, <2>8, <2>9 DEF Deadlines
<1>7. CASE CallFn
  <2>1. UNCHANGED <<call, oneshot, blk, temp, now, tval>>
    BY <1>7 DEF CallFn
  <2>. QED  BY <2>1 DEF Deadlines, Armed, Copies
<1>8. CASE UNCHANGED vars
  BY <1>8 DEF vars, Deadlines, Armed, Copies
<1>. QED  BY <1>3, <1>4, <1>5, <1>6, <1>7, <1>8, TimerSteps, CallerSteps DEF Next

(* With disciplined callers a one-shot timer is only handed to the         *)
(* callback loop once the time it was set to has passed: the carry of the  *)
(* adds and the comparison of the scan are right for every length.         *)
THEOREM NoTimerIsEarly == Disciplined => (Spec => []NotBeforeDue)
<1>. SUFFICES ASSUME Disciplined PROVE Spec => []NotBeforeDue
  OBVIOUS
<1>1. Init => Deadlines
  <2>. SUFFICES ASSUME Init PROVE Deadlines
    OBVIOUS
  <2>1. SEC \in Nat /\ SEC > 0
    BY ConstantsAssumption
  <2>2. tval = [sec |-> 0, usec |-> 0] /\ now = 0 /\ oneshot = {} /\ temp = {}
        /\ \A t \in Threads : call[t] = NotCalling
    BY DEF Init
  <2>3. Ticks(tval) = 0
    BY <2>1, <2>2 DEF Ticks
  <2>4. Armed = {} /\ Copies = {}
    BY <2>2 DEF Armed, Copies
  <2>. QED  BY <2>1, <2>2, <2>3, <2>4 DEF Deadlines
<1>2. IInv /\ Deadlines /\ [Next]_vars => Deadlines'
  BY NextDeadlines
<1>3. Deadlines => NotBeforeDue
  BY DEF Deadlines, NotBeforeDue, Copies
<1>. QED  BY <1>1, <1>2, <1>3, TimerInvariant, PTL DEF Spec

----------------------------------------------------------------------------
(* Memory that is not lost                                                 *)

\* Who still reaches a block: a pending timer is in temp_list; one in temp_list
\* is listed, already given up, or marked, so that UITimerProc frees it.
Reach ==
  /\ NoOrphan
  /\ \A e \in temp : e.type = "PERIODIC" =>
       e.ptr \in periodic \cup leaked \/ blk[e.ptr].status = "DEL"
  /\ \A p \in periodic : blk[p].status = "PROC" => PeriodicElem(p) \in temp
  /\ tpc = "start" => \A p \in periodic : blk[p].status = "IDLE"
  /\ (cur.type = "PERIODIC" /\ tpc # "take") => blk[cur.ptr].status # "PROC"

(* NoOrphan, block by block.                                               *)
LEMMA Holders ==
  /\ NoOrphan <=> \A p \in alloc : \/ p \in oneshot \cup periodic \cup leaked
                                   \/ \E e \in temp : p = e.ptr
                                   \/ \E t \in Threads : p = call[t].ptr
  /\ NoOrphan' <=> \A p \in alloc' : \/ p \in oneshot' \cup periodic' \cup leaked'
                                     \/ \E e \in temp' : p = e.ptr
                                     \/ \E t \in Threads : p = call'[t].ptr
BY DEF NoOrphan

(* The steps of the timer thread keep it.                                  *)
LEMMA TimerReach == ASSUME IInv, Reach, TimerStep PROVE Reach'
<1>0. /\ TypeOK /\ Control /\ Owners /\ StatusTells /\ blk \in [Ptr -> Block]
      /\ \A p \in alloc : \/ p \in oneshot \cup periodic \cup leaked
                          \/ \E e \in temp : p = e.ptr
                          \/ \E t \in Threads : p = call[t].ptr
  BY Holders DEF IInv, TypeOK, Reach
<1>1. CASE \/ ProcTop \/ ProcLock \/ ScanOneShot \/ ScanOneShotEnd \/ ScanPeriodic
           \/ ScanPeriodicEnd \/ TempDone \/ TakeOneShot \/ TakePeriodic \/ CallFn
           \/ CallbackReturn
  <2>1. /\ UNCHANGED <<lists, mem, temp, call, leaked>> /\ tpc' # "start"
        /\ \/ cur' = cur /\ tpc # "take"
           \/ cur'.type = "ONE_SHOT"
           \/ tpc' = "take"
    BY <1>1 DEF ProcTop, ProcLock, ScanOneShot, ScanOneShotEnd, ScanPeriodic,
                ScanPeriodicEnd, TempDone, TakeOneShot, TakePeriodic, CallFn, CallbackReturn
  <2>. QED  BY <2>1 DEF Reach, NoOrphan
<1>2. CASE ProcStart
  <2>1. /\ UNCHANGED <<lists, mem, call, cur>> /\ temp' = {} /\ tpc' = "top"
        /\ leaked' = leaked \cup (OwnedByTemp \cap alloc) /\ tpc = "start"
    BY <1>2 DEF ProcStart
  <2>2. \A e \in temp : e.ptr \in periodic \/ e.ptr = NoPtr \/ e.ptr \in OwnedByTemp
    BY DEF OwnedByTemp
  <2>3. NoPtr \notin alloc
    BY <1>0, ConstantsAssumption DEF TypeOK
  <2>4. NoOrphan'
    BY <1>0, <2>1, <2>2, <2>3, Holders
  <2>. QED  BY <2>1, <2>4 DEF Reach
<1>3. CASE MoveOneShot
  <2>. PICK p \in oneshot : /\ oneshot' = oneshot \ {p}
                            /\ temp' = temp \cup {OneShotElem(blk[p])}
                            /\ Free({p})
    BY <1>3 DEF MoveOneShot, IInv, Hands
  <2>1. /\ UNCHANGED <<periodic, leaked, call, cur>> /\ tpc = "move" /\ tpc' = "oneshot"
        /\ alloc' = alloc \ {p} /\ \A q \in Ptr : q # p => blk'[q] = blk[q]
    BY <1>3 DEF MoveOneShot, Free
  <2>2. NoOrphan'
    BY <1>0, <2>1, Holders
  <2>3. cur = NoElem /\ \A q \in periodic : q # p /\ q \in Ptr
    BY <1>0, <2>1 DEF Control, Owners, TypeOK
  <2>4. \A e \in temp : e.type = "PERIODIC" => e.ptr \in Ptr /\ e.ptr # p
    BY <1>0, ElementFacts DEF Owners
  <2>5. OneShotElem(blk[p]).type = "ONE_SHOT" /\ NoElem.type = "none"
    BY DEF OneShotElem, NoElem
  <2>6. \A e \in temp' : e.type = "PERIODIC" =>
          e.ptr \in periodic' \cup leaked' \/ blk'[e.ptr].status = "DEL"
    BY <2>1, <2>4, <2>5 DEF Reach
  <2>7. \A q \in periodic' : blk'[q].status = "PROC" => PeriodicElem(q) \in temp'
    BY <2>1, <2>3 DEF Reach
  <2>. QED  BY <2>1, <2>2, <2>3, <2>5, <2>6, <2>7 DEF Reach
<1>4. CASE MarkPeriodic
  <2>. PICK p \in periodic : /\ temp' = temp \cup {PeriodicElem(p)}
                             /\ blk' = [blk EXCEPT ![p].status =
                                          IF @ # "DEL" THEN "PROC" ELSE @]
    BY <1>4 DEF MarkPeriodic, IInv, Hands
  <2>1. /\ UNCHANGED <<lists, leaked, call, cur, alloc>> /\ tpc = "mark"
        /\ tpc' = "periodic" /\ p \in Ptr
    BY <1>0, <1>4 DEF MarkPeriodic, TypeOK
  <2>2. \A q \in Ptr : q # p => blk'[q] = blk[q]
    BY <1>0
  <2>3. cur = NoElem /\ NoElem.type = "none" /\ PeriodicElem(p).ptr = p
    BY <1>0, <2>1 DEF Control, NoElem, PeriodicElem
  <2>4. NoOrphan'
    BY <1>0, <2>1, Holders
  <2>5. \A e \in temp : e.type = "PERIODIC" => e.ptr \in Ptr
    BY <1>0, ElementFacts
  <2>6. \A e \in temp' : e.type = "PERIODIC" =>
          e.ptr \in periodic' \cup leaked' \/ blk'[e.ptr].status = "DEL"
    BY <2>1, <2>2, <2>3, <2>5 DEF Reach
  <2>7. \A q \in periodic' : blk'[q].status = "PROC" => PeriodicElem(q) \in temp'
    BY <1>0, <2>1, <2>2 DEF Reach, TypeOK
  <2>. QED  BY <2>1, <2>3, <2>4, <2>6, <2>7 DEF Reach
<1>5. CASE Rearm
  <2>0. cur \in temp /\ cur.type = "PERIODIC"
    BY <1>0, <1>5 DEF Rearm, Control
  <2>. PICK e \in temp :
         /\ e.type = "PERIODIC" /\ cur' = e
         /\ IF blk[e.ptr].status = "PROC"
            THEN blk' = [blk EXCEPT
                           ![e.ptr].timeout = RearmTimeout(tval, blk[e.ptr].TimerLen),
                           ![e.ptr].status = "IDLE",
                           ![e.ptr].due = Ticks(tval) + blk[e.ptr].TimerLen]
            ELSE blk' = blk
    BY <1>5, <2>0 DEF Rearm
  <2>1. UNCHANGED <<lists, leaked, call, temp, alloc>> /\ tpc' # "start"
    BY <1>5 DEF Rearm
  <2>2. e.ptr \in Ptr /\ \A f \in temp : f.type = "PERIODIC" => f.ptr \in Ptr
    BY <1>0, ElementFacts
  <2>3. /\ \A q \in Ptr : q # e.ptr => blk'[q] = blk[q]
        /\ blk'[e.ptr] = blk[e.ptr] \/ (blk[e.ptr].status = "PROC" /\ blk'[e.ptr].status = "IDLE")
        /\ blk'[e.ptr].status # "PROC"
    <3>1. CASE blk[e.ptr].status = "PROC"
      BY <1>0, <2>2, <3>1 DEF Block
    <3>2. CASE blk[e.ptr].status # "PROC"
      BY <3>2
    <3>. QED  BY <3>1, <3>2
  <2>4. NoOrphan'
    BY <1>0, <2>1, Holders
  <2>5. \A f \in temp : f.type = "PERIODIC" =>
          f.ptr \in periodic \cup leaked \/ blk'[f.ptr].status = "DEL"
    BY <2>2, <2>3 DEF Reach
  <2>6. \A q \in periodic : blk'[q].status = "PROC" => PeriodicElem(q) \in temp
    BY <1>0, <2>3 DEF Reach, TypeOK
  <2>. QED  BY <2>1, <2>3, <2>4, <2>5, <2>6 DEF Reach
<1>6. CASE AfterFn
  <2>1. /\ UNCHANGED <<lists, leaked, call>> /\ tpc' = "temp" /\ cur' = NoElem
        /\ temp' = temp \ {cur} /\ cur \in temp
        /\ NoElem.type = "none"
    BY <1>0, <1>6 DEF AfterFn, Control, NoElem
  <2>2. /\ cur.type = "ONE_SHOT" => cur.ptr = NoPtr /\ NoPtr \notin alloc
        /\ cur.type \in {"ONE_SHOT", "PERIODIC"}
        /\ cur.type = "PERIODIC" => cur = PeriodicElem(cur.ptr) /\ cur.ptr \in Ptr
        /\ \A f \in temp : f.type = "PERIODIC" => f = PeriodicElem(f.ptr) /\ f.ptr \in Ptr
    BY <1>0, <2>1, ElementFacts, ConstantsAssumption DEF TypeOK
  <2>3. CASE cur.type = "PERIODIC" /\ blk[cur.ptr].status = "DEL"
    <3>1. alloc' = alloc \ {cur.ptr} /\ \A q \in Ptr : q # cur.ptr => blk'[q] = blk[q]
      BY <1>6, <2>3 DEF AfterFn, Free
    <3>2. cur.ptr \notin periodic
      BY <1>0, <2>3 DEF StatusTells
    <3>3. \A f \in temp' : f.type = "PERIODIC" => f.ptr # cur.ptr /\ f \in temp /\ f.ptr \in Ptr
      BY <2>1, <2>2, <2>3
    <3>4. NoOrphan'
      BY <1>0, <2>1, <3>1, Holders
    <3>5. \A f \in temp' : f.type = "PERIODIC" =>
            f.ptr \in periodic' \cup leaked' \/ blk'[f.ptr].status = "DEL"
      BY <2>1, <3>1, <3>3 DEF Reach
    <3>6. \A q \in periodic' : blk'[q].status = "PROC" => PeriodicElem(q) \in temp'
      <4>. SUFFICES ASSUME NEW q \in periodic, blk'[q].status = "PROC"
                    PROVE  PeriodicElem(q) \in temp'
        BY <2>1
      <4>1. q # cur.ptr /\ blk[q].status = "PROC"
        BY <1>0, <3>1, <3>2 DEF TypeOK
      <4>2. PeriodicElem(q) \in temp /\ PeriodicElem(q).ptr = q
        BY <4>1 DEF Reach, PeriodicElem
      <4>. QED  BY <2>1, <4>1, <4>2
    <3>. QED  BY <2>1, <3>4, <3>5, <3>6 DEF Reach
  <2>4. CASE ~(cur.type = "PERIODIC" /\ blk[cur.ptr].status = "DEL")
    <3>1. UNCHANGED mem
      BY <1>6, <2>4 DEF AfterFn
    <3>2. cur.ptr \in periodic \cup leaked \/ cur.ptr \notin alloc
      BY <2>1, <2>2, <2>4 DEF Reach
    <3>3. NoOrphan'
      BY <1>0, <2>1, <3>1, <3>2, Holders
    <3>4. \A q \in periodic' : blk'[q].status = "PROC" => PeriodicElem(q) \in temp'
      <4>. SUFFICES ASSUME NEW q \in periodic, blk[q].status = "PROC"
                    PROVE  PeriodicElem(q) \in temp'
        BY <2>1, <3>1
      <4>1. PeriodicElem(q) \in temp /\ PeriodicElem(q).ptr = q
            /\ PeriodicElem(q).type = "PERIODIC"
        BY DEF Reach, PeriodicElem
      <4>2. PeriodicElem(q) # cur
        BY <1>6, <4>1 DEF Reach, AfterFn
      <4>. QED  BY <2>1, <4>1, <4>2
    <3>. QED  BY <2>1, <3>1, <3>3, <3>4 DEF Reach
  <2>. QED  BY <2>3, <2>4
<1>. QED  BY <1>1, <1>2, <1>3, <1>4, <1>5, <1>6 DEF TimerStep

(* A delete of all timers keeps it: no timer UITimerProc still works on is  *)
(* listed.                                                                 *)
LEMMA DelAllReach ==
  ASSUME IInv, Reach, DelAll, UNCHANGED <<temp, cur, call, leaked, tpc>>,
         \A p \in periodic : PeriodicElem(p) \notin temp
  PROVE  Reach'
<1>0. /\ TypeOK /\ Control /\ Owners /\ blk \in [Ptr -> Block]
      /\ \A p \in alloc : \/ p \in oneshot \cup periodic \cup leaked
                          \/ \E e \in temp : p = e.ptr
                          \/ \E t \in Threads : p = call[t].ptr
  BY Holders DEF IInv, TypeOK, Reach
<1>1. /\ oneshot' = {} /\ periodic' = {} /\ alloc' = alloc \ (oneshot \cup periodic)
      /\ \A q \in Ptr : q \notin oneshot \cup periodic => blk'[q] = blk[q]
  BY DEF DelAll, Free
<1>2. \A e \in temp : e.type = "PERIODIC" =>
        e = PeriodicElem(e.ptr) /\ e.ptr \in Ptr /\ e.ptr \notin oneshot
  BY <1>0, ElementFacts DEF Owners
<1>3. \A e \in temp : e.type = "PERIODIC" => e.ptr \notin periodic /\ blk'[e.ptr] = blk[e.ptr]
  BY <1>1, <1>2
<1>4. cur.type = "PERIODIC" => cur \in temp
  BY <1>0 DEF Control, NoElem
<1>5. NoOrphan'
  BY <1>0, <1>1, Holders
<1>6. \A e \in temp : e.type = "PERIODIC" => e.ptr \in leaked \/ blk'[e.ptr].status = "DEL"
  BY <1>3 DEF Reach
<1>7. (cur.type = "PERIODIC" /\ tpc # "take") => blk'[cur.ptr].status # "PROC"
  BY <1>3, <1>4 DEF Reach
<1>. QED  BY <1>1, <1>5, <1>6, <1>7 DEF Reach

(* So do the main thread and the clock.                                    *)
LEMMA MainReach ==
  ASSUME Disciplined, IInv, Reach, Tick \/ MainStep
  PROVE  Reach'
<1>1. CASE Tick \/ DestoryStop \/ DestoryUnlock \/ DestoryJoin
  <2>1. /\ UNCHANGED <<lists, mem, temp, call, leaked, cur>>
        /\ tpc' = tpc \/ (tpc' = "none" /\ tpc # "take")
    BY <1>1 DEF Tick, DestoryStop, DestoryUnlock, DestoryJoin
  <2>. QED  BY <2>1 DEF Reach, NoOrphan
<1>2. CASE UITimer_Init
  <2>1. /\ UNCHANGED <<mem, temp, call, cur>> /\ periodic' = {} /\ oneshot' = {}
        /\ leaked' = leaked \cup oneshot \cup periodic /\ tpc # "take"
    BY <1>2 DEF UITimer_Init, IInv, Exclusive
  <2>2. NoOrphan'
    BY <2>1, Holders DEF Reach
  <2>. QED  BY <2>1, <2>2 DEF Reach
<1>3. CASE SafeDelAll /\ UITimer_Destory
  BY <1>3, DelAllReach DEF UITimer_Destory, SafeDelAll, Disciplined, AllRules
<1>. QED  BY <1>1, <1>2, <1>3 DEF MainStep

(* And the functions of the library.                                       *)
LEMMA ApiReach ==
  ASSUME IInv, Reach, NEW t \in Threads, ApiCall(t) \/ ApiWork(t)
  PROVE  Reach'
<1>0. /\ TypeOK /\ Control /\ Owners /\ StatusTells /\ CallsIdle
      /\ blk \in [Ptr -> Block] /\ periodic \subseteq Ptr /\ oneshot \subseteq Ptr
      /\ NoPtr \notin alloc /\ alloc \subseteq Ptr
      /\ \A p \in alloc : \/ p \in oneshot \cup periodic \cup leaked
                          \/ \E e \in temp : p = e.ptr
                          \/ \E u \in Threads : p = call[u].ptr
  BY Holders, ConstantsAssumption DEF IInv, TypeOK, Reach
<1>1. /\ \A e \in temp : e.type = "PERIODIC" =>
           e = PeriodicElem(e.ptr) /\ e.ptr \in alloc /\ e.ptr \notin oneshot
      /\ cur.type = "PERIODIC" => cur \in temp
      /\ oneshot \subseteq alloc /\ periodic \subseteq alloc /\ oneshot \cap periodic = {}
  BY <1>0, ElementFacts DEF Owners, Valid, Control, NoElem
<1>2. ASSUME NEW kind \in Kinds, NEW id \in Ids, NEW len \in Lens, AddCall(t, kind, id, len)
      PROVE  Reach'
  <2>. PICK p \in Ptr \ alloc :
         /\ alloc' = alloc \cup {p}
         /\ \A q \in Ptr : q # p => blk'[q] = blk[q]
         /\ call' = [call EXCEPT ![t] = [kind |-> kind, ptr |-> p]]
    BY <1>0, <1>2 DEF AddCall
  <2>1. UNCHANGED <<lists, temp, cur, tpc, leaked>> /\ call[t] = NotCalling
    BY <1>2 DEF AddCall
  <2>2. /\ call[t].ptr = NoPtr /\ call'[t].ptr = p
        /\ \A u \in Threads : u # t => call'[u] = call[u]
    BY <1>0, <2>1 DEF NotCalling, TypeOK
  <2>3. NoOrphan'
    BY <1>0, <2>1, <2>2, Holders
  <2>4. \A q \in alloc : blk'[q] = blk[q]
    BY <1>0
  <2>5. \A e \in temp : e.type = "PERIODIC" =>
          e.ptr \in periodic \cup leaked \/ blk'[e.ptr].status = "DEL"
    BY <1>1, <2>4 DEF Reach
  <2>6. /\ \A q \in periodic : blk'[q] = blk[q]
        /\ cur.type = "PERIODIC" => blk'[cur.ptr] = blk[cur.ptr]
    BY <1>1, <2>4
  <2>. QED  BY <2>1, <2>3, <2>5, <2>6 DEF Reach
<1>3. CASE UIAddTimer(t)
  <2>. DEFINE p == call[t].ptr
  <2>1. /\ UNCHANGED <<periodic, temp, cur, tpc, alloc>>
        /\ call' = [call EXCEPT ![t] = NotCalling]
        /\ \/ oneshot' = oneshot \cup {p} /\ UNCHANGED <<blk, leaked>>
           \/ /\ UNCHANGED oneshot /\ leaked' = leaked \cup {p}
              /\ \E q \in oneshot : Overwrite(p, q)
    BY <1>3, WorkFacts DEF UIAddTimer
  <2>2. \A q \in Ptr : q \notin oneshot => blk'[q] = blk[q]
    BY <1>0, <2>1 DEF Overwrite
  <2>3. \A u \in Threads : u # t => call'[u] = call[u]
    BY <1>0, <2>1 DEF TypeOK
  <2>4. NoOrphan'
    BY <1>0, <2>1, <2>3, Holders
  <2>5. \A e \in temp : e.type = "PERIODIC" => blk'[e.ptr] = blk[e.ptr]
    BY <1>0, <1>1, <2>2
  <2>6. /\ \A q \in periodic : blk'[q] = blk[q]
        /\ cur.type = "PERIODIC" => blk'[cur.ptr] = blk[cur.ptr]
    BY <1>0, <1>1, <2>2, <2>5
  <2>7. leaked \subseteq leaked'
    BY <2>1
  <2>8. \A e \in temp : e.type = "PERIODIC" =>
          e.ptr \in periodic \cup leaked' \/ blk'[e.ptr].status = "DEL"
    BY <2>5, <2>7 DEF Reach
  <2>. QED  BY <2>1, <2>4, <2>6, <2>8 DEF Reach
<1>4. CASE UIAddPeriodicTimer(t)
  <2>. DEFINE p == call[t].ptr
  <2>1. /\ UNCHANGED <<oneshot, temp, cur, tpc, alloc>>
        /\ call' = [call EXCEPT ![t] = NotCalling] /\ call[t] # NotCalling
        /\ \/ periodic' = periodic \cup {p} /\ UNCHANGED <<blk, leaked>>
           \/ /\ UNCHANGED periodic /\ leaked' = leaked \cup {p}
              /\ \E q \in periodic : Overwrite(p, q)
    BY <1>4, WorkFacts DEF UIAddPeriodicTimer
  <2>2. p \in Ptr /\ blk[p].status = "IDLE"
    BY <1>0, <2>1, CallPtr DEF CallsIdle
  <2>3. \A u \in Threads : u # t => call'[u] = call[u]
    BY <1>0, <2>1 DEF TypeOK
  <2>4. NoOrphan'
    BY <1>0, <2>1, <2>3, Holders
  <2>5. \A q \in Ptr : \/ blk'[q] = blk[q]
                       \/ q \in periodic /\ blk'[q].status = "IDLE"
    <3>1. CASE UNCHANGED blk
      BY <3>1
    <3>2. ASSUME NEW q \in periodic, Overwrite(p, q)
          PROVE  /\ \A r \in Ptr : r # q => blk'[r] = blk[r]
                 /\ blk'[q].status = "IDLE"
      <4>1. q \in Ptr
        BY <1>0
      <4>. QED  BY <1>0, <3>2, <4>1 DEF Overwrite, Block
    <3>. QED  BY <2>1, <3>1, <3>2
  <2>6. leaked \subseteq leaked' /\ periodic \subseteq periodic' /\ periodic' \subseteq periodic \cup {p}
    BY <2>1
  <2>7. \A e \in temp : e.type = "PERIODIC" =>
          e.ptr \in periodic' \cup leaked' \/ blk'[e.ptr].status = "DEL"
    BY <1>0, <1>1, <2>5, <2>6 DEF Reach
  <2>8. \A q \in periodic' : /\ blk'[q].status = "PROC" => PeriodicElem(q) \in temp
                             /\ tpc = "start" => blk'[q].status = "IDLE"
    BY <1>0, <2>2, <2>5, <2>6 DEF Reach
  <2>9. (cur.type = "PERIODIC" /\ tpc # "take") => blk'[cur.ptr].status # "PROC"
    BY <1>0, <1>1, <2>5 DEF Reach
  <2>. QED  BY <2>1, <2>4, <2>7, <2>8, <2>9 DEF Reach
<1>5. CASE UIDelTimer(t)
  <2>. DEFINE gone == work[t].found
  <2>1. /\ UNCHANGED <<periodic, temp, cur, tpc, leaked, call>>
        /\ oneshot' = oneshot \ gone /\ alloc' = alloc \ gone /\ gone \subseteq oneshot
        /\ \A q \in Ptr : q \notin gone => blk'[q] = blk[q]
    BY <1>5, WorkFacts DEF UIDelTimer, Free
  <2>. HIDE DEF gone
  <2>2. NoOrphan'
    BY <1>0, <2>1, Holders
  <2>3. \A e \in temp : e.type = "PERIODIC" => blk'[e.ptr] = blk[e.ptr]
    BY <1>0, <1>1, <2>1
  <2>4. /\ \A q \in periodic : blk'[q] = blk[q]
        /\ cur.type = "PERIODIC" => blk'[cur.ptr] = blk[cur.ptr]
    BY <1>0, <1>1, <2>1, <2>3
  <2>5. \A e \in temp : e.type = "PERIODIC" =>
          e.ptr \in periodic \cup leaked \/ blk'[e.ptr].status = "DEL"
    BY <2>3 DEF Reach
  <2>. QED  BY <2>1, <2>2, <2>4, <2>5 DEF Reach
<1>6. CASE UIDelPeriodicTimer(t) \/ UIDelPeriodicTimer_retDataPtr(t)
  <2>. PICK gone \in SUBSET periodic, mark \in SUBSET periodic :
         /\ \A p \in gone : blk[p].status = "IDLE" /\ cur.ptr # p
         /\ \A p \in mark : blk[p].status = "PROC"
         /\ periodic' = periodic \ (gone \cup mark)
         /\ alloc' = alloc \ gone
         /\ \A q \in Ptr : /\ q \notin gone \cup mark => blk'[q] = blk[q]
                           /\ q \in mark => blk'[q].status = "DEL"
    BY <1>6, DelPeriodicFacts
  <2>1. UNCHANGED <<oneshot, temp, cur, tpc, leaked, call>>
    BY <1>6 DEF UIDelPeriodicTimer, UIDelPeriodicTimer_retDataPtr
  <2>2. \A p \in mark : \E e \in temp : p = e.ptr
    <3>1. \A p \in mark : PeriodicElem(p) \in temp /\ PeriodicElem(p).ptr = p
      BY DEF Reach, PeriodicElem
    <3>. QED  BY <3>1
  <2>3. NoOrphan'
    BY <1>0, <2>1, <2>2, Holders
  <2>4. \A e \in temp : e.type = "PERIODIC" => e.ptr \notin gone
    BY <1>0 DEF StatusTells
  <2>5. \A e \in temp : e.type = "PERIODIC" =>
          e.ptr \in periodic' \cup leaked \/ blk'[e.ptr].status = "DEL"
    BY <1>0, <1>1, <2>4 DEF Reach
  <2>6. \A q \in periodic' : blk'[q] = blk[q] /\ q \in periodic
    BY <1>0
  <2>7. (cur.type = "PERIODIC" /\ tpc # "take") => blk'[cur.ptr].status # "PROC"
    BY <1>0, <1>1, <2>4 DEF Reach
  <2>. QED  BY <2>1, <2>3, <2>5, <2>6, <2>7 DEF Reach
<1>7. CASE UIDelAllTimer(t)
  BY <1>7, WorkFacts, DelAllReach DEF UIDelAllTimer
<1>8. ASSUME AddSearch(t) \/ DelAllLock(t) \/ \E op, id : DelSearch(t, op, id)
      PROVE  Reach'
  <2>1. UNCHANGED <<lists, mem, temp, call, leaked, cur, tpc>>
    BY <1>8 DEF AddSearch, DelAllLock, DelSearch
  <2>. QED  BY <2>1 DEF Reach, NoOrphan
<1>. QED  BY <1>2, <1>3, <1>4, <1>5, <1>6, <1>7, <1>8
             DEF ApiCall, ApiWork, AddLock, Kinds

(* No block is lost: what malloc handed out for a timer is in a list, in    *)
(* temp_list or in the hands of an add call until it is freed, whatever    *)
(* the threads and the callbacks add and delete meanwhile; the only blocks *)
(* given up are those of leaked.                                           *)
THEOREM NoBlockIsLost == Disciplined => (Spec => []NoOrphan)
<1>. SUFFICES ASSUME Disciplined PROVE Spec => []NoOrphan
  OBVIOUS
<1>1. Init => Reach
  BY DEF Init, Reach, NoOrphan, NoElem
<1>2. IInv /\ Reach /\ [Next]_vars => Reach'
  <2>. SUFFICES ASSUME IInv, Reach, [Next]_vars PROVE Reach'
    OBVIOUS
  <2>1. CASE UNCHANGED vars
    BY <2>1 DEF vars, Reach, NoOrphan
  <2>2. CASE Next
    BY <2>2, TimerReach, MainReach, ApiReach DEF Next
  <2>. QED  BY <2>1, <2>2
<1>3. Reach => NoOrphan
  BY DEF Reach
<1>. QED  BY <1>1, <1>2, <1>3, TimerInvariant, PTL DEF Spec

============================================================================
