------------------------------ MODULE UITimer ------------------------------
(***************************************************************************)
(* libzyuitimer (uitimer.c): one timer thread, UITimerProc, serves the     *)
(* one-shot and the periodic timers that the other threads of the process  *)
(* and the timers' own callbacks add and delete.                           *)
(*                                                                         *)
(* The two timer lists are sets of pointers to CMTimer_t blocks and        *)
(* temp_list a set of elements: list order decides only the order in which *)
(* the callbacks of one round run, and the model allows every order.       *)
(* Memory is explicit: alloc holds the pointers malloc has handed out. A   *)
(* step that would follow a pointer to freed memory is not enabled: what   *)
(* the program does from there is undefined, and MemorySafe states that it *)
(* never gets there.                                                       *)
(*                                                                         *)
(* Time is counted in ticks, SEC of them to a second; a struct timeval is  *)
(* a record of seconds and of ticks (the field usec).                      *)
(***************************************************************************)
EXTENDS Integers, FiniteSets

CONSTANTS
  Ids,          \* timer ids the callers use (TimerID)
  Ptr,          \* addresses malloc can return for a CMTimer_t
  NoPtr,        \* NULL
  Clients,      \* threads that call the API, other than the timer thread
  Lens,         \* timer lengths, in ticks
  SEC,          \* ticks in a second
  MaxNow,       \* bound: last tick of the clock
  MaxArm,       \* bound: number of UIAddTimer/UIAddPeriodicTimer calls
  ClientApi,    \* API functions the client threads call
  CallbackApi,  \* API functions the callbacks call
  Rules         \* the rules of section "Callers" that the callers keep

Kinds == {"one", "per"}

\* IDLE_STATUS, PROC_STATUS and DEL_STATUS of uitimer.h
Statuses == {"IDLE", "PROC", "DEL"}

Api == {"UIAddTimer", "UIAddPeriodicTimer", "UIDelTimer",
        "UIDelPeriodicTimer", "UIDelPeriodicTimer_retDataPtr",
        "UIDelAllTimer", "UITimer_Destory"}

AllRules == {"readd", "delete", "retDataPtr", "delall", "start", "stop"}

\* the callers keep them all
Disciplined == Rules = AllRules

TimerThread == "UITimerProc"
Threads == Clients \cup {TimerThread}
NoThread == "nobody"

ASSUME ConstantsAssumption ==
  /\ Ids \subseteq Nat \ {0}
  /\ Lens \subseteq Nat
  /\ SEC \in Nat \ {0}
  /\ MaxNow \in Nat
  /\ MaxArm \in Nat
  /\ ClientApi \subseteq Api
  /\ CallbackApi \subseteq Api \ {"UITimer_Destory"}
  /\ Rules \subseteq AllRules
  /\ TimerThread \notin Clients /\ NoThread \notin Clients
  /\ NoPtr \notin Ptr

VARIABLES
  now,        \* system uptime
  running,    \* timer_thread_running
  tpc,        \* where the timer thread is in UITimerProc
  tval,       \* timer_val, UITimerProc's snapshot of the uptime
  mutex,      \* the thread that has locked timerMutex last, until an unlock
  oneshot,    \* time_list
  periodic,   \* periodic_time_list
  temp,       \* temp_list
  cur,        \* the element of temp_list being processed
  scan,       \* the expired timer a scan has found and not yet dealt with
  alloc,      \* pointers to CMTimer_t blocks that are not freed
  blk,        \* the contents of the blocks
  call,       \* per thread: the UIAdd*Timer call since its malloc
  work,       \* per thread: the API function that has locked timerMutex, and
              \* the timers it has found
  mpc,        \* where the main thread is in UITimer_Destory
  arms,       \* history: number of add calls made
  fires,      \* history: how often the one-shot timer of each add ran
  cancelled,  \* history: one-shot adds deleted, replaced or dropped while listed
  stopped,    \* history: one-shot adds whose delete found nothing, and
              \* answered TIMER_STOP_SUCCESS
  leaked      \* history: blocks no variable of the program points to

vars == <<now, running, tpc, tval, mutex, oneshot, periodic, temp, cur, scan,
          alloc, blk, call, work, mpc, arms, fires, cancelled, stopped, leaked>>

lists == <<oneshot, periodic>>
mem == <<alloc, blk>>
hand == <<cur, scan>>
callers == <<call, work, mpc>>
history == <<arms, fires, cancelled, stopped, leaked>>

Timeval == [sec : Nat, usec : Nat]

Arms == 1 .. MaxArm

(* A CMTimer_t. arm (which add call set it) and due (the tick at which it  *)
(* should run) are history.                                                *)
Block == [id : Ids \cup {0}, TimerLen : Nat, timeout : Timeval,
          status : Statuses, arm : 0 .. MaxArm, due : Nat]

NullBlock == [id |-> 0, TimerLen |-> 0, timeout |-> [sec |-> 0, usec |-> 0],
              status |-> "IDLE", arm |-> 0, due |-> 0]

(* A proc_element_t: a private copy of an expired one-shot timer, or a     *)
(* pointer to a periodic one.                                              *)
OneShotElem(b) == [type |-> "ONE_SHOT", ptr |-> NoPtr, copy |-> b]
PeriodicElem(p) == [type |-> "PERIODIC", ptr |-> p, copy |-> NullBlock]
Element == [type : {"ONE_SHOT"}, ptr : {NoPtr}, copy : Block]
             \cup [type : {"PERIODIC"}, ptr : Ptr, copy : {NullBlock}]
NoElem == [type |-> "none", ptr |-> NoPtr, copy |-> NullBlock]

NotCalling == [kind |-> "none", ptr |-> NoPtr]
Calls == [kind : Kinds, ptr : Ptr] \cup {NotCalling}

NoWork == [op |-> "none", found |-> {}]
Works == [op : Api \ {"UITimer_Destory"}, found : SUBSET Ptr] \cup {NoWork}

----------------------------------------------------------------------------
(* Time *)

\* getSystemUptime: the tick count as seconds and a fraction
SystemUptime == [sec |-> now \div SEC, usec |-> now % SEC]

\* mutant: the carry is taken out of usec whether or not there is one
AddTimeout_AlwaysCarry(tv, len) ==
  [sec |-> tv.sec + (len \div SEC) + 1, usec |-> tv.usec + (len % SEC) - SEC]

\* mutant: the code before the fix its comment dates 20090703
AddTimeout_NoCarry(tv, len) ==
  [sec |-> tv.sec + (len \div SEC), usec |-> tv.usec + (len % SEC)]

\* the deadline UIAddTimer and UIAddPeriodicTimer compute, with the carry
AddTimeout(tv, len) ==
  LET usec == tv.usec + (len % SEC)
  IN  [sec |-> tv.sec + (len \div SEC) + (usec \div SEC), usec |-> usec % SEC]

\* the deadline UITimerProc gives a periodic timer that ran: no carry
RearmTimeout(tv, len) ==
  [sec |-> tv.sec + (len \div SEC), usec |-> tv.usec + (len % SEC)]

\* mutant: seconds and fraction are compared independently
Expired_Fieldwise(timeout, tv) ==
  ~(timeout.sec > tv.sec \/ timeout.usec > tv.usec)

\* the test of both scans, negated in the code
Expired(timeout, tv) ==
  ~ \/ timeout.sec > tv.sec
    \/ timeout.sec = tv.sec /\ timeout.usec > tv.usec

Ticks(tv) == tv.sec * SEC + tv.usec

Tick ==
  /\ now < MaxNow
  /\ now' = now + 1
  /\ UNCHANGED <<running, tpc, tval, mutex, lists, temp, hand, mem, callers,
                 history>>

----------------------------------------------------------------------------
(* Init *)

Init ==
  /\ now = 0
  /\ running = FALSE
  /\ tpc = "none"
  /\ tval = [sec |-> 0, usec |-> 0]
  /\ mutex = NoThread
  /\ oneshot = {}
  /\ periodic = {}
  /\ temp = {}
  /\ cur = NoElem
  /\ scan = NoPtr
  /\ alloc = {}
  /\ blk = [p \in Ptr |-> NullBlock]
  /\ call = [t \in Threads |-> NotCalling]
  /\ work = [t \in Threads |-> NoWork]
  /\ mpc = "idle"
  /\ arms = 0
  /\ fires = [a \in Arms |-> 0]
  /\ cancelled = {}
  /\ stopped = {}
  /\ leaked = {}

----------------------------------------------------------------------------
(* timerMutex. An unlock does not ask who holds the mutex: it is free      *)
(* afterwards. Work under the mutex is two steps, so that the mutex can be *)
(* lost in between: a lock with the search that follows it, which puts     *)
(* into work what it found, and the rest with the unlock. The mutexes of   *)
(* the timers are only ever taken inside timerMutex.                       *)

WithId(list, id) == {p \in list : blk[p].id = id}

ArmsOf(ps) == {blk[p].arm : p \in ps}

\* the list can be traversed: no node's element is freed memory
Walkable(list) == list \subseteq alloc

Free(ps) ==
  /\ alloc' = alloc \ ps
  /\ blk' = [p \in Ptr |-> IF p \in ps THEN NullBlock ELSE blk[p]]

Lock(t) == mutex = NoThread /\ mutex' = t

Unlock == mutex' = NoThread

\* the list an API function searches
ListOf(op) == IF op \in {"UIAddTimer", "UIDelTimer"} THEN oneshot ELSE periodic

Begin(t, op, found) ==
  /\ work[t] = NoWork
  /\ Lock(t)
  /\ work' = [work EXCEPT ![t] = [op |-> op, found |-> found]]

End(t) ==
  /\ Unlock
  /\ work' = [work EXCEPT ![t] = NoWork]

\* t is in a section that timerMutex is meant to guard
InSection(t) ==
  \/ work[t] # NoWork
  \/ t = TimerThread /\ tpc \in {"oneshot", "move", "periodic", "mark", "take"}

----------------------------------------------------------------------------
(* The API. An add reads the uptime and fills its new block before it      *)
(* locks.                                                                  *)

\* UIAddTimer ("one") or UIAddPeriodicTimer ("per") up to the lock
AddCall(t, kind, id, len) ==
  /\ call[t] = NotCalling
  /\ work[t] = NoWork
  /\ arms < MaxArm
  /\ arms' = arms + 1
  /\ \E p \in Ptr \ alloc :
       /\ alloc' = alloc \cup {p}
       /\ blk' = [blk EXCEPT ![p] =
                    [id |-> id, TimerLen |-> len, status |-> "IDLE",
                     timeout |-> AddTimeout(SystemUptime, len),
                     arm |-> arms + 1, due |-> now + len]]
       /\ call' = [call EXCEPT ![t] = [kind |-> kind, ptr |-> p]]
  /\ UNCHANGED <<now, running, tpc, tval, mutex, lists, temp, hand, work, mpc,
                 fires, cancelled, leaked, stopped>>

AddOp(kind) == IF kind = "one" THEN "UIAddTimer" ELSE "UIAddPeriodicTimer"

\* mutant: the new timer is appended without looking for its id
AddSearch_Nothing(t) ==
  /\ call[t] # NotCalling
  /\ Begin(t, AddOp(call[t].kind), {})
  /\ UNCHANGED <<now, running, tpc, tval, lists, temp, hand, mem, call, mpc,
                 history>>

\* the lock and the search for a timer with the new one's id
AddSearch(t) ==
  LET op == AddOp(call[t].kind)
  IN  /\ call[t] # NotCalling
      /\ Walkable(ListOf(op))
      /\ Begin(t, op, WithId(ListOf(op), blk[call[t].ptr].id))
      /\ UNCHANGED <<now, running, tpc, tval, lists, temp, hand, mem, call, mpc,
                     history>>

\* A timer with this id is listed: it takes the new deadline, its length
\* stays, and the new block is forgotten.
Overwrite(p, q) ==
  /\ q \in alloc
  /\ blk' = [blk EXCEPT ![q].timeout = blk[p].timeout,
                        ![q].status = "IDLE",
                        ![q].arm = blk[p].arm,
                        ![q].due = blk[p].due]

UIAddTimer(t) ==
  LET p == call[t].ptr
      same == work[t].found
  IN  /\ work[t].op = "UIAddTimer"
      /\ p \in alloc
      /\ End(t)
      /\ call' = [call EXCEPT ![t] = NotCalling]
      /\ \/ /\ same = {}
            /\ oneshot' = oneshot \cup {p}
            /\ UNCHANGED <<blk, cancelled, leaked>>
         \/ \E q \in same :
              /\ Overwrite(p, q)
              /\ cancelled' = cancelled \cup {blk[q].arm}
              /\ leaked' = leaked \cup {p}
              /\ UNCHANGED oneshot
      /\ UNCHANGED <<now, running, tpc, tval, periodic, temp, hand, alloc, mpc,
                     arms, fires, stopped>>

UIAddPeriodicTimer(t) ==
  LET p == call[t].ptr
      same == work[t].found
  IN  /\ work[t].op = "UIAddPeriodicTimer"
      /\ p \in alloc
      /\ End(t)
      /\ call' = [call EXCEPT ![t] = NotCalling]
      /\ \/ /\ same = {}
            /\ periodic' = periodic \cup {p}
            /\ UNCHANGED <<blk, leaked>>
         \/ \E q \in same :
              /\ Overwrite(p, q)
              /\ leaked' = leaked \cup {p}
              /\ UNCHANGED periodic
      /\ UNCHANGED <<now, running, tpc, tval, oneshot, temp, hand, alloc, mpc,
                     arms, fires, cancelled, stopped>>

\* what UIDelTimer and UIDelTimer_retDataPtr answer: NOT_FOUND is only set
\* when the traversal of a list that has elements ends without a match
UIDelTimerRet(id) ==
  IF oneshot # {} /\ WithId(oneshot, id) = {}
  THEN "TIMER_STOP_NOT_FOUND" ELSE "TIMER_STOP_SUCCESS"

\* one-shot timers with this id that are off the list and about to run
Expiring(id) ==
  {a \in Arms : fires[a] = 0 /\ \E e \in temp : /\ e.type = "ONE_SHOT"
                                                /\ e.copy.id = id
                                                /\ e.copy.arm = a}

\* the lock and the search of a delete
DelSearch(t, op, id) ==
  LET found == WithId(ListOf(op), id)
  IN  /\ call[t] = NotCalling
      /\ Walkable(ListOf(op))
      /\ Begin(t, op, found)
      /\ stopped' = IF /\ op = "UIDelTimer" /\ found = {}
                       /\ UIDelTimerRet(id) = "TIMER_STOP_SUCCESS"
                    THEN stopped \cup Expiring(id) ELSE stopped
      /\ UNCHANGED <<now, running, tpc, tval, lists, temp, hand, mem, call, mpc,
                     arms, fires, cancelled, leaked>>

\* UIDelTimer and UIDelTimer_retDataPtr: remove and free every match
UIDelTimer(t) ==
  LET gone == work[t].found
  IN  /\ work[t].op = "UIDelTimer"
      /\ Walkable(gone)
      /\ End(t)
      /\ oneshot' = oneshot \ gone
      /\ Free(gone)
      /\ cancelled' = cancelled \cup ArmsOf(gone)
      /\ UNCHANGED <<now, running, tpc, tval, periodic, temp, hand, call, mpc,
                     arms, fires, leaked, stopped>>

\* mutant: no deferred deletion, a pending timer is freed at once
UIDelPeriodicTimer_FreePending(t) ==
  LET gone == work[t].found
  IN  /\ work[t].op = "UIDelPeriodicTimer"
      /\ Walkable(gone)
      /\ End(t)
      /\ periodic' = periodic \ gone
      /\ Free(gone)
      /\ UNCHANGED <<now, running, tpc, tval, oneshot, temp, hand, call, mpc,
                     history>>

\* a pending timer is marked and unlisted, UITimerProc frees it; an idle one
\* is unlisted and freed; one already marked is skipped
UIDelPeriodicTimer(t) ==
  LET match == work[t].found
      mark == {p \in match : blk[p].status = "PROC"}
      gone == {p \in match : blk[p].status = "IDLE"}
  IN  /\ work[t].op = "UIDelPeriodicTimer"
      /\ Walkable(match)
      /\ End(t)
      /\ periodic' = periodic \ (mark \cup gone)
      /\ alloc' = alloc \ gone
      /\ blk' = [p \in Ptr |->
                   IF p \in gone THEN NullBlock
                   ELSE IF p \in mark THEN [blk[p] EXCEPT !.status = "DEL"]
                   ELSE blk[p]]
      /\ UNCHANGED <<now, running, tpc, tval, oneshot, temp, hand, call, mpc,
                     history>>

\* here a pending timer is marked and stays listed
UIDelPeriodicTimer_retDataPtr(t) ==
  LET match == work[t].found
      mark == {p \in match : blk[p].status = "PROC"}
      gone == match \ mark
  IN  /\ work[t].op = "UIDelPeriodicTimer_retDataPtr"
      /\ Walkable(match)
      /\ End(t)
      /\ periodic' = periodic \ gone
      /\ alloc' = alloc \ gone
      /\ blk' = [p \in Ptr |->
                   IF p \in gone THEN NullBlock
                   ELSE IF p \in mark THEN [blk[p] EXCEPT !.status = "DEL"]
                   ELSE blk[p]]
      /\ UNCHANGED <<now, running, tpc, tval, oneshot, temp, hand, call, mpc,
                     history>>

\* mutant: the elements are freed, periodic_time_list is not reset
DelAll_NoReset ==
  /\ Walkable(oneshot \cup periodic)
  /\ oneshot' = {}
  /\ UNCHANGED periodic
  /\ Free(oneshot \cup periodic)
  /\ cancelled' = cancelled \cup ArmsOf(oneshot)

\* the body of UIDelAllTimer: both lists, whatever the status
DelAll ==
  /\ Walkable(oneshot \cup periodic)
  /\ oneshot' = {}
  /\ periodic' = {}
  /\ Free(oneshot \cup periodic)
  /\ cancelled' = cancelled \cup ArmsOf(oneshot)

DelAllLock(t) ==
  /\ call[t] = NotCalling
  /\ Begin(t, "UIDelAllTimer", {})
  /\ UNCHANGED <<now, running, tpc, tval, lists, temp, hand, mem, call, mpc,
                 history>>

UIDelAllTimer(t) ==
  /\ work[t].op = "UIDelAllTimer"
  /\ End(t)
  /\ DelAll
  /\ UNCHANGED <<now, running, tpc, tval, temp, hand, call, mpc, arms, fires,
                 leaked, stopped>>

----------------------------------------------------------------------------
(* The main thread: UITimer_Init and UITimer_Destory *)

\* the lists, timerMutex and the timer thread are made anew
UITimer_Init ==
  /\ mpc = "idle"
  /\ ~running
  /\ oneshot' = {}
  /\ periodic' = {}
  /\ leaked' = leaked \cup oneshot \cup periodic
  /\ mutex' = NoThread
  /\ running' = TRUE
  /\ tpc' = "start"
  /\ cancelled' = cancelled \cup ArmsOf(oneshot)
  /\ UNCHANGED <<now, tval, temp, hand, mem, callers, arms, fires, stopped>>

\* UIDelAllTimer, as one step: the only unlock of a mutex not held is this
\* thread's own, further down
UITimer_Destory ==
  /\ mpc = "idle"
  /\ running
  /\ mutex = NoThread
  /\ DelAll
  /\ mpc' = "stop"
  /\ UNCHANGED <<now, running, tpc, tval, mutex, temp, hand, call, work, arms,
                 fires, leaked, stopped>>

DestoryStop ==
  /\ mpc = "stop"
  /\ running' = FALSE
  /\ mpc' = "unlock"
  /\ UNCHANGED <<now, tpc, tval, mutex, lists, temp, hand, mem, call, work,
                 history>>

\* timerMutex is unlocked although this thread does not hold it: whoever does,
\* UITimerProc in a scan or an API function, goes on unprotected
DestoryUnlock ==
  /\ mpc = "unlock"
  /\ Unlock
  /\ mpc' = "join"
  /\ UNCHANGED <<now, running, tpc, tval, lists, temp, hand, mem, call, work,
                 history>>

DestoryJoin ==
  /\ mpc = "join"
  /\ tpc = "exited"
  /\ tpc' = "none"
  /\ mpc' = "idle"
  /\ UNCHANGED <<now, running, tval, mutex, lists, temp, hand, mem, call, work,
                 history>>

----------------------------------------------------------------------------
(* The timer thread *)

\* blocks the elements of temp_list own: marked for deletion and unlisted
OwnedByTemp == {e.ptr : e \in temp} \ (periodic \cup {NoPtr})

ProcStart ==
  /\ tpc = "start"
  /\ temp' = {}
  /\ leaked' = leaked \cup (OwnedByTemp \cap alloc)
  /\ tpc' = "top"
  /\ UNCHANGED <<now, running, tval, mutex, lists, hand, mem, callers, arms,
                 fires, cancelled, stopped>>

\* mutant: while (1)
ProcTop_Forever ==
  /\ tpc = "top"
  /\ tval' = SystemUptime
  /\ tpc' = "lock"
  /\ UNCHANGED <<now, running, mutex, lists, temp, hand, mem, callers,
                 history>>

ProcTop ==
  /\ tpc = "top"
  /\ \/ /\ running
        /\ tval' = SystemUptime
        /\ tpc' = "lock"
     \/ /\ ~running
        /\ tpc' = "exited"
        /\ UNCHANGED tval
  /\ UNCHANGED <<now, running, mutex, lists, temp, hand, mem, callers,
                 history>>

ProcLock ==
  /\ tpc = "lock"
  /\ Lock(TimerThread)
  /\ tpc' = "oneshot"
  /\ UNCHANGED <<now, running, tval, lists, temp, hand, mem, callers, history>>

\* The loop test, and the walk past timers that are not due, up to an expired
\* one-shot timer. From here on the scan no longer looks at running.
ScanOneShot ==
  /\ tpc = "oneshot"
  /\ running
  /\ Walkable(oneshot)
  /\ \E p \in oneshot : Expired(blk[p].timeout, tval) /\ scan' = p
  /\ tpc' = "move"
  /\ UNCHANGED <<now, running, tval, mutex, lists, temp, cur, mem, callers,
                 history>>

\* that timer is unlisted, copied to temp_list and freed
MoveOneShot ==
  /\ tpc = "move"
  /\ scan \in alloc
  /\ oneshot' = oneshot \ {scan}
  /\ temp' = temp \cup {OneShotElem(blk[scan])}
  /\ Free({scan})
  /\ scan' = NoPtr
  /\ tpc' = "oneshot"
  /\ UNCHANGED <<now, running, tval, mutex, periodic, cur, callers, history>>

\* mutant: the unlock after the first loop, now a comment, is back, and the lock
\* before the second is not
ScanOneShotEnd_Unlocks ==
  /\ tpc = "oneshot"
  /\ Walkable(oneshot)
  /\ running => \A p \in oneshot : ~Expired(blk[p].timeout, tval)
  /\ Unlock
  /\ tpc' = "periodic"
  /\ UNCHANGED <<now, running, tval, lists, temp, hand, mem, callers, history>>

ScanOneShotEnd ==
  /\ tpc = "oneshot"
  /\ Walkable(oneshot)
  /\ running => \A p \in oneshot : ~Expired(blk[p].timeout, tval)
  /\ tpc' = "periodic"
  /\ UNCHANGED <<now, running, tval, mutex, lists, temp, hand, mem, callers,
                 history>>

\* expired periodic timers that this scan has not yet put into temp_list
ToScan == {p \in periodic : /\ Expired(blk[p].timeout, tval)
                            /\ PeriodicElem(p) \notin temp}

\* the loop test, and the walk up to an expired periodic timer
ScanPeriodic ==
  /\ tpc = "periodic"
  /\ running
  /\ Walkable(periodic)
  /\ scan' \in ToScan
  /\ tpc' = "mark"
  /\ UNCHANGED <<now, running, tval, mutex, lists, temp, cur, mem, callers,
                 history>>

\* that timer is marked, a pointer to it is put into temp_list
MarkPeriodic ==
  /\ tpc = "mark"
  /\ scan \in alloc
  /\ temp' = temp \cup {PeriodicElem(scan)}
  /\ blk' = [blk EXCEPT ![scan].status = IF @ # "DEL" THEN "PROC" ELSE @]
  /\ scan' = NoPtr
  /\ tpc' = "periodic"
  /\ UNCHANGED <<now, running, tval, mutex, lists, cur, alloc, callers,
                 history>>

ScanPeriodicEnd ==
  /\ tpc = "periodic"
  /\ Walkable(periodic)
  /\ running => ToScan = {}
  /\ Unlock
  /\ tpc' = "temp"
  /\ UNCHANGED <<now, running, tval, lists, temp, hand, mem, callers, history>>

\* temp_list is empty or the library is being stopped: select() and again
TempDone ==
  /\ tpc = "temp"
  /\ running => temp = {}
  /\ tpc' = "top"
  /\ UNCHANGED <<now, running, tval, mutex, lists, temp, hand, mem, callers,
                 history>>

TakeOneShot ==
  /\ tpc = "temp"
  /\ running
  /\ \E e \in temp : e.type = "ONE_SHOT" /\ cur' = e
  /\ tpc' = "fn"
  /\ UNCHANGED <<now, running, tval, mutex, lists, temp, scan, mem, callers,
                 history>>

TakePeriodic ==
  /\ tpc = "temp"
  /\ running
  /\ Lock(TimerThread)
  /\ \E e \in temp : e.type = "PERIODIC" /\ cur' = e
  /\ tpc' = "take"
  /\ UNCHANGED <<now, running, tval, lists, temp, scan, mem, callers, history>>

\* mutant: re-armed without looking at the status
Rearm_AnyStatus ==
  /\ tpc = "take"
  /\ cur.ptr \in alloc
  /\ blk' = [blk EXCEPT
               ![cur.ptr].timeout = RearmTimeout(tval, blk[cur.ptr].TimerLen),
               ![cur.ptr].status = "IDLE",
               ![cur.ptr].due = Ticks(tval) + blk[cur.ptr].TimerLen]
  /\ Unlock
  /\ tpc' = "fn"
  /\ UNCHANGED <<now, running, tval, lists, temp, hand, alloc, callers, history>>

\* under both mutexes: a timer still pending is re-armed, its function will
\* be called; otherwise nothing
Rearm ==
  /\ tpc = "take"
  /\ cur.ptr \in alloc
  /\ IF blk[cur.ptr].status = "PROC"
     THEN /\ blk' = [blk EXCEPT
               ![cur.ptr].timeout = RearmTimeout(tval, blk[cur.ptr].TimerLen),
               ![cur.ptr].status = "IDLE",
               ![cur.ptr].due = Ticks(tval) + blk[cur.ptr].TimerLen]
          /\ tpc' = "fn"
     ELSE /\ UNCHANGED blk
          /\ tpc' = "after"
  /\ Unlock
  /\ UNCHANGED <<now, running, tval, lists, temp, hand, alloc, callers, history>>

\* fn(uitimer->TimerID, uitimer->data): the arguments are read with no lock
CallFn ==
  /\ tpc = "fn"
  /\ cur.type = "ONE_SHOT" \/ cur.ptr \in alloc
  /\ tpc' = "callback"
  /\ fires' = IF cur.type = "ONE_SHOT"
              THEN [fires EXCEPT ![cur.copy.arm] = @ + 1] ELSE fires
  /\ UNCHANGED <<now, running, tval, mutex, lists, temp, hand, mem, callers,
                 arms, cancelled, leaked, stopped>>

CallbackReturn ==
  /\ tpc = "callback"
  /\ call[TimerThread] = NotCalling
  /\ work[TimerThread] = NoWork
  /\ tpc' = "after"
  /\ UNCHANGED <<now, running, tval, mutex, lists, temp, hand, mem, callers,
                 history>>

\* mutant: the element stays in temp_list
AfterFn_StaysInTemp ==
  /\ tpc = "after"
  /\ cur' = NoElem
  /\ tpc' = "temp"
  /\ UNCHANGED <<now, running, tval, mutex, lists, temp, scan, mem, callers,
                 history>>

\* mutant: a timer marked for deletion is not freed
AfterFn_NoFree ==
  /\ tpc = "after"
  /\ temp' = temp \ {cur}
  /\ cur' = NoElem
  /\ tpc' = "temp"
  /\ UNCHANGED <<now, running, tval, mutex, lists, scan, mem, callers, history>>

\* a periodic timer marked for deletion is freed; status is read with no lock
AfterFn ==
  /\ tpc = "after"
  /\ cur.type = "ONE_SHOT" \/ cur.ptr \in alloc
  /\ IF cur.type = "PERIODIC" /\ blk[cur.ptr].status = "DEL"
     THEN Free({cur.ptr})
     ELSE UNCHANGED mem
  /\ temp' = temp \ {cur}
  /\ cur' = NoElem
  /\ tpc' = "temp"
  /\ UNCHANGED <<now, running, tval, mutex, lists, scan, callers, history>>

TimerStep ==
  \/ ProcStart \/ ProcTop \/ ProcLock
  \/ ScanOneShot \/ MoveOneShot \/ ScanOneShotEnd
  \/ ScanPeriodic \/ MarkPeriodic \/ ScanPeriodicEnd
  \/ TempDone \/ TakeOneShot \/ TakePeriodic \/ Rearm
  \/ CallFn \/ CallbackReturn \/ AfterFn

----------------------------------------------------------------------------
(* Callers. Which thread calls what is up to the program that uses the     *)
(* library. Callers who keep the rule                                      *)
(*   readd       never add a periodic timer again while its last expiry is *)
(*               still pending;                                            *)
(*   delete      never delete a periodic timer while UITimerProc is        *)
(*               processing it (so a callback never deletes its own timer);*)
(*   retDataPtr  nor a pending one with UIDelPeriodicTimer_retDataPtr;     *)
(*   delall      never delete all timers while a periodic timer is in      *)
(*               temp_list;                                                *)
(*   start       never call UITimer_Init while a client is inside a call;  *)
(*   stop        nor UITimer_Destory, and call nothing until it returns    *)
(*               (only a callback that is running may).                    *)

Pending(p) == blk[p].status = "PROC"
InProcess(p) == cur.ptr = p
Quiet == \A t \in Clients : call[t] = NotCalling /\ work[t] = NoWork

MayCall(t, f) ==
  IF t = TimerThread
  THEN tpc = "callback" /\ f \in CallbackApi
  ELSE f \in ClientApi /\ ("stop" \in Rules => mpc = "idle")

SafeReadd(id) ==
  "readd" \in Rules => \A p \in WithId(periodic, id) : ~Pending(p)
SafeDel(id) ==
  "delete" \in Rules => \A p \in WithId(periodic, id) : ~InProcess(p)
SafeDelRet(id) ==
  /\ SafeDel(id)
  /\ "retDataPtr" \in Rules => \A p \in WithId(periodic, id) : ~Pending(p)
SafeDelAll ==
  "delall" \in Rules => \A p \in periodic : PeriodicElem(p) \notin temp
SafeStart == "start" \in Rules => Quiet
SafeStop == "stop" \in Rules => Quiet

\* an add call goes on to lock timerMutex
AddLock(t) ==
  /\ call[t].kind = "per" => SafeReadd(blk[call[t].ptr].id)
  /\ AddSearch(t)

\* a call of the API begins, or locks timerMutex
ApiCall(t) ==
  \/ \E id \in Ids, len \in Lens :
       \/ MayCall(t, "UIAddTimer") /\ AddCall(t, "one", id, len)
       \/ /\ MayCall(t, "UIAddPeriodicTimer")
          /\ SafeReadd(id)
          /\ AddCall(t, "per", id, len)
  \/ AddLock(t)
  \/ \E id \in Ids :
       \/ MayCall(t, "UIDelTimer") /\ DelSearch(t, "UIDelTimer", id)
       \/ /\ MayCall(t, "UIDelPeriodicTimer")
          /\ SafeDel(id)
          /\ DelSearch(t, "UIDelPeriodicTimer", id)
       \/ /\ MayCall(t, "UIDelPeriodicTimer_retDataPtr")
          /\ SafeDelRet(id)
          /\ DelSearch(t, "UIDelPeriodicTimer_retDataPtr", id)
  \/ MayCall(t, "UIDelAllTimer") /\ SafeDelAll /\ DelAllLock(t)

\* and does its work
ApiWork(t) ==
  \/ UIAddTimer(t) \/ UIAddPeriodicTimer(t)
  \/ UIDelTimer(t) \/ UIDelPeriodicTimer(t) \/ UIDelPeriodicTimer_retDataPtr(t)
  \/ UIDelAllTimer(t)

MainStep ==
  \/ SafeStart /\ UITimer_Init
  \/ /\ "UITimer_Destory" \in ClientApi
     /\ SafeStop
     /\ SafeDelAll
     /\ UITimer_Destory
  \/ DestoryStop \/ DestoryUnlock \/ DestoryJoin

Next ==
  \/ Tick
  \/ TimerStep
  \/ MainStep
  \/ \E t \in Threads : ApiCall(t) \/ ApiWork(t)

Spec == Init /\ [][Next]_vars

(* The clock advances, the kernel schedules the threads, so that one that  *)
(* has locked timerMutex unlocks it again, and callbacks return; a thread  *)
(* inside UITimer_Destory runs on. Others may lock and unlock the mutex    *)
(* for ever: that UITimerProc and its callbacks get it in the end, each    *)
(* time they wait for it, is what strong fairness says.                    *)
Fairness ==
  /\ WF_vars(Tick)
  /\ SF_vars(TimerStep)
  /\ SF_vars(AddLock(TimerThread))
  /\ \A t \in Threads : WF_vars(ApiWork(t))
  /\ WF_vars(DestoryStop \/ DestoryUnlock \/ DestoryJoin)

FairSpec == Spec /\ Fairness

----------------------------------------------------------------------------
(* Properties *)

TypeOK ==
  /\ now \in 0 .. MaxNow
  /\ running \in BOOLEAN
  /\ tpc \in {"none", "start", "top", "lock", "oneshot", "move", "periodic",
              "mark", "temp", "take", "fn", "callback", "after", "exited"}
  /\ tval \in Timeval
  /\ mutex \in Threads \cup {NoThread}
  /\ oneshot \subseteq Ptr
  /\ periodic \subseteq Ptr
  /\ temp \subseteq Element
  /\ cur \in Element \cup {NoElem}
  /\ scan \in Ptr \cup {NoPtr}
  /\ alloc \subseteq Ptr
  /\ blk \in [Ptr -> Block]
  /\ call \in [Threads -> Calls]
  /\ work \in [Threads -> Works]
  /\ mpc \in {"idle", "stop", "unlock", "join"}
  /\ arms \in 0 .. MaxArm
  /\ fires \in [Arms -> Nat]
  /\ cancelled \subseteq 0 .. MaxArm
  /\ stopped \subseteq 0 .. MaxArm
  /\ leaked \subseteq Ptr

\* No pointer the library will follow is dangling: neither list, nor the
\* temp_list UITimerProc works through with timerMutex released, nor the timer
\* a scan has picked, nor what a call in progress holds or has found, is a
\* CMTimer_t that was freed, also while UITimer_Destory has unlocked timerMutex
\* under the thread that holds it.
MemorySafe ==
  /\ oneshot \cup periodic \subseteq alloc
  /\ \A e \in temp : e.type = "PERIODIC" => e.ptr \in alloc
  /\ scan # NoPtr => scan \in alloc
  /\ \A t \in Threads : /\ call[t] # NotCalling => call[t].ptr \in alloc
                        /\ work[t].found \subseteq alloc

\* An id names at most one timer of each list, whoever adds it and whenever:
\* the deletes and the in-place update of the adds rely on it.
UniqueIds ==
  /\ \A p, q \in oneshot : blk[p].id = blk[q].id => p = q
  /\ \A p, q \in periodic : blk[p].id = blk[q].id => p = q
  /\ oneshot \cap periodic = {}

\* What becomes of a UIAddTimer call: its function runs at most once, and never
\* after a delete or a later add found the timer in time_list and took it out.
OneShotFate ==
  \A a \in Arms : /\ fires[a] <= 1
                  /\ a \in cancelled => fires[a] = 0

\* A one-shot timer is only handed to UITimerProc's callback loop once the
\* time it was set to, counted from its UIAddTimer call, has passed.
NotBeforeDue ==
  \A e \in temp : e.type = "ONE_SHOT" => e.copy.due <= now

\* Every block is reachable: listed, held by a call in progress or by
\* temp_list. The exceptions, in leaked, are the new block of an add that finds
\* its id listed, and what a stop or a second UITimer_Init abandons.
NoOrphan ==
  alloc \subseteq oneshot \cup periodic \cup leaked
                  \cup {e.ptr : e \in temp} \cup {call[t].ptr : t \in Threads}

\* At most one thread is between a lock of timerMutex and the unlock that ends
\* its section, although UITimer_Destory unlocks a mutex that it does not hold
\* and UITimer_Init makes a new one: what a scan or a function has found is not
\* touched by anybody else before it is dealt with.
SectionsExclude ==
  \A t, u \in Threads : InSection(t) /\ InSection(u) => t = u

\* The main thread only finds the library stopped when the timer thread is gone;
\* UITimerProc works on an element of temp_list, or on none, and has a timer in
\* hand where a scan has found one.
Control ==
  /\ (~running /\ mpc = "idle") => tpc = "none"
  /\ IF tpc \in {"take", "fn", "callback", "after"} THEN cur \in temp ELSE cur = NoElem
  /\ tpc = "take" => cur.type = "PERIODIC"
  /\ tpc \notin {"move", "mark"} => scan = NoPtr

\* Every block has one owner: a list, a call in progress, or, for an unlisted
\* periodic timer, temp_list; temp_list also points to listed periodic timers.
\* What a scan or a function has found is still listed when it comes to it, so
\* that nothing is unlisted, copied or freed twice.
OneOwner ==
  /\ MemorySafe
  /\ tpc = "move" => scan \in oneshot
  /\ tpc = "mark" => scan \in periodic
  /\ \A t \in Threads : work[t].found \subseteq oneshot \cup periodic
  /\ oneshot \cap periodic = {}
  /\ \A e \in temp : e.ptr \notin oneshot
  /\ \A t \in Threads :
       call[t] # NotCalling =>
         /\ call[t].ptr \notin oneshot \cup periodic
         /\ \A e \in temp : e.ptr # call[t].ptr
         /\ \A u \in Threads : u # t => call[u].ptr # call[t].ptr

\* The status of a periodic timer tells who may free it. A timer in temp_list
\* that UITimerProc is not processing is marked, PROC or DEL, so that a delete
\* leaves it to UITimerProc; DEL means unlisted, so that UITimerProc may free it.
StatusTells ==
  /\ \A e \in temp : (e.type = "PERIODIC" /\ e # cur)
                        => blk[e.ptr].status \in {"PROC", "DEL"}
  /\ \A p \in periodic : blk[p].status \in {"IDLE", "PROC"}

\* UITimerProc never frees a timer that is still in periodic_time_list, the
\* scenario the comment above its callback loop sets out to rule out. It does
\* not hold of callers who are not Disciplined.
ListedIsNotFreed == periodic \subseteq alloc

\* A delete that finds no timer with the id says so: a timer that was already
\* off the list when a delete answered TIMER_STOP_SUCCESS for it does not run
\* after all. It does not hold when the list was empty.
StoppedNeverRuns == \A a \in stopped : fires[a] = 0

\* A periodic timer is due, counted from the round in which it last ran, when
\* the scan marks it. It does not hold for want of a carry in RearmTimeout.
PeriodicNotEarly ==
  \A p \in periodic : blk[p].status = "PROC" => blk[p].due <= now

\* A one-shot timer whose time comes runs, unless it is deleted, replaced, or
\* the library is stopped.
OneShotServed ==
  \A a \in Arms :
    (running /\ \E p \in oneshot : blk[p].arm = a /\ blk[p].due <= MaxNow)
      ~> (fires[a] = 1 \/ a \in cancelled \/ ~running)

\* The block of a periodic timer deleted while its expiry was pending is given
\* back, unless a stop of the library made the thread drop it.
DeletedIsFreed ==
  \A p \in Ptr :
    (running /\ p \in alloc /\ blk[p].status = "DEL")
      ~> (p \notin alloc \/ p \in leaked \/ ~running)

\* UITimer_Destory returns: the timer thread leaves its loop and is joined.
DestoryReturns == (mpc # "idle") ~> (mpc = "idle")
=============================================================================
