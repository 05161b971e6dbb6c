------------------------------ MODULE ZcfgEid ------------------------------
(***************************************************************************)
(* libzcfg_msg (zcfg_msg.c): the table _msg_data in which the threads of a *)
(* process register their EID, and the server socket each of them binds to *)
(* the path of its EID (zcfg_msg_eidInit, _serverInit, _eidGet, _sckIdGet).*)
(*                                                                         *)
(* eidInit and the look-up of one's entry hold _mutex; serverInit goes on  *)
(* with the entry after it has released it, step by step.                  *)
(***************************************************************************)
EXTENDS Integers, FiniteSetsExt

CONSTANTS
  Threads,     \* thread ids (zos_pid_get, that is gettid)
  Eids,        \* EIDs that eidInit accepts
  Slots,       \* _MAX_THREADS
  Recycle,     \* TRUE: threads end, and the kernel gives out their ids again
  Share,       \* TRUE: threads without an entry of their own call serverInit
  SocketFails, \* socket() may fail
  MaxSock,     \* bound: sockets opened by serverInit
  MaxExit      \* bound: threads that end

ASSUME EidAssumption ==
  /\ Eids \subseteq Nat \ {0}
  /\ Slots \in Nat \ {0}
  /\ Recycle \in BOOLEAN
  /\ Share \in BOOLEAN
  /\ SocketFails \in BOOLEAN
  /\ MaxSock \in Nat
  /\ MaxExit \in Nat
  /\ 0 \notin Threads

VARIABLES
  ready,   \* _init
  tab,     \* _msg_data: eid, pid (a thread id) and sck_id of each entry
  path,    \* path[e]: the socket bound to the path of EID e, 0 if no path
  bound,   \* sockets that are bound to a path, its name removed or not
  nsock,   \* sockets opened so far; they are numbered from 1
  spc,     \* spc[t]: where t is in serverInit
  ent,     \* ent[t]: my_entry of t's serverInit
  own,     \* own[t]: the EID the thread t registered with eidInit, 0 if none
  exits    \* threads that have ended

vars == <<ready, tab, path, bound, nsock, spc, ent, own, exits>>

Index == 1..Slots
Closed == -1
NoEntry == [eid |-> 0, pid |-> 0, sck |-> Closed]

Init ==
  /\ ready = FALSE
  /\ tab = [i \in Index |-> [NoEntry EXCEPT !.sck = 0]]
  /\ path = [e \in Eids |-> 0]
  /\ bound = {}
  /\ nsock = 0
  /\ spc = [t \in Threads |-> "idle"]
  /\ ent = [t \in Threads |-> 0]
  /\ own = [t \in Threads |-> 0]
  /\ exits = 0

\* mutant: the table is cleared on every call
InitMsgDataAgain == [i \in Index |-> NoEntry]

\* _init_msg_data
InitMsgData == IF ready THEN tab ELSE [i \in Index |-> NoEntry]

\* _free_msg_data_get: the entries it may return the first of
FreeIn(d) == {i \in Index : d[i].eid <= 0}

\* _my_msg_data_get: the entry of my thread id, else the first one of the
\* table, which stands for the process; 0 is NULL
Mine(t) == {i \in Index : tab[i].pid = t}

\* mutant: the entry of the process is looked at first
MyEntryProcessFirst(t) ==
  IF ~ready THEN 0
  ELSE IF tab[1].eid > 0 THEN 1
  ELSE IF Mine(t) # {} THEN Min(Mine(t))
  ELSE 0

\* mutant: a thread without an entry gets none
MyEntryOwnOnly(t) ==
  IF ready /\ Mine(t) # {} THEN Min(Mine(t)) ELSE 0

MyEntry(t) ==
  IF ~ready THEN 0
  ELSE IF Mine(t) # {} THEN Min(Mine(t))
  ELSE IF tab[1].eid > 0 THEN 1
  ELSE 0

\* zcfg_msg_eidGet
EidGet(t) == IF MyEntry(t) = 0 THEN 0 ELSE tab[MyEntry(t)].eid

\* zcfg_msg_eidInit; with no free entry it returns false, having changed
\* nothing but _init. Callers register once, before they set up a server,
\* and no EID for two threads.
EidInit(t, e) ==
  /\ own[t] = 0
  /\ spc[t] = "idle"
  /\ \A u \in Threads : own[u] # e
  /\ ready' = TRUE
  /\ IF FreeIn(InitMsgData) = {}
     THEN /\ tab' = InitMsgData
          /\ UNCHANGED own
     ELSE /\ tab' = [InitMsgData EXCEPT
               ![Min(FreeIn(InitMsgData))].eid = e,
               ![Min(FreeIn(InitMsgData))].pid = t]
          /\ own' = [own EXCEPT ![t] = e]
  /\ UNCHANGED <<path, bound, nsock, spc, ent, exits>>

\* zcfg_msg_serverInit, for the first time or again, up to the release of
\* the mutex
ServerInit(t) ==
  /\ spc[t] \in {"idle", "ok"}
  /\ own[t] # 0 \/ Share
  /\ MyEntry(t) # 0
  /\ ent' = [ent EXCEPT ![t] = MyEntry(t)]
  /\ spc' = [spc EXCEPT ![t] = "socket"]
  /\ UNCHANGED <<ready, tab, path, bound, nsock, own, exits>>

\* my_entry->sck_id = socket(...)
ServerSocket(t) ==
  /\ spc[t] = "socket"
  /\ nsock < MaxSock
  /\ nsock' = nsock + 1
  /\ tab' = [tab EXCEPT ![ent[t]].sck = nsock + 1]
  /\ spc' = [spc EXCEPT ![t] = "unlink"]
  /\ UNCHANGED <<ready, path, bound, ent, own, exits>>

ServerSocketFail(t) ==
  /\ SocketFails
  /\ spc[t] = "socket"
  /\ tab' = [tab EXCEPT ![ent[t]].sck = Closed]
  /\ spc' = [spc EXCEPT ![t] = "idle"]
  /\ UNCHANGED <<ready, path, bound, nsock, ent, own, exits>>

\* unlink(saun.sun_path)
ServerUnlink(t) ==
  /\ spc[t] = "unlink"
  /\ path' = [path EXCEPT ![tab[ent[t]].eid] = 0]
  /\ spc' = [spc EXCEPT ![t] = "bind"]
  /\ UNCHANGED <<ready, tab, bound, nsock, ent, own, exits>>

\* bind(my_entry->sck_id, ...): it fails on a closed or a bound socket and
\* on a path that is there; the socket is then closed
ServerBind(t) ==
  LET s == tab[ent[t]].sck
      e == tab[ent[t]].eid
  IN  /\ spc[t] = "bind"
      /\ IF s # Closed /\ s \notin bound /\ path[e] = 0
         THEN /\ path' = [path EXCEPT ![e] = s]
              /\ bound' = bound \cup {s}
              /\ spc' = [spc EXCEPT ![t] = "ok"]
              /\ UNCHANGED tab
         ELSE /\ bound' = bound \ {s}
              /\ tab' = [tab EXCEPT ![ent[t]].sck = Closed]
              /\ spc' = [spc EXCEPT ![t] = "idle"]
              /\ UNCHANGED path
      /\ UNCHANGED <<ready, nsock, ent, own, exits>>

\* A thread ends between its calls and another one gets its id: the table
\* still holds the entry of the first
ThreadExit(t) ==
  /\ Recycle
  /\ exits < MaxExit
  /\ spc[t] \in {"idle", "ok"}
  /\ exits' = exits + 1
  /\ own' = [own EXCEPT ![t] = 0]
  /\ spc' = [spc EXCEPT ![t] = "idle"]
  /\ UNCHANGED <<ready, tab, path, bound, nsock, ent>>

Next ==
  \E t \in Threads :
    \/ \E e \in Eids : EidInit(t, e)
    \/ ServerInit(t)
    \/ ServerSocket(t)
    \/ ServerSocketFail(t)
    \/ ServerUnlink(t)
    \/ ServerBind(t)
    \/ ThreadExit(t)

Spec == Init /\ [][Next]_vars
-----------------------------------------------------------------------------
(* Type invariant. *)
TypeOK ==
  /\ ready \in BOOLEAN
  /\ tab \in [Index -> [eid : Eids \cup {0}, pid : Threads \cup {0},
                        sck : {Closed} \cup 0..MaxSock]]
  /\ path \in [Eids -> 0..MaxSock]
  /\ bound \subseteq 1..MaxSock
  /\ nsock \in 0..MaxSock
  /\ spc \in [Threads -> {"idle", "socket", "unlink", "bind", "ok"}]
  /\ ent \in [Threads -> Index \cup {0}]
  /\ own \in [Threads -> Eids \cup {0}]
  /\ exits \in 0..MaxExit

(* zcfg_msg_eidGet returns, in a thread that has registered itself with    *)
(* zcfg_msg_eidInit, the EID it registered, whoever registers after it. It *)
(* does not hold once a thread id has come back.                           *)
EidIsMine == \A t \in Threads : own[t] # 0 => EidGet(t) = own[t]

(* So it is until a thread of the process ends, however zcfg_msg_eidInit   *)
(* calls interleave and fail.                                              *)
EidKept == exits = 0 => EidIsMine

(* A thread whose serverInit succeeded is the one that its EID's path      *)
(* leads to: its entry holds the socket that is bound there.               *)
ServerReachable ==
  \A t \in Threads :
    spc[t] = "ok" =>
      /\ path[EidGet(t)] = tab[MyEntry(t)].sck
      /\ path[EidGet(t)] \in bound

(* Until a thread of the process ends, a zcfg_msg_serverInit that succeeds *)
(* lasts: neither another thread's nor a failing one, whose steps come in  *)
(* between, takes its socket or its path away.                             *)
ServerKept == exits = 0 => ServerReachable

(* Between calls of serverInit, too, a thread that was told ZCFG_SUCCESS   *)
(* has a server socket of its own that others can reach. It does not hold  *)
(* of threads that share an entry.                                         *)
ServerPerThread == (\A t \in Threads : spc[t] \in {"idle", "ok"}) => ServerReachable

(* Once some thread has registered, every thread of the process has an EID *)
(* to send with, its own or that of the process, even after the threads    *)
(* that registered have ended: zcfg_msg_sendAndGetReply needs one.         *)
AnyoneHasEid == (\E t \in Threads : own[t] # 0) => \A t \in Threads : EidGet(t) # 0

(* No later registration, by whatever thread, takes an entry away or makes *)
(* it speak for another EID.                                               *)
EntriesKeptStep ==
  \A i \in Index : tab[i].eid # 0 =>
    tab'[i].eid = tab[i].eid /\ tab'[i].pid = tab[i].pid
EntriesKept == [][EntriesKeptStep]_vars
=============================================================================
