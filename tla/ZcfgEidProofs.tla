--------------------------- MODULE ZcfgEidProofs ---------------------------
(***************************************************************************)
(* Proofs about ZcfgEid, for a table of any length and any number of       *)
(* threads, EIDs and sockets.                                              *)
(***************************************************************************)
EXTENDS ZcfgEid, WellFoundedInduction, TLAPS

(* The searches through _msg_data find the first entry of the ones they    *)
(* look for, if there is one.                                              *)
LEMMA MinInSet ==
  ASSUME NEW S, S \subseteq Index, S # {}
  PROVE  Min(S) \in S /\ \A y \in S : Min(S) <= y
<1>. DEFINE R == OpToRel(<, Nat)
<1>1. S \subseteq Nat
  BY EidAssumption DEF Index
<1>0. \A a, b \in Nat :
        <<a, b>> \in Nat \X Nat /\ <<a, b>>[1] = a /\ <<a, b>>[2] = b
  OBVIOUS
<1>2. PICK x \in S : \A y \in S : ~ (<<y, x>> \in R)
  BY <1>1, NatLessThanWellFounded, WFMin, Zenon
<1>3. ASSUME NEW y \in Nat, y < x, x \in Nat
      PROVE  <<y, x>> \in R
  BY <1>0, <1>3, Zenon DEF OpToRel
<1>. HIDE DEF R
<1>4. \A y \in S : ~ (y < x)
  BY <1>1, <1>2, <1>3
<1>5. \A y \in S : x <= y
  BY <1>1, <1>4
<1>. QED  BY <1>5 DEF Min

(* An entry with an EID that is not positive is free.                      *)
LEMMA FreeEid == \A x \in Eids \cup {0} : x <= 0 => x = 0
BY EidAssumption

Entries == [eid : Eids \cup {0}, pid : Threads \cup {0},
            sck : {Closed} \cup 0..MaxSock]

(* The entries that _msg_data starts with.                                 *)
LEMMA NoEntryType ==
  NoEntry \in Entries /\ [NoEntry EXCEPT !.sck = 0] \in Entries
BY EidAssumption DEF NoEntry, Entries, Closed

(* The types hold when the process starts.                                 *)
LEMMA InitType == Init => TypeOK
<1>. SUFFICES ASSUME Init PROVE TypeOK
  OBVIOUS
<1>1. tab \in [Index -> Entries]
  BY NoEntryType DEF Init
<1>2. /\ bound \subseteq 1..MaxSock
      /\ nsock \in 0..MaxSock /\ exits \in 0..MaxExit
  BY EidAssumption DEF Init
<1>3. path \in [Eids -> 0..MaxSock] /\ own \in [Threads -> Eids \cup {0}]
  BY EidAssumption DEF Init
<1>4. /\ ent \in [Threads -> Index \cup {0}]
      /\ spc \in [Threads -> {"idle", "socket", "unlink", "bind", "ok"}]
  BY DEF Init
<1>. QED  BY <1>1, <1>2, <1>3, <1>4 DEF TypeOK, Entries, Init

(* What is in the table when eidInit looks for a free entry.               *)
LEMMA InitMsgDataType == TypeOK => InitMsgData \in [Index -> Entries]
<1>. SUFFICES ASSUME TypeOK PROVE InitMsgData \in [Index -> Entries]
  OBVIOUS
<1>1. tab \in [Index -> Entries]
  BY DEF TypeOK, Entries
<1>. QED  BY <1>1, NoEntryType DEF InitMsgData

(* eidInit fills in one free entry, or finds none.                         *)
Registers(i, t, e) ==
  /\ InitMsgData[i].eid <= 0
  /\ \A j \in Index : InitMsgData[j].eid <= 0 => i <= j
  /\ tab' \in [Index -> Entries]
  /\ tab'[i].eid = e /\ tab'[i].pid = t /\ tab'[i].sck = InitMsgData[i].sck
  /\ \A j \in Index : j # i => tab'[j] = InitMsgData[j]
  /\ own' = [own EXCEPT ![t] = e]

(* zcfg_msg_eidInit takes the first free entry, or changes nothing.        *)
LEMMA EidInitEffect ==
  ASSUME TypeOK, NEW t \in Threads, NEW e \in Eids, EidInit(t, e)
  PROVE  \/ tab' = InitMsgData /\ own' = own
         \/ \E i \in Index : Registers(i, t, e)
<1>1. CASE FreeIn(InitMsgData) = {}
  BY <1>1 DEF EidInit
<1>2. CASE FreeIn(InitMsgData) # {}
  <2>. DEFINE i == Min(FreeIn(InitMsgData))
              d == InitMsgData
  <2>1. i \in Index /\ d[i].eid <= 0 /\ \A j \in Index : d[j].eid <= 0 => i <= j
    BY <1>2, MinInSet DEF FreeIn
  <2>2. tab' = [d EXCEPT ![i].eid = e, ![i].pid = t]
    BY <1>2 DEF EidInit
  <2>3. d \in [Index -> Entries]
    BY InitMsgDataType
  <2>4. own' = [own EXCEPT ![t] = e]
    BY <1>2 DEF EidInit
  <2>. HIDE DEF i, d
  <2>5. tab' = [d EXCEPT ![i] = [d[i] EXCEPT !.eid = e, !.pid = t]]
    BY <2>1, <2>2, <2>3
  <2>6. [d[i] EXCEPT !.eid = e, !.pid = t] \in Entries
    BY <2>1, <2>3 DEF Entries
  <2>7. /\ tab' \in [Index -> Entries]
        /\ tab'[i] = [d[i] EXCEPT !.eid = e, !.pid = t]
        /\ \A j \in Index : j # i => tab'[j] = d[j]
    BY <2>1, <2>3, <2>5, <2>6
  <2>8. tab'[i].eid = e /\ tab'[i].pid = t /\ tab'[i].sck = d[i].sck
    BY <2>1, <2>3, <2>7 DEF Entries
  <2>. QED  BY <2>1, <2>4, <2>7, <2>8 DEF Registers, d
<1>. QED  BY <1>1, <1>2

(* serverInit writes a socket into an entry.                               *)
LEMMA SckType ==
  ASSUME TypeOK, NEW i \in Index, NEW s \in {Closed} \cup 0..MaxSock
  PROVE  [tab EXCEPT ![i].sck = s] \in [Index -> Entries]
<1>1. tab[i] \in Entries /\ tab \in [Index -> Entries]
  BY DEF TypeOK, Entries
<1>2. [tab[i] EXCEPT !.sck = s] \in Entries
  BY <1>1 DEF Entries
<1>. QED  BY <1>1, <1>2

(* An entry that is in use has a thread and an EID, and serverInit works   *)
(* on one that is.                                                         *)
InUse ==
  /\ ~ready => \A i \in Index : tab[i].eid = 0 /\ tab[i].pid = 0
  /\ ready => \A i \in Index : tab[i].sck # 0
  /\ \A i \in Index : tab[i].eid = 0 <=> tab[i].pid = 0
  /\ \A t \in Threads : spc[t] # "idle" =>
       ready /\ ent[t] \in Index /\ tab[ent[t]].eid # 0

(* The entry that a thread finds is in use.                                *)
LEMMA MyEntryInUse ==
  ASSUME TypeOK, InUse, NEW t \in Threads, MyEntry(t) # 0
  PROVE  ready /\ MyEntry(t) \in Index /\ tab[MyEntry(t)].eid # 0
<1>1. ready
  BY DEF MyEntry
<1>2. CASE Mine(t) # {}
  <2>1. MyEntry(t) = Min(Mine(t))
    BY <1>1, <1>2 DEF MyEntry
  <2>2. Min(Mine(t)) \in Mine(t)
    BY <1>2, MinInSet DEF Mine
  <2>3. t # 0
    BY EidAssumption
  <2>. QED  BY <1>1, <2>1, <2>2, <2>3 DEF Mine, InUse
<1>3. CASE Mine(t) = {}
  <2>1. MyEntry(t) = 1 /\ tab[1].eid > 0
    BY <1>1, <1>3 DEF MyEntry
  <2>2. 1 \in Index
    BY EidAssumption DEF Index
  <2>. QED  BY <1>1, <2>1, <2>2
<1>. QED  BY <1>2, <1>3

(* When the process starts no entry is in use.                             *)
LEMMA InitInUse == Init => InUse
BY DEF Init, InUse, NoEntry

(* The first call of eidInit clears the sockets and no entry that is in    *)
(* use.                                                                    *)
LEMMA InitMsgDataInUse ==
  ASSUME InUse, NEW i \in Index
  PROVE  /\ InitMsgData[i].eid = 0 <=> InitMsgData[i].pid = 0
         /\ InitMsgData[i].eid = tab[i].eid /\ InitMsgData[i].pid = tab[i].pid
         /\ InitMsgData[i].sck # 0
         /\ ready => InitMsgData[i] = tab[i]
         /\ ~ready => InitMsgData[i].sck = Closed
BY DEF InitMsgData, InUse, NoEntry, Closed

(* zcfg_msg_eidInit keeps the types, and entries in use complete.          *)
LEMMA EidInitType ==
  ASSUME TypeOK, InUse, NEW t \in Threads, NEW e \in Eids, EidInit(t, e)
  PROVE  TypeOK' /\ InUse'
<1>0. ready' = TRUE /\ UNCHANGED <<path, bound, nsock, spc, ent, exits>>
  BY DEF EidInit
<1>1. CASE tab' = InitMsgData /\ own' = own
  <2>1. TypeOK'
    BY <1>0, <1>1, InitMsgDataType DEF TypeOK, Entries
  <2>2. InUse'
    BY <1>0, <1>1, InitMsgDataInUse DEF InUse
  <2>. QED  BY <2>1, <2>2
<1>2. ASSUME NEW i \in Index, Registers(i, t, e) PROVE TypeOK' /\ InUse'
  <2>1. TypeOK'
    BY <1>0, <1>2 DEF TypeOK, Entries, Registers
  <2>2. e # 0 /\ t # 0
    BY EidAssumption
  <2>3. \A j \in Index : /\ tab'[j].eid = 0 <=> tab'[j].pid = 0
                         /\ tab'[j].sck # 0
                         /\ tab[j].eid # 0 => tab'[j].eid # 0
    BY <1>2, <2>2, InitMsgDataInUse DEF Registers
  <2>4. InUse'
    BY <1>0, <2>3 DEF InUse
  <2>. QED  BY <2>1, <2>4
<1>. QED  BY <1>1, <1>2, EidInitEffect

(* Only sck_id of my_entry changes: the rest of the table stays.           *)
SckOnly(i) == \A j \in Index :
  /\ tab'[j].eid = tab[j].eid
  /\ tab'[j].pid = tab[j].pid
  /\ j # i => tab'[j] = tab[j]

(* serverInit changes the socket of its entry and nothing else in the      *)
(* table.                                                                  *)
LEMMA SckEffect ==
  ASSUME TypeOK, NEW i \in Index, NEW s \in {Closed} \cup 0..MaxSock,
         tab' = [tab EXCEPT ![i].sck = s]
  PROVE  SckOnly(i) /\ tab' \in [Index -> Entries] /\ tab'[i].sck = s
<1>1. tab[i] \in Entries /\ tab \in [Index -> Entries]
  BY DEF TypeOK, Entries
<1>2. SckOnly(i) /\ tab'[i].sck = s
  BY <1>1 DEF SckOnly, Entries
<1>. QED  BY <1>2, SckType

(* Every step keeps the types, and entries in use complete.                *)
LEMMA NextType == TypeOK /\ InUse /\ [Next]_vars => TypeOK' /\ InUse'
<1>. SUFFICES ASSUME TypeOK, InUse, [Next]_vars PROVE TypeOK' /\ InUse'
  OBVIOUS
<1>1. CASE UNCHANGED vars
  BY <1>1 DEF vars, TypeOK, InUse
<1>2. ASSUME NEW t \in Threads, NEW e \in Eids, EidInit(t, e)
      PROVE  TypeOK' /\ InUse'
  BY <1>2, EidInitType
<1>3. ASSUME NEW t \in Threads, ServerInit(t)
      PROVE  TypeOK' /\ InUse'
  <2>1. ready /\ MyEntry(t) \in Index /\ tab[MyEntry(t)].eid # 0
    BY <1>3, MyEntryInUse DEF ServerInit
  <2>2. /\ ent' = [ent EXCEPT ![t] = MyEntry(t)]
        /\ spc' = [spc EXCEPT ![t] = "socket"]
        /\ UNCHANGED <<ready, tab, path, bound, nsock, own, exits>>
    BY <1>3 DEF ServerInit
  <2>. HIDE DEF MyEntry
  <2>3. TypeOK'
    BY <2>1, <2>2 DEF TypeOK
  <2>4. InUse'
    BY <2>1, <2>2 DEF InUse, TypeOK
  <2>. QED  BY <2>3, <2>4
<1>4. ASSUME NEW t \in Threads, ServerSocket(t)
      PROVE  TypeOK' /\ InUse'
  <2>1. nsock + 1 \in 1..MaxSock /\ nsock' = nsock + 1
    BY <1>4, EidAssumption DEF ServerSocket, TypeOK
  <2>2. ent[t] \in Index
    BY <1>4 DEF ServerSocket, InUse
  <2>3. SckOnly(ent[t]) /\ tab' \in [Index -> Entries] /\ tab'[ent[t]].sck # 0
    <3>1. tab' = [tab EXCEPT ![ent[t]].sck = nsock + 1]
      BY <1>4 DEF ServerSocket
    <3>2. nsock + 1 \in {Closed} \cup 0..MaxSock /\ nsock + 1 # 0
      BY <2>1
    <3>. QED  BY <2>2, <3>1, <3>2, SckEffect
  <2>4. /\ spc' = [spc EXCEPT ![t] = "unlink"] /\ spc[t] # "idle"
        /\ UNCHANGED <<ready, path, bound, ent, own, exits>>
    BY <1>4 DEF ServerSocket
  <2>5. TypeOK'
    BY <2>1, <2>3, <2>4 DEF TypeOK, Entries
  <2>6. InUse'
    BY <2>3, <2>4 DEF InUse, SckOnly, TypeOK
  <2>. QED  BY <2>5, <2>6
<1>5. ASSUME NEW t \in Threads, ServerSocketFail(t)
      PROVE  TypeOK' /\ InUse'
  <2>1. ent[t] \in Index
    BY <1>5 DEF ServerSocketFail, InUse
  <2>2. SckOnly(ent[t]) /\ tab' \in [Index -> Entries] /\ tab'[ent[t]].sck = Closed
    BY <1>5, <2>1, SckEffect DEF ServerSocketFail
  <2>3. /\ spc' = [spc EXCEPT ![t] = "idle"]
        /\ UNCHANGED <<ready, path, bound, nsock, ent, own, exits>>
    BY <1>5 DEF ServerSocketFail
  <2>4. TypeOK'
    BY <2>2, <2>3 DEF TypeOK, Entries
  <2>5. InUse'
    BY <2>2, <2>3 DEF InUse, SckOnly, TypeOK, Closed
  <2>. QED  BY <2>4, <2>5
<1>6. ASSUME NEW t \in Threads, ServerUnlink(t)
      PROVE  TypeOK' /\ InUse'
  BY <1>6, EidAssumption DEF ServerUnlink, TypeOK, InUse
<1>7. ASSUME NEW t \in Threads, ServerBind(t)
      PROVE  TypeOK' /\ InUse'
  <2>. DEFINE s == tab[ent[t]].sck
              e == tab[ent[t]].eid
  <2>1. /\ ent[t] \in Index /\ spc[t] # "idle" /\ ready
        /\ s \in {Closed} \cup 1..MaxSock
    BY <1>7, EidAssumption DEF ServerBind, InUse, TypeOK
  <2>2. CASE s # Closed /\ s \notin bound /\ path[e] = 0
    <3>1. /\ path' = [path EXCEPT ![e] = s]
          /\ bound' = bound \cup {s}
          /\ spc' = [spc EXCEPT ![t] = "ok"]
          /\ UNCHANGED <<tab, ready, nsock, ent, own, exits>>
      BY <1>7, <2>2 DEF ServerBind
    <3>2. s \in 1..MaxSock
      BY <2>1, <2>2
    <3>. HIDE DEF s, e
    <3>6. s \in 0..MaxSock
      BY <3>2, EidAssumption
    <3>7. path' \in [Eids -> 0..MaxSock]
      BY <3>1, <3>6 DEF TypeOK
    <3>3. /\ bound' \subseteq 1..MaxSock
          /\ spc' \in [Threads -> {"idle", "socket", "unlink", "bind", "ok"}]
      BY <3>1, <3>2 DEF TypeOK
    <3>4. TypeOK'
      BY <3>1, <3>7, <3>3 DEF TypeOK
    <3>5. InUse'
      BY <2>1, <3>1 DEF TypeOK, InUse
    <3>. QED  BY <3>4, <3>5
  <2>3. CASE ~(s # Closed /\ s \notin bound /\ path[e] = 0)
    <3>1. /\ tab' = [tab EXCEPT ![ent[t]].sck = Closed]
          /\ bound' = bound \ {s}
          /\ spc' = [spc EXCEPT ![t] = "idle"]
          /\ UNCHANGED <<path, ready, nsock, ent, own, exits>>
      BY <1>7, <2>3 DEF ServerBind
    <3>2. SckOnly(ent[t]) /\ tab' \in [Index -> Entries] /\ tab'[ent[t]].sck = Closed
      BY <2>1, <3>1, SckEffect
    <3>. HIDE DEF s, e
    <3>3. TypeOK'
      BY <3>1, <3>2 DEF TypeOK, Entries
    <3>4. InUse'
      BY <3>1, <3>2 DEF InUse, SckOnly, TypeOK, Closed
    <3>. QED  BY <3>3, <3>4
  <2>. QED  BY <2>2, <2>3
<1>8. ASSUME NEW t \in Threads, ThreadExit(t)
      PROVE  TypeOK' /\ InUse'
  BY <1>8, EidAssumption DEF ThreadExit, TypeOK, InUse
<1>. QED  BY <1>1, <1>2, <1>3, <1>4, <1>5, <1>6, <1>7, <1>8 DEF Next

(* The state of the registry stays within its types: in particular sck_id  *)
(* and the entries that serverInit holds on to after releasing the mutex.  *)
THEOREM EidTypeCorrect == Spec => []TypeOK
<1>1. Init => TypeOK /\ InUse
  BY InitType, InitInUse
<1>2. TypeOK /\ InUse /\ [Next]_vars => (TypeOK /\ InUse)'
  BY NextType
<1>. QED  BY <1>1, <1>2, PTL DEF Spec

(* What a step other than eidInit does to the table.                       *)
LEMMA OtherStep ==
  ASSUME TypeOK, InUse, NEW t \in Threads,
         \/ ServerInit(t) \/ ServerSocket(t) \/ ServerSocketFail(t)
         \/ ServerUnlink(t) \/ ServerBind(t)
  PROVE  /\ \A i \in Index : tab'[i].eid = tab[i].eid /\ tab'[i].pid = tab[i].pid
         /\ own' = own /\ ready' = ready
<1>1. own' = own /\ ready' = ready
  BY DEF ServerInit, ServerSocket, ServerSocketFail, ServerUnlink, ServerBind
<1>2. CASE tab' = tab
  BY <1>1, <1>2
<1>3. CASE tab' # tab
  <2>1. ent[t] \in Index
    BY <1>3 DEF ServerInit, ServerSocket, ServerSocketFail, ServerUnlink,
                ServerBind, InUse
  <2>2. \E s \in {Closed} \cup 0..MaxSock : tab' = [tab EXCEPT ![ent[t]].sck = s]
    <3>1. nsock < MaxSock => nsock + 1 \in 0..MaxSock
      BY EidAssumption DEF TypeOK
    <3>. QED  BY <1>3, <3>1 DEF ServerInit, ServerSocket, ServerSocketFail,
                                ServerUnlink, ServerBind
  <2>3. SckOnly(ent[t])
    BY <2>1, <2>2, SckEffect
  <2>. QED  BY <1>1, <2>3 DEF SckOnly
<1>. QED  BY <1>2, <1>3

(* Whoever registers, serves or ends: no entry in use is ever given to     *)
(* another thread or another EID.                                          *)
THEOREM EntriesStay == Spec => EntriesKept
<1>1. Init => TypeOK /\ InUse
  BY InitType, InitInUse
<1>2. TypeOK /\ InUse /\ [Next]_vars => (TypeOK /\ InUse)'
  BY NextType
<1>3. TypeOK /\ InUse /\ [Next]_vars => [EntriesKeptStep]_vars
  <2>. SUFFICES ASSUME TypeOK, InUse, Next PROVE EntriesKeptStep
    OBVIOUS
  <2>1. ASSUME NEW t \in Threads, NEW e \in Eids, EidInit(t, e)
        PROVE  EntriesKeptStep
    <3>1. CASE tab' = InitMsgData
      BY <3>1, InitMsgDataInUse DEF EntriesKeptStep
    <3>2. ASSUME NEW i \in Index, Registers(i, t, e) PROVE EntriesKeptStep
      <4>1. tab[i].eid = 0
        <5>1. tab[i].eid \in Eids \cup {0} /\ tab[i].eid <= 0
          BY <3>2, InitMsgDataInUse DEF Registers, TypeOK
        <5>. QED  BY <5>1, FreeEid
      <4>. QED  BY <3>2, <4>1, InitMsgDataInUse DEF Registers, EntriesKeptStep
    <3>. QED  BY <2>1, <3>1, <3>2, EidInitEffect
  <2>2. ASSUME NEW t \in Threads, ThreadExit(t) PROVE EntriesKeptStep
    BY <2>2 DEF ThreadExit, EntriesKeptStep
  <2>3. ASSUME NEW t \in Threads,
               \/ ServerInit(t) \/ ServerSocket(t) \/ ServerSocketFail(t)
               \/ ServerUnlink(t) \/ ServerBind(t)
        PROVE  EntriesKeptStep
    BY <2>3, OtherStep DEF EntriesKeptStep
  <2>. QED  BY <2>1, <2>2, <2>3 DEF Next
<1>. QED  BY <1>1, <1>2, <1>3, PTL DEF Spec, EntriesKept
-----------------------------------------------------------------------------
(* Until a thread ends, and its id may be given out again, the table says  *)
(* of every thread what it registered, in one entry.                       *)
OwnEntries ==
  /\ \A i \in Index : tab[i].pid # 0 => own[tab[i].pid] = tab[i].eid
  /\ \A t \in Threads : own[t] # 0 => \E i \in Index : tab[i].pid = t
  /\ \A i, j \in Index : tab[i].pid # 0 /\ tab[i].pid = tab[j].pid => i = j

OwnInv == TypeOK /\ InUse /\ OwnEntries

(* When the process starts nobody has registered.                          *)
LEMMA OwnInit == Init => OwnInv
<1>1. Init => OwnEntries
  BY DEF Init, OwnEntries, NoEntry
<1>. QED  BY <1>1, InitType, InitInUse DEF OwnInv

(* Threads that have ended stay ended.                                     *)
LEMMA ExitsGrow == TypeOK /\ [Next]_vars /\ exits' = 0 => exits = 0
<1>1. TypeOK => exits \in Nat
  BY EidAssumption DEF TypeOK
<1>2. [Next]_vars => exits' = exits \/ exits' = exits + 1
  BY DEF Next, vars, EidInit, ServerInit, ServerSocket, ServerSocketFail,
         ServerUnlink, ServerBind, ThreadExit
<1>. QED  BY <1>1, <1>2

(* Until a thread ends, each step keeps the entries of the threads.        *)
LEMMA OwnNext == OwnInv /\ [Next]_vars /\ exits' = 0 => OwnInv'
<1>. SUFFICES ASSUME OwnInv, [Next]_vars, exits' = 0 PROVE OwnEntries'
  BY NextType DEF OwnInv
<1>. USE DEF OwnInv
<1>1. CASE UNCHANGED vars
  BY <1>1 DEF vars, OwnEntries
<1>2. ASSUME NEW t \in Threads, NEW e \in Eids, EidInit(t, e)
      PROVE  OwnEntries'
  <2>1. \A i \in Index : InitMsgData[i].eid = tab[i].eid /\ InitMsgData[i].pid = tab[i].pid
    BY InitMsgDataInUse
  <2>2. CASE tab' = InitMsgData /\ own' = own
    BY <2>1, <2>2 DEF OwnEntries
  <2>3. ASSUME NEW i \in Index, Registers(i, t, e) PROVE OwnEntries'
    <3>1. own[t] = 0 /\ e # 0 /\ t # 0
      BY <1>2, EidAssumption DEF EidInit
    <3>2. \A j \in Index : tab[j].pid # t
      BY <3>1 DEF OwnEntries, InUse
    <3>3. /\ tab'[i].eid = e /\ tab'[i].pid = t
          /\ \A j \in Index : j # i =>
               tab'[j].eid = tab[j].eid /\ tab'[j].pid = tab[j].pid
      BY <2>1, <2>3 DEF Registers
    <3>4. own'[t] = e /\ \A u \in Threads : u # t => own'[u] = own[u]
      BY <2>3 DEF Registers, TypeOK
    <3>5. tab[i].pid = 0
      <4>1. tab[i].eid \in Eids \cup {0} /\ tab[i].eid <= 0
        BY <2>1, <2>3 DEF Registers, TypeOK
      <4>2. tab[i].eid = 0
        BY <4>1, FreeEid
      <4>. QED  BY <4>2 DEF InUse
    <3>6. \A j \in Index : tab[j].pid \in Threads \cup {0}
      BY DEF TypeOK
    <3>7. \A j \in Index : tab'[j].pid # 0 => own'[tab'[j].pid] = tab'[j].eid
      BY <3>2, <3>3, <3>4, <3>6 DEF OwnEntries
    <3>8. \A u \in Threads : own'[u] # 0 => \E j \in Index : tab'[j].pid = u
      <4>. SUFFICES ASSUME NEW u \in Threads, own'[u] # 0
                    PROVE  \E j \in Index : tab'[j].pid = u
        OBVIOUS
      <4>1. CASE u = t
        BY <3>3, <4>1
      <4>2. CASE u # t
        <5>1. PICK j \in Index : tab[j].pid = u
          BY <3>4, <4>2 DEF OwnEntries
        <5>2. j # i
          BY <3>5, <5>1, EidAssumption
        <5>. QED  BY <3>3, <5>1, <5>2
      <4>. QED  BY <4>1, <4>2
    <3>9. \A j, k \in Index : tab'[j].pid # 0 /\ tab'[j].pid = tab'[k].pid => j = k
      BY <3>2, <3>3 DEF OwnEntries
    <3>. QED  BY <3>7, <3>8, <3>9 DEF OwnEntries
  <2>. QED  BY <1>2, <2>2, <2>3, EidInitEffect
<1>3. ASSUME NEW t \in Threads,
             \/ ServerInit(t) \/ ServerSocket(t) \/ ServerSocketFail(t)
             \/ ServerUnlink(t) \/ ServerBind(t)
      PROVE  OwnEntries'
  BY <1>3, OtherStep DEF OwnEntries
<1>4. ASSUME NEW t \in Threads, ThreadExit(t) PROVE FALSE
  BY <1>4, EidAssumption DEF ThreadExit, TypeOK
<1>. QED  BY <1>1, <1>2, <1>3, <1>4 DEF Next

(* The look-up finds the entry a thread registered.                        *)
LEMMA MyOwnEntry ==
  ASSUME OwnInv, NEW t \in Threads, own[t] # 0
  PROVE  /\ MyEntry(t) \in Index /\ tab[MyEntry(t)].pid = t
         /\ tab[MyEntry(t)].eid = own[t] /\ EidGet(t) = own[t]
<1>. USE DEF OwnInv
<1>0. t # 0
  BY EidAssumption
<1>1. PICK i \in Index : tab[i].pid = t
  BY DEF OwnEntries
<1>2. ready /\ Mine(t) # {}
  BY <1>0, <1>1 DEF InUse, Mine
<1>3. MyEntry(t) = Min(Mine(t))
  BY <1>2 DEF MyEntry
<1>4. Min(Mine(t)) \in Mine(t)
  BY <1>2, MinInSet DEF Mine
<1>5. MyEntry(t) \in Index /\ tab[MyEntry(t)].pid = t
  BY <1>3, <1>4 DEF Mine
<1>6. tab[MyEntry(t)].eid = own[t]
  BY <1>0, <1>5 DEF OwnEntries
<1>7. MyEntry(t) # 0
  BY <1>5, EidAssumption DEF Index
<1>. QED  BY <1>5, <1>6, <1>7 DEF EidGet

(* For a table of any length and any threads that register, until the      *)
(* first of them ends: eidGet returns to a thread the EID it registered.   *)
THEOREM EidsAreKept == Spec => []EidKept
<1>. DEFINE Inv == TypeOK /\ InUse /\ (exits = 0 => OwnInv)
<1>1. Init => Inv
  BY OwnInit DEF OwnInv
<1>2. Inv /\ [Next]_vars => Inv'
  BY NextType, ExitsGrow, OwnNext
<1>3. Inv => EidKept
  BY MyOwnEntry DEF EidKept, EidIsMine
<1>. QED  BY <1>1, <1>2, <1>3, PTL DEF Spec
-----------------------------------------------------------------------------
(* The first registration takes the first entry, the one that stands for   *)
(* the process, and keeps it.                                              *)
FirstTaken == (\E t \in Threads : own[t] # 0) => tab[1].eid # 0

(* The first entry is taken before any other, and stays taken.             *)
LEMMA FirstTakenNext ==
  ASSUME TypeOK, InUse, FirstTaken, [Next]_vars
  PROVE  FirstTaken'
<1>0. 1 \in Index /\ \A i \in Index : i # 1 => ~ (i <= 1)
  BY EidAssumption DEF Index
<1>1. CASE UNCHANGED vars
  BY <1>1 DEF vars, FirstTaken
<1>2. ASSUME NEW t \in Threads, NEW e \in Eids, EidInit(t, e)
      PROVE  FirstTaken'
  <2>1. InitMsgData[1].eid = tab[1].eid
    BY <1>0, InitMsgDataInUse
  <2>2. CASE tab' = InitMsgData /\ own' = own
    BY <2>1, <2>2 DEF FirstTaken
  <2>3. ASSUME NEW i \in Index, Registers(i, t, e) PROVE FirstTaken'
    <3>1. CASE i = 1
      BY <2>3, <3>1, EidAssumption DEF Registers, FirstTaken
    <3>2. CASE i # 1
      <4>1. tab'[1].eid = tab[1].eid /\ ~ (tab[1].eid <= 0)
        BY <1>0, <2>1, <2>3, <3>2 DEF Registers
      <4>. QED  BY <4>1 DEF FirstTaken
    <3>. QED  BY <3>1, <3>2
  <2>. QED  BY <1>2, <2>2, <2>3, EidInitEffect
<1>3. ASSUME NEW t \in Threads,
             \/ ServerInit(t) \/ ServerSocket(t) \/ ServerSocketFail(t)
             \/ ServerUnlink(t) \/ ServerBind(t)
      PROVE  FirstTaken'
  BY <1>0, <1>3, OtherStep DEF FirstTaken
<1>4. ASSUME NEW t \in Threads, ThreadExit(t) PROVE FirstTaken'
  <2>1. tab' = tab /\ \A u \in Threads : own'[u] # 0 => own[u] # 0
    BY <1>4 DEF ThreadExit, TypeOK
  <2>. QED  BY <2>1 DEF FirstTaken
<1>. QED  BY <1>1, <1>2, <1>3, <1>4 DEF Next

(* Threads may end and their ids come back: once a thread has registered,  *)
(* zcfg_msg_eidGet has an EID for every thread of the process, so that     *)
(* zcfg_msg_sendAndGetReply never fails for want of one.                   *)
THEOREM EveryThreadCanSend == Spec => []AnyoneHasEid
<1>1. Init => TypeOK /\ InUse /\ FirstTaken
  BY InitType, InitInUse DEF Init, FirstTaken
<1>2. TypeOK /\ InUse /\ FirstTaken /\ [Next]_vars => (TypeOK /\ InUse /\ FirstTaken)'
  BY NextType, FirstTakenNext
<1>3. TypeOK /\ InUse /\ FirstTaken => AnyoneHasEid
  <2>. SUFFICES ASSUME TypeOK, InUse, FirstTaken, \E t \in Threads : own[t] # 0,
                       NEW u \in Threads
                PROVE  EidGet(u) # 0
    BY DEF AnyoneHasEid
  <2>1. 1 \in Index /\ 0 \notin Index /\ tab[1].eid # 0
    BY EidAssumption DEF Index, FirstTaken
  <2>2. ready /\ tab[1].eid > 0
    <3>1. tab[1].eid \in Eids
      BY <2>1 DEF TypeOK
    <3>2. \A e \in Eids : e > 0
      BY EidAssumption
    <3>. QED  BY <2>1, <3>1, <3>2 DEF InUse
  <2>3. MyEntry(u) # 0
    <3>1. CASE Mine(u) # {}
      <4>1. Min(Mine(u)) \in Index
        BY <3>1, MinInSet DEF Mine
      <4>. QED  BY <2>1, <2>2, <3>1, <4>1 DEF MyEntry
    <3>2. CASE Mine(u) = {}
      BY <2>2, <3>2 DEF MyEntry
    <3>. QED  BY <3>1, <3>2
  <2>. QED  BY <2>3, MyEntryInUse DEF EidGet
<1>. QED  BY <1>1, <1>2, <1>3, PTL DEF Spec
-----------------------------------------------------------------------------
(* If, besides, every thread that serves has registered first, each works  *)
(* on an entry, a path and a socket that no other thread touches: what     *)
(* serverInit does outside the mutex needs none.                           *)
Private ==
  /\ \A t, u \in Threads : t # u /\ own[t] # 0 => own[t] # own[u]
  /\ \A t \in Threads : spc[t] # "idle" => own[t] # 0 /\ tab[ent[t]].pid = t

FreshSockets ==
  /\ \A s \in bound : s <= nsock
  /\ \A i \in Index : tab[i].sck <= nsock
  /\ \A i, j \in Index : i # j /\ tab[i].sck > 0 => tab[i].sck # tab[j].sck

Progress ==
  \A t \in Threads :
    /\ spc[t] \in {"unlink", "bind"} =>
         tab[ent[t]].sck > 0 /\ tab[ent[t]].sck \notin bound
    /\ spc[t] = "bind" => path[own[t]] = 0
    /\ spc[t] = "ok" => path[own[t]] = tab[ent[t]].sck /\ path[own[t]] \in bound

SrvInv == OwnInv /\ Private /\ FreshSockets /\ Progress

(* When the process starts there is no server.                             *)
LEMMA SrvInit == Init => SrvInv
<1>1. Init => Private /\ FreshSockets /\ Progress
  BY DEF Init, Private, FreshSockets, Progress, NoEntry
<1>. QED  BY <1>1, OwnInit DEF SrvInv

(* A thread in serverInit has its own entry in hand.                       *)
LEMMA InHand ==
  ASSUME SrvInv, NEW t \in Threads, spc[t] # "idle"
  PROVE  /\ ent[t] \in Index /\ tab[ent[t]].pid = t /\ own[t] \in Eids
         /\ tab[ent[t]].eid = own[t]
         /\ \A u \in Threads : u # t /\ spc[u] # "idle" => ent[u] # ent[t]
<1>. USE DEF SrvInv, OwnInv
<1>1. ent[t] \in Index /\ tab[ent[t]].pid = t /\ own[t] # 0
  BY DEF Private, InUse
<1>2. own[t] \in Eids
  BY <1>1 DEF TypeOK
<1>3. t # 0
  BY EidAssumption
<1>4. tab[ent[t]].eid = own[t]
  BY <1>1, <1>3 DEF OwnEntries
<1>5. \A u \in Threads : u # t /\ spc[u] # "idle" => ent[u] # ent[t]
  BY <1>1 DEF Private
<1>. QED  BY <1>1, <1>2, <1>4, <1>5

(* Sockets are numbers.                                                    *)
LEMMA SockTypes ==
  ASSUME TypeOK
  PROVE  /\ nsock \in Nat /\ bound \subseteq Nat
         /\ \A i \in Index : tab[i].sck \in Int
         /\ Closed \in Int /\ Closed < 0
<1>1. nsock \in Nat /\ bound \subseteq Nat
  BY EidAssumption DEF TypeOK
<1>2. \A i \in Index : tab[i].sck \in {Closed} \cup 0..MaxSock
  BY DEF TypeOK
<1>3. \A i \in Index : tab[i].sck \in Int
  BY <1>2, EidAssumption DEF Closed
<1>. QED  BY <1>1, <1>3 DEF Closed

(* Sockets stay apart when entries only lose theirs.                       *)
LEMMA LosingSockets ==
  ASSUME TypeOK, FreshSockets, UNCHANGED <<bound, nsock>>,
         \A i \in Index : tab'[i].sck = tab[i].sck \/ tab'[i].sck = Closed
  PROVE  FreshSockets'
<1>1. \A i \in Index : tab'[i].sck <= nsock
  BY SockTypes DEF FreshSockets
<1>2. ASSUME NEW i \in Index, NEW j \in Index, i # j, tab'[i].sck > 0
      PROVE  tab'[i].sck # tab'[j].sck
  <2>1. tab'[i].sck = tab[i].sck /\ tab[i].sck > 0
    BY <1>2, SockTypes
  <2>2. tab[i].sck # tab[j].sck
    BY <1>2, <2>1 DEF FreshSockets
  <2>3. CASE tab'[j].sck = tab[j].sck
    BY <2>1, <2>2, <2>3
  <2>4. CASE tab'[j].sck = Closed
    BY <2>1, <2>4, SockTypes
  <2>. QED  BY <2>3, <2>4
<1>. QED  BY <1>1, <1>2 DEF FreshSockets

(* A thread that registers does not disturb one in serverInit.             *)
LEMMA EidInitSrv ==
  ASSUME SrvInv, NEW t \in Threads, NEW e \in Eids, EidInit(t, e)
  PROVE  Private' /\ FreshSockets' /\ Progress'
<1>. USE DEF SrvInv, OwnInv
<1>0. UNCHANGED <<path, bound, nsock, spc, ent>>
  BY DEF EidInit
<1>1. \A i \in Index : \/ tab'[i].sck = tab[i].sck /\ ready
                       \/ tab'[i].sck = Closed /\ ~ready
  <2>1. CASE tab' = InitMsgData
    BY <2>1, InitMsgDataInUse
  <2>2. ASSUME NEW i \in Index, Registers(i, t, e)
        PROVE  \A j \in Index : \/ tab'[j].sck = tab[j].sck /\ ready
                                \/ tab'[j].sck = Closed /\ ~ready
    BY <2>2, InitMsgDataInUse DEF Registers
  <2>. QED  BY <2>1, <2>2, EidInitEffect
<1>2. spc[t] = "idle" /\ \A u \in Threads : own[u] # e
  BY DEF EidInit
<1>3. \A u \in Threads : own'[u] = own[u] \/ (u = t /\ own'[u] = e)
  <2>1. CASE own' = own
    BY <2>1
  <2>2. CASE own' = [own EXCEPT ![t] = e]
    BY <2>2 DEF TypeOK
  <2>. QED  BY <2>1, <2>2, EidInitEffect DEF Registers
<1>4. own[t] = 0
  BY DEF EidInit
<1>5. \A u \in Threads : spc[u] # "idle" => tab'[ent[u]].pid = tab[ent[u]].pid /\ ready
  <2>. SUFFICES ASSUME NEW u \in Threads, spc[u] # "idle"
                PROVE  tab'[ent[u]].pid = tab[ent[u]].pid /\ ready
    OBVIOUS
  <2>1. ent[u] \in Index /\ tab[ent[u]].eid # 0 /\ ready
    BY DEF InUse
  <2>2. CASE tab' = InitMsgData
    BY <2>1, <2>2, InitMsgDataInUse
  <2>3. ASSUME NEW i \in Index, Registers(i, t, e)
        PROVE  tab'[ent[u]].pid = tab[ent[u]].pid
    <3>1. tab[i].eid \in Eids \cup {0} /\ tab[i].eid <= 0
      BY <2>3, InitMsgDataInUse DEF Registers, TypeOK
    <3>2. tab[i].eid = 0
      BY <3>1, FreeEid
    <3>3. ent[u] # i
      BY <2>1, <3>2
    <3>. QED  BY <2>1, <2>3, <3>3, InitMsgDataInUse DEF Registers
  <2>. QED  BY <2>1, <2>2, <2>3, EidInitEffect
<1>6. Private'
  <2>1. \A u \in Threads : spc[u] # "idle" => u # t
    BY <1>2
  <2>. QED  BY <1>0, <1>2, <1>3, <1>4, <1>5, <2>1 DEF Private
<1>7. FreshSockets'
  BY <1>0, <1>1, LosingSockets
<1>8. Progress'
  <2>1. \A u \in Threads : spc[u] # "idle" =>
          ent[u] \in Index /\ tab'[ent[u]].sck = tab[ent[u]].sck /\ own'[u] = own[u]
    BY <1>1, <1>2, <1>3, <1>5 DEF InUse
  <2>. QED  BY <1>0, <2>1 DEF Progress
<1>. QED  BY <1>6, <1>7, <1>8

(* Each step of serverInit finds what the last one left.                   *)
LEMMA SrvNext == ~Share /\ SrvInv /\ [Next]_vars /\ exits' = 0 => SrvInv'
<1>. SUFFICES ASSUME ~Share, SrvInv, [Next]_vars, exits' = 0
              PROVE  Private' /\ FreshSockets' /\ Progress'
  BY OwnNext DEF SrvInv
<1>. USE DEF SrvInv, OwnInv
<1>1. CASE UNCHANGED vars
  BY <1>1 DEF vars, Private, FreshSockets, Progress
<1>2. ASSUME NEW t \in Threads, NEW e \in Eids, EidInit(t, e)
      PROVE  Private' /\ FreshSockets' /\ Progress'
  BY <1>2, EidInitSrv
<1>3. ASSUME NEW t \in Threads, ServerInit(t)
      PROVE  Private' /\ FreshSockets' /\ Progress'
  <2>1. own[t] # 0
    BY <1>3 DEF ServerInit
  <2>2. MyEntry(t) \in Index /\ tab[MyEntry(t)].pid = t
    BY <2>1, MyOwnEntry
  <2>3. /\ ent' = [ent EXCEPT ![t] = MyEntry(t)]
        /\ spc' = [spc EXCEPT ![t] = "socket"]
        /\ UNCHANGED <<ready, tab, path, bound, nsock, own, exits>>
    BY <1>3 DEF ServerInit
  <2>4. /\ ent'[t] = MyEntry(t) /\ spc'[t] = "socket"
        /\ \A u \in Threads : u # t => ent'[u] = ent[u] /\ spc'[u] = spc[u]
    BY <2>3 DEF TypeOK
  <2>5. Private'
    BY <2>1, <2>2, <2>3, <2>4 DEF Private
  <2>6. FreshSockets'
    BY <2>3 DEF FreshSockets
  <2>7. Progress'
    BY <2>3, <2>4 DEF Progress
  <2>. QED  BY <2>5, <2>6, <2>7
<1>4. ASSUME NEW t \in Threads, ServerSocket(t)
      PROVE  Private' /\ FreshSockets' /\ Progress'
  <2>1. /\ spc[t] = "socket" /\ nsock < MaxSock /\ nsock' = nsock + 1
        /\ tab' = [tab EXCEPT ![ent[t]].sck = nsock + 1]
        /\ spc' = [spc EXCEPT ![t] = "unlink"]
        /\ UNCHANGED <<ready, path, bound, ent, own, exits>>
    BY <1>4 DEF ServerSocket
  <2>2. ent[t] \in Index /\ \A u \in Threads : u # t /\ spc[u] # "idle" => ent[u] # ent[t]
    BY <2>1, InHand
  <2>3. nsock + 1 \in {Closed} \cup 0..MaxSock
    BY <2>1, EidAssumption DEF TypeOK
  <2>4. SckOnly(ent[t]) /\ tab'[ent[t]].sck = nsock + 1
    BY <2>1, <2>2, <2>3, SckEffect
  <2>5. spc'[t] = "unlink" /\ \A u \in Threads : u # t => spc'[u] = spc[u]
    BY <2>1 DEF TypeOK
  <2>6. \A u \in Threads : spc[u] # "idle" => ent[u] \in Index
    BY DEF InUse
  <2>7. Private'
    BY <2>1, <2>4, <2>5, <2>6 DEF Private, SckOnly
  <2>8. FreshSockets'
    BY <2>1, <2>2, <2>4, SockTypes DEF FreshSockets, SckOnly
  <2>9. nsock + 1 \notin bound /\ nsock + 1 > 0
    BY SockTypes DEF FreshSockets
  <2>10. Progress'
    BY <2>1, <2>2, <2>4, <2>5, <2>6, <2>9 DEF Progress, SckOnly
  <2>. QED  BY <2>7, <2>8, <2>10
<1>5. ASSUME NEW t \in Threads, ServerSocketFail(t)
      PROVE  Private' /\ FreshSockets' /\ Progress'
  <2>1. /\ spc[t] = "socket"
        /\ tab' = [tab EXCEPT ![ent[t]].sck = Closed]
        /\ spc' = [spc EXCEPT ![t] = "idle"]
        /\ UNCHANGED <<ready, path, bound, nsock, ent, own, exits>>
    BY <1>5 DEF ServerSocketFail
  <2>2. ent[t] \in Index /\ \A u \in Threads : u # t /\ spc[u] # "idle" => ent[u] # ent[t]
    BY <2>1, InHand
  <2>3. SckOnly(ent[t]) /\ tab'[ent[t]].sck = Closed
    BY <2>1, <2>2, SckEffect
  <2>4. spc'[t] = "idle" /\ \A u \in Threads : u # t => spc'[u] = spc[u]
    BY <2>1 DEF TypeOK
  <2>5. \A u \in Threads : spc[u] # "idle" => ent[u] \in Index
    BY DEF InUse
  <2>6. Private'
    BY <2>1, <2>3, <2>4, <2>5 DEF Private, SckOnly
  <2>7. FreshSockets'
    <3>1. \A j \in Index : tab'[j].sck = tab[j].sck \/ tab'[j].sck = Closed
      BY <2>3 DEF SckOnly
    <3>. QED  BY <2>1, <3>1, LosingSockets
  <2>8. Progress'
    BY <2>1, <2>2, <2>3, <2>4, <2>5 DEF Progress, SckOnly
  <2>. QED  BY <2>6, <2>7, <2>8
<1>6. ASSUME NEW t \in Threads, ServerUnlink(t)
      PROVE  Private' /\ FreshSockets' /\ Progress'
  <2>1. spc[t] = "unlink" /\ tab[ent[t]].eid = own[t] /\ own[t] \in Eids
    BY <1>6, InHand DEF ServerUnlink
  <2>2. /\ path' = [path EXCEPT ![own[t]] = 0]
        /\ spc' = [spc EXCEPT ![t] = "bind"]
        /\ UNCHANGED <<ready, tab, bound, nsock, ent, own, exits>>
    BY <1>6, <2>1 DEF ServerUnlink
  <2>3. /\ spc'[t] = "bind" /\ \A u \in Threads : u # t => spc'[u] = spc[u]
        /\ path'[own[t]] = 0 /\ \A d \in Eids : d # own[t] => path'[d] = path[d]
    BY <2>1, <2>2 DEF TypeOK
  <2>4. \A u \in Threads : u # t /\ spc[u] # "idle" => own[u] \in Eids /\ own[u] # own[t]
    BY <2>1, InHand DEF Private
  <2>5. Private' /\ FreshSockets'
    BY <2>1, <2>2, <2>3 DEF Private, FreshSockets
  <2>6. Progress'
    BY <2>1, <2>2, <2>3, <2>4 DEF Progress
  <2>. QED  BY <2>5, <2>6
<1>7. ASSUME NEW t \in Threads, ServerBind(t)
      PROVE  Private' /\ FreshSockets' /\ Progress'
  <2>1. /\ spc[t] = "bind" /\ tab[ent[t]].eid = own[t] /\ own[t] \in Eids
        /\ ent[t] \in Index
        /\ \A u \in Threads : u # t /\ spc[u] # "idle" => ent[u] # ent[t]
    BY <1>7, InHand DEF ServerBind
  <2>. DEFINE s == tab[ent[t]].sck
  <2>2. s > 0 /\ s \notin bound /\ path[own[t]] = 0
    BY <2>1 DEF Progress
  <2>3. s # Closed
    BY <2>1, <2>2, SockTypes DEF Closed
  <2>4. /\ path' = [path EXCEPT ![own[t]] = s]
        /\ bound' = bound \cup {s}
        /\ spc' = [spc EXCEPT ![t] = "ok"]
        /\ UNCHANGED <<tab, ready, nsock, ent, own, exits>>
    BY <1>7, <2>1, <2>2, <2>3 DEF ServerBind
  <2>5. /\ spc'[t] = "ok" /\ \A u \in Threads : u # t => spc'[u] = spc[u]
        /\ path'[own[t]] = s /\ \A d \in Eids : d # own[t] => path'[d] = path[d]
    BY <2>1, <2>4 DEF TypeOK
  <2>6. \A u \in Threads : u # t /\ spc[u] # "idle" =>
          /\ own[u] \in Eids /\ own[u] # own[t]
          /\ ent[u] \in Index /\ tab[ent[u]].sck # s
    BY <2>1, <2>2, InHand DEF Private, FreshSockets
  <2>7. Private'
    BY <2>1, <2>4, <2>5 DEF Private
  <2>8. FreshSockets'
    BY <2>1, <2>4 DEF FreshSockets
  <2>9. Progress'
    BY <2>4, <2>5, <2>6 DEF Progress
  <2>. QED  BY <2>7, <2>8, <2>9
<1>8. ASSUME NEW t \in Threads, ThreadExit(t) PROVE FALSE
  BY <1>8, EidAssumption DEF ThreadExit, TypeOK
<1>. QED  BY <1>1, <1>2, <1>3, <1>4, <1>5, <1>6, <1>7, <1>8 DEF Next

(* For any number of threads that each register before they serve, until   *)
(* the first of them ends: a thread whose zcfg_msg_serverInit succeeded    *)
(* keeps a socket that the path of its EID leads to, although serverInit   *)
(* works on the entry after it has released the mutex.                     *)
THEOREM ServersReachable == ~Share => (Spec => []ServerKept)
<1>. SUFFICES ASSUME ~Share PROVE Spec => []ServerKept
  OBVIOUS
<1>. DEFINE Inv == TypeOK /\ InUse /\ (exits = 0 => SrvInv)
<1>1. Init => Inv
  BY SrvInit DEF SrvInv, OwnInv
<1>2. Inv /\ [Next]_vars => Inv'
  BY NextType, ExitsGrow, SrvNext
<1>3. SrvInv => ServerReachable
  <2>. SUFFICES ASSUME SrvInv, NEW t \in Threads, spc[t] = "ok"
                PROVE  /\ path[EidGet(t)] = tab[MyEntry(t)].sck
                       /\ path[EidGet(t)] \in bound
    BY DEF ServerReachable
  <2>1. ent[t] \in Index /\ tab[ent[t]].pid = t /\ own[t] \in Eids
    BY InHand
  <2>2. own[t] # 0 /\ t # 0
    BY <2>1, EidAssumption
  <2>3. MyEntry(t) \in Index /\ tab[MyEntry(t)].pid = t /\ EidGet(t) = own[t]
    BY <2>2, MyOwnEntry DEF SrvInv
  <2>4. MyEntry(t) = ent[t]
    BY <2>1, <2>2, <2>3 DEF SrvInv, OwnInv, OwnEntries
  <2>. QED  BY <2>3, <2>4 DEF SrvInv, Progress
<1>4. Inv => ServerKept
  BY <1>3 DEF ServerKept
<1>. QED  BY <1>1, <1>2, <1>4, PTL DEF Spec
=============================================================================
