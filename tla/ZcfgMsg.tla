------------------------------ MODULE ZcfgMsg ------------------------------
(***************************************************************************)
(* libzcfg_msg (zcfg_msg.c): requests and replies between the threads of a *)
(* client process and one server, over AF_UNIX datagram sockets.           *)
(*                                                                         *)
(* A call of zcfg_msg_sendAndGetReply opens a socket of its own, bound to  *)
(* the path "<prefix><eid>-<seqid>" with seqid = tid | (req_idx << 16):    *)
(* here the address <<tid, req_idx>>. The server answers to the address    *)
(* the datagram came from, and the caller takes the first datagram that    *)
(* arrives without looking at what it answers, so everything rests on an   *)
(* address never being reused while an answer to it may still come.        *)
(*                                                                         *)
(* Requests are numbered, and a reply carries the number of the request    *)
(* it answers: ghosts that the messages themselves do not hold.            *)
(***************************************************************************)
EXTENDS Integers, Sequences

CONSTANTS
  Threads,     \* thread ids (gettid) of the client process
  IdxMod,      \* 0xFFFF, the modulus of _zcfg_msg_req_idx
  QLen,        \* datagrams a socket holds before sendto gives EAGAIN
  MaxTry,      \* _SEND_TRY_MAX_CNT
  Kinds,       \* how callers ask: "forever", "timed" or "nowait"
  MayFail,     \* select or malloc may fail in _msg_recv (a signal, memory)
  MaxReq,      \* bound: number of requests
  MaxSrvCrash, \* bound: crashes of the server process
  MaxCliCrash  \* bound: crashes of the client process

ASSUME MsgAssumption ==
  /\ IdxMod \in Nat \ {0}
  /\ QLen \in Nat \ {0}
  /\ MaxTry \in Nat
  /\ Kinds \subseteq {"forever", "timed", "nowait"}
  /\ MayFail \in BOOLEAN
  /\ MaxReq \in Nat
  /\ MaxSrvCrash \in Nat
  /\ MaxCliCrash \in Nat

VARIABLES
  idx,       \* _zcfg_msg_req_idx
  pc,        \* pc[t]: "idle", in _msg_send ("send") or in _msg_recv ("recv")
  job,       \* job[t]: the request t is making
  sock,      \* sock[t]: the replies queued on the socket of t's request
  stale,     \* addresses whose path outlived the process that bound it
  up,        \* the server's socket is bound to its path
  srvq,      \* datagrams queued on the server's socket
  cur,       \* what the server is working on: a sequence of at most one
  nreq,      \* number of requests made so far
  handled,   \* requests the server has taken up
  runs,      \* number of times the server has taken up a request
  ret,       \* ret[t]: what the last call of t returned
  srvCrash,  \* crashes of the server so far
  cliCrash   \* crashes of the client process so far

client  == <<idx, pc, job, nreq, ret>>
server  == <<up, srvq, cur, handled, runs>>
crashes == <<srvCrash, cliCrash>>
vars == <<client, sock, stale, server, crashes>>

Addresses == Threads \X (1..IdxMod)
Codes == {"none", "SUCCESS", "SUCCESS_AND_NO_REPLY", "TIMEOUT",
          "INTERNAL_ERROR"}
Outcome(r, code, reply) == [req |-> r, code |-> code, reply |-> reply]
NoOutcome == Outcome(0, "none", 0)
Job(r, i, k) == [req |-> r, idx |-> i, kind |-> k, tries |-> 0]
NoJob == Job(0, 0, "none")
Msg(t) == [from |-> <<t, job[t].idx>>, req |-> job[t].req,
           kind |-> job[t].kind]

Init ==
  /\ idx = 0
  /\ pc = [t \in Threads |-> "idle"]
  /\ job = [t \in Threads |-> NoJob]
  /\ sock = [t \in Threads |-> <<>>]
  /\ stale = {}
  /\ up = TRUE
  /\ srvq = <<>>
  /\ cur = <<>>
  /\ nreq = 0
  /\ handled = {}
  /\ runs = 0
  /\ ret = [t \in Threads |-> NoOutcome]
  /\ srvCrash = 0
  /\ cliCrash = 0
-----------------------------------------------------------------------------
(* Mutated forms of the definitions below, for the mutant runs *)

\* the index is never moved on
NextIdxStuck(i) == 1

\* the index is cut to one bit
NextIdxShort(i) == (i % 2) + 1

\* the index is not wrapped
NextIdxNoWrap(i) == i + 1
-----------------------------------------------------------------------------
(* zcfg_msg_sendAndGetReply *)

\* _zcfg_msg_req_idx = (_zcfg_msg_req_idx % 0xFFFF) + 1
NextIdx(i) == (i % IdxMod) + 1

\* Leave the call: close the socket, unlink its path, return
Return(t, code, reply) ==
  /\ pc' = [pc EXCEPT ![t] = "idle"]
  /\ ret' = [ret EXCEPT ![t] = Outcome(job[t].req, code, reply)]
  /\ job' = [job EXCEPT ![t] = NoJob]
  /\ sock' = [sock EXCEPT ![t] = <<>>]
  /\ UNCHANGED <<idx, nreq, stale, crashes>>

\* The request is bound to its address. The path is private to the thread,
\* so taking the index under the mutex and binding are one step.
Bind(t, k, i) ==
  /\ pc' = [pc EXCEPT ![t] = "send"]
  /\ job' = [job EXCEPT ![t] = Job(nreq + 1, i, k)]
  /\ ret' = [ret EXCEPT ![t] = NoOutcome]
  /\ UNCHANGED stale

\* mutant: unlink the path before bind, as zcfg_msg_serverInit does
RequestUnlinks(t, k) ==
  /\ pc[t] = "idle"
  /\ nreq < MaxReq
  /\ idx' = NextIdx(idx)
  /\ nreq' = nreq + 1
  /\ Bind(t, k, NextIdx(idx))
  /\ UNCHANGED <<sock, server, crashes>>

\* A path left behind by a dead process makes bind fail; the call then
\* removes the path and returns an error.
Request(t, k) ==
  /\ pc[t] = "idle"
  /\ nreq < MaxReq
  /\ idx' = NextIdx(idx)
  /\ nreq' = nreq + 1
  /\ IF <<t, NextIdx(idx)>> \in stale
     THEN /\ stale' = stale \ {<<t, NextIdx(idx)>>}
          /\ ret' = [ret EXCEPT ![t] = Outcome(nreq + 1, "INTERNAL_ERROR", 0)]
          /\ UNCHANGED <<pc, job>>
     ELSE Bind(t, k, NextIdx(idx))
  /\ UNCHANGED <<sock, server, crashes>>

\* mutant: the loop is not left after a send that went through
SendOkRepeats(t) ==
  /\ pc[t] = "send"
  /\ up
  /\ Len(srvq) < QLen
  /\ srvq' = Append(srvq, Msg(t))
  /\ UNCHANGED <<client, sock, stale, up, cur, handled, runs, crashes>>

\* sendto queues the datagram; a caller that wants no reply returns at once
SendOk(t) ==
  /\ pc[t] = "send"
  /\ up
  /\ Len(srvq) < QLen
  /\ srvq' = Append(srvq, Msg(t))
  /\ IF job[t].kind = "nowait"
     THEN Return(t, "SUCCESS_AND_NO_REPLY", 0)
     ELSE /\ pc' = [pc EXCEPT ![t] = "recv"]
          /\ UNCHANGED <<idx, job, nreq, ret, sock, stale, crashes>>
  /\ UNCHANGED <<up, cur, handled, runs>>

\* sendto gives EAGAIN: only a request without reply counts its tries, one
\* with reply sleeps and tries again for ever
SendAgain(t) ==
  /\ pc[t] = "send"
  /\ up
  /\ Len(srvq) >= QLen
  /\ job[t].kind = "nowait"
  /\ job[t].tries < MaxTry
  /\ job' = [job EXCEPT ![t].tries = @ + 1]
  /\ UNCHANGED <<idx, pc, nreq, ret, sock, stale, server, crashes>>

\* mutant: the result of _msg_send is not looked at before the return for
\* requests that want no reply
SendGiveUpUntold(t) ==
  /\ pc[t] = "send"
  /\ up
  /\ Len(srvq) >= QLen
  /\ job[t].kind = "nowait"
  /\ job[t].tries = MaxTry
  /\ Return(t, "SUCCESS_AND_NO_REPLY", 0)
  /\ UNCHANGED server

SendGiveUp(t) ==
  /\ pc[t] = "send"
  /\ up
  /\ Len(srvq) >= QLen
  /\ job[t].kind = "nowait"
  /\ job[t].tries = MaxTry
  /\ Return(t, "INTERNAL_ERROR", 0)
  /\ UNCHANGED server

\* no server behind the path: ENOENT or ECONNREFUSED
SendFail(t) ==
  /\ pc[t] = "send"
  /\ ~up
  /\ Return(t, "INTERNAL_ERROR", 0)
  /\ UNCHANGED server

\* select finds a datagram and recvfrom takes it, whoever sent it
RecvOk(t) ==
  /\ pc[t] = "recv"
  /\ sock[t] # <<>>
  /\ Return(t, "SUCCESS", Head(sock[t]))
  /\ UNCHANGED server

\* select runs out; ZCFG_MSG_WAIT_FOREVER goes round the loop instead
RecvTimeout(t) ==
  /\ pc[t] = "recv"
  /\ job[t].kind = "timed"
  /\ sock[t] = <<>>
  /\ Return(t, "TIMEOUT", 0)
  /\ UNCHANGED server

\* select < 0 (a signal came), no memory, or a datagram of another length
RecvError(t) ==
  /\ pc[t] = "recv"
  /\ MayFail
  /\ Return(t, "INTERNAL_ERROR", 0)
  /\ UNCHANGED server
-----------------------------------------------------------------------------
(* The server: zcfg_msg_serverInit, _serverRecv and _serverSend, called by *)
(* a loop that takes one request at a time (not part of the repository)    *)

ServerRecv ==
  /\ up
  /\ cur = <<>>
  /\ srvq # <<>>
  /\ cur' = <<Head(srvq)>>
  /\ srvq' = Tail(srvq)
  /\ handled' = handled \cup {Head(srvq).req}
  /\ runs' = runs + 1
  /\ UNCHANGED <<up, client, sock, stale, crashes>>

\* mutant: the path of the answer holds the thread id alone
ListeningTid(t, a) == pc[t] # "idle" /\ a[1] = t

\* mutant: the path is made from _zcfg_msg_req_idx after the mutex is released
ListeningLate(t, a) == pc[t] # "idle" /\ a = <<t, idx>>

\* A socket of thread t is bound to address a
Listening(t, a) == pc[t] # "idle" /\ a = <<t, job[t].idx>>

\* The answer goes to the address the request came from. Nobody there, or
\* no room after MaxTry tries (answers are NO_WAIT_REPLY), and it is lost.
\* A request that wants no reply gets none.
ServerSend ==
  /\ cur # <<>>
  /\ cur' = <<>>
  /\ sock' = [t \in Threads |->
       IF /\ Head(cur).kind # "nowait"
          /\ Listening(t, Head(cur).from)
          /\ Len(sock[t]) < QLen
       THEN Append(sock[t], Head(cur).req)
       ELSE sock[t]]
  /\ UNCHANGED <<up, srvq, handled, runs, client, stale, crashes>>

\* The path stays, but no socket is behind it; what was queued is gone
ServerCrash ==
  /\ up
  /\ srvCrash < MaxSrvCrash
  /\ srvCrash' = srvCrash + 1
  /\ up' = FALSE
  /\ srvq' = <<>>
  /\ cur' = <<>>
  /\ UNCHANGED <<handled, runs, client, sock, stale, cliCrash>>

\* zcfg_msg_serverInit unlinks the old path and binds a new socket
ServerInit ==
  /\ ~up
  /\ up' = TRUE
  /\ UNCHANGED <<srvq, cur, handled, runs, client, sock, stale, crashes>>

\* The client process dies and is started again: the index starts from 0,
\* the paths of open requests stay, and thread ids may be given out again
ClientCrash ==
  /\ cliCrash < MaxCliCrash
  /\ cliCrash' = cliCrash + 1
  /\ idx' = 0
  /\ pc' = [t \in Threads |-> "idle"]
  /\ job' = [t \in Threads |-> NoJob]
  /\ ret' = [t \in Threads |-> NoOutcome]
  /\ sock' = [t \in Threads |-> <<>>]
  /\ stale' = stale \cup {<<t, job[t].idx>> : t \in {u \in Threads : pc[u] # "idle"}}
  /\ UNCHANGED <<nreq, server, srvCrash>>
-----------------------------------------------------------------------------
ThreadStep(t) ==
  \/ SendOk(t)
  \/ SendAgain(t)
  \/ SendGiveUp(t)
  \/ SendFail(t)
  \/ RecvOk(t)

Next ==
  \/ \E t \in Threads :
       \/ \E k \in Kinds : Request(t, k)
       \/ ThreadStep(t)
       \/ RecvTimeout(t)
       \/ RecvError(t)
  \/ ServerRecv
  \/ ServerSend
  \/ ServerCrash
  \/ ServerInit
  \/ ClientCrash

Spec == Init /\ [][Next]_vars

(* A thread in a call keeps running, select does run out when it has a     *)
(* limit, and the server's loop keeps taking and answering requests.       *)
FairSpec ==
  /\ Spec
  /\ \A t \in Threads : WF_vars(ThreadStep(t)) /\ WF_vars(RecvTimeout(t))
  /\ WF_vars(ServerRecv)
  /\ WF_vars(ServerSend)
  /\ WF_vars(ServerInit)
-----------------------------------------------------------------------------
(* Properties *)

Messages == [from : Addresses, req : 1..MaxReq, kind : Kinds]
Jobs == [req : 0..MaxReq, idx : 0..IdxMod, kind : Kinds \cup {"none"},
         tries : 0..MaxTry]
Outcomes == [req : 0..MaxReq, code : Codes, reply : 0..MaxReq]

(* Type invariant. *)
TypeOK ==
  /\ idx \in 0..IdxMod
  /\ pc \in [Threads -> {"idle", "send", "recv"}]
  /\ job \in [Threads -> Jobs]
  /\ sock \in [Threads -> Seq(1..MaxReq)]
  /\ stale \subseteq Addresses
  /\ up \in BOOLEAN
  /\ srvq \in Seq(Messages)
  /\ cur \in Seq(Messages)
  /\ nreq \in 0..MaxReq
  /\ handled \subseteq 1..MaxReq
  /\ runs \in Nat
  /\ ret \in [Threads -> Outcomes]
  /\ srvCrash \in 0..MaxSrvCrash
  /\ cliCrash \in 0..MaxCliCrash

(* A call that returns ZCFG_SUCCESS returns the answer to its own request, *)
(* although _msg_recv takes whatever datagram comes first: late answers to *)
(* calls that gave up, and answers meant for a process that died, must not *)
(* reach it.                                                               *)
ReplyMatches ==
  \A t \in Threads :
    ret[t].code = "SUCCESS" => ret[t].reply = ret[t].req /\ ret[t].req \in handled

(* The server never meets a full client socket, where it would sleep and   *)
(* then drop an answer: at most one answer is ever queued for a call.      *)
OneReplyQueued == \A t \in Threads : Len(sock[t]) <= 1

(* A caller that wants no reply and is told ZCFG_SUCCESS_AND_NO_REPLY has  *)
(* its request with the server, or knows nothing only because the server   *)
(* died: a full queue never drops a request the caller believes was sent.  *)
NoSilentLoss ==
  \A t \in Threads :
    ret[t].code = "SUCCESS_AND_NO_REPLY" =>
      \/ ret[t].req \in handled
      \/ \E i \in 1..Len(srvq) : srvq[i].req = ret[t].req
      \/ srvCrash > 0

(* zcfg_msg_sendAndGetReply implements the remote call of ZcfgRpc: at most *)
(* one execution, and a success is the caller's own answer.                *)
Rpc == INSTANCE ZcfgRpc WITH call <- [t \in Threads |-> job[t].req]
RpcSpec == Rpc!RpcSpec

(* While the server lives, every call returns: neither the queue at its    *)
(* limit nor the wait without limit holds a caller for ever.               *)
CallsReturn == \A t \in Threads : pc[t] # "idle" ~> pc[t] = "idle"
=============================================================================
