------------------------------ MODULE ZcfgRpc ------------------------------
(***************************************************************************)
(* What zcfg_msg_sendAndGetReply promises its callers, without sockets,    *)
(* addresses or queues: a request is carried out at most once, whether or  *)
(* not its caller still waits, and a call that returns ZCFG_SUCCESS hands  *)
(* its caller the answer to its own request, after the server took it up.  *)
(***************************************************************************)
EXTENDS Integers

CONSTANTS Threads, MaxReq

VARIABLES
  nreq,     \* number of requests made so far; requests are numbered from 1
  call,     \* call[t]: the request thread t is waiting on, 0 if none
  handled,  \* requests the server has taken up
  runs,     \* number of times the server has taken up a request
  ret       \* ret[t]: what the last call of t returned

rpcVars == <<nreq, call, handled, runs, ret>>

\* The outcomes of a call other than ZCFG_SUCCESS; none carries an answer
Failures == {"SUCCESS_AND_NO_REPLY", "TIMEOUT", "INTERNAL_ERROR"}
Outcome(r, code, reply) == [req |-> r, code |-> code, reply |-> reply]
NoOutcome == Outcome(0, "none", 0)

RpcInit ==
  /\ nreq = 0
  /\ call = [t \in Threads |-> 0]
  /\ handled = {}
  /\ runs = 0
  /\ ret = [t \in Threads |-> NoOutcome]

Call(t) ==
  /\ call[t] = 0
  /\ nreq < MaxReq
  /\ nreq' = nreq + 1
  /\ call' = [call EXCEPT ![t] = nreq + 1]
  /\ ret' = [ret EXCEPT ![t] = NoOutcome]
  /\ UNCHANGED <<handled, runs>>

\* A call that fails before its request can reach the server
Refuse(t) ==
  /\ call[t] = 0
  /\ nreq < MaxReq
  /\ nreq' = nreq + 1
  /\ ret' = [ret EXCEPT ![t] = Outcome(nreq + 1, "INTERNAL_ERROR", 0)]
  /\ UNCHANGED <<call, handled, runs>>

Handle(r) ==
  /\ r \in 1..nreq
  /\ r \notin handled
  /\ handled' = handled \cup {r}
  /\ runs' = runs + 1
  /\ UNCHANGED <<nreq, call, ret>>

ReturnReply(t) ==
  /\ call[t] \in handled
  /\ ret' = [ret EXCEPT ![t] = Outcome(call[t], "SUCCESS", call[t])]
  /\ call' = [call EXCEPT ![t] = 0]
  /\ UNCHANGED <<nreq, handled, runs>>

ReturnOther(t, code) ==
  /\ call[t] # 0
  /\ ret' = [ret EXCEPT ![t] = Outcome(call[t], code, 0)]
  /\ call' = [call EXCEPT ![t] = 0]
  /\ UNCHANGED <<nreq, handled, runs>>

\* The calling process dies: its calls never return
Abort ==
  /\ call' = [t \in Threads |-> 0]
  /\ ret' = [t \in Threads |-> NoOutcome]
  /\ UNCHANGED <<nreq, handled, runs>>

RpcNext ==
  \/ \E t \in Threads :
       \/ Call(t)
       \/ Refuse(t)
       \/ ReturnReply(t)
       \/ \E code \in Failures : ReturnOther(t, code)
  \/ \E r \in 1..nreq : Handle(r)
  \/ Abort

RpcSpec == RpcInit /\ [][RpcNext]_rpcVars
=============================================================================
