--------------------------- MODULE ZcfgMsgProofs ---------------------------
(***************************************************************************)
(* Proofs about ZcfgMsg, for any number of threads, requests and crashes   *)
(* of the server and any length of the queues.                             *)
(***************************************************************************)
EXTENDS ZcfgMsg, TLAPS

USE DEF client, server, crashes

(* A thread has a request exactly while it is in a call.                   *)
OpenJobs ==
  \A t \in Threads :
    IF pc[t] = "idle"
    THEN job[t] = NoJob
    ELSE job[t].req \in 1..nreq /\ job[t].idx # 0 /\ job[t].kind # "none"

(* The request index stays in its range as it wraps.                       *)
LEMMA NextIdxType == \A i \in 0..IdxMod : NextIdx(i) \in 1..IdxMod
BY MsgAssumption DEF NextIdx

(* The constants that stand for no call and no result.                     *)
LEMMA NullTypes == NoJob \in Jobs /\ NoOutcome \in Outcomes
BY MsgAssumption DEF NoJob, Job, Jobs, NoOutcome, Outcome, Outcomes, Codes

(* What a call may return.                                                 *)
LEMMA OutcomeType ==
  ASSUME NEW r \in 0..MaxReq, NEW code \in Codes, NEW reply \in 0..MaxReq
  PROVE  Outcome(r, code, reply) \in Outcomes
BY DEF Outcome, Outcomes

(* Queues that are empty or have one message.                              *)
LEMMA ShortSeqs ==
  /\ <<>> \in Seq(Messages)
  /\ \A m \in Messages : <<m>> \in Seq(Messages)
OBVIOUS

(* The types hold when the process starts.                                 *)
LEMMA InitType == Init => TypeOK /\ OpenJobs
BY NullTypes, MsgAssumption DEF Init, TypeOK, OpenJobs

(* Leaving a call keeps the types.                                         *)
LEMMA ReturnType ==
  ASSUME TypeOK, OpenJobs, NEW t \in Threads, NEW code \in Codes,
         NEW reply \in 0..MaxReq, Return(t, code, reply)
  PROVE  /\ pc' \in [Threads -> {"idle", "send", "recv"}]
         /\ job' \in [Threads -> Jobs]
         /\ sock' \in [Threads -> Seq(1..MaxReq)]
         /\ ret' \in [Threads -> Outcomes]
         /\ OpenJobs'
         /\ UNCHANGED <<idx, nreq, stale, srvCrash, cliCrash>>
<1>1. job[t].req \in 0..MaxReq
  BY DEF TypeOK, Jobs
<1>2. Outcome(job[t].req, code, reply) \in Outcomes
  BY <1>1, OutcomeType
<1>3. /\ pc' \in [Threads -> {"idle", "send", "recv"}]
      /\ job' \in [Threads -> Jobs]
      /\ sock' \in [Threads -> Seq(1..MaxReq)]
      /\ ret' \in [Threads -> Outcomes]
  BY <1>2, NullTypes DEF TypeOK, Return
<1>4. nreq' = nreq
  BY DEF Return
<1>5. OpenJobs'
  BY <1>4 DEF TypeOK, OpenJobs, Return
<1>. QED  BY <1>3, <1>5 DEF Return

(* Every step keeps the types, and open calls have a job.                  *)
LEMMA NextType == TypeOK /\ OpenJobs /\ [Next]_vars => TypeOK' /\ OpenJobs'
<1>. SUFFICES ASSUME TypeOK, OpenJobs, [Next]_vars PROVE TypeOK' /\ OpenJobs'
  OBVIOUS
<1>1. CASE UNCHANGED vars
  BY <1>1 DEF vars, OpenJobs, TypeOK
<1>2. ASSUME NEW t \in Threads, NEW k \in Kinds, Request(t, k)
      PROVE  TypeOK' /\ OpenJobs'
  <2>1. nreq' \in 1..MaxReq /\ nreq' = nreq + 1 /\ idx' \in 1..IdxMod
    BY <1>2, MsgAssumption, NextIdxType DEF Request, TypeOK
  <2>2. CASE <<t, NextIdx(idx)>> \in stale
    <3>1. "INTERNAL_ERROR" \in Codes /\ 0 \in 0..MaxReq
      BY MsgAssumption DEF Codes
    <3>2. Outcome(nreq + 1, "INTERNAL_ERROR", 0) \in Outcomes
      BY <2>1, <3>1, OutcomeType
    <3>3. UNCHANGED <<pc, job, sock, server, crashes>>
      BY <1>2, <2>2 DEF Request
    <3>4. ret' \in [Threads -> Outcomes] /\ stale' \subseteq Addresses
      BY <1>2, <2>2, <3>2 DEF Request, TypeOK
    <3>5. TypeOK'
      BY <2>1, <3>3, <3>4 DEF TypeOK
    <3>6. OpenJobs'
      BY <2>1, <3>3 DEF OpenJobs, TypeOK
    <3>. QED  BY <3>5, <3>6
  <2>3. CASE <<t, NextIdx(idx)>> \notin stale
    <3>1. Bind(t, k, NextIdx(idx)) /\ idx' = NextIdx(idx)
      BY <1>2, <2>3 DEF Request
    <3>2. k # "none"
      BY MsgAssumption
    <3>3. Job(nreq + 1, NextIdx(idx), k) \in Jobs
      BY <2>1, <3>1, MsgAssumption DEF Job, Jobs
    <3>4. UNCHANGED <<sock, server, crashes>>
      BY <1>2 DEF Request
    <3>5. TypeOK'
      BY <2>1, <3>1, <3>3, <3>4, NullTypes DEF Bind, TypeOK
    <3>6. job'[t].req = nreq' /\ job'[t].idx = idx' /\ job'[t].kind = k
      BY <2>1, <3>1 DEF Bind, Job, TypeOK
    <3>7. \A u \in Threads \ {t} : pc'[u] = pc[u] /\ job'[u] = job[u]
      BY <3>1 DEF Bind, TypeOK
    <3>8. pc'[t] = "send"
      BY <3>1 DEF Bind, TypeOK
    <3>9. OpenJobs'
      BY <2>1, <3>2, <3>6, <3>7, <3>8, SMTT(40) DEF OpenJobs, TypeOK
    <3>. QED  BY <3>5, <3>9
  <2>. QED  BY <2>2, <2>3
<1>3. ASSUME NEW t \in Threads, ThreadStep(t) \/ RecvTimeout(t) \/ RecvError(t)
      PROVE  TypeOK' /\ OpenJobs'
  <2>1. CASE SendOk(t)
    <3>1. Msg(t) \in Messages
      <4>1. job[t].req \in 1..MaxReq /\ job[t].idx \in 1..IdxMod /\ job[t].kind \in Kinds
        BY <2>1 DEF SendOk, OpenJobs, TypeOK, Jobs
      <4>. QED  BY <4>1 DEF Msg, Messages, Addresses
    <3>2. srvq' \in Seq(Messages) /\ UNCHANGED <<up, cur, handled, runs>>
      BY <2>1, <3>1 DEF SendOk, TypeOK
    <3>3. CASE job[t].kind = "nowait"
      <4>1. Return(t, "SUCCESS_AND_NO_REPLY", 0)
        BY <2>1, <3>3 DEF SendOk
      <4>2. "SUCCESS_AND_NO_REPLY" \in Codes /\ 0 \in 0..MaxReq
        BY MsgAssumption DEF Codes
      <4>. QED  BY <3>2, <4>1, <4>2, ReturnType DEF TypeOK
    <3>4. CASE job[t].kind # "nowait"
      BY <2>1, <3>2, <3>4 DEF SendOk, OpenJobs, TypeOK
    <3>. QED  BY <3>3, <3>4
  <2>2. CASE SendAgain(t)
    <3>1. job[t] \in Jobs /\ job[t].tries + 1 \in 0..MaxTry
      BY <2>2, MsgAssumption, SMTT(40) DEF SendAgain, TypeOK, Jobs
    <3>2. [job[t] EXCEPT !.tries = job[t].tries + 1] \in Jobs
      BY <3>1 DEF Jobs
    <3>3. job' = [job EXCEPT ![t] = [job[t] EXCEPT !.tries = job[t].tries + 1]]
      BY <2>2 DEF SendAgain, TypeOK
    <3>4. job' \in [Threads -> Jobs]
      BY <3>2, <3>3 DEF TypeOK
    <3>5. TypeOK'
      BY <2>2, <3>4 DEF SendAgain, TypeOK
    <3>6. pc[t] # "idle" /\ \A u \in Threads : u # t => job'[u] = job[u]
      BY <2>2, <3>3 DEF SendAgain, TypeOK
    <3>7. /\ job'[t].req = job[t].req
          /\ job'[t].idx = job[t].idx
          /\ job'[t].kind = job[t].kind
      BY <3>1, <3>3 DEF TypeOK, Jobs
    <3>8. pc' = pc /\ nreq' = nreq
      BY <2>2 DEF SendAgain
    <3>9. OpenJobs'
      BY <3>6, <3>7, <3>8 DEF OpenJobs
    <3>. QED  BY <3>5, <3>9
  <2>3. CASE SendGiveUp(t) \/ SendFail(t) \/ RecvTimeout(t) \/ RecvError(t)
    <3>1. PICK code \in Codes : Return(t, code, 0) /\ UNCHANGED server
      BY <2>3 DEF SendGiveUp, SendFail, RecvTimeout, RecvError, Codes
    <3>2. 0 \in 0..MaxReq
      BY MsgAssumption
    <3>. QED  BY <3>1, <3>2, ReturnType DEF TypeOK
  <2>4. CASE RecvOk(t)
    <3>1. Return(t, "SUCCESS", Head(sock[t])) /\ UNCHANGED server
      BY <2>4 DEF RecvOk
    <3>2. sock[t] \in Seq(1..MaxReq) /\ sock[t] # <<>>
      BY <2>4 DEF RecvOk, TypeOK
    <3>3. Head(sock[t]) \in 0..MaxReq /\ "SUCCESS" \in Codes
      BY <3>2, MsgAssumption DEF Codes
    <3>. QED  BY <3>1, <3>3, ReturnType DEF TypeOK
  <2>. QED  BY <1>3, <2>1, <2>2, <2>3, <2>4 DEF ThreadStep
<1>4. CASE ServerRecv
  <2>1. Head(srvq) \in Messages /\ Tail(srvq) \in Seq(Messages)
    BY <1>4 DEF ServerRecv, TypeOK
  <2>2. Head(srvq).req \in 1..MaxReq
    BY <2>1 DEF Messages
  <2>3. cur' \in Seq(Messages) /\ srvq' \in Seq(Messages) /\ handled' \subseteq 1..MaxReq
    BY <1>4, <2>1, <2>2, ShortSeqs DEF ServerRecv, TypeOK
  <2>4. UNCHANGED <<up, client, sock, stale, crashes>>
    BY <1>4 DEF ServerRecv
  <2>5. runs' \in Nat
    BY <1>4 DEF ServerRecv, TypeOK
  <2>. QED  BY <2>3, <2>4, <2>5 DEF OpenJobs, TypeOK
<1>5. CASE ServerSend
  <2>1. Head(cur) \in Messages
    BY <1>5 DEF ServerSend, TypeOK
  <2>2. Head(cur).req \in 1..MaxReq
    BY <2>1 DEF Messages
  <2>3. \A t \in Threads : Append(sock[t], Head(cur).req) \in Seq(1..MaxReq)
    BY <2>2 DEF TypeOK
  <2>4. sock' \in [Threads -> Seq(1..MaxReq)] /\ cur' \in Seq(Messages)
    BY <1>5, <2>3, ShortSeqs DEF ServerSend, TypeOK
  <2>5. UNCHANGED <<up, srvq, handled, runs, client, stale, crashes>>
    BY <1>5 DEF ServerSend
  <2>. QED  BY <2>4, <2>5 DEF OpenJobs, TypeOK
<1>6. CASE ServerCrash
  <2>1. srvCrash' \in 0..MaxSrvCrash
    BY <1>6, MsgAssumption DEF ServerCrash, TypeOK
  <2>2. UNCHANGED <<handled, runs, client, sock, stale, cliCrash>>
    BY <1>6 DEF ServerCrash
  <2>3. up' \in BOOLEAN /\ srvq' \in Seq(Messages) /\ cur' \in Seq(Messages)
    BY <1>6, ShortSeqs DEF ServerCrash
  <2>. QED  BY <2>1, <2>2, <2>3 DEF OpenJobs, TypeOK
<1>7. CASE ServerInit
  BY <1>7 DEF ServerInit, OpenJobs, TypeOK
<1>8. CASE ClientCrash
  <2>1. \A t \in Threads : pc[t] # "idle" => <<t, job[t].idx>> \in Addresses
    BY DEF OpenJobs, Addresses, TypeOK, Jobs
  <2>2. stale' \subseteq Addresses
    BY <1>8, <2>1 DEF ClientCrash, TypeOK
  <2>. QED  BY <1>8, <2>2, NullTypes, MsgAssumption DEF ClientCrash, OpenJobs, TypeOK
<1>. QED  BY <1>1, <1>2, <1>3, <1>4, <1>5, <1>6, <1>7, <1>8 DEF Next

(* The state of the messaging layer stays within its types, whatever the   *)
(* bounds: _zcfg_msg_req_idx wraps within 1..0xFFFF, and every datagram    *)
(* comes from an address the server can answer to.                         *)
THEOREM MsgTypeCorrect == Spec => []TypeOK
<1>1. Init => TypeOK /\ OpenJobs
  BY InitType
<1>2. TypeOK /\ OpenJobs /\ [Next]_vars => (TypeOK /\ OpenJobs)'
  BY NextType
<1>. QED  BY <1>1, <1>2, PTL DEF Spec
-----------------------------------------------------------------------------
(* While the client process lives and the index has not wrapped, the index *)
(* in an address is the number of the request that was made from it: no    *)
(* two requests share an address.                                          *)
NoReuse == MaxCliCrash = 0 /\ MaxReq <= IdxMod

Numbered ==
  /\ idx = nreq
  /\ stale = {}
  /\ \A t \in Threads : pc[t] # "idle" => job[t].idx = job[t].req
  /\ \A t, u \in Threads :
       t # u /\ pc[t] # "idle" /\ pc[u] # "idle" => job[t].req # job[u].req
  /\ \A i \in 1..Len(srvq) : srvq[i].from[2] = srvq[i].req
  /\ \A i \in 1..Len(cur) : cur[i].from[2] = cur[i].req

(* A request is in at most one place on its way to the server, and once    *)
(* taken up it is never there again.                                       *)
AtMostOnce ==
  /\ \A r \in handled : r <= nreq
  /\ \A i \in 1..Len(srvq) : srvq[i].req <= nreq /\ srvq[i].req \notin handled
  /\ \A i, j \in 1..Len(srvq) : i # j => srvq[i].req # srvq[j].req
  /\ Len(cur) <= 1
  /\ \A i \in 1..Len(cur) : cur[i].req \in handled
  /\ \A t \in Threads : pc[t] = "send" =>
       /\ job[t].req \notin handled
       /\ \A i \in 1..Len(srvq) : srvq[i].req # job[t].req

(* What waits on a thread's socket is the one answer to its request.       *)
Answers ==
  \A t \in Threads :
    /\ Len(sock[t]) <= 1
    /\ sock[t] # <<>> =>
         /\ pc[t] = "recv"
         /\ sock[t][1] = job[t].req
         /\ job[t].req \in handled
         /\ \A i \in 1..Len(cur) : cur[i].req # job[t].req

IInv == TypeOK /\ OpenJobs /\ Numbered /\ AtMostOnce /\ Answers /\ ReplyMatches

(* What is in a queue is a message with its request.                       *)
LEMMA MessageTypes ==
  ASSUME NEW q \in Seq(Messages), NEW i \in 1..Len(q)
  PROVE  q[i] \in Messages /\ q[i].req \in 1..MaxReq
<1>1. q[i] \in Messages
  OBVIOUS
<1>. QED  BY <1>1 DEF Messages

(* The invariant holds when the process starts.                            *)
LEMMA InitInv == Init => IInv
<1>. SUFFICES ASSUME Init PROVE IInv
  OBVIOUS
<1>1. TypeOK /\ OpenJobs
  BY InitType
<1>2. Numbered /\ AtMostOnce
  BY DEF Init, Numbered, AtMostOnce
<1>3. Answers /\ ReplyMatches
  BY DEF Init, Answers, ReplyMatches, NoOutcome, Outcome
<1>. QED  BY <1>1, <1>2, <1>3 DEF IInv

(* What a return changes, thread by thread.                                *)
LEMMA ReturnEffect ==
  ASSUME TypeOK, NEW t \in Threads, NEW code, NEW reply, Return(t, code, reply)
  PROVE  /\ pc'[t] = "idle" /\ job'[t] = NoJob /\ sock'[t] = <<>>
         /\ ret'[t] = Outcome(job[t].req, code, reply)
         /\ \A u \in Threads \ {t} :
              /\ pc'[u] = pc[u] /\ job'[u] = job[u]
              /\ sock'[u] = sock[u] /\ ret'[u] = ret[u]
         /\ UNCHANGED <<idx, nreq, stale>>
BY DEF Return, TypeOK

(* A return that carries no answer, or the caller's own one, keeps the     *)
(* invariant if the server does not move.                                  *)
LEMMA ReturnInv ==
  ASSUME IInv, NEW t \in Threads, NEW code, NEW reply, Return(t, code, reply),
         UNCHANGED server,
         code = "SUCCESS" => reply = job[t].req /\ job[t].req \in handled
  PROVE  Numbered' /\ AtMostOnce' /\ Answers' /\ ReplyMatches'
<1>. USE DEF IInv
<1>1. Numbered'
  BY ReturnEffect DEF Numbered
<1>2. AtMostOnce'
  BY ReturnEffect DEF AtMostOnce
<1>3. Answers'
  BY ReturnEffect DEF Answers
<1>4. ReplyMatches'
  <2>1. /\ ret'[t].code = code /\ ret'[t].reply = reply
        /\ ret'[t].req = job[t].req
    <3>1. ret'[t] = Outcome(job[t].req, code, reply)
      BY ReturnEffect
    <3>. QED  BY <3>1 DEF Outcome
  <2>2. \A u \in Threads \ {t} : ret'[u] = ret[u]
    BY ReturnEffect
  <2>3. handled' = handled
    OBVIOUS
  <2>. QED  BY <2>1, <2>2, <2>3 DEF ReplyMatches
<1>. QED  BY <1>1, <1>2, <1>3, <1>4

(* A new request has an address that nobody else has or had.               *)
LEMMA RequestInv ==
  ASSUME NoReuse, IInv, NEW t \in Threads, NEW k \in Kinds, Request(t, k)
  PROVE  Numbered' /\ AtMostOnce' /\ Answers' /\ ReplyMatches'
<1>. USE DEF IInv
<1>1. NextIdx(idx) = nreq + 1
  <2>1. idx \in Nat /\ idx < IdxMod
    BY MsgAssumption DEF TypeOK, Numbered, NoReuse, Request
  <2>2. idx % IdxMod = idx
    BY <2>1, MsgAssumption
  <2>. QED  BY <2>2 DEF NextIdx, Numbered
<1>2. <<t, NextIdx(idx)>> \notin stale
  BY DEF Numbered
<1>3. /\ pc' = [pc EXCEPT ![t] = "send"]
      /\ job' = [job EXCEPT ![t] = Job(nreq + 1, nreq + 1, k)]
      /\ ret' = [ret EXCEPT ![t] = NoOutcome]
      /\ idx' = nreq + 1 /\ nreq' = nreq + 1
      /\ UNCHANGED <<stale, sock, server>>
  BY <1>1, <1>2 DEF Request, Bind
<1>4. /\ pc[t] = "idle" /\ pc'[t] = "send" /\ ret'[t] = NoOutcome
      /\ job'[t].req = nreq + 1 /\ job'[t].idx = nreq + 1
      /\ \A u \in Threads \ {t} :
           pc'[u] = pc[u] /\ job'[u] = job[u] /\ ret'[u] = ret[u]
  BY <1>3 DEF Job, TypeOK, Request
<1>5. \A u \in Threads : pc[u] # "idle" => job[u].req \in 1..nreq
  BY DEF OpenJobs
<1>6. nreq \in Nat
  BY DEF TypeOK
<1>7. Numbered'
  BY <1>3, <1>4, <1>5, <1>6 DEF Numbered
<1>8. AtMostOnce'
  <2>1. \A i \in 1..Len(srvq) : srvq[i].req \in Nat
    <3>1. srvq \in Seq(Messages)
      BY DEF TypeOK
    <3>2. \A i \in 1..Len(srvq) : srvq[i].req \in 1..MaxReq
      BY <3>1, MessageTypes
    <3>. QED  BY <3>2
  <2>2. handled \subseteq Nat
    BY DEF TypeOK
  <2>. QED  BY <1>3, <1>4, <1>6, <2>1, <2>2 DEF AtMostOnce
<1>9. Answers'
  BY <1>3, <1>4 DEF Answers
<1>10. ReplyMatches'
  BY <1>3, <1>4 DEF ReplyMatches, NoOutcome, Outcome
<1>. QED  BY <1>7, <1>8, <1>9, <1>10

(* A request that sendto has taken is in one place.                        *)
LEMMA SendOkInv ==
  ASSUME IInv, NEW t \in Threads, SendOk(t)
  PROVE  Numbered' /\ AtMostOnce' /\ Answers' /\ ReplyMatches'
<1>. USE DEF IInv
<1>. DEFINE n == Len(srvq)
<1>1. srvq \in Seq(Messages) /\ n \in Nat
  BY DEF TypeOK
<1>2. /\ Len(srvq') = n + 1
      /\ srvq'[n + 1] = Msg(t)
      /\ \A i \in 1..n : srvq'[i] = srvq[i]
  BY <1>1 DEF SendOk
<1>3. /\ Msg(t).req = job[t].req
      /\ Msg(t).from[2] = job[t].idx
  BY DEF Msg
<1>4. /\ pc[t] = "send" /\ pc'[t] \in {"idle", "recv"}
      /\ \A u \in Threads \ {t} :
           /\ pc'[u] = pc[u] /\ job'[u] = job[u]
           /\ sock'[u] = sock[u] /\ ret'[u] = ret[u]
      /\ UNCHANGED <<idx, nreq, stale, cur, handled, runs>>
  BY ReturnEffect DEF SendOk, TypeOK
<1>5. pc'[t] = "recv" => job'[t] = job[t]
  BY ReturnEffect DEF SendOk, TypeOK
<1>6. sock[t] = <<>> /\ sock'[t] = <<>>
  <2>1. sock[t] = <<>>
    BY <1>4 DEF Answers
  <2>. QED  BY <2>1, ReturnEffect DEF SendOk
<1>7. ret'[t].code = "SUCCESS" => ret'[t] = ret[t]
  <2>1. CASE job[t].kind = "nowait"
    <3>1. ret'[t] = Outcome(job[t].req, "SUCCESS_AND_NO_REPLY", 0)
      BY <2>1, ReturnEffect DEF SendOk
    <3>. QED  BY <3>1 DEF Outcome
  <2>2. CASE job[t].kind # "nowait"
    BY <2>2 DEF SendOk
  <2>. QED  BY <2>1, <2>2
<1>8. job[t].req \in 1..nreq /\ nreq \in Nat
  BY <1>4 DEF OpenJobs, TypeOK
<1>9. \A i \in 1..Len(srvq') : i \in 1..n \/ i = n + 1
  BY <1>1, <1>2
<1>10. Numbered'
  BY <1>2, <1>3, <1>4, <1>5, <1>9 DEF Numbered
<1>11. AtMostOnce'
  <2>1. \A i \in 1..Len(srvq') : srvq'[i].req <= nreq /\ srvq'[i].req \notin handled
    BY <1>2, <1>3, <1>4, <1>8, <1>9 DEF AtMostOnce
  <2>2. \A i, j \in 1..Len(srvq') : i # j => srvq'[i].req # srvq'[j].req
    BY <1>2, <1>3, <1>4, <1>9 DEF AtMostOnce
  <2>3. \A u \in Threads : pc'[u] = "send" =>
          /\ job'[u].req \notin handled
          /\ \A i \in 1..Len(srvq') : srvq'[i].req # job'[u].req
    <3>1. SUFFICES ASSUME NEW u \in Threads, pc'[u] = "send"
                   PROVE  /\ job'[u].req \notin handled
                          /\ \A i \in 1..Len(srvq') : srvq'[i].req # job'[u].req
      OBVIOUS
    <3>2. u # t /\ pc[u] = "send" /\ job'[u] = job[u]
      BY <1>4, <3>1
    <3>3. job[u].req # job[t].req
      BY <1>4, <3>2 DEF Numbered
    <3>. QED  BY <1>2, <1>3, <1>9, <3>2, <3>3 DEF AtMostOnce
  <2>. QED  BY <1>4, <2>1, <2>2, <2>3 DEF AtMostOnce
<1>12. Answers'
  BY <1>4, <1>6 DEF Answers
<1>13. ReplyMatches'
  BY <1>4, <1>7 DEF ReplyMatches
<1>. QED  BY <1>10, <1>11, <1>12, <1>13

(* The server takes a request out of its queue.                            *)
LEMMA ServerRecvInv ==
  ASSUME IInv, ServerRecv
  PROVE  Numbered' /\ AtMostOnce' /\ Answers' /\ ReplyMatches'
<1>. USE DEF IInv
<1>1. /\ srvq \in Seq(Messages) /\ srvq # <<>>
      /\ Len(srvq) \in Nat \ {0}
      /\ cur = <<>>
  BY DEF ServerRecv, TypeOK
<1>2. /\ Len(srvq') = Len(srvq) - 1
      /\ \A i \in 1..Len(srvq') : srvq'[i] = srvq[i + 1] /\ i + 1 \in 1..Len(srvq)
  BY <1>1 DEF ServerRecv
<1>3. Len(cur') = 1 /\ cur'[1] = srvq[1] /\ handled' = handled \cup {srvq[1].req}
  BY <1>1 DEF ServerRecv
<1>4. UNCHANGED <<idx, pc, job, nreq, ret, sock, stale>>
  BY DEF ServerRecv
<1>5. 1 \in 1..Len(srvq) /\ \A i \in 1..Len(srvq') : i + 1 # 1
  BY <1>1, <1>2
<1>6. Numbered'
  BY <1>2, <1>3, <1>4, <1>5 DEF Numbered
<1>7. AtMostOnce'
  <2>1. \A i \in 1..Len(srvq') : srvq'[i].req <= nreq /\ srvq'[i].req \notin handled'
    BY <1>2, <1>3, <1>5 DEF AtMostOnce
  <2>2. \A i, j \in 1..Len(srvq') : i # j => srvq'[i].req # srvq'[j].req
    BY <1>2 DEF AtMostOnce
  <2>3. \A t \in Threads : pc[t] = "send" =>
          /\ job[t].req \notin handled'
          /\ \A i \in 1..Len(srvq') : srvq'[i].req # job[t].req
    BY <1>2, <1>3, <1>5 DEF AtMostOnce
  <2>4. \A r \in handled' : r <= nreq
    BY <1>3, <1>5 DEF AtMostOnce
  <2>. QED  BY <1>3, <1>4, <2>1, <2>2, <2>3, <2>4 DEF AtMostOnce
<1>8. Answers'
  <2>1. \A t \in Threads : sock[t] # <<>> => srvq[1].req # job[t].req
    BY <1>5 DEF Answers, AtMostOnce
  <2>. QED  BY <1>3, <1>4, <2>1 DEF Answers
<1>9. ReplyMatches'
  BY <1>3, <1>4 DEF ReplyMatches
<1>. QED  BY <1>6, <1>7, <1>8, <1>9

(* The server answers, to a socket that is still that of the request or    *)
(* is gone.                                                                *)
LEMMA ServerSendInv ==
  ASSUME IInv, ServerSend
  PROVE  Numbered' /\ AtMostOnce' /\ Answers' /\ ReplyMatches'
<1>. USE DEF IInv
<1>1. cur \in Seq(Messages) /\ cur # <<>> /\ 1 \in 1..Len(cur) /\ Head(cur) = cur[1]
  BY DEF ServerSend, TypeOK
<1>2. cur' = <<>> /\ UNCHANGED <<up, srvq, handled, runs, client, stale>>
  BY DEF ServerSend
<1>3. Numbered' /\ AtMostOnce' /\ ReplyMatches'
  BY <1>2 DEF Numbered, AtMostOnce, ReplyMatches
<1>4. ASSUME NEW t \in Threads
      PROVE  \/ sock'[t] = sock[t]
             \/ /\ sock'[t] = Append(sock[t], cur[1].req)
                /\ pc[t] # "idle" /\ cur[1].from = <<t, job[t].idx>>
  BY <1>1 DEF ServerSend, Listening
<1>5. ASSUME NEW t \in Threads, sock'[t] # sock[t]
      PROVE  /\ sock'[t] = <<cur[1].req>> /\ pc[t] = "recv"
             /\ cur[1].req = job[t].req /\ job[t].req \in handled
  <2>1. /\ sock'[t] = Append(sock[t], cur[1].req)
        /\ pc[t] # "idle" /\ cur[1].from = <<t, job[t].idx>>
    BY <1>4, <1>5
  <2>2. cur[1].req = job[t].req
    BY <1>1, <2>1 DEF Numbered
  <2>3. job[t].req \in handled
    BY <1>1, <2>2 DEF AtMostOnce
  <2>4. pc[t] = "recv"
    BY <2>1, <2>3 DEF AtMostOnce, TypeOK
  <2>5. sock[t] = <<>>
    BY <1>1, <2>2 DEF Answers
  <2>. QED  BY <2>1, <2>2, <2>3, <2>4, <2>5
<1>6. Answers'
  <2>. SUFFICES ASSUME NEW t \in Threads
                PROVE  /\ Len(sock'[t]) <= 1
                       /\ sock'[t] # <<>> =>
                            /\ pc[t] = "recv"
                            /\ sock'[t][1] = job[t].req
                            /\ job[t].req \in handled
    BY <1>2 DEF Answers
  <2>1. CASE sock'[t] = sock[t]
    BY <2>1 DEF Answers
  <2>2. CASE sock'[t] # sock[t]
    <3>1. /\ sock'[t] = <<cur[1].req>> /\ pc[t] = "recv"
          /\ cur[1].req = job[t].req /\ job[t].req \in handled
      BY <1>5, <2>2
    <3>2. Len(<<cur[1].req>>) = 1 /\ <<cur[1].req>>[1] = cur[1].req
      OBVIOUS
    <3>. QED  BY <3>1, <3>2
  <2>. QED  BY <2>1, <2>2
<1>. QED  BY <1>3, <1>6

(* Every step keeps the invariant while addresses are not reused.          *)
LEMMA NextInv == NoReuse /\ IInv /\ [Next]_vars => IInv'
<1>. SUFFICES ASSUME NoReuse, IInv, [Next]_vars
              PROVE  Numbered' /\ AtMostOnce' /\ Answers' /\ ReplyMatches'
  BY NextType DEF IInv
<1>1. CASE UNCHANGED vars
  BY <1>1 DEF vars, IInv, Numbered, AtMostOnce, Answers, ReplyMatches
<1>2. ASSUME NEW t \in Threads, NEW k \in Kinds, Request(t, k)
      PROVE  Numbered' /\ AtMostOnce' /\ Answers' /\ ReplyMatches'
  BY <1>2, RequestInv
<1>3. ASSUME NEW t \in Threads, ThreadStep(t) \/ RecvTimeout(t) \/ RecvError(t)
      PROVE  Numbered' /\ AtMostOnce' /\ Answers' /\ ReplyMatches'
  <2>1. CASE SendOk(t)
    BY <2>1, SendOkInv
  <2>2. CASE SendAgain(t)
    <3>1. job' = [job EXCEPT ![t] = [job[t] EXCEPT !.tries = job[t].tries + 1]]
      BY <2>2 DEF SendAgain, IInv, TypeOK
    <3>2. \A u \in Threads : job'[u].req = job[u].req /\ job'[u].idx = job[u].idx
      BY <3>1 DEF IInv, TypeOK, Jobs
    <3>3. UNCHANGED <<idx, pc, nreq, ret, sock, stale, server>>
      BY <2>2 DEF SendAgain
    <3>. QED  BY <3>2, <3>3 DEF IInv, Numbered, AtMostOnce, Answers, ReplyMatches
  <2>3. CASE SendGiveUp(t) \/ SendFail(t) \/ RecvTimeout(t) \/ RecvError(t)
    <3>1. PICK code \in Codes \ {"SUCCESS"} : Return(t, code, 0) /\ UNCHANGED server
      BY <2>3 DEF SendGiveUp, SendFail, RecvTimeout, RecvError, Codes
    <3>. QED  BY <3>1, ReturnInv
  <2>4. CASE RecvOk(t)
    <3>1. Head(sock[t]) = job[t].req /\ job[t].req \in handled
      BY <2>4 DEF RecvOk, IInv, Answers, TypeOK
    <3>. QED  BY <2>4, <3>1, ReturnInv DEF RecvOk
  <2>. QED  BY <1>3, <2>1, <2>2, <2>3, <2>4 DEF ThreadStep
<1>4. CASE ServerRecv
  BY <1>4, ServerRecvInv
<1>5. CASE ServerSend
  BY <1>5, ServerSendInv
<1>6. CASE ServerCrash
  <2>1. srvq' = <<>> /\ cur' = <<>> /\ UNCHANGED <<handled, runs, client, sock, stale>>
    BY <1>6 DEF ServerCrash
  <2>. QED  BY <2>1 DEF IInv, Numbered, AtMostOnce, Answers, ReplyMatches
<1>7. CASE ServerInit
  BY <1>7 DEF ServerInit, IInv, Numbered, AtMostOnce, Answers, ReplyMatches
<1>8. ~ClientCrash
  BY MsgAssumption DEF ClientCrash, NoReuse, IInv, TypeOK
<1>. QED  BY <1>1, <1>2, <1>3, <1>4, <1>5, <1>6, <1>7, <1>8 DEF Next

(* For any number of threads, however the calls time out, are cut short by *)
(* signals or lose the server: while the client process lives and has made *)
(* no more than IdxMod requests, a call of zcfg_msg_sendAndGetReply that   *)
(* succeeds returns the answer to its own request.                         *)
THEOREM RepliesMatch == NoReuse => (Spec => []ReplyMatches)
<1>. SUFFICES ASSUME NoReuse PROVE Spec => []ReplyMatches
  OBVIOUS
<1>1. Init => IInv
  BY InitInv
<1>2. IInv /\ [Next]_vars => IInv'
  BY NextInv
<1>3. IInv => ReplyMatches
  BY DEF IInv
<1>. QED  BY <1>1, <1>2, <1>3, PTL DEF Spec

(* Under the same conditions the server never finds a caller's socket      *)
(* full, so it never sleeps in _msg_send and never drops an answer.        *)
THEOREM OneReply == NoReuse => (Spec => []OneReplyQueued)
<1>. SUFFICES ASSUME NoReuse PROVE Spec => []OneReplyQueued
  OBVIOUS
<1>1. Init => IInv
  BY InitInv
<1>2. IInv /\ [Next]_vars => IInv'
  BY NextInv
<1>3. IInv => OneReplyQueued
  BY DEF IInv, Answers, OneReplyQueued
<1>. QED  BY <1>1, <1>2, <1>3, PTL DEF Spec
-----------------------------------------------------------------------------
(* Requests that want no reply                                             *)

(* NoSilentLoss, with the place in the queue made explicit.                *)
Sent(r) == \/ r \in handled
           \/ \E i \in 1..Len(srvq) : srvq[i].req = r
           \/ srvCrash > 0

(* What the caller was told stays true, whatever happens to the queue.     *)
LEMMA SentStays ==
  ASSUME TypeOK, [Next]_vars, NEW r, Sent(r)
  PROVE  Sent(r)'
<1>0. srvq \in Seq(Messages) /\ srvCrash \in Nat /\ Len(srvq) \in Nat
  BY MsgAssumption DEF TypeOK
<1>1. CASE srvq' = srvq /\ handled' = handled /\ srvCrash' = srvCrash
  BY <1>1 DEF Sent
<1>2. ASSUME NEW t \in Threads, SendOk(t) PROVE Sent(r)'
  <2>1. /\ srvq' = Append(srvq, Msg(t)) /\ handled' = handled /\ srvCrash' = srvCrash
    BY <1>2 DEF SendOk, Return
  <2>2. /\ Len(srvq') = Len(srvq) + 1
        /\ \A i \in 1..Len(srvq) : srvq'[i] = srvq[i]
    BY <1>0, <2>1
  <2>3. \A i \in 1..Len(srvq) : i \in 1..Len(srvq')
    BY <1>0, <2>2
  <2>. QED  BY <2>1, <2>2, <2>3 DEF Sent
<1>3. CASE ServerRecv
  <2>1. /\ srvq # <<>> /\ srvq' = Tail(srvq) /\ srvCrash' = srvCrash
        /\ handled' = handled \cup {Head(srvq).req}
    BY <1>3 DEF ServerRecv
  <2>2. ASSUME NEW i \in 1..Len(srvq), srvq[i].req = r PROVE Sent(r)'
    <3>1. CASE i = 1
      <4>1. Head(srvq) = srvq[1]
        BY <1>0, <2>1
      <4>. QED  BY <2>1, <2>2, <3>1, <4>1 DEF Sent
    <3>2. CASE i # 1
      <4>1. i - 1 \in 1..Len(srvq') /\ srvq'[i - 1] = srvq[i]
        BY <1>0, <2>1, <3>2
      <4>. QED  BY <2>2, <4>1 DEF Sent
    <3>. QED  BY <3>1, <3>2
  <2>. QED  BY <2>1, <2>2 DEF Sent
<1>4. CASE ServerCrash
  <2>1. srvCrash' = srvCrash + 1
    BY <1>4 DEF ServerCrash
  <2>. QED  BY <1>0, <2>1 DEF Sent
<1>. QED  BY <1>1, <1>2, <1>3, <1>4
          DEF Next, vars, Request, ThreadStep, SendAgain, SendGiveUp, SendFail, RecvOk,
              RecvTimeout, RecvError, Return, ServerSend, ServerInit, ClientCrash

(* The answer changes only in the calling thread, and says so only when    *)
(* the request is in the queue.                                            *)
LEMMA ToldMeansSent ==
  ASSUME TypeOK, [Next]_vars, NEW t \in Threads,
         ret'[t].code = "SUCCESS_AND_NO_REPLY", ret'[t] # ret[t],
         NEW r, r = ret'[t].req
  PROVE  Sent(r)'
<1>1. NoOutcome.code # "SUCCESS_AND_NO_REPLY"
      /\ \A n, c, x : Outcome(n, c, x).code = c /\ Outcome(n, c, x).req = n
  BY DEF NoOutcome, Outcome
<1>2. ASSUME NEW u \in Threads, NEW k \in Kinds, Request(u, k) PROVE FALSE
  BY <1>1, <1>2 DEF Request, Bind, TypeOK
<1>3. ASSUME NEW u \in Threads, NEW code, NEW x, Return(u, code, x)
      PROVE  u = t /\ code = "SUCCESS_AND_NO_REPLY" /\ r = job[t].req
  BY <1>1, <1>3, ReturnEffect
<1>4. ASSUME NEW u \in Threads,
             SendGiveUp(u) \/ SendFail(u) \/ RecvOk(u) \/ RecvTimeout(u) \/ RecvError(u)
      PROVE  FALSE
  BY <1>3, <1>4 DEF SendGiveUp, SendFail, RecvOk, RecvTimeout, RecvError
<1>5. ASSUME NEW u \in Threads, SendOk(u) PROVE Sent(r)'
  <2>1. CASE job[u].kind = "nowait"
    <3>1. u = t /\ r = job[t].req /\ srvq' = Append(srvq, Msg(u))
      BY <1>3, <1>5, <2>1 DEF SendOk
    <3>2. /\ Len(srvq') \in 1..Len(srvq') /\ srvq'[Len(srvq')] = Msg(u)
          /\ Msg(u).req = job[u].req
      BY <3>1 DEF TypeOK, Msg
    <3>. QED  BY <3>1, <3>2 DEF Sent
  <2>2. CASE job[u].kind # "nowait"
    BY <1>5, <2>2 DEF SendOk
  <2>. QED  BY <2>1, <2>2
<1>6. ~ClientCrash
  BY <1>1 DEF ClientCrash
<1>. QED  BY <1>2, <1>4, <1>5, <1>6
          DEF Next, vars, ThreadStep, SendAgain, ServerRecv, ServerSend, ServerCrash, ServerInit

(* For queues of any length and any number of tries, wrapped index and     *)
(* client crashes included: a caller that was told                         *)
(* ZCFG_SUCCESS_AND_NO_REPLY has its request in the server's queue or      *)
(* taken up by the server, unless the server has died.                     *)
THEOREM ToldRequestsArrive == Spec => []NoSilentLoss
<1>1. Init => TypeOK /\ OpenJobs /\ NoSilentLoss
  BY InitType DEF Init, NoSilentLoss, NoOutcome, Outcome
<1>2. TypeOK /\ OpenJobs /\ NoSilentLoss /\ [Next]_vars => (TypeOK /\ OpenJobs /\ NoSilentLoss)'
  <2>. SUFFICES ASSUME TypeOK, NoSilentLoss, [Next]_vars, NEW t \in Threads,
                       ret'[t].code = "SUCCESS_AND_NO_REPLY",
                       NEW r, r = ret'[t].req
                PROVE  Sent(r)'
    BY NextType DEF NoSilentLoss, Sent
  <2>1. CASE ret'[t] = ret[t]
    <3>1. Sent(r)
      BY <2>1 DEF NoSilentLoss, Sent
    <3>. QED  BY <3>1, SentStays
  <2>2. CASE ret'[t] # ret[t]
    BY <2>2, ToldMeansSent
  <2>. QED  BY <2>1, <2>2
<1>. QED  BY <1>1, <1>2, PTL DEF Spec
-----------------------------------------------------------------------------
(* Refinement *)

(* A thread is waiting on a request in the abstract call exactly while it  *)
(* is in zcfg_msg_sendAndGetReply.                                         *)
callBar == [t \in Threads |-> job[t].req]

(* The initial state is one of ZcfgRpc.                                    *)
LEMMA InitRefines == Init => Rpc!RpcInit
BY DEF Init, Rpc!RpcInit, NoJob, Job, NoOutcome, Outcome,
       Rpc!NoOutcome, Rpc!Outcome

(* A call that returns is a call of ZcfgRpc that returns.                  *)
LEMMA ReturnRefines ==
  ASSUME IInv, NEW t \in Threads, NEW code, NEW reply, Return(t, code, reply)
  PROVE  /\ callBar' = [callBar EXCEPT ![t] = 0]
         /\ ret' = [ret EXCEPT ![t] = Rpc!Outcome(callBar[t], code, reply)]
         /\ nreq' = nreq
<1>1. \A u \in Threads : u # t => job'[u] = job[u]
  BY ReturnEffect DEF IInv
<1>2. job'[t].req = 0
  BY ReturnEffect DEF IInv, NoJob, Job
<1>3. callBar' = [callBar EXCEPT ![t] = 0]
  BY <1>1, <1>2 DEF callBar
<1>4. ret' = [ret EXCEPT ![t] = Rpc!Outcome(callBar[t], code, reply)]
  BY DEF Return, Outcome, Rpc!Outcome, callBar
<1>. QED  BY <1>3, <1>4 DEF Return

(* Every step is a step of ZcfgRpc, or one that it does not see.           *)
LEMMA NextRefines ==
  NoReuse /\ IInv /\ [Next]_vars => [Rpc!RpcNext]_(Rpc!rpcVars)
<1>. SUFFICES ASSUME NoReuse, IInv, [Next]_vars
              PROVE  Rpc!RpcNext \/ UNCHANGED <<nreq, callBar, handled, runs, ret>>
  BY DEF Rpc!rpcVars, callBar
<1>1. CASE UNCHANGED vars
  BY <1>1 DEF vars, callBar
<1>2. ASSUME NEW t \in Threads, NEW k \in Kinds, Request(t, k)
      PROVE  Rpc!RpcNext
  <2>1. <<t, NextIdx(idx)>> \notin stale
    BY DEF IInv, Numbered
  <2>2. /\ job' = [job EXCEPT ![t] = Job(nreq + 1, NextIdx(idx), k)]
        /\ ret' = [ret EXCEPT ![t] = NoOutcome]
        /\ handled' = handled /\ runs' = runs /\ nreq' = nreq + 1 /\ nreq < MaxReq
    BY <1>2, <2>1 DEF Request, Bind
  <2>3. callBar[t] = 0
    BY <1>2 DEF Request, IInv, OpenJobs, callBar, NoJob, Job
  <2>4. callBar' = [callBar EXCEPT ![t] = nreq + 1]
    BY <2>2 DEF callBar, IInv, TypeOK, Job
  <2>5. Rpc!Call(t)
    BY <2>2, <2>3, <2>4 DEF Rpc!Call, callBar, NoOutcome, Outcome,
       Rpc!NoOutcome, Rpc!Outcome
  <2>. QED  BY <2>5 DEF Rpc!RpcNext
<1>3. ASSUME NEW t \in Threads, NEW code \in Rpc!Failures,
             Return(t, code, 0), handled' = handled, runs' = runs, pc[t] # "idle"
      PROVE  Rpc!RpcNext
  <2>1. callBar[t] # 0
    BY <1>3 DEF IInv, OpenJobs, callBar
  <2>2. Rpc!ReturnOther(t, code)
    BY <1>3, <2>1, ReturnRefines DEF Rpc!ReturnOther, callBar
  <2>. QED  BY <2>2 DEF Rpc!RpcNext
<1>4. ASSUME NEW t \in Threads, ThreadStep(t) \/ RecvTimeout(t) \/ RecvError(t)
      PROVE  Rpc!RpcNext \/ UNCHANGED <<nreq, callBar, handled, runs, ret>>
  <2>1. CASE SendOk(t) /\ job[t].kind = "nowait"
    BY <1>3, <2>1 DEF SendOk, Rpc!Failures
  <2>2. CASE SendOk(t) /\ job[t].kind # "nowait"
    BY <2>2 DEF SendOk, callBar
  <2>3. CASE SendAgain(t)
    <3>1. \A u \in Threads : job'[u].req = job[u].req
      BY <2>3 DEF SendAgain, IInv, TypeOK, Jobs
    <3>. QED  BY <2>3, <3>1 DEF SendAgain, callBar
  <2>4. CASE SendGiveUp(t) \/ SendFail(t)
    BY <1>3, <2>4 DEF SendGiveUp, SendFail, Rpc!Failures
  <2>5. CASE RecvTimeout(t) \/ RecvError(t)
    BY <1>3, <2>5 DEF RecvTimeout, RecvError, Rpc!Failures
  <2>6. CASE RecvOk(t)
    <3>1. Head(sock[t]) = job[t].req /\ job[t].req \in handled
      BY <2>6 DEF RecvOk, IInv, Answers, TypeOK
    <3>2. Return(t, "SUCCESS", callBar[t]) /\ handled' = handled /\ runs' = runs
      BY <2>6, <3>1 DEF RecvOk, callBar
    <3>3. Rpc!ReturnReply(t)
      BY <3>1, <3>2, ReturnRefines DEF Rpc!ReturnReply, callBar
    <3>. QED  BY <3>3 DEF Rpc!RpcNext
  <2>. QED  BY <1>4, <2>1, <2>2, <2>3, <2>4, <2>5, <2>6 DEF ThreadStep
<1>5. CASE ServerRecv
  <2>1. srvq \in Seq(Messages) /\ 1 \in 1..Len(srvq) /\ Head(srvq) = srvq[1]
    BY <1>5 DEF ServerRecv, IInv, TypeOK
  <2>2. srvq[1].req \in 1..nreq /\ srvq[1].req \notin handled
    <3>1. srvq[1].req \in 1..MaxReq
      BY <2>1, MessageTypes
    <3>. QED  BY <2>1, <3>1 DEF IInv, AtMostOnce, TypeOK
  <2>3. Rpc!Handle(srvq[1].req)
    BY <1>5, <2>1, <2>2 DEF ServerRecv, Rpc!Handle
  <2>. QED  BY <2>2, <2>3 DEF Rpc!RpcNext
<1>6. CASE ServerSend \/ ServerCrash \/ ServerInit
  BY <1>6 DEF ServerSend, ServerCrash, ServerInit, callBar
<1>7. ~ClientCrash
  BY MsgAssumption DEF ClientCrash, NoReuse, IInv, TypeOK
<1>. QED  BY <1>1, <1>2, <1>4, <1>5, <1>6, <1>7 DEF Next

(* zcfg_msg_sendAndGetReply implements the abstract remote call while      *)
(* addresses are not reused: no request is carried out twice, whatever the *)
(* sender retries, and success means the caller's own answer.              *)
THEOREM ImplementsRpc == NoReuse => (Spec => RpcSpec)
<1>. SUFFICES ASSUME NoReuse PROVE Spec => RpcSpec
  OBVIOUS
<1>1. Init => IInv
  BY InitInv
<1>2. IInv /\ [Next]_vars => IInv'
  BY NextInv
<1>3. Init => Rpc!RpcInit
  BY InitRefines
<1>4. IInv /\ [Next]_vars => [Rpc!RpcNext]_(Rpc!rpcVars)
  BY NextRefines
<1>. QED  BY <1>1, <1>2, <1>3, <1>4, PTL DEF Spec, RpcSpec, Rpc!RpcSpec
=============================================================================
