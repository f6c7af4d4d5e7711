------------------------ MODULE TelegramSend_proofs ------------------------
(***************************************************************************)
(* Proofs about TelegramSend, for any number of calls and chats, any limit *)
(* of the global limiter and any number of retries.  SendInv adds to the   *)
(* properties what each stage of a call implies: its attempts, and that    *)
(* whatever has left its chat's limiter has no predecessor left there.     *)
(***************************************************************************)
EXTENDS TelegramSend, SequenceTheorems, TLAPS

CallOK(call) ==
    /\ call.pc \in {"new", "chat", "global"} => call.attempt = 0
    /\ call.pc = "post" => call.attempt \in 1..MaxRetries + 1
    /\ call.pc = "sleep" => call.attempt \in 1..MaxRetries
    /\ call.attempt <= MaxRetries + 1
    /\ call.pc # "done" => call.result = None
    /\ call.result = "refused" => call.attempt = 0

Ahead(call) == call.pc \in {"global", "post", "sleep"} \/ call.attempt > 0

SendInv ==
    /\ TypeOK
    /\ \A s \in Sends : CallOK(send[s])
    /\ \A i \in DOMAIN order : send[order[i]].pc # "new"
    /\ pool = "up" => \A s \in Sends : ~send[s].late
    /\ \A i, k \in DOMAIN order :
         (k < i /\ ChatOf[order[k]] = ChatOf[order[i]] /\ Ahead(send[order[i]]))
             => send[order[k]].pc = "done"

(* A step that changes one running call keeps the invariant, if it takes    *)
(* the call out of its chat's limiter only in its turn.                     *)
LEMMA OneCall ==
    ASSUME SendInv, NEW s \in Sends, NEW r \in Calls,
           send' = [send EXCEPT ![s] = r],
           send[s].pc \notin {"new", "done"}, r.pc # "new", CallOK(r), r.late = send[s].late,
           Ahead(r) => Ahead(send[s]) \/ (Turn(s) /\ pool = "up"),
           queue' \in Seq(Sends), Distinct(queue'),
           \A i \in DOMAIN queue' : send'[queue'[i]].pc = "global",
           UNCHANGED <<order, limiter, pool>>
    PROVE  SendInv'
  <1>1. /\ send \in [Sends -> Calls] /\ send' \in [Sends -> Calls] /\ order \in Seq(Sends)
        /\ \A i \in DOMAIN order : order[i] \in Sends
        /\ send'[s] = r /\ \A t \in Sends : t # s => send'[t] = send[t]
    BY DEF SendInv, TypeOK
  <1>2. \E i \in DOMAIN order : order[i] = s
    <2>1. send[s] \in Calls
      BY <1>1
    <2>2. send[s].pc \in {"chat", "global", "post", "sleep"}
      BY <2>1 DEF Calls
    <2> QED BY <2>2 DEF SendInv, TypeOK
  <1>3. TypeOK'
    BY <1>1, <1>2 DEF SendInv, TypeOK, Distinct
  <1>4. \A t \in Sends : CallOK(send'[t])
    BY <1>1 DEF SendInv
  <1>5. \A i \in DOMAIN order : send'[order[i]].pc # "new"
    BY <1>1 DEF SendInv
  <1>6. pool = "up" => \A t \in Sends : ~send'[t].late
    BY <1>1 DEF SendInv
  <1>7. ASSUME NEW i \in DOMAIN order, NEW k \in DOMAIN order, k < i,
               ChatOf[order[k]] = ChatOf[order[i]], Ahead(send'[order[i]])
        PROVE  send'[order[k]].pc = "done"
    <2>1. send[order[k]].pc = "done"
      <3>1. CASE order[i] # s
        BY <1>1, <1>7, <3>1 DEF SendInv
      <3>2. CASE order[i] = s /\ Ahead(send[s])
        BY <1>1, <1>7, <3>2 DEF SendInv
      <3>3. CASE order[i] = s /\ Turn(s) /\ pool = "up"
        <4>1. send[order[k]].late = send[s].late
          BY <1>1, <3>3 DEF SendInv, Calls
        <4> QED BY <1>7, <3>3, <4>1 DEF Turn
      <3> QED BY <1>1, <1>7, <3>1, <3>2, <3>3
    <2> QED BY <1>1, <2>1
  <1> QED BY <1>3, <1>4, <1>5, <1>6, <1>7 DEF SendInv

LEMMA UnpostedOK ==
    ASSUME NEW c, c.pc = "chat", c.attempt = 0, c.result = None
    PROVE  CallOK(c) /\ ~Ahead(c)
  BY TelegramAssumption DEF CallOK, Ahead

LEMMA PostingOK ==
    ASSUME NEW c, c.pc = "post", c.attempt \in 1..MaxRetries + 1, c.result = None
    PROVE  CallOK(c)
  BY TelegramAssumption DEF CallOK

LEMMA TailQueue ==
    ASSUME NEW q \in Seq(Sends), q # <<>>, Distinct(q)
    PROVE  /\ Tail(q) \in Seq(Sends) /\ Distinct(Tail(q))
           /\ Head(q) \in Sends
           /\ \A i \in DOMAIN Tail(q) : i + 1 \in DOMAIN q /\ Tail(q)[i] = q[i + 1]
                                        /\ Tail(q)[i] # Head(q)
  <1>1. /\ Len(q) \in Nat \ {0} /\ Head(q) = q[1] /\ Tail(q) \in Seq(Sends)
        /\ Len(Tail(q)) = Len(q) - 1
        /\ \A i \in 1..Len(q) - 1 : Tail(q)[i] = q[i + 1]
    BY EmptySeq, HeadTailProperties
  <1> QED BY <1>1 DEF Distinct

LEMMA AppendDistinct ==
    ASSUME NEW q \in Seq(Sends), Distinct(q), NEW s \in Sends,
           \A i \in DOMAIN q : q[i] # s
    PROVE  /\ Append(q, s) \in Seq(Sends) /\ Distinct(Append(q, s))
           /\ DOMAIN Append(q, s) = 1..Len(q) + 1 /\ DOMAIN q = 1..Len(q) /\ Len(q) \in Nat
           /\ Append(q, s)[Len(q) + 1] = s
           /\ \A i \in DOMAIN q : Append(q, s)[i] = q[i]
  <1>1. /\ Append(q, s) \in Seq(Sends) /\ Len(Append(q, s)) = Len(q) + 1
        /\ Append(q, s)[Len(q) + 1] = s /\ Len(q) \in Nat
        /\ \A i \in 1..Len(q) : Append(q, s)[i] = q[i]
    BY AppendProperties
  <1> QED BY <1>1 DEF Distinct

(* Every step of Next.                                                      *)
LEMMA SendStep == SendInv /\ [Next]_vars => SendInv'
  <1> SUFFICES ASSUME SendInv, [Next]_vars PROVE SendInv'
    OBVIOUS
  <1>0. /\ MaxRetries \in Nat /\ None # "refused" /\ send \in [Sends -> Calls]
        /\ order \in Seq(Sends) /\ queue \in Seq(Sends)
        /\ \A i \in DOMAIN order : order[i] \in Sends
        /\ \A t \in Sends : /\ CallOK(send[t]) /\ send[t].attempt \in Nat
                            /\ send[t].late \in BOOLEAN
    BY TelegramAssumption DEF SendInv, TypeOK, Calls
  <1>1. ASSUME NEW s \in Sends, NEW valid \in BOOLEAN, Call(s, valid)
        PROVE  SendInv'
    <2>1. /\ send[s].pc = "new" /\ send[s].attempt = 0 /\ UNCHANGED <<queue, pool>>
          /\ \A i \in DOMAIN order : order[i] # s
          /\ \A i \in DOMAIN queue : queue[i] # s
      BY <1>0, <1>1 DEF Call, SendInv, TypeOK, CallOK
    <2>2. ASSUME NEW res \in {"refused", "invalid"}, Settle(s, res), UNCHANGED <<order, limiter>>
          PROVE  SendInv'
      <3> DEFINE r == [send[s] EXCEPT !.pc = "done", !.result = res]
      <3>1. /\ r \in Calls /\ r.pc = "done" /\ CallOK(r) /\ r.late = send[s].late
            /\ send' = [send EXCEPT ![s] = r]
        BY <1>0, <2>1, <2>2 DEF Calls, Results, CallOK, Settle
      <3> HIDE DEF r
      <3>2. /\ send' \in [Sends -> Calls] /\ send'[s] = r
            /\ \A t \in Sends : t # s => send'[t] = send[t]
        BY <1>0, <3>1
      <3>3. TypeOK'
        BY <1>0, <2>1, <2>2, <3>1, <3>2 DEF SendInv, TypeOK
      <3>4. /\ \A t \in Sends : CallOK(send'[t])
            /\ \A i \in DOMAIN order : send'[order[i]] = send[order[i]]
            /\ pool = "up" => \A t \in Sends : ~send'[t].late
        BY <1>0, <2>1, <3>1, <3>2 DEF SendInv
      <3> QED BY <2>1, <2>2, <3>3, <3>4 DEF SendInv
    <2>3. CASE valid /\ limiter[ChatOf[s]] # "stopped"
      <3> DEFINE r == [send[s] EXCEPT !.pc = "chat", !.late = pool # "up"]
      <3>0. /\ send[s] \in Calls /\ CallOK(send[s]) /\ (pool # "up") \in BOOLEAN
            /\ ChatOf[s] \in Chats
        BY <1>0, TelegramAssumption
      <3>a. /\ r \in Calls /\ r.pc = "chat" /\ r.attempt = 0 /\ r.result = None
            /\ r.late = (pool # "up")
        BY <2>1, <3>0 DEF Calls, CallOK
      <3>b. CallOK(r) /\ ~Ahead(r) /\ (pool = "up" => ~r.late)
        <4>1. CallOK(r) /\ ~Ahead(r)
          BY ONLY <3>a, UnpostedOK
        <4>2. pool = "up" => ~r.late
          BY <3>a
        <4> QED BY <4>1, <4>2
      <3>c. /\ send' = [send EXCEPT ![s].pc = "chat", ![s].late = pool # "up"]
            /\ order' = Append(order, s)
            /\ limiter' = [limiter EXCEPT ![ChatOf[s]] = "open"]
        BY <1>1, <2>3 DEF Call, Schedule
      <3>1. /\ r \in Calls /\ r.pc = "chat" /\ CallOK(r) /\ ~Ahead(r)
            /\ pool = "up" => ~r.late
            /\ send' = [send EXCEPT ![s] = r]
            /\ order' = Append(order, s)
            /\ limiter' = [limiter EXCEPT ![ChatOf[s]] = "open"]
        BY <1>0, <3>0, <3>a, <3>b, <3>c
      <3> HIDE DEF r
      <3>2. /\ send' \in [Sends -> Calls] /\ send'[s] = r
            /\ \A t \in Sends : t # s => send'[t] = send[t]
        BY <1>0, <3>1
      <3>3. /\ order' \in Seq(Sends) /\ Distinct(order')
            /\ DOMAIN order' = 1..Len(order) + 1 /\ DOMAIN order = 1..Len(order)
            /\ Len(order) \in Nat /\ order'[Len(order) + 1] = s
            /\ \A i \in DOMAIN order : order'[i] = order[i]
        BY <1>0, <2>1, <3>1, AppendDistinct DEF SendInv, TypeOK
      <3>4. \A t \in Sends : send'[t].pc \in {"chat", "global", "post", "sleep"} =>
               \E i \in DOMAIN order' : order'[i] = t
        BY <3>1, <3>2, <3>3 DEF SendInv, TypeOK
      <3>d. limiter' \in [Chats -> {"none", "open", "stopped"}]
        BY <3>0, <3>1 DEF SendInv, TypeOK
      <3>e. /\ queue' \in Seq(Sends) /\ Distinct(queue')
            /\ \A i \in DOMAIN queue' : send'[queue'[i]].pc = "global"
        BY <1>0, <2>1, <3>2 DEF SendInv, TypeOK
      <3>5. TypeOK'
        BY <2>1, <3>2, <3>3, <3>4, <3>d, <3>e DEF SendInv, TypeOK
      <3>6. /\ \A t \in Sends : CallOK(send'[t])
            /\ pool' = "up" => \A t \in Sends : ~send'[t].late
        BY <2>1, <3>1, <3>2 DEF SendInv
      <3>7. \A i \in DOMAIN order' : send'[order'[i]].pc # "new"
        BY <1>0, <2>1, <3>1, <3>2, <3>3 DEF SendInv
      <3>8. ASSUME NEW i \in DOMAIN order', NEW k \in DOMAIN order', k < i,
                   ChatOf[order'[k]] = ChatOf[order'[i]], Ahead(send'[order'[i]])
            PROVE  send'[order'[k]].pc = "done"
        <4>1. i \in DOMAIN order /\ k \in DOMAIN order
          BY <3>1, <3>2, <3>3, <3>8
        <4>2. /\ order'[i] = order[i] /\ order'[k] = order[k]
              /\ send'[order[i]] = send[order[i]] /\ send'[order[k]] = send[order[k]]
          BY <1>0, <2>1, <3>2, <3>3, <4>1
        <4> QED BY <3>8, <4>1, <4>2 DEF SendInv
      <3> QED BY <3>5, <3>6, <3>7, <3>8 DEF SendInv
    <2> QED BY <1>1, <2>2, <2>3 DEF Call, Schedule
  <1>2. ASSUME NEW s \in Sends, EnterGlobal(s)
        PROVE  SendInv'
    <2>1. /\ send[s].pc = "chat" /\ send[s].attempt = 0 /\ send[s].result = None
          /\ Turn(s) /\ UNCHANGED <<order, limiter, pool>>
          /\ \A i \in DOMAIN queue : queue[i] # s
      BY <1>0, <1>2 DEF EnterGlobal, SendInv, TypeOK, CallOK
    <2>2. CASE pool = "up"
      <3> DEFINE r == [send[s] EXCEPT !.pc = "global"]
      <3>1. /\ r \in Calls /\ r.pc = "global" /\ CallOK(r) /\ r.late = send[s].late
            /\ send' = [send EXCEPT ![s] = r] /\ queue' = Append(queue, s)
        BY <1>0, <1>2, <2>1, <2>2 DEF Calls, CallOK, EnterGlobal, MoveTo
      <3> HIDE DEF r
      <3>2. /\ queue' \in Seq(Sends) /\ Distinct(queue')
            /\ DOMAIN queue' = 1..Len(queue) + 1 /\ DOMAIN queue = 1..Len(queue)
            /\ Len(queue) \in Nat /\ queue'[Len(queue) + 1] = s
            /\ \A i \in DOMAIN queue : queue'[i] = queue[i]
        BY <1>0, <2>1, <3>1, AppendDistinct DEF SendInv, TypeOK
      <3>3. \A i \in DOMAIN queue' : send'[queue'[i]].pc = "global"
        BY <1>0, <2>1, <3>1, <3>2 DEF SendInv, TypeOK
      <3> QED BY <2>1, <2>2, <3>1, <3>2, <3>3, OneCall
    <2>3. CASE pool # "up"
      <3> DEFINE r == [send[s] EXCEPT !.pc = "done", !.result = "refused"]
      <3>1. /\ r \in Calls /\ r.pc = "done" /\ CallOK(r) /\ r.late = send[s].late /\ ~Ahead(r)
            /\ send' = [send EXCEPT ![s] = r] /\ queue' = queue
        <4>1. send[s] \in Calls /\ CallOK(send[s]) /\ MaxRetries \in Nat
          BY <1>0
        <4>2. r \in Calls /\ r.pc = "done" /\ r.attempt = 0 /\ r.late = send[s].late
          BY <2>1, <4>1 DEF Calls, Results
        <4>3. CallOK(r) /\ ~Ahead(r)
          BY <4>1, <4>2 DEF CallOK, Ahead
        <4> QED BY <1>2, <2>3, <4>2, <4>3 DEF EnterGlobal, Settle
      <3> HIDE DEF r
      <3>2. /\ queue' \in Seq(Sends) /\ Distinct(queue')
            /\ \A i \in DOMAIN queue' : send'[queue'[i]].pc = "global"
        BY <1>0, <2>1, <3>1 DEF SendInv, TypeOK
      <3> QED BY <2>1, <3>1, <3>2, OneCall
    <2> QED BY <2>2, <2>3
  <1>3. ASSUME NEW s \in Sends, Start(s)
        PROVE  SendInv'
    <2> DEFINE r == [send[s] EXCEPT !.pc = "post", !.attempt = 1]
    <2>1. /\ queue # <<>> /\ s = Head(queue) /\ queue' = Tail(queue)
          /\ UNCHANGED <<order, limiter, pool>> /\ Distinct(queue)
      BY <1>3 DEF Start, SendInv, TypeOK
    <2>2. queue[1] = s /\ 1 \in DOMAIN queue
      BY <1>0, <2>1, EmptySeq
    <2>3. send[s].pc = "global" /\ send[s].result = None
      BY <1>0, <2>2 DEF SendInv, TypeOK, CallOK
    <2>4. /\ r \in Calls /\ r.pc = "post" /\ CallOK(r) /\ r.late = send[s].late
          /\ send' = [send EXCEPT ![s] = r]
      <3>1. send[s] \in Calls /\ MaxRetries \in Nat /\ None # "refused"
        BY <1>0
      <3>2. /\ r.pc = "post" /\ r.attempt = 1 /\ r.late = send[s].late
            /\ r.result = None
        BY <2>3, <3>1 DEF Calls
      <3>4. r \in Calls
        <4>1. 1 \in 0..MaxRetries + 2
          BY <3>1
        <4> QED BY <3>1, <4>1 DEF Calls
      <3>3. CallOK(r)
        <4>1. r.attempt \in 1..MaxRetries + 1
          BY <3>1, <3>2
        <4> QED BY ONLY <3>2, <4>1, PostingOK
      <3> QED BY <1>3, <3>2, <3>3, <3>4 DEF Start
    <2> HIDE DEF r
    <2>5. /\ queue' \in Seq(Sends) /\ Distinct(queue')
          /\ \A i \in DOMAIN queue' : i + 1 \in DOMAIN queue /\ queue'[i] = queue[i + 1]
                                       /\ queue'[i] # s
      BY <1>0, <2>1, TailQueue
    <2>6. \A i \in DOMAIN queue' : send'[queue'[i]].pc = "global"
      <3> TAKE i \in DOMAIN queue'
      <3>1. queue'[i] \in Sends /\ send[queue'[i]].pc = "global"
        BY <1>0, <2>5 DEF SendInv, TypeOK
      <3> QED BY <1>0, <2>4, <2>5, <3>1
    <2> QED BY <2>1, <2>3, <2>4, <2>5, <2>6, OneCall DEF Ahead
  <1>4. ASSUME NEW s \in Sends, NEW r \in Calls, send' = [send EXCEPT ![s] = r],
               send[s].pc \in {"post", "sleep"}, r.pc \notin {"new", "global"}, CallOK(r),
               r.late = send[s].late, UNCHANGED <<order, queue, limiter, pool>>
        PROVE  SendInv'
    <2>1. /\ queue' \in Seq(Sends) /\ Distinct(queue')
          /\ \A i \in DOMAIN queue' : send'[queue'[i]].pc = "global"
      BY <1>0, <1>4 DEF SendInv, TypeOK
    <2> QED BY <1>4, <2>1, OneCall DEF Ahead
  <1>5. ASSUME NEW s \in Sends, NEW reply \in Replies, Reply(s, reply)
        PROVE  SendInv'
    <2>1. /\ send[s].pc = "post" /\ send[s].attempt \in 1..MaxRetries + 1
          /\ send[s].result = None
      BY <1>0, <1>5 DEF Reply, CallOK
    <2>2. CASE \E res \in {"sent", "failed"} : Settle(s, res)
      <3>1. PICK res \in {"sent", "failed"} : Settle(s, res)
        BY <2>2
      <3> DEFINE r == [send[s] EXCEPT !.pc = "done", !.result = res]
      <3>2. /\ r \in Calls /\ r.pc = "done" /\ CallOK(r) /\ r.late = send[s].late
            /\ send' = [send EXCEPT ![s] = r]
        BY <1>0, <2>1, <3>1 DEF Calls, Results, CallOK, Settle
      <3> QED BY <1>4, <1>5, <2>1, <3>2 DEF Reply
    <2>3. CASE Retry(reply, send[s].attempt) /\ MoveTo(s, "sleep")
      <3> DEFINE r == [send[s] EXCEPT !.pc = "sleep"]
      <3>1. /\ r \in Calls /\ r.pc = "sleep" /\ CallOK(r) /\ r.late = send[s].late
            /\ send' = [send EXCEPT ![s] = r]
        <4>1. /\ send[s] \in Calls /\ MaxRetries \in Nat /\ None # "refused"
              /\ send[s].attempt <= MaxRetries
          BY <1>0, <2>3 DEF Retry
        <4>2. /\ r.pc = "sleep" /\ r.attempt = send[s].attempt /\ r.late = send[s].late
              /\ r.result = None
          BY <2>1, <4>1 DEF Calls
        <4>4. r \in Calls
          BY <4>1 DEF Calls
        <4>3. CallOK(r)
          BY <2>1, <4>1, <4>2 DEF CallOK
        <4> QED BY <2>3, <4>2, <4>3, <4>4 DEF MoveTo
      <3> QED BY <1>4, <1>5, <2>1, <3>1 DEF Reply
    <2> QED BY <1>5, <2>2, <2>3 DEF Reply
  <1>6. ASSUME NEW s \in Sends, Wake(s)
        PROVE  SendInv'
    <2> DEFINE r == [send[s] EXCEPT !.pc = "post", !.attempt = @ + 1]
    <2>1. /\ send[s].pc = "sleep" /\ send[s].attempt \in 1..MaxRetries
          /\ send[s].result = None
      BY <1>0, <1>6 DEF Wake, CallOK
    <2>2. /\ r \in Calls /\ r.pc = "post" /\ CallOK(r) /\ r.late = send[s].late
          /\ send' = [send EXCEPT ![s] = r]
      BY <1>0, <1>6, <2>1 DEF Calls, CallOK, Wake
    <2> QED BY <1>4, <1>6, <2>1, <2>2 DEF Wake
  <1>7. CASE Stop \/ Stopped
    <2>1. limiter' \in [Chats -> {"none", "open", "stopped"}]
      BY <1>7 DEF Stop, Stopped
    <2> QED BY <1>7, <2>1 DEF Stop, Stopped, SendInv, TypeOK, Distinct
  <1>8. CASE UNCHANGED vars
    BY <1>8 DEF vars, SendInv, TypeOK, Distinct, Turn
  <1> QED BY <1>1, <1>2, <1>3, <1>5, <1>6, <1>7, <1>8
        DEF Next, SendMessage, SendDocument, Progress

LEMMA SendInvariant == Spec => []SendInv
  <1>1. Init => SendInv
    <2> SUFFICES ASSUME Init PROVE SendInv
      OBVIOUS
    <2>1. NewCall \in Calls /\ CallOK(NewCall)
      BY TelegramAssumption DEF NewCall, Calls, Results, CallOK
    <2>2. <<>> \in Seq(Sends) /\ DOMAIN <<>> = {}
      BY EmptySeq
    <2>3. TypeOK
      BY <2>1, <2>2 DEF Init, TypeOK, Distinct, NewCall
    <2> QED BY <2>1, <2>2, <2>3 DEF Init, SendInv, NewCall
  <1> QED BY <1>1, SendStep, PTL DEF Spec

(* Calls, queues and limiters keep their types; a queued call waits for the *)
(* global limiter and is queued once.                                       *)
THEOREM SendTypeCorrect == Spec => []TypeOK
  <1>1. SendInv => TypeOK
    BY DEF SendInv
  <1> QED BY <1>1, SendInvariant, PTL

(* The calls of a chat post in the order they were made, retries included   *)
(* (rate-limit.ts:36-48, retry.ts:32-67).                                   *)
THEOREM CallsStayInTurn == Spec => []InTurn
  <1>1. SendInv => InTurn
    BY DEF SendInv, InTurn, Ahead
  <1> QED BY <1>1, SendInvariant, PTL

(* No call posts more than MaxRetries + 1 times, and a refused one never    *)
(* (retry.ts:31-32, 70, rate-limit.ts:56-62).                               *)
THEOREM PostsAreBounded == Spec => []PostsBounded
  <1>1. SendInv => PostsBounded
    BY DEF SendInv, PostsBounded, CallOK
  <1> QED BY <1>1, SendInvariant, PTL
=============================================================================
