---------------------------- MODULE TelegramSend ----------------------------
(***************************************************************************)
(* packages/telegram as one worker process runs it: a call of sendMessage  *)
(* or sendDocument waits for its chat's limiter and, inside that, for the  *)
(* global one (rate-limit.ts), posts to the Bot API (api/client.ts) and    *)
(* retries at most MaxRetries times in place (retry.ts), its two slots     *)
(* held; stop() runs beside the calls.  Bottleneck (external) is first in, *)
(* first out; what it spreads over time is not modelled.  Which alerts     *)
(* are sent and what becomes of an error is AlertDelivery.                 *)
(***************************************************************************)
EXTENDS Naturals, FiniteSets, Sequences

CONSTANTS
    Sends,          \* calls of the service
    Documents,      \* those of sendDocument
    Chats,
    ChatOf,         \* input.chatId of each call
    None,           \* undefined
    MaxConcurrent,  \* of the global limiter
    MaxRetries      \* in-call retries

ASSUME TelegramAssumption ==
    /\ IsFiniteSet(Sends) /\ Documents \subseteq Sends
    /\ ChatOf \in [Sends -> Chats]
    /\ MaxConcurrent \in Nat \ {0} /\ MaxRetries \in Nat
    /\ None \notin {"sent", "invalid", "refused", "failed"}

VARIABLES
    send,     \* the state of each call
    order,    \* the calls, in the order they reached their chat's limiter
    queue,    \* the calls that the global limiter has queued
    limiter,  \* each chat's entry in the chats map
    pool      \* rate limiters: up, stopping, stopped

vars == <<send, order, queue, limiter, pool>>

Results == {None, "sent", "invalid", "refused", "failed"}
Calls == [pc: {"new", "chat", "global", "post", "sleep", "done"},
          attempt: 0..MaxRetries + 2,
          late: BOOLEAN,               \* its limiter was made after stop()
          result: Results]
NewCall == [pc |-> "new", attempt |-> 0, late |-> FALSE, result |-> None]

Distinct(seq) == \A i, k \in DOMAIN seq : seq[i] = seq[k] => i = k

TypeOK ==
    /\ send \in [Sends -> Calls]
    /\ order \in Seq(Sends) /\ Distinct(order)
    /\ \A s \in Sends : send[s].pc \in {"chat", "global", "post", "sleep"} =>
          \E i \in DOMAIN order : order[i] = s
    /\ queue \in Seq(Sends) /\ Distinct(queue)
    /\ \A i \in DOMAIN queue : send[queue[i]].pc = "global"
    /\ limiter \in [Chats -> {"none", "open", "stopped"}]
    /\ pool \in {"up", "stopping", "stopped"}

Init ==
    /\ send = [s \in Sends |-> NewCall]
    /\ order = <<>>
    /\ queue = <<>>
    /\ limiter = [c \in Chats |-> "none"]
    /\ pool = "up"

MoveTo(s, pc) == send' = [send EXCEPT ![s].pc = pc]
Settle(s, result) == send' = [send EXCEPT ![s].pc = "done", ![s].result = result]

-----------------------------------------------------------------------------
(* Definitions named ...Variant are what the one after them would be with   *)
(* a plausible bug: each shows that a property can fail.                    *)

(* schedule and getChatLimiter: a chat without a limiter gets one, also     *)
(* after stop() has begun (the late calls, all of which are refused in the  *)
(* end); a limiter that was stopped refuses.                                *)
Schedule(s) ==
    LET c == ChatOf[s]
    IN  IF limiter[c] = "stopped"
        THEN Settle(s, "refused") /\ UNCHANGED <<order, limiter>>
        ELSE /\ limiter' = [limiter EXCEPT ![c] = "open"]
             /\ order' = Append(order, s)
             /\ send' = [send EXCEPT ![s].pc = "chat", ![s].late = pool # "up"]

(* The constructor of BotApiClient throws before anything is scheduled.     *)
Call(s, valid) ==
    /\ send[s].pc = "new"
    /\ IF valid THEN Schedule(s) ELSE Settle(s, "invalid") /\ UNCHANGED <<order, limiter>>
    /\ UNCHANGED <<queue, pool>>

SendMessage(s, valid) == s \notin Documents /\ Call(s, valid)
SendDocument(s, valid) == s \in Documents /\ Call(s, valid)

(* Calls that have left the chat's limiter: two in a row may be under way.  *)
TurnVariant(s) ==
    Cardinality({k \in DOMAIN order :
        /\ \E i \in DOMAIN order : order[i] = s /\ k < i
        /\ ChatOf[order[k]] = ChatOf[s] /\ send[order[k]].pc # "done"}) < 2

(* A chat's limiter runs one call at a time, the oldest first.              *)
Turn(s) ==
    \A i, k \in DOMAIN order :
        (order[i] = s /\ k < i /\ ChatOf[order[k]] = ChatOf[s]
            /\ send[order[k]].late = send[s].late) => send[order[k]].pc = "done"

(* What waits for its chat when stop() is called waits for ever.            *)
EnterGlobalVariant(s) ==
    /\ send[s].pc = "chat" /\ Turn(s)
    /\ pool = "up" /\ MoveTo(s, "global") /\ queue' = Append(queue, s)
    /\ UNCHANGED <<order, limiter, pool>>

(* chat.schedule(() => this.global.schedule(task)): once stop() has been    *)
(* called, the global limiter refuses what still waited for its chat.       *)
EnterGlobal(s) ==
    /\ send[s].pc = "chat" /\ Turn(s)
    /\ IF pool = "up" THEN MoveTo(s, "global") /\ queue' = Append(queue, s)
                      ELSE Settle(s, "refused") /\ UNCHANGED queue
    /\ UNCHANGED <<order, limiter, pool>>

InFlight == {s \in Sends : send[s].pc \in {"post", "sleep"}}

(* The global limiter starts the oldest call it has queued.                 *)
Start(s) ==
    /\ queue # <<>> /\ s = Head(queue)
    /\ Cardinality(InFlight) < MaxConcurrent
    /\ queue' = Tail(queue)
    /\ send' = [send EXCEPT ![s].pc = "post", ![s].attempt = 1]
    /\ UNCHANGED <<order, limiter, pool>>

-----------------------------------------------------------------------------
(* What the Bot API may answer (external); no status is a network error or  *)
(* a timeout.                                                               *)
Replies == [status: {None, 200, 400, 429, 500}, ok: BOOLEAN,
            retryAfter: {None, "short", "long"}]
Possible(r) == /\ r.ok => r.status = 200
               /\ r.retryAfter # None => r.status = 429
               /\ r.status = 200 => r.ok

(* 5xx, or no status.                                                       *)
Transient(r) == r.status \in {None, 500}

(* A short wait may be asked for once more than there are retries.          *)
RetryVariant(r, attempt) ==
    \/ r.status = 429 /\ r.retryAfter = "short" /\ attempt <= MaxRetries + 1
    \/ Transient(r) /\ attempt <= MaxRetries

(* A 429 without retry_after is an error like a 400.                        *)
Retry(r, attempt) ==
    /\ attempt <= MaxRetries
    /\ \/ r.status = 429 /\ r.retryAfter = "short"
       \/ Transient(r)

(* post and postForm, handle, and one turn of withTelegramRetry's loop.     *)
Reply(s, r) ==
    /\ send[s].pc = "post" /\ Possible(r)
    /\ \/ r.ok /\ Settle(s, "sent")
       \/ ~r.ok /\ Retry(r, send[s].attempt) /\ MoveTo(s, "sleep")
       \/ ~r.ok /\ ~Retry(r, send[s].attempt) /\ Settle(s, "failed")
    /\ UNCHANGED <<order, queue, limiter, pool>>

(* The retry goes through the limiters again.                               *)
WakeVariant(s) ==
    /\ send[s].pc = "sleep"
    /\ send' = [send EXCEPT ![s].pc = "chat", ![s].attempt = @ + 1]
    /\ UNCHANGED <<order, queue, limiter, pool>>

(* The sleep is over and the loop goes round, both slots still held.        *)
Wake(s) ==
    /\ send[s].pc = "sleep"
    /\ send' = [send EXCEPT ![s].pc = "post", ![s].attempt = @ + 1]
    /\ UNCHANGED <<order, queue, limiter, pool>>

-----------------------------------------------------------------------------
(* stop() of the service and of its pool: every limiter refuses from now on *)
(* and resolves when what it had is done (dropWaitingJobs: false).          *)
Stop ==
    /\ pool = "up" /\ pool' = "stopping"
    /\ limiter' = [c \in Chats |-> IF limiter[c] = "open" THEN "stopped" ELSE "none"]
    /\ UNCHANGED <<send, order, queue>>

Drained == \A s \in Sends : send[s].pc \in {"chat", "global", "post", "sleep"} => send[s].late

(* Promise.all has resolved: chats.clear().                                 *)
Stopped ==
    /\ pool = "stopping" /\ Drained
    /\ pool' = "stopped"
    /\ limiter' = [c \in Chats |-> "none"]
    /\ UNCHANGED <<send, order, queue>>

-----------------------------------------------------------------------------
Progress(s) ==
    \/ EnterGlobal(s) \/ Start(s) \/ Wake(s)
    \/ \E r \in Replies : Reply(s, r)

Next ==
    \/ \E s \in Sends :
         \/ \E valid \in BOOLEAN : SendMessage(s, valid) \/ SendDocument(s, valid)
         \/ Progress(s)
    \/ Stop \/ Stopped

Spec == Init /\ [][Next]_vars

(* Bottleneck and node's event loop go on, axios answers or times out, and  *)
(* a sleep ends.                                                            *)
FairSpec == Spec /\ (\A s \in Sends : WF_vars(Progress(s))) /\ WF_vars(Stopped)

-----------------------------------------------------------------------------
(* Properties.                                                              *)

(* Whatever is retried, the calls of one chat reach Telegram in the order   *)
(* they were made: none posts while an earlier one of its chat has not      *)
(* ended (rate-limit.ts:36-48, retry.ts:32-67).                             *)
InTurn ==
    \A i, k \in DOMAIN order :
        (k < i /\ ChatOf[order[k]] = ChatOf[order[i]] /\ send[order[i]].attempt > 0)
            => send[order[k]].pc = "done"

(* A call posts at most MaxRetries + 1 times, whatever mix of errors it     *)
(* meets, so the loop's slack iteration and the throw behind it are never   *)
(* reached; and a call that stop() refuses has posted nothing, so the retry *)
(* of its job repeats no message (retry.ts:31-32, 70, rate-limit.ts:56-62). *)
PostsBounded ==
    \A s \in Sends : /\ send[s].attempt <= MaxRetries + 1
                     /\ send[s].result = "refused" => send[s].attempt = 0

(* Every call ends, whatever its chat or the rest of the pool is waiting    *)
(* for, and so does stop() (rate-limit.ts:38, 56-62).                       *)
SendsEnd ==
    /\ \A s \in Sends : send[s].pc # "new" ~> send[s].pc = "done"
    /\ pool = "stopping" ~> pool = "stopped"
=============================================================================
