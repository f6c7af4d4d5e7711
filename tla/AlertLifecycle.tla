--------------------------- MODULE AlertLifecycle ---------------------------
(***************************************************************************)
(* What the alerts table promises, as the comment above                    *)
(* makeTelegramSendAlertHandler states it: an alert is created PENDING,    *)
(* only a PENDING alert is delivered or changes status, and one that left  *)
(* PENDING never changes again and is never delivered again.  SENT means   *)
(* that Telegram accepted the message.                                     *)
(***************************************************************************)
CONSTANT Alerts

VARIABLES
    status,  \* status[a]: NONE before the row exists
    told     \* told[a]: Telegram accepted a message of this alert

vars == <<status, told>>

Settled == {"SENT", "FAILED", "SKIPPED"}

Init ==
    /\ status = [a \in Alerts |-> "NONE"]
    /\ told = [a \in Alerts |-> FALSE]

Create(a) ==
    /\ status[a] = "NONE"
    /\ status' = [status EXCEPT ![a] = "PENDING"]
    /\ UNCHANGED told

Deliver(a) ==
    /\ status[a] = "PENDING"
    /\ told' = [told EXCEPT ![a] = TRUE]
    /\ UNCHANGED status

Settle(a, st) ==
    /\ status[a] = "PENDING"
    /\ st = "SENT" => told[a]
    /\ status' = [status EXCEPT ![a] = st]
    /\ UNCHANGED told

Next == \E a \in Alerts :
    \/ Create(a)
    \/ Deliver(a)
    \/ \E st \in Settled : Settle(a, st)

Spec == Init /\ [][Next]_vars
=============================================================================
