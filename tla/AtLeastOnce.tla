----------------------------- MODULE AtLeastOnce -----------------------------
(***************************************************************************)
(* What the Orbit Queue Framework promises for a message it has enqueued:  *)
(* it stays pending until the Event Hub has taken it, possibly more than   *)
(* once, or until it is set aside after the allowed number of attempts.    *)
(***************************************************************************)
EXTENDS Naturals

CONSTANTS
  Msg,          \* the messages
  MaxAttempts   \* the attempts to send a message before it is set aside

VARIABLES
  status,     \* Msg -> {"absent", "pending", "sent", "setAside"}
  delivered,  \* Msg -> how often the Event Hub has taken it
  attempts    \* Msg -> the attempts that have failed

vars == <<status, delivered, attempts>>

Init ==
  /\ status = [m \in Msg |-> "absent"]
  /\ delivered = [m \in Msg |-> 0]
  /\ attempts = [m \in Msg |-> 0]

Submit(m) ==
  /\ status[m] = "absent"
  /\ status' = [status EXCEPT ![m] = "pending"]
  /\ UNCHANGED <<delivered, attempts>>

\* The Event Hub takes a pending message.
Deliver(m) ==
  /\ status[m] = "pending"
  /\ delivered' = [delivered EXCEPT ![m] = @ + 1]
  /\ UNCHANGED <<status, attempts>>

\* A message is forgotten only after it was delivered.
Acknowledge(m) ==
  /\ status[m] = "pending" /\ delivered[m] > 0
  /\ status' = [status EXCEPT ![m] = "sent"]
  /\ UNCHANGED <<delivered, attempts>>

\* An attempt fails, whether or not the Event Hub took the message in it.
FailAttempt(m) ==
  /\ status[m] = "pending"
  /\ \E d \in {delivered[m], delivered[m] + 1} :
       delivered' = [delivered EXCEPT ![m] = d]
  /\ attempts' = [attempts EXCEPT ![m] = @ + 1]
  /\ status' = [status EXCEPT ![m] =
                  IF attempts[m] + 1 = MaxAttempts THEN "setAside" ELSE @]

Next ==
  \E m \in Msg : Submit(m) \/ Deliver(m) \/ Acknowledge(m) \/ FailAttempt(m)

Spec == Init /\ [][Next]_vars
=============================================================================
