---------------------------- MODULE BatchDelivery ----------------------------
(***************************************************************************)
(* What the log pipeline promises for the rows it is notified of. A        *)
(* notification may come to nothing; a message made of it is pending until *)
(* it is forgotten or set aside. Messages succeed and fail by the batch:   *)
(* a batch is forgotten only when all of it has been delivered, and when   *)
(* it fails each of its messages has one attempt less.                     *)
(***************************************************************************)
EXTENDS Naturals

CONSTANTS
  Msg,          \* the messages
  MaxAttempts   \* the attempts to deliver a message before it is set aside

VARIABLES
  status,     \* Msg -> where it stands
  delivered,  \* Msg -> how often the endpoint has received it
  attempts    \* Msg -> the attempts that have failed

vars == <<status, delivered, attempts>>

Status == {"absent", "announced", "dropped", "pending", "sent", "setAside"}

With(stat) == {m \in Msg : status[m] = stat}

\* The status of the messages in batch becomes stat.
Moved(batch, stat) == [m \in Msg |-> IF m \in batch THEN stat ELSE status[m]]

Init ==
  /\ status = [m \in Msg |-> "absent"]
  /\ delivered = [m \in Msg |-> 0]
  /\ attempts = [m \in Msg |-> 0]

Announce(new) ==
  /\ status' = Moved(new, "announced")
  /\ UNCHANGED <<delivered, attempts>>

Enqueue(m) ==
  /\ status' = Moved({m}, "pending")
  /\ UNCHANGED <<delivered, attempts>>

Drop(batch) ==
  /\ status' = Moved(batch, "dropped")
  /\ UNCHANGED <<delivered, attempts>>

Deliver(m) ==
  /\ delivered' = [delivered EXCEPT ![m] = @ + 1]
  /\ UNCHANGED <<status, attempts>>

\* A batch is forgotten as a whole, and only after all of it was delivered.
Acknowledge(batch) ==
  /\ \A m \in batch : delivered[m] > 0
  /\ status' = Moved(batch, "sent")
  /\ UNCHANGED <<delivered, attempts>>

\* A batch fails as a whole; one of its messages may just have been delivered.
FailBatch(batch) ==
  /\ \/ UNCHANGED delivered
     \/ \E m \in batch : delivered' = [delivered EXCEPT ![m] = @ + 1]
  /\ attempts' = [m \in Msg |-> attempts[m] + IF m \in batch THEN 1 ELSE 0]
  /\ status' = [m \in Msg |->
       IF m \notin batch THEN status[m]
       ELSE IF attempts[m] + 1 = MaxAttempts THEN "setAside" ELSE "pending"]

Next ==
  \/ \E new \in SUBSET With("absent") : Announce(new)
  \/ \E m \in With("announced") : Enqueue(m)
  \/ \E batch \in SUBSET With("announced") : Drop(batch)
  \/ \E m \in With("pending") : Deliver(m)
  \/ \E batch \in SUBSET With("pending") : Acknowledge(batch) \/ FailBatch(batch)

Spec == Init /\ [][Next]_vars
=============================================================================
