------------------------------ MODULE DmlQueue ------------------------------
(***************************************************************************)
(* QUEUE_DML and the sessions that empty it into Azure Event Hubs.         *)
(*                                                                         *)
(* enqueue commits one message. The Advanced Queue then runs aq_callback   *)
(* in a session of its own; dequeue_and_send takes messages one at a time  *)
(* (REMOVE, ON_COMMIT, NO_WAIT), az_event_hubs.send authenticates, posts   *)
(* and logs, and the dequeue is committed only when send returned. Any     *)
(* exception other than the empty queue leaves dequeue_and_send, and the   *)
(* transaction with the dequeued message is rolled back.                   *)
(*                                                                         *)
(* The queue itself is Oracle's: a dequeued message is locked until its    *)
(* transaction ends, a rollback increments RETRY_COUNT and delays the      *)
(* message by retry_delay, a message rolled back more than max_retries     *)
(* times goes to the exception queue, and a message that becomes ready     *)
(* notifies the registered callback once. A session that is killed frees   *)
(* its message without counting a retry and without a new notification.    *)
(***************************************************************************)
EXTENDS Naturals, FiniteSets

CONSTANTS
  MsgCount,    \* the messages enqueued, numbered in enqueue order
  Session,     \* the sessions the queue can run callbacks in
  MaxRetries,  \* max_retries of QUEUE_DML
  MaxKills,    \* bound: sessions killed
  NoMsg        \* no message

Msg == 1..MsgCount

ASSUME QueueAssumption ==
  /\ MsgCount \in Nat
  /\ MaxRetries \in Nat
  /\ MaxKills \in Nat
  /\ NoMsg \notin Msg

VARIABLES
  state,         \* Msg -> where the message is
  retry_count,   \* Msg -> RETRY_COUNT of the message
  notifications, \* notifications whose callback has not run yet
  pc,            \* Session -> the next statement of the session
  held,          \* Session -> the message it has dequeued
  status,        \* Session -> the answer of the last POST
  hub,           \* Msg -> how often the Event Hub has accepted it
  logs,          \* Msg -> the row in oqf_logs about its latest attempt
  kills          \* sessions killed so far

vars == <<state, retry_count, notifications, pc, held, status, hub, logs, kills>>

MsgState == {"absent", "ready", "locked", "delayed", "removed", "exception"}

TypeOK ==
  /\ state \in [Msg -> MsgState]
  /\ retry_count \in [Msg -> 0..MaxRetries + 1]
  /\ notifications \in Nat
  /\ pc \in [Session -> {"idle", "dequeue", "authenticate", "post", "log", "commit"}]
  /\ held \in [Session -> Msg \cup {NoMsg}]
  /\ status \in [Session -> {"none", "ok", "error"}]
  /\ hub \in [Msg -> Nat]
  /\ logs \in [Msg -> {"none", "ok", "error"}]
  /\ kills \in 0..MaxKills

Init ==
  /\ state = [m \in Msg |-> "absent"]
  /\ retry_count = [m \in Msg |-> 0]
  /\ notifications = 0
  /\ pc = [s \in Session |-> "idle"]
  /\ held = [s \in Session |-> NoMsg]
  /\ status = [s \in Session |-> "none"]
  /\ hub = [m \in Msg |-> 0]
  /\ logs = [m \in Msg |-> "none"]
  /\ kills = 0

Ready == {m \in Msg : state[m] = "ready"}

Goto(s, label) == pc' = [pc EXCEPT ![s] = label]

-----------------------------------------------------------------------------
\* The next message is enqueued and committed.
Enqueue(m) ==
  /\ state[m] = "absent"
  /\ \A n \in Msg : n < m => state[n] # "absent"
  /\ state' = [state EXCEPT ![m] = "ready"]
  /\ notifications' = notifications + 1
  /\ UNCHANGED <<retry_count, pc, held, status, hub, logs, kills>>

\* The queue runs aq_callback for a notification.
AqCallback(s) ==
  /\ pc[s] = "idle"
  /\ notifications > 0
  /\ notifications' = notifications - 1
  /\ Goto(s, "dequeue")
  /\ UNCHANGED <<state, retry_count, held, status, hub, logs, kills>>

\* Mutant of Dequeue: DEQUEUE_MODE BROWSE reads without locking.
DequeueBrowse(s) ==
  /\ pc[s] = "dequeue"
  /\ \E m \in Ready :
       /\ \A n \in Ready : m <= n
       /\ held' = [held EXCEPT ![s] = m]
       /\ logs' = [logs EXCEPT ![m] = "none"]
  /\ Goto(s, "authenticate")
  /\ UNCHANGED <<state, retry_count, notifications, status, hub, kills>>

\* The oldest ready message is dequeued and locked: an attempt begins that has
\* no row in oqf_logs yet.
Dequeue(s) ==
  /\ pc[s] = "dequeue"
  /\ \E m \in Ready :
       /\ \A n \in Ready : m <= n
       /\ state' = [state EXCEPT ![m] = "locked"]
       /\ held' = [held EXCEPT ![s] = m]
       /\ logs' = [logs EXCEPT ![m] = "none"]
  /\ Goto(s, "authenticate")
  /\ UNCHANGED <<retry_count, notifications, status, hub, kills>>

\* e_end_of_fetch: nothing is ready, the callback returns.
EndOfFetch(s) ==
  /\ pc[s] = "dequeue"
  /\ Ready = {}
  /\ Goto(s, "idle")
  /\ UNCHANGED <<state, retry_count, notifications, held, status, hub, logs, kills>>

\* Mutant of Rollback: the retry is not counted.
RollbackUncounted(s) ==
  /\ state' = [state EXCEPT ![held[s]] = "delayed"]
  /\ held' = [held EXCEPT ![s] = NoMsg]
  /\ status' = [status EXCEPT ![s] = "none"]
  /\ Goto(s, "idle")
  /\ UNCHANGED <<retry_count, notifications, kills>>

\* Mutant of Rollback: one retry more than max_retries.
RollbackOneMore(s) ==
  LET m == held[s] IN
  /\ retry_count' = [retry_count EXCEPT ![m] = @ + 1]
  /\ state' = [state EXCEPT ![m] =
                 IF retry_count[m] > MaxRetries THEN "exception" ELSE "delayed"]
  /\ held' = [held EXCEPT ![s] = NoMsg]
  /\ status' = [status EXCEPT ![s] = "none"]
  /\ Goto(s, "idle")
  /\ UNCHANGED <<notifications, kills>>

\* The transaction of a raised exception is rolled back by the queue.
Rollback(s) ==
  LET m == held[s] IN
  /\ retry_count' = [retry_count EXCEPT ![m] = @ + 1]
  /\ state' = [state EXCEPT ![m] =
                 IF retry_count[m] + 1 > MaxRetries THEN "exception" ELSE "delayed"]
  /\ held' = [held EXCEPT ![s] = NoMsg]
  /\ status' = [status EXCEPT ![s] = "none"]
  /\ Goto(s, "idle")
  /\ UNCHANGED <<notifications, kills>>

\* A SAS signature is computed or an Entra token is obtained.
Authenticate(s) ==
  /\ pc[s] = "authenticate"
  /\ Goto(s, "post")
  /\ UNCHANGED <<state, retry_count, notifications, held, status, hub, logs, kills>>

\* Queue, credential or token cannot be had: send raises before the POST.
AuthenticateFails(s) ==
  /\ pc[s] = "authenticate"
  /\ Rollback(s)
  /\ UNCHANGED <<hub, logs>>

\* The Event Hub answers 200 or 201.
PostAccepted(s) ==
  /\ pc[s] = "post"
  /\ hub' = [hub EXCEPT ![held[s]] = @ + 1]
  /\ status' = [status EXCEPT ![s] = "ok"]
  /\ Goto(s, "log")
  /\ UNCHANGED <<state, retry_count, notifications, held, logs, kills>>

\* The Event Hub answers with another status code.
PostRejected(s) ==
  /\ pc[s] = "post"
  /\ status' = [status EXCEPT ![s] = "error"]
  /\ Goto(s, "log")
  /\ UNCHANGED <<state, retry_count, notifications, held, hub, logs, kills>>

\* make_rest_request raises: no answer arrived, and the Event Hub may or may
\* not have accepted the message.
PostRaises(s) ==
  /\ pc[s] = "post"
  /\ \E n \in {0, 1} : hub' = [hub EXCEPT ![held[s]] = @ + n]
  /\ Rollback(s)
  /\ UNCHANGED logs

\* Mutant of Log: only failures are logged.
LogFailures(s) ==
  /\ pc[s] = "log"
  /\ logs' = IF status[s] = "ok" THEN logs ELSE [logs EXCEPT ![held[s]] = status[s]]
  /\ Goto(s, "commit")
  /\ UNCHANGED <<state, retry_count, notifications, held, status, hub, kills>>

\* log_action is an autonomous transaction: the row, which tells the answer,
\* stays whatever follows.
Log(s) ==
  /\ pc[s] = "log"
  /\ logs' = [logs EXCEPT ![held[s]] = status[s]]
  /\ Goto(s, "commit")
  /\ UNCHANGED <<state, retry_count, notifications, held, status, hub, kills>>

\* The log entry cannot be written: send raises although the message may have
\* been accepted.
LogRaises(s) ==
  /\ pc[s] = "log"
  /\ Rollback(s)
  /\ UNCHANGED <<hub, logs>>

\* Mutant of Commit: the status code is not looked at.
CommitAnyStatus(s) ==
  /\ pc[s] = "commit"
  /\ state' = [state EXCEPT ![held[s]] = "removed"]
  /\ held' = [held EXCEPT ![s] = NoMsg]
  /\ status' = [status EXCEPT ![s] = "none"]
  /\ Goto(s, "dequeue")
  /\ UNCHANGED <<retry_count, notifications, hub, logs, kills>>

\* send returned: the dequeue is committed and the loop goes on.
Commit(s) ==
  /\ pc[s] = "commit" /\ status[s] = "ok"
  /\ state' = [state EXCEPT ![held[s]] = "removed"]
  /\ held' = [held EXCEPT ![s] = NoMsg]
  /\ status' = [status EXCEPT ![s] = "none"]
  /\ Goto(s, "dequeue")
  /\ UNCHANGED <<retry_count, notifications, hub, logs, kills>>

\* send raises e_send_error after the log entry.
RaiseSendError(s) ==
  /\ pc[s] = "commit" /\ status[s] = "error"
  /\ Rollback(s)
  /\ UNCHANGED <<hub, logs>>

\* Mutant of RetryDelayOver: the message is ready and nobody is told.
RetryUnnoticed(m) ==
  /\ state[m] = "delayed"
  /\ state' = [state EXCEPT ![m] = "ready"]
  /\ UNCHANGED <<retry_count, notifications, pc, held, status, hub, logs, kills>>

\* retry_delay is over: the message is ready and notifies again.
RetryDelayOver(m) ==
  /\ state[m] = "delayed"
  /\ state' = [state EXCEPT ![m] = "ready"]
  /\ notifications' = notifications + 1
  /\ UNCHANGED <<retry_count, pc, held, status, hub, logs, kills>>

\* The session dies at any point of the callback.
Kill(s) ==
  /\ pc[s] # "idle" /\ kills < MaxKills
  /\ kills' = kills + 1
  /\ state' = IF held[s] = NoMsg THEN state
              ELSE [state EXCEPT ![held[s]] = "ready"]
  /\ held' = [held EXCEPT ![s] = NoMsg]
  /\ status' = [status EXCEPT ![s] = "none"]
  /\ Goto(s, "idle")
  /\ UNCHANGED <<retry_count, notifications, hub, logs>>

SessionStep(s) ==
  \/ Dequeue(s) \/ EndOfFetch(s)
  \/ Authenticate(s) \/ AuthenticateFails(s)
  \/ PostAccepted(s) \/ PostRejected(s) \/ PostRaises(s)
  \/ Log(s) \/ LogRaises(s) \/ Commit(s) \/ RaiseSendError(s)

Next ==
  \/ \E m \in Msg : Enqueue(m) \/ RetryDelayOver(m)
  \/ \E s \in Session : AqCallback(s) \/ SessionStep(s) \/ Kill(s)

Spec == Init /\ [][Next]_vars

\* A started session runs on, a retry delay ends, and the queue runs the
\* callbacks it has been notified of as sessions become free.
Fairness ==
  /\ \A s \in Session : WF_vars(SessionStep(s))
  /\ \A m \in Msg : WF_vars(RetryDelayOver(m))
  /\ WF_vars(\E s \in Session : AqCallback(s))

FairSpec == Spec /\ Fairness

-----------------------------------------------------------------------------
(* Properties *)

\* A session that works on a message is the only one, and the message is
\* locked exactly as long: two concurrent callbacks never send it in parallel.
Exclusive ==
  /\ \A s, t \in Session : held[s] = held[t] /\ held[s] # NoMsg => s = t
  /\ \A m \in Msg : state[m] = "locked" <=> \E s \in Session : held[s] = m

\* A message leaves the queue as sent only if the Event Hub accepted it.
NoLoss == \A m \in Msg : state[m] = "removed" => hub[m] >= 1

\* The acceptances of a message are bounded by its attempts: one per rolled
\* back attempt, per killed session, and the last one.
DuplicateBound == \A m \in Msg : hub[m] <= retry_count[m] + kills + 1

\* A removed message has an entry in oqf_logs about the very attempt that sent
\* it, and the entry says so: the rows of earlier attempts, rejected or killed,
\* do not count.
SentIsLogged == \A m \in Msg : state[m] = "removed" => logs[m] = "ok"

\* A session that fails abandons its loop; the ready messages it leaves behind
\* still have a notification or a running callback each, save one per kill.
NoStranded ==
  LET Busy == {s \in Session : pc[s] # "idle"}
      Holding == {s \in Session : held[s] # NoMsg}
  IN  Cardinality(Ready) + Cardinality(Holding)
        <= notifications + Cardinality(Busy) + kills

\* Every message that is ready to be sent leaves the queue, unless a session
\* was killed.
Settled(m) == state[m] \in {"removed", "exception"}
EventuallySettled ==
  \A m \in Msg : state[m] = "ready" ~> (Settled(m) \/ kills > 0)

-----------------------------------------------------------------------------
(* The queue implements the abstract promise of at-least-once delivery.      *)

AbstractStatus ==
  [m \in Msg |->
     CASE state[m] = "absent"    -> "absent"
       [] state[m] = "removed"   -> "sent"
       [] state[m] = "exception" -> "setAside"
       [] OTHER                  -> "pending"]

Promise == INSTANCE AtLeastOnce
  WITH MaxAttempts <- MaxRetries + 1,
       status <- AbstractStatus, delivered <- hub, attempts <- retry_count

ImplementsPromise == Promise!Spec
=============================================================================
