----------------------------- MODULE LogPipeline -----------------------------
(***************************************************************************)
(* Package orb_log and QUEUE_LOGGER: how the rows of oqf_logs reach the    *)
(* Azure log collection endpoint, and what happens when the pipeline logs  *)
(* about itself.                                                           *)
(*                                                                         *)
(* Each log_action commits one row, which notifies callback once for each  *)
(* registration register_log_cqn has made. callback enqueues the row in    *)
(* QUEUE_LOGGER; log_callback dequeues messages, obtains an Entra token,   *)
(* and posts them, all in ONE transaction that ends when the queue is      *)
(* empty: an exception rolls back every message the callback has dequeued, *)
(* those already posted included. The status of a POST is not looked at.   *)
(* entraAuthenticationToken itself calls log_action, for each refreshed    *)
(* token and for each failed authentication, so uploading a row may create *)
(* the next one.                                                           *)
(*                                                                         *)
(* The queue is Oracle's, as in DmlQueue; it is taken to commit the        *)
(* transaction of a callback that returns. The change notifications are    *)
(* not reliable: a shutdown of the instance loses those not yet handled.   *)
(***************************************************************************)
EXTENDS Naturals, FiniteSets

CONSTANTS
  MaxRows,       \* bound: rows ever logged
  MaxRegs,       \* bound: registrations of oqf_logs
  Session,       \* the sessions the queue can run callbacks in
  MaxRetries,    \* max_retries of QUEUE_LOGGER
  MaxOutside,    \* bound: rows logged by other parts of the system
  MaxFailures,   \* bound: callbacks that raise
  MaxRefreshes,  \* bound: tokens refreshed
  MaxShutdowns,  \* bound: shutdowns of the instance
  NoMsg          \* no message

Row == 1..MaxRows
Reg == 1..MaxRegs
Msg == Row \X Reg      \* the message about a row for a registration

ASSUME LogAssumption ==
  /\ {MaxRows, MaxRegs, MaxRetries, MaxOutside, MaxFailures, MaxRefreshes, MaxShutdowns}
       \subseteq Nat
  /\ NoMsg \notin Msg
  /\ IsFiniteSet(Session)

VARIABLES
  origin,        \* Row -> who logged it, "none" as long as nobody has
  registrations, \* the registrations made by register_log_cqn
  enabled,       \* QUEUE_LOGGER has been started
  state,         \* Msg -> where the notification or message is
  retry_count,   \* Msg -> RETRY_COUNT of the message
  posts,         \* Msg -> POSTs of the message the endpoint has received
  notifications, \* notifications whose log_callback has not run yet
  pc,            \* Session -> the next statement of the session
  l_payload,     \* Session -> the message it has dequeued last
  transaction,   \* Session -> the messages dequeued in its transaction
  failures,      \* callbacks that raised
  shutdowns      \* shutdowns so far

vars == <<origin, registrations, enabled, state, retry_count, posts, notifications,
          pc, l_payload, transaction, failures, shutdowns>>

queue == <<state, retry_count, notifications>>
sessions == <<pc, l_payload, transaction>>

Origin == {"none", "outside", "refresh", "error"}
MsgState == {"none", "notified", "skipped", "lost", "ready", "locked", "delayed",
             "removed", "exception"}

TypeOK ==
  /\ origin \in [Row -> Origin]
  /\ registrations \in 0..MaxRegs
  /\ enabled \in BOOLEAN
  /\ state \in [Msg -> MsgState]
  /\ retry_count \in [Msg -> 0..MaxRetries + 1]
  /\ posts \in [Msg -> Nat]
  /\ notifications \in Nat
  /\ pc \in [Session -> {"idle", "dequeue", "token", "raise", "post"}]
  /\ l_payload \in [Session -> Msg \cup {NoMsg}]
  /\ transaction \in [Session -> SUBSET Msg]
  /\ failures \in 0..MaxFailures
  /\ shutdowns \in 0..MaxShutdowns

Init ==
  /\ origin = [r \in Row |-> "none"]
  /\ registrations = 0
  /\ enabled = FALSE
  /\ state = [m \in Msg |-> "none"]
  /\ retry_count = [m \in Msg |-> 0]
  /\ posts = [m \in Msg |-> 0]
  /\ notifications = 0
  /\ pc = [s \in Session |-> "idle"]
  /\ l_payload = [s \in Session |-> NoMsg]
  /\ transaction = [s \in Session |-> {}]
  /\ failures = 0
  /\ shutdowns = 0

Goto(s, label) == pc' = [pc EXCEPT ![s] = label]

Logged(kind) == {r \in Row : origin[r] = kind}

Ready == {m \in Msg : state[m] = "ready"}

-----------------------------------------------------------------------------
\* log_action, an autonomous transaction: the next row is committed, and the
\* registrations are notified of it.
log_action(kind) ==
  \E r \in Logged("none") :
    /\ \A q \in Logged("none") : r <= q
    /\ origin' = [origin EXCEPT ![r] = kind]
    /\ state' = [m \in Msg |->
         IF m[1] = r /\ m[2] <= registrations THEN "notified" ELSE state[m]]

\* The other packages log.
LogAction ==
  /\ Cardinality(Logged("outside")) < MaxOutside
  /\ log_action("outside")
  /\ UNCHANGED <<registrations, enabled, retry_count, posts, notifications, sessions,
                 failures, shutdowns>>

\* register_log_cqn makes one more registration and drops none. Its query
\* raises when oqf_logs is empty, and then nothing says whether the open
\* registration survives.
register_log_cqn ==
  /\ registrations < MaxRegs
  /\ \E n \in IF Logged("none") = Row THEN {0, 1} ELSE {1} :
       registrations' = registrations + n
  /\ UNCHANGED <<origin, enabled, queue, posts, sessions, failures, shutdowns>>

\* The administrator starts QUEUE_LOGGER, which the installation leaves stopped.
StartQueue ==
  /\ ~enabled
  /\ enabled' = TRUE
  /\ UNCHANGED <<origin, registrations, queue, posts, sessions, failures, shutdowns>>

\* callback and uploadrows: the row is enqueued, provided the queue is started.
uploadrows(m) ==
  /\ state[m] = "notified"
  /\ state' = [state EXCEPT ![m] = IF enabled THEN "ready" ELSE "skipped"]
  /\ notifications' = IF enabled THEN notifications + 1 ELSE notifications
  /\ UNCHANGED <<origin, registrations, enabled, retry_count, posts, sessions,
                 failures, shutdowns>>

\* A notification without rowids is ignored, and one whose callback raises is
\* not repeated.
IgnoreNotification(m) ==
  /\ state[m] = "notified"
  /\ state' = [state EXCEPT ![m] = "lost"]
  /\ UNCHANGED <<origin, registrations, enabled, retry_count, posts, notifications,
                 sessions, failures, shutdowns>>

-----------------------------------------------------------------------------
\* Mutant of LogCallback: it is run without a notification.
LogCallbackUnasked(s) ==
  /\ pc[s] = "idle"
  /\ notifications' = notifications - 1
  /\ Goto(s, "dequeue")
  /\ UNCHANGED <<origin, registrations, enabled, state, retry_count, posts, l_payload,
                 transaction, failures, shutdowns>>

\* The queue runs log_callback for a notification.
LogCallback(s) ==
  /\ pc[s] = "idle" /\ notifications > 0
  /\ notifications' = notifications - 1
  /\ Goto(s, "dequeue")
  /\ UNCHANGED <<origin, registrations, enabled, state, retry_count, posts, l_payload,
                 transaction, failures, shutdowns>>

\* A ready message is dequeued and joins the transaction.
Dequeue(s) ==
  /\ pc[s] = "dequeue"
  /\ \E m \in Ready :
       /\ state' = [state EXCEPT ![m] = "locked"]
       /\ l_payload' = [l_payload EXCEPT ![s] = m]
       /\ transaction' = [transaction EXCEPT ![s] = @ \cup {m}]
  /\ Goto(s, "token")
  /\ UNCHANGED <<origin, registrations, enabled, retry_count, posts, notifications,
                 failures, shutdowns>>

\* The cached token is still valid.
UseToken(s) ==
  /\ pc[s] = "token"
  /\ Goto(s, "post")
  /\ UNCHANGED <<origin, registrations, enabled, queue, posts, l_payload, transaction,
                 failures, shutdowns>>

\* A new token is obtained, and that is logged.
RefreshToken(s) ==
  /\ pc[s] = "token"
  /\ Cardinality(Logged("refresh")) < MaxRefreshes
  /\ log_action("refresh")
  /\ Goto(s, "post")
  /\ UNCHANGED <<registrations, enabled, retry_count, posts, notifications, l_payload,
                 transaction, failures, shutdowns>>

\* Mutant of RollbackState: only the message at hand is rolled back, the
\* others stay locked.
RollbackLast(s) == [state EXCEPT ![l_payload[s]] = "delayed"]

\* Mutant of RollbackState: the exception is swallowed, and all is committed.
RollbackCommits(s) ==
  [m \in Msg |-> IF m \in transaction[s] THEN "removed" ELSE state[m]]

\* The messages of a transaction that is rolled back.
RollbackState(s) ==
  [m \in Msg |-> IF m \notin transaction[s] THEN state[m]
                 ELSE IF retry_count[m] + 1 > MaxRetries THEN "exception" ELSE "delayed"]

\* Mutant of Rollback: a retry is counted for the last message only.
RollbackCountsLast(s) ==
  /\ state' = RollbackState(s)
  /\ retry_count' = [retry_count EXCEPT ![l_payload[s]] = @ + 1]
  /\ l_payload' = [l_payload EXCEPT ![s] = NoMsg]
  /\ transaction' = [transaction EXCEPT ![s] = {}]
  /\ Goto(s, "idle")

\* Mutant of Rollback: no retry is counted.
RollbackUncounted(s) ==
  /\ state' = RollbackState(s)
  /\ l_payload' = [l_payload EXCEPT ![s] = NoMsg]
  /\ transaction' = [transaction EXCEPT ![s] = {}]
  /\ Goto(s, "idle")
  /\ UNCHANGED retry_count

\* The callback raises, and each of its messages has one more retry counted.
Rollback(s) ==
  /\ state' = RollbackState(s)
  /\ retry_count' = [m \in Msg |->
       IF m \in transaction[s] THEN retry_count[m] + 1 ELSE retry_count[m]]
  /\ l_payload' = [l_payload EXCEPT ![s] = NoMsg]
  /\ transaction' = [transaction EXCEPT ![s] = {}]
  /\ Goto(s, "idle")

\* One failure more, within the bound.
Failure == failures < MaxFailures /\ failures' = failures + 1

\* Authentication fails, and that is logged: the row is committed whatever
\* becomes of the callback.
AuthError(s) ==
  /\ pc[s] = "token"
  /\ Failure
  /\ log_action("error")
  /\ Goto(s, "raise")
  /\ UNCHANGED <<registrations, enabled, retry_count, posts, notifications, l_payload,
                 transaction, shutdowns>>

\* e_auth_error is raised and leaves the callback.
RaiseAuthError(s) ==
  /\ pc[s] = "raise"
  /\ Rollback(s)
  /\ UNCHANGED <<origin, registrations, enabled, posts, notifications, failures,
                 shutdowns>>

\* The token request raises.
TokenRaises(s) ==
  /\ pc[s] = "token"
  /\ Failure
  /\ Rollback(s)
  /\ UNCHANGED <<origin, registrations, enabled, posts, notifications, shutdowns>>

\* The POST raises; the endpoint may have received it.
PostRaises(s) ==
  /\ pc[s] = "post"
  /\ Failure
  /\ \E n \in {0, 1} : posts' = [posts EXCEPT ![l_payload[s]] = @ + n]
  /\ Rollback(s)
  /\ UNCHANGED <<origin, registrations, enabled, notifications, shutdowns>>

\* The POST returns, with whatever status code.
Post(s) ==
  /\ pc[s] = "post"
  /\ posts' = [posts EXCEPT ![l_payload[s]] = @ + 1]
  /\ Goto(s, "dequeue")
  /\ UNCHANGED <<origin, registrations, enabled, queue, l_payload, transaction,
                 failures, shutdowns>>

\* e_end_of_fetch: the callback returns, and its transaction is committed.
EndOfFetch(s) ==
  /\ pc[s] = "dequeue" /\ Ready = {}
  /\ state' = [m \in Msg |-> IF m \in transaction[s] THEN "removed" ELSE state[m]]
  /\ l_payload' = [l_payload EXCEPT ![s] = NoMsg]
  /\ transaction' = [transaction EXCEPT ![s] = {}]
  /\ Goto(s, "idle")
  /\ UNCHANGED <<origin, registrations, enabled, retry_count, posts, notifications,
                 failures, shutdowns>>

\* Mutant of RetryDelayOver: the message is ready and nobody is told.
RetryUnnoticed(m) ==
  /\ state[m] = "delayed"
  /\ state' = [state EXCEPT ![m] = "ready"]
  /\ UNCHANGED <<origin, registrations, enabled, retry_count, posts, notifications,
                 sessions, failures, shutdowns>>

\* retry_delay is over.
RetryDelayOver(m) ==
  /\ state[m] = "delayed"
  /\ state' = [state EXCEPT ![m] = "ready"]
  /\ notifications' = notifications + 1
  /\ UNCHANGED <<origin, registrations, enabled, retry_count, posts, sessions,
                 failures, shutdowns>>

\* The instance goes down and comes up: unhandled change notifications are
\* lost, and the callbacks' transactions are undone without a retry counted.
Shutdown ==
  /\ shutdowns < MaxShutdowns
  /\ shutdowns' = shutdowns + 1
  /\ state' = [m \in Msg |-> CASE state[m] = "notified" -> "lost"
                               [] state[m] = "locked"   -> "ready"
                               [] OTHER                 -> state[m]]
  /\ pc' = [s \in Session |-> "idle"]
  /\ l_payload' = [s \in Session |-> NoMsg]
  /\ transaction' = [s \in Session |-> {}]
  /\ UNCHANGED <<origin, registrations, enabled, retry_count, posts, notifications,
                 failures>>

SessionStep(s) ==
  \/ Dequeue(s) \/ UseToken(s) \/ RefreshToken(s)
  \/ AuthError(s) \/ RaiseAuthError(s) \/ TokenRaises(s)
  \/ PostRaises(s) \/ Post(s) \/ EndOfFetch(s)

Next ==
  \/ LogAction \/ register_log_cqn \/ StartQueue \/ Shutdown
  \/ \E m \in Msg : uploadrows(m) \/ IgnoreNotification(m) \/ RetryDelayOver(m)
  \/ \E s \in Session : LogCallback(s) \/ SessionStep(s)

Spec == Init /\ [][Next]_vars

\* The database runs its callbacks, and a callback that has begun runs on.
FairSpec ==
  /\ Spec
  /\ \A s \in Session : WF_vars(SessionStep(s))
  /\ \A m \in Msg : WF_vars(RetryDelayOver(m)) /\ WF_vars(uploadrows(m))
  /\ WF_vars(\E s \in Session : LogCallback(s))

-----------------------------------------------------------------------------
(* Properties *)

\* A log message is forgotten only after a POST of it was received, although
\* the whole transaction is committed at once and rolled back at once.
NothingUnposted == \A m \in Msg : state[m] = "removed" => posts[m] >= 1

\* A row reaches the endpoint at most once per registration, per rolled back
\* transaction it was part of, and per shutdown: a failing neighbour makes
\* duplicates of it, but never without a retry being counted.
PostBound == \A m \in Msg : posts[m] <= retry_count[m] + shutdowns + 1

\* The retries counted so far: <<m, n>> is the n-th retry of m.
Retries == {r \in Msg \X (1..MaxRetries + 1) : r[2] <= retry_count[r[1]]}

\* The callbacks that have logged an error and not raised it yet.
Raising == {s \in Session : pc[s] = "raise"}

\* The pipeline's errors about itself are paid for: each costs at least one
\* message a retry, so a failing pipeline cannot log forever about the same
\* messages. Only a shutdown between the row, which is committed at once, and
\* the exception leaves an error unpaid, and at most one for each session.
ErrorsArePaid ==
  Cardinality(Logged("error"))
    <= Cardinality(Retries) + Cardinality(Raising) + Cardinality(Session) * shutdowns

\* A transaction's messages are locked, and only they are: none is posted by
\* two callbacks, and none is stuck when the callback has gone.
LockedInTransaction ==
  /\ \A m \in Msg :
       state[m] = "locked" <=> \E s \in Session : m \in transaction[s]
  /\ \A s, t \in Session : s # t => transaction[s] \cap transaction[t] = {}

\* The promise: BatchDelivery, with these mappings of the variables.
AbstractStatus ==
  [m \in Msg |-> CASE state[m] = "none"                -> "absent"
                   [] state[m] = "notified"            -> "announced"
                   [] state[m] \in {"skipped", "lost"} -> "dropped"
                   [] state[m] = "removed"             -> "sent"
                   [] state[m] = "exception"           -> "setAside"
                   [] OTHER                            -> "pending"]

Promise == INSTANCE BatchDelivery WITH
  MaxAttempts <- MaxRetries + 1,
  status <- AbstractStatus, delivered <- posts, attempts <- retry_count

\* The pipeline keeps the promise: the messages of a transaction are forgotten
\* together, each of them posted, or fail together, and the rows that the
\* pipeline logs about itself are new messages of their own.
ImplementsPromise == Promise!Spec

\* When errors and refreshes end, so does the feedback: every row the callback
\* is notified of leaves the pipeline, unless an instance shutdown intervenes.
Settled(m) == state[m] \in {"skipped", "lost", "removed", "exception"}
EventuallySettled ==
  \A m \in Msg : state[m] = "notified" ~> (Settled(m) \/ shutdowns > 0)
=============================================================================
