-------------------------- MODULE LogPipelineProofs --------------------------
(***************************************************************************)
(* Theorems about the log pipeline for any number of rows, registrations,  *)
(* sessions, retries, failures and shutdowns.                              *)
(*                                                                         *)
(* The inductive invariant is Inv. What makes the transaction of a         *)
(* callback hard is that it holds several messages at once: at most one of *)
(* them is still to be posted, the one AtHand, and the others have been.   *)
(***************************************************************************)
EXTENDS LogPipeline, FiniteSetTheorems, TLAPS

Labels == {"idle", "dequeue", "token", "raise", "post"}

\* A callback holds messages only while it runs, and the one it is about to
\* post is one of them.
SessionInv ==
  \A s \in Session :
    /\ pc[s] = "idle" => transaction[s] = {}
    /\ pc[s] \in {"token", "raise", "post"} => l_payload[s] \in transaction[s]

\* A row that nobody has logged is in no message.
FreshInv == \A m \in Msg : origin[m[1]] = "none" => state[m] = "none"

\* A message not yet set aside has a retry left.
RetryInv == \A m \in Msg : retry_count[m] <= MaxRetries \/ state[m] = "exception"

\* The message of the transaction that has not been posted yet.
AtHand(s, m) == pc[s] \in {"token", "raise", "post"} /\ l_payload[s] = m

\* The others have.
PostedInv ==
  \A s \in Session : \A m \in transaction[s] : AtHand(s, m) \/ posts[m] >= 1

Inv ==
  /\ TypeOK
  /\ SessionInv
  /\ FreshInv
  /\ RetryInv
  /\ LockedInTransaction
  /\ PostedInv
  /\ NothingUnposted

\* A message whose last POST no retry and no shutdown has paid for yet.
Accepted(m) ==
  \/ state[m] = "removed"
  \/ \E s \in Session : m \in transaction[s] /\ ~AtHand(s, m)

DupInv ==
  \A m \in Msg :
    /\ posts[m] <= retry_count[m] + shutdowns + 1
    /\ ~Accepted(m) => posts[m] <= retry_count[m] + shutdowns

-----------------------------------------------------------------------------
LEMMA InitInv == Init => Inv
<1> SUFFICES ASSUME Init PROVE Inv
  OBVIOUS
<1>0. {MaxRegs, MaxRetries, MaxFailures, MaxShutdowns} \subseteq Nat
  BY LogAssumption DEF LogAssumption
<1>1. TypeOK
  <2>1. /\ origin \in [Row -> Origin] /\ state \in [Msg -> MsgState]
        /\ pc \in [Session -> Labels]
    BY DEF Init, MsgState, Origin, Labels
  <2>2. /\ retry_count \in [Msg -> 0..MaxRetries + 1] /\ posts \in [Msg -> Nat]
        /\ registrations \in 0..MaxRegs /\ notifications \in Nat
        /\ failures \in 0..MaxFailures /\ shutdowns \in 0..MaxShutdowns
    BY <1>0 DEF Init
  <2>3. /\ l_payload \in [Session -> Msg \cup {NoMsg}]
        /\ transaction \in [Session -> SUBSET Msg] /\ enabled \in BOOLEAN
    BY DEF Init
  <2>4. QED
    BY <2>1, <2>2, <2>3 DEF TypeOK, Labels
<1>2. SessionInv /\ FreshInv /\ RetryInv
  <2>1. SessionInv /\ FreshInv
    BY DEF Init, SessionInv, FreshInv
  <2>2. RetryInv
    BY <1>0 DEF Init, RetryInv
  <2>3. QED
    BY <2>1, <2>2
<1>3. LockedInTransaction /\ PostedInv /\ NothingUnposted
  BY DEF Init, LockedInTransaction, PostedInv, NothingUnposted
<1>4. QED
  BY <1>1, <1>2, <1>3 DEF Inv

\* The types the steps below are about.
LEMMA Types ==
  ASSUME TypeOK
  PROVE  /\ origin \in [Row -> Origin] /\ state \in [Msg -> MsgState]
         /\ retry_count \in [Msg -> Nat] /\ posts \in [Msg -> Nat]
         /\ pc \in [Session -> Labels] /\ transaction \in [Session -> SUBSET Msg]
         /\ l_payload \in [Session -> Msg \cup {NoMsg}]
         /\ registrations \in Nat /\ notifications \in Nat /\ shutdowns \in Nat
         /\ MaxRetries \in Nat
BY LogAssumption DEF LogAssumption, TypeOK, Labels

\* The messages of a transaction are locked and have a retry left.
LEMMA TransactionMessage ==
  ASSUME Inv, NEW s \in Session, NEW m \in transaction[s]
  PROVE  /\ m \in Msg /\ state[m] = "locked" /\ retry_count[m] \in 0..MaxRetries
         /\ \A t \in Session : m \in transaction[t] => t = s
<1>1. TypeOK /\ LockedInTransaction /\ RetryInv
  BY DEF Inv
<1>2. m \in Msg
  BY <1>1, Types
<1>3. state[m] = "locked"
  BY <1>1, <1>2 DEF LockedInTransaction
<1>4. retry_count[m] \in 0..MaxRetries
  BY <1>1, <1>2, <1>3, Types DEF RetryInv
<1>5. \A t \in Session : m \in transaction[t] => t = s
  BY <1>1 DEF LockedInTransaction
<1>6. QED
  BY <1>2, <1>3, <1>4, <1>5

\* What log_action does to the messages: it creates those of the new row and
\* leaves the others as they are.
Creates ==
  \A m \in Msg :
    state'[m] # state[m] => state[m] = "none" /\ state'[m] = "notified"

LEMMA LogCreates ==
  ASSUME TypeOK, FreshInv, NEW kind \in Origin \ {"none"}, log_action(kind)
  PROVE  /\ origin' \in [Row -> Origin] /\ state' \in [Msg -> MsgState]
         /\ Creates /\ FreshInv'
<1>1. PICK r \in Logged("none") :
        /\ origin' = [origin EXCEPT ![r] = kind]
        /\ state' = [m \in Msg |->
             IF m[1] = r /\ m[2] <= registrations THEN "notified" ELSE state[m]]
  BY DEF log_action
<1>2. r \in Row /\ origin[r] = "none"
  BY DEF Logged
<1>3. origin' \in [Row -> Origin]
  BY <1>1, Types
<1>4. state' \in [Msg -> MsgState]
  BY <1>1, Types DEF MsgState
<1>5. ASSUME NEW m \in Msg
      PROVE  state'[m] # state[m] => state[m] = "none" /\ state'[m] = "notified"
  BY <1>1, <1>2 DEF FreshInv
<1>6. ASSUME NEW m \in Msg, origin'[m[1]] = "none" PROVE state'[m] = "none"
  <2>1. m[1] \in Row
    BY DEF Msg
  <2>2. m[1] # r /\ origin[m[1]] = "none"
    BY <1>1, <1>2, <1>6, <2>1, Types
  <2>3. QED
    BY <1>1, <1>6, <2>2 DEF FreshInv
<1>7. QED
  BY <1>3, <1>4, <1>5, <1>6 DEF Creates, FreshInv

\* What an exception does to the messages.
LEMMA RollbackMessages ==
  ASSUME Inv, NEW s \in Session
  PROVE  /\ RollbackState(s) \in [Msg -> MsgState]
         /\ \A m \in Msg \ transaction[s] : RollbackState(s)[m] = state[m]
         /\ \A m \in transaction[s] :
              RollbackState(s)[m] =
                IF retry_count[m] + 1 > MaxRetries THEN "exception" ELSE "delayed"
         /\ \A m \in Msg : state[m] = "none" => RollbackState(s)[m] = "none"
<1>1. RollbackState(s) \in [Msg -> MsgState]
  BY Types DEF RollbackState, MsgState, Inv
<1>2. \A m \in Msg \ transaction[s] : RollbackState(s)[m] = state[m]
  BY DEF RollbackState
<1>3. \A m \in transaction[s] : m \in Msg /\ state[m] = "locked"
  BY TransactionMessage
<1>4. QED
  BY <1>1, <1>2, <1>3 DEF RollbackState

\* A callback that raises keeps everything in order, whatever it posted.
LEMMA RollbackKeeps ==
  ASSUME Inv, NEW s \in Session, pc[s] \in {"token", "raise", "post"}, Rollback(s),
         failures' \in 0..MaxFailures,
         posts' \in [Msg -> Nat], \A m \in Msg : posts'[m] >= posts[m],
         UNCHANGED <<origin, registrations, enabled, notifications, shutdowns>>
  PROVE  Inv'
<1> USE LogAssumption DEF LogAssumption
<1>0. TypeOK
  BY DEF Inv
<1>1. /\ state' = RollbackState(s)
      /\ retry_count' = [m \in Msg |->
           IF m \in transaction[s] THEN retry_count[m] + 1 ELSE retry_count[m]]
      /\ l_payload' = [l_payload EXCEPT ![s] = NoMsg]
      /\ transaction' = [transaction EXCEPT ![s] = {}]
      /\ pc' = [pc EXCEPT ![s] = "idle"]
  BY DEF Rollback, Goto
<1>2. \A m \in transaction[s] :
        /\ m \in Msg /\ state[m] = "locked" /\ retry_count[m] \in 0..MaxRetries
        /\ state'[m] = IF retry_count[m] + 1 > MaxRetries THEN "exception" ELSE "delayed"
  BY <1>1, TransactionMessage, RollbackMessages
<1>3. \A m \in Msg \ transaction[s] : state'[m] = state[m]
  BY <1>1, RollbackMessages
<1>4. TypeOK'
  <2>1. retry_count' \in [Msg -> 0..MaxRetries + 1]
    BY <1>0, <1>1, <1>2 DEF TypeOK
  <2>2. state' \in [Msg -> MsgState]
    BY <1>1, RollbackMessages
  <2>3. /\ pc' \in [Session -> Labels]
        /\ l_payload' \in [Session -> Msg \cup {NoMsg}]
        /\ transaction' \in [Session -> SUBSET Msg]
    BY <1>0, <1>1, Types DEF Labels
  <2>4. QED
    BY <1>0, <2>1, <2>2, <2>3 DEF TypeOK, Labels
<1>5. SessionInv'
  BY <1>0, <1>1, Types DEF Inv, SessionInv
<1>6. FreshInv' /\ RetryInv'
  <2>0. FreshInv'
    BY <1>2, <1>3 DEF Inv, FreshInv
  <2> SUFFICES ASSUME NEW m \in Msg
               PROVE  retry_count'[m] <= MaxRetries \/ state'[m] = "exception"
    BY <2>0 DEF RetryInv
  <2>1. CASE m \in transaction[s]
    BY <1>1, <1>2, <2>1
  <2>2. CASE m \notin transaction[s]
    BY <1>1, <1>3, <2>2 DEF Inv, RetryInv
  <2>3. QED
    BY <2>1, <2>2
<1>7. LockedInTransaction'
  <2>1. \A t \in Session : transaction'[t] = IF t = s THEN {} ELSE transaction[t]
    BY <1>0, <1>1, Types
  <2>2. ASSUME NEW m \in Msg
        PROVE  state'[m] = "locked" <=> \E t \in Session : m \in transaction'[t]
    <3>1. CASE m \in transaction[s]
      BY <1>2, <2>1, <3>1, TransactionMessage
    <3>2. CASE m \notin transaction[s]
      BY <1>3, <2>1, <3>2 DEF Inv, LockedInTransaction
    <3>3. QED
      BY <3>1, <3>2
  <2>3. QED
    BY <2>1, <2>2 DEF Inv, LockedInTransaction
<1>8. PostedInv'
  <2> SUFFICES ASSUME NEW t \in Session, NEW m \in transaction'[t]
               PROVE  AtHand(t, m)' \/ posts'[m] >= 1
    BY DEF PostedInv
  <2>1. t # s /\ m \in transaction[t]
    BY <1>0, <1>1, Types
  <2>2. AtHand(t, m)' <=> AtHand(t, m)
    BY <1>0, <1>1, <2>1, Types DEF AtHand
  <2>3. m \in Msg
    BY <1>0, <2>1, Types
  <2>4. QED
    BY <1>0, <2>1, <2>2, <2>3, Types DEF Inv, PostedInv
<1>9. NothingUnposted'
  <2> SUFFICES ASSUME NEW m \in Msg, state'[m] = "removed" PROVE posts'[m] >= 1
    BY DEF NothingUnposted
  <2>1. state[m] = "removed"
    BY <1>2, <1>3
  <2>2. QED
    BY <1>0, <2>1, Types DEF Inv, NothingUnposted
<1>10. QED
  BY <1>4, <1>5, <1>6, <1>7, <1>8, <1>9 DEF Inv

\* Steps that only log, or do nothing, change no message but a new one.
LEMMA QuietKeeps ==
  ASSUME Inv, origin' \in [Row -> Origin], state' \in [Msg -> MsgState],
         Creates, FreshInv', failures' \in 0..MaxFailures,
         registrations' \in 0..MaxRegs, enabled' \in BOOLEAN, notifications' \in Nat,
         pc' \in [Session -> Labels],
         \A s \in Session : /\ pc'[s] = "idle" <=> pc[s] = "idle"
                            /\ pc'[s] = "dequeue" <=> pc[s] = "dequeue",
         UNCHANGED <<retry_count, posts, l_payload, transaction, shutdowns>>
  PROVE  Inv'
<1>1. TypeOK'
  BY DEF Inv, TypeOK, Labels
<1>2. SessionInv'
  BY DEF Inv, TypeOK, SessionInv, Labels
<1>3. RetryInv'
  BY DEF Inv, RetryInv, Creates
<1>4. LockedInTransaction'
  BY DEF Inv, LockedInTransaction, Creates
<1>5. PostedInv'
  BY DEF Inv, TypeOK, PostedInv, AtHand, Labels
<1>6. NothingUnposted'
  BY DEF Inv, NothingUnposted, Creates
<1>7. QED
  BY <1>1, <1>2, <1>3, <1>4, <1>5, <1>6 DEF Inv

\* Steps of the queue that move one message nobody holds.
LEMMA MoveKeeps ==
  ASSUME Inv, NEW m \in Msg, NEW x \in MsgState \ {"none", "locked", "removed"},
         state[m] \in {"notified", "delayed"}, state' = [state EXCEPT ![m] = x],
         notifications' \in Nat,
         UNCHANGED <<origin, registrations, enabled, retry_count, posts, sessions,
                     failures, shutdowns>>
  PROVE  Inv'
<1> USE DEF sessions
<1>1. TypeOK'
  BY DEF Inv, TypeOK, MsgState
<1>2. SessionInv' /\ PostedInv'
  BY DEF Inv, SessionInv, PostedInv, AtHand
<1>3. FreshInv' /\ RetryInv' /\ NothingUnposted'
  BY Types DEF Inv, FreshInv, RetryInv, NothingUnposted
<1>4. LockedInTransaction'
  BY Types DEF Inv, LockedInTransaction
<1>5. QED
  BY <1>1, <1>2, <1>3, <1>4 DEF Inv

\* Every step outside the sessions keeps the invariant.
LEMMA QueueKeeps ==
  ASSUME Inv,
         \/ LogAction \/ register_log_cqn \/ StartQueue \/ Shutdown
         \/ \E m \in Msg : uploadrows(m) \/ IgnoreNotification(m) \/ RetryDelayOver(m)
         \/ \E s \in Session : LogCallback(s)
  PROVE  Inv'
<1>0. TypeOK /\ FreshInv
  BY DEF Inv
<1>1. CASE LogAction
  <2>1. log_action("outside") /\ "outside" \in Origin \ {"none"}
    BY <1>1 DEF LogAction, Origin
  <2>2. /\ origin' \in [Row -> Origin] /\ state' \in [Msg -> MsgState]
        /\ Creates /\ FreshInv'
    BY <1>0, <2>1, LogCreates
  <2>3. QED
    BY <1>0, <1>1, <2>2, QuietKeeps, Types DEF LogAction, TypeOK, sessions
<1>2. CASE register_log_cqn
  <2>1. registrations' \in 0..MaxRegs
    BY <1>0, <1>2, LogAssumption DEF LogAssumption, register_log_cqn, TypeOK
  <2>2. UNCHANGED <<origin, enabled, state, retry_count, notifications, posts, pc,
                    l_payload, transaction, failures, shutdowns>>
    BY <1>2 DEF register_log_cqn, queue, sessions
  <2>3. Creates /\ FreshInv'
    BY <1>0, <2>2 DEF Creates, FreshInv
  <2>4. QED
    BY <1>0, <2>1, <2>2, <2>3, QuietKeeps, Types DEF TypeOK
<1>3. CASE StartQueue
  <2>1. UNCHANGED <<origin, registrations, state, retry_count, notifications, posts, pc,
                    l_payload, transaction, failures, shutdowns>>
    BY <1>3 DEF StartQueue, queue, sessions
  <2>2. Creates /\ FreshInv' /\ enabled' \in BOOLEAN
    BY <1>0, <1>3, <2>1 DEF Creates, FreshInv, StartQueue
  <2>3. QED
    BY <1>0, <2>1, <2>2, QuietKeeps, Types DEF TypeOK
<1>4. CASE Shutdown
  <2>1. /\ pc' = [s \in Session |-> "idle"]
        /\ l_payload' = [s \in Session |-> NoMsg]
        /\ transaction' = [s \in Session |-> {}]
        /\ shutdowns' \in 0..MaxShutdowns
        /\ UNCHANGED <<origin, registrations, enabled, retry_count, posts,
                       notifications, failures>>
    BY <1>0, <1>4, LogAssumption DEF LogAssumption, Shutdown, TypeOK
  <2>2. /\ state' \in [Msg -> MsgState]
        /\ \A m \in Msg : /\ state'[m] # "locked"
                          /\ state[m] = "none" => state'[m] = "none"
                          /\ state[m] = "exception" => state'[m] = "exception"
                          /\ state'[m] = "removed" => state[m] = "removed"
    <3> DEFINE x(m) == IF state[m] = "notified" THEN "lost"
                       ELSE IF state[m] = "locked" THEN "ready" ELSE state[m]
    <3>1. state' = [m \in Msg |-> x(m)]
      BY <1>4 DEF Shutdown
    <3>2. QED
      BY <1>0, <3>1, Types DEF MsgState
  <2>3. TypeOK'
    BY <1>0, <2>1, <2>2 DEF TypeOK
  <2>4. SessionInv' /\ PostedInv'
    BY <2>1 DEF SessionInv, PostedInv
  <2>5. FreshInv' /\ RetryInv' /\ NothingUnposted' /\ LockedInTransaction'
    BY <2>1, <2>2 DEF Inv, FreshInv, RetryInv, NothingUnposted, LockedInTransaction
  <2>6. QED
    BY <2>3, <2>4, <2>5 DEF Inv
<1>5. ASSUME NEW m \in Msg, uploadrows(m) PROVE Inv'
  <2>1. /\ state[m] = "notified" /\ notifications' \in Nat
        /\ UNCHANGED <<origin, registrations, enabled, retry_count, posts, sessions,
                       failures, shutdowns>>
    BY <1>0, <1>5, Types DEF uploadrows
  <2>2. \/ state' = [state EXCEPT ![m] = "ready"]
        \/ state' = [state EXCEPT ![m] = "skipped"]
    BY <1>5 DEF uploadrows
  <2>3. QED
    BY <2>1, <2>2, MoveKeeps DEF MsgState
<1>6. ASSUME NEW m \in Msg, IgnoreNotification(m) PROVE Inv'
  BY <1>0, <1>6, MoveKeeps, Types DEF IgnoreNotification, MsgState
<1>7. ASSUME NEW m \in Msg, RetryDelayOver(m) PROVE Inv'
  <2>1. /\ state[m] = "delayed" /\ state' = [state EXCEPT ![m] = "ready"]
        /\ notifications' \in Nat
        /\ UNCHANGED <<origin, registrations, enabled, retry_count, posts, sessions,
                       failures, shutdowns>>
    BY <1>0, <1>7, Types DEF RetryDelayOver
  <2>2. QED
    BY <2>1, MoveKeeps DEF MsgState
<1>8. ASSUME NEW s \in Session, LogCallback(s) PROVE Inv'
  <2>1. /\ pc[s] = "idle" /\ pc' = [pc EXCEPT ![s] = "dequeue"] /\ notifications' \in Nat
        /\ UNCHANGED <<origin, registrations, enabled, state, retry_count, posts,
                       l_payload, transaction, failures, shutdowns>>
    BY <1>0, <1>8, Types DEF LogCallback, Goto
  <2>2. TypeOK'
    BY <1>0, <2>1 DEF TypeOK
  <2>3. SessionInv' /\ PostedInv'
    BY <1>0, <2>1, Types DEF Inv, SessionInv, PostedInv, AtHand
  <2>4. FreshInv' /\ RetryInv' /\ NothingUnposted' /\ LockedInTransaction'
    BY <2>1 DEF Inv, FreshInv, RetryInv, NothingUnposted, LockedInTransaction
  <2>5. QED
    BY <2>2, <2>3, <2>4 DEF Inv
<1>9. QED
  BY <1>1, <1>2, <1>3, <1>4, <1>5, <1>6, <1>7, <1>8

\* Every step of a session keeps the invariant.
LEMMA SessionKeeps ==
  ASSUME Inv, NEW s \in Session, SessionStep(s)
  PROVE  Inv'
<1>0. TypeOK /\ FreshInv
  BY DEF Inv
<1>1. CASE Dequeue(s)
  <2>1. PICK m \in Ready : /\ state' = [state EXCEPT ![m] = "locked"]
                           /\ l_payload' = [l_payload EXCEPT ![s] = m]
                           /\ transaction' = [transaction EXCEPT ![s] = @ \cup {m}]
    BY <1>1 DEF Dequeue
  <2>2. /\ pc[s] = "dequeue" /\ pc' = [pc EXCEPT ![s] = "token"]
        /\ UNCHANGED <<origin, registrations, enabled, retry_count, posts,
                       notifications, failures, shutdowns>>
    BY <1>1 DEF Dequeue, Goto
  <2>3. m \in Msg /\ state[m] = "ready"
    BY DEF Ready
  <2>4. \A t \in Session : m \notin transaction[t]
    BY <2>3 DEF Inv, LockedInTransaction
  <2>5. \A t \in Session : transaction'[t] =
          IF t = s THEN transaction[s] \cup {m} ELSE transaction[t]
    BY <1>0, <2>1, Types
  <2>6. TypeOK'
    <3>1. /\ state' \in [Msg -> MsgState] /\ pc' \in [Session -> Labels]
          /\ l_payload' \in [Session -> Msg \cup {NoMsg}]
          /\ transaction' \in [Session -> SUBSET Msg]
      BY <1>0, <2>1, <2>2, <2>3, Types DEF MsgState, Labels
    <3>2. QED
      BY <1>0, <2>2, <3>1 DEF TypeOK, Labels
  <2>7. SessionInv'
    BY <1>0, <2>1, <2>2, <2>5, Types DEF Inv, SessionInv
  <2>8. FreshInv' /\ RetryInv' /\ NothingUnposted'
    BY <1>0, <2>1, <2>2, <2>3, Types DEF Inv, FreshInv, RetryInv, NothingUnposted
  <2>9. LockedInTransaction'
    <3>1. ASSUME NEW k \in Msg
          PROVE  state'[k] = "locked" <=> \E t \in Session : k \in transaction'[t]
      BY <1>0, <2>1, <2>3, <2>5, Types DEF Inv, LockedInTransaction
    <3>2. ASSUME NEW t \in Session, NEW u \in Session, t # u
          PROVE  transaction'[t] \cap transaction'[u] = {}
      BY <2>4, <2>5, <3>2 DEF Inv, LockedInTransaction
    <3>3. QED
      BY <3>1, <3>2 DEF LockedInTransaction
  <2>10. PostedInv'
    <3> SUFFICES ASSUME NEW t \in Session, NEW k \in transaction'[t]
                 PROVE  AtHand(t, k)' \/ posts'[k] >= 1
      BY DEF PostedInv
    <3>1. CASE t = s /\ k = m
      BY <1>0, <2>1, <2>2, <3>1, Types DEF AtHand
    <3>2. CASE t = s /\ k # m
      BY <2>2, <2>5, <3>2 DEF Inv, PostedInv, AtHand
    <3>3. CASE t # s
      BY <1>0, <2>1, <2>2, <2>5, <3>3, Types DEF Inv, PostedInv, AtHand
    <3>4. QED
      BY <3>1, <3>2, <3>3
  <2>11. QED
    BY <2>6, <2>7, <2>8, <2>9, <2>10 DEF Inv
<1>2. CASE UseToken(s)
  <2>1. /\ pc[s] = "token" /\ pc' = [pc EXCEPT ![s] = "post"]
        /\ UNCHANGED <<origin, registrations, enabled, state, retry_count, notifications,
                       posts, l_payload, transaction, failures, shutdowns>>
    BY <1>2 DEF UseToken, Goto, queue
  <2>2. Creates /\ FreshInv'
    BY <1>0, <2>1 DEF Creates, FreshInv
  <2>3. pc' \in [Session -> Labels]
    BY <1>0, <2>1, Types DEF Labels
  <2>4. \A t \in Session : /\ pc'[t] = "idle" <=> pc[t] = "idle"
                           /\ pc'[t] = "dequeue" <=> pc[t] = "dequeue"
    BY <1>0, <2>1, Types
  <2>5. QED
    BY <1>0, <2>1, <2>2, <2>3, <2>4, QuietKeeps, Types DEF TypeOK
<1>3. CASE RefreshToken(s)
  <2>1. /\ pc[s] = "token" /\ pc' = [pc EXCEPT ![s] = "post"]
        /\ log_action("refresh")
        /\ UNCHANGED <<registrations, enabled, retry_count, notifications,
                       posts, l_payload, transaction, failures, shutdowns>>
    BY <1>3 DEF RefreshToken, Goto
  <2>2. "refresh" \in Origin \ {"none"}
    BY DEF Origin
  <2>3. /\ origin' \in [Row -> Origin] /\ state' \in [Msg -> MsgState]
        /\ Creates /\ FreshInv'
    BY <1>0, <2>1, <2>2, LogCreates
  <2>4. pc' \in [Session -> Labels]
    BY <1>0, <2>1, Types DEF Labels
  <2>5. \A t \in Session : /\ pc'[t] = "idle" <=> pc[t] = "idle"
                           /\ pc'[t] = "dequeue" <=> pc[t] = "dequeue"
    BY <1>0, <2>1, Types
  <2>6. QED
    BY <1>0, <2>1, <2>3, <2>4, <2>5, QuietKeeps, Types DEF TypeOK
<1>4. CASE AuthError(s)
  <2>1. /\ pc[s] = "token" /\ pc' = [pc EXCEPT ![s] = "raise"]
        /\ log_action("error")
        /\ UNCHANGED <<registrations, enabled, retry_count, notifications,
                       posts, l_payload, transaction, shutdowns>>
    BY <1>4 DEF AuthError, Goto
  <2>2. "error" \in Origin \ {"none"} /\ failures' \in 0..MaxFailures
    BY <1>0, <1>4, LogAssumption DEF LogAssumption, AuthError, Failure, TypeOK, Origin
  <2>3. /\ origin' \in [Row -> Origin] /\ state' \in [Msg -> MsgState]
        /\ Creates /\ FreshInv'
    BY <1>0, <2>1, <2>2, LogCreates
  <2>4. pc' \in [Session -> Labels]
    BY <1>0, <2>1, Types DEF Labels
  <2>5. \A t \in Session : /\ pc'[t] = "idle" <=> pc[t] = "idle"
                           /\ pc'[t] = "dequeue" <=> pc[t] = "dequeue"
    BY <1>0, <2>1, Types
  <2>6. QED
    BY <1>0, <2>1, <2>2, <2>3, <2>4, <2>5, QuietKeeps, Types DEF TypeOK
<1>5. CASE RaiseAuthError(s) \/ TokenRaises(s)
  <2>1. /\ pc[s] \in {"token", "raise", "post"} /\ Rollback(s)
        /\ UNCHANGED <<origin, registrations, enabled, posts, notifications, shutdowns>>
    BY <1>5 DEF RaiseAuthError, TokenRaises
  <2>2. failures' \in 0..MaxFailures
    BY <1>0, <1>5, LogAssumption
    DEF LogAssumption, RaiseAuthError, TokenRaises, Failure, TypeOK
  <2>3. posts' \in [Msg -> Nat] /\ \A m \in Msg : posts'[m] >= posts[m]
    BY <1>0, <2>1, Types
  <2>4. QED
    BY <2>1, <2>2, <2>3, RollbackKeeps
<1>6. CASE PostRaises(s)
  <2>1. /\ pc[s] = "post" /\ Rollback(s) /\ failures' \in 0..MaxFailures
        /\ UNCHANGED <<origin, registrations, enabled, notifications, shutdowns>>
    BY <1>0, <1>6, LogAssumption DEF LogAssumption, PostRaises, Failure, TypeOK
  <2>2. PICK n \in {0, 1} : posts' = [posts EXCEPT ![l_payload[s]] = @ + n]
    BY <1>6 DEF PostRaises
  <2>3. l_payload[s] \in Msg /\ posts \in [Msg -> Nat]
    BY <1>0, <2>1, Types DEF Inv, SessionInv
  <2>4. posts' \in [Msg -> Nat] /\ \A m \in Msg : posts'[m] >= posts[m]
    BY <2>2, <2>3
  <2>5. QED
    BY <2>1, <2>4, RollbackKeeps
<1>7. CASE Post(s)
  <2>1. /\ pc[s] = "post" /\ pc' = [pc EXCEPT ![s] = "dequeue"]
        /\ posts' = [posts EXCEPT ![l_payload[s]] = @ + 1]
        /\ UNCHANGED <<origin, registrations, enabled, state, retry_count, notifications,
                       l_payload, transaction, failures, shutdowns>>
    BY <1>7 DEF Post, Goto, queue
  <2>2. l_payload[s] \in Msg /\ posts \in [Msg -> Nat]
    BY <1>0, <2>1, Types DEF Inv, SessionInv
  <2>3. /\ posts' \in [Msg -> Nat] /\ posts'[l_payload[s]] >= 1
        /\ \A m \in Msg : posts'[m] >= posts[m]
    BY <2>1, <2>2
  <2>4. TypeOK'
    BY <1>0, <2>1, <2>3 DEF TypeOK
  <2>5. SessionInv'
    BY <1>0, <2>1, Types DEF Inv, SessionInv
  <2>6. FreshInv' /\ RetryInv' /\ LockedInTransaction'
    BY <2>1 DEF Inv, FreshInv, RetryInv, LockedInTransaction
  <2>7. PostedInv'
    <3> SUFFICES ASSUME NEW t \in Session, NEW m \in transaction[t]
                 PROVE  AtHand(t, m)' \/ posts'[m] >= 1
      BY <2>1 DEF PostedInv
    <3>1. m \in Msg
      BY <1>0, Types
    <3>2. CASE t = s /\ m = l_payload[s]
      BY <2>3, <3>2
    <3>3. CASE t = s /\ m # l_payload[s]
      BY <1>0, <2>3, <3>1, <3>3, Types DEF Inv, PostedInv, AtHand
    <3>4. CASE t # s
      BY <1>0, <2>1, <2>3, <3>1, <3>4, Types DEF Inv, PostedInv, AtHand
    <3>5. QED
      BY <3>2, <3>3, <3>4
  <2>8. NothingUnposted'
    BY <1>0, <2>1, <2>3, Types DEF Inv, NothingUnposted
  <2>9. QED
    BY <2>4, <2>5, <2>6, <2>7, <2>8 DEF Inv
<1>8. CASE EndOfFetch(s)
  <2>1. /\ pc[s] = "dequeue" /\ pc' = [pc EXCEPT ![s] = "idle"]
        /\ state' = [m \in Msg |-> IF m \in transaction[s] THEN "removed" ELSE state[m]]
        /\ l_payload' = [l_payload EXCEPT ![s] = NoMsg]
        /\ transaction' = [transaction EXCEPT ![s] = {}]
        /\ UNCHANGED <<origin, registrations, enabled, retry_count, posts,
                       notifications, failures, shutdowns>>
    BY <1>8 DEF EndOfFetch, Goto
  <2>2. \A m \in transaction[s] :
          /\ m \in Msg /\ state[m] = "locked" /\ retry_count[m] <= MaxRetries
          /\ \A t \in Session : m \in transaction[t] => t = s
          /\ posts[m] >= 1
    BY <1>0, <2>1, TransactionMessage, Types DEF Inv, PostedInv, AtHand
  <2>3. TypeOK'
    <3>1. /\ state' \in [Msg -> MsgState] /\ pc' \in [Session -> Labels]
          /\ l_payload' \in [Session -> Msg \cup {NoMsg}]
          /\ transaction' \in [Session -> SUBSET Msg]
      BY <1>0, <2>1, Types DEF MsgState, Labels
    <3>2. QED
      BY <1>0, <2>1, <3>1 DEF TypeOK, Labels
  <2>4. SessionInv'
    BY <1>0, <2>1, Types DEF Inv, SessionInv
  <2>5. FreshInv' /\ RetryInv' /\ NothingUnposted'
    BY <2>1, <2>2 DEF Inv, FreshInv, RetryInv, NothingUnposted
  <2>6. \A t \in Session : transaction'[t] = IF t = s THEN {} ELSE transaction[t]
    BY <1>0, <2>1, Types
  <2>7. LockedInTransaction'
    <3>1. ASSUME NEW m \in Msg
          PROVE  state'[m] = "locked" <=> \E t \in Session : m \in transaction'[t]
      BY <2>1, <2>2, <2>6 DEF Inv, LockedInTransaction
    <3>2. QED
      BY <2>6, <3>1 DEF Inv, LockedInTransaction
  <2>8. PostedInv'
    BY <1>0, <2>1, <2>6, Types DEF Inv, PostedInv, AtHand
  <2>9. QED
    BY <2>3, <2>4, <2>5, <2>7, <2>8 DEF Inv
<1>9. QED
  BY <1>1, <1>2, <1>3, <1>4, <1>5, <1>6, <1>7, <1>8 DEF SessionStep

LEMMA InvInductive == Inv /\ [Next]_vars => Inv'
<1> SUFFICES ASSUME Inv, [Next]_vars PROVE Inv'
  OBVIOUS
<1>1. CASE Next
  BY <1>1, SessionKeeps, QueueKeeps DEF Next
<1>2. CASE UNCHANGED vars
  <2>1. TypeOK' /\ SessionInv' /\ FreshInv' /\ RetryInv'
    BY <1>2 DEF vars, Inv, TypeOK, SessionInv, FreshInv, RetryInv
  <2>2. LockedInTransaction' /\ PostedInv' /\ NothingUnposted'
    BY <1>2 DEF vars, Inv, LockedInTransaction, PostedInv, AtHand, NothingUnposted
  <2>3. QED
    BY <2>1, <2>2 DEF Inv
<1>3. QED
  BY <1>1, <1>2

LEMMA Invariance == Spec => []Inv
BY InitInv, InvInductive, PTL DEF Spec

\* The pipeline's variables keep their types: in particular a retry is never
\* counted beyond max_retries + 1, however transactions are composed.
THEOREM TypeCorrect == Spec => []TypeOK
<1>1. Inv => TypeOK
  BY DEF Inv
<1>2. QED
  BY <1>1, Invariance, PTL

\* A log row leaves the queue as done only after the endpoint received it.
THEOREM NothingUnpostedHolds == Spec => []NothingUnposted
<1>1. Inv => NothingUnposted
  BY DEF Inv
<1>2. QED
  BY <1>1, Invariance, PTL

\* A message is locked exactly as long as one callback has it in its transaction.
THEOREM LockedInTransactionHolds == Spec => []LockedInTransaction
<1>1. Inv => LockedInTransaction
  BY DEF Inv
<1>2. QED
  BY <1>1, Invariance, PTL

-----------------------------------------------------------------------------
(* Duplicates: a POST of a message belongs to a transaction that was rolled  *)
(* back or undone by a shutdown, or to the one that holds it or removed it.  *)

\* A rolled back transaction pays for the POST each of its messages has had,
\* and for the one that raised.
LEMMA RollbackPays ==
  ASSUME Inv, DupInv, NEW s \in Session, pc[s] \in {"token", "raise", "post"},
         Rollback(s), NEW n \in {0, 1},
         posts' = [posts EXCEPT ![l_payload[s]] = @ + n], shutdowns' = shutdowns
  PROVE  DupInv'
<1>0. TypeOK
  BY DEF Inv
<1>1. /\ retry_count' = [m \in Msg |->
           IF m \in transaction[s] THEN retry_count[m] + 1 ELSE retry_count[m]]
      /\ transaction' = [transaction EXCEPT ![s] = {}]
      /\ pc' = [pc EXCEPT ![s] = "idle"]
      /\ l_payload' = [l_payload EXCEPT ![s] = NoMsg]
  BY DEF Rollback, Goto
<1>2. l_payload[s] \in transaction[s]
  BY DEF Inv, SessionInv
<1>3. posts \in [Msg -> Nat] /\ retry_count \in [Msg -> Nat] /\ shutdowns \in Nat
  BY <1>0, Types
<1> SUFFICES ASSUME NEW m \in Msg
             PROVE  /\ posts'[m] <= retry_count'[m] + shutdowns' + 1
                    /\ ~Accepted(m)' => posts'[m] <= retry_count'[m] + shutdowns'
  BY DEF DupInv
<1>4. CASE m = l_payload[s]
  <2>1. ~Accepted(m)
    BY <1>2, <1>4, TransactionMessage DEF Accepted, AtHand
  <2>2. posts[m] <= retry_count[m] + shutdowns
    BY <2>1 DEF DupInv
  <2>3. posts'[m] = posts[m] + n /\ retry_count'[m] = retry_count[m] + 1
    BY <1>1, <1>2, <1>3, <1>4
  <2>4. QED
    BY <1>3, <2>2, <2>3
<1>5. CASE m \in transaction[s] /\ m # l_payload[s]
  <2>1. posts[m] <= retry_count[m] + shutdowns + 1
    BY DEF DupInv
  <2>2. posts'[m] = posts[m] /\ retry_count'[m] = retry_count[m] + 1
    BY <1>1, <1>3, <1>5
  <2>3. QED
    BY <1>3, <2>1, <2>2
<1>6. CASE m \notin transaction[s]
  <2>1. posts'[m] = posts[m] /\ retry_count'[m] = retry_count[m]
    BY <1>1, <1>2, <1>3, <1>6
  <2>2. \A t \in Session : m \in transaction[t] => t # s
    BY <1>6
  <2>3. \A t \in Session : t # s => /\ transaction'[t] = transaction[t]
                                    /\ AtHand(t, m)' <=> AtHand(t, m)
    BY <1>0, <1>1, Types DEF AtHand
  <2>4. state[m] = "removed" => state'[m] = "removed"
    BY <1>6, RollbackMessages DEF Rollback
  <2>5. Accepted(m) => Accepted(m)'
    BY <2>2, <2>3, <2>4 DEF Accepted
  <2>6. QED
    BY <2>1, <2>5 DEF DupInv
<1>7. QED
  BY <1>4, <1>5, <1>6

LEMMA DupInductive == Inv /\ DupInv /\ [Next]_vars => DupInv'
<1> SUFFICES ASSUME Inv, DupInv, [Next]_vars PROVE DupInv'
  OBVIOUS
<1>0. TypeOK /\ FreshInv
  BY DEF Inv
\* Steps that post nothing and end no transaction.
<1>1. ASSUME UNCHANGED <<posts, retry_count, shutdowns>>,
             \A m \in Msg : Accepted(m) => Accepted(m)'
      PROVE  DupInv'
  BY <1>1 DEF DupInv
<1>2. ASSUME UNCHANGED <<pc, l_payload, transaction>>,
             \A m \in Msg : state[m] = "removed" => state'[m] = "removed"
      PROVE  \A m \in Msg : Accepted(m) => Accepted(m)'
  BY <1>2 DEF Accepted, AtHand
<1>3. CASE LogAction
  <2>1. log_action("outside") /\ "outside" \in Origin \ {"none"}
    BY <1>3 DEF LogAction, Origin
  <2>2. Creates
    BY <1>0, <2>1, LogCreates
  <2>3. QED
    BY <1>1, <1>2, <1>3, <2>2 DEF LogAction, sessions, Creates
<1>4. CASE register_log_cqn \/ StartQueue
  BY <1>1, <1>2, <1>4 DEF register_log_cqn, StartQueue, queue, sessions
<1>5. CASE Shutdown
  <2>1. /\ posts' = posts /\ retry_count' = retry_count /\ shutdowns' = shutdowns + 1
    BY <1>5 DEF Shutdown
  <2>2. posts \in [Msg -> Nat] /\ retry_count \in [Msg -> Nat] /\ shutdowns \in Nat
    BY <1>0, Types
  <2>3. QED
    BY <2>1, <2>2 DEF DupInv
<1>6. ASSUME NEW m \in Msg, uploadrows(m) \/ IgnoreNotification(m) \/ RetryDelayOver(m)
      PROVE  DupInv'
  <2>1. \A k \in Msg : state[k] = "removed" => state'[k] = "removed"
    BY <1>0, <1>6, Types DEF uploadrows, IgnoreNotification, RetryDelayOver
  <2>2. QED
    BY <1>1, <1>2, <1>6, <2>1 DEF uploadrows, IgnoreNotification, RetryDelayOver, sessions
<1>7. ASSUME NEW s \in Session, LogCallback(s) PROVE DupInv'
  <2>1. \A m \in Msg : \A t \in Session : AtHand(t, m)' <=> AtHand(t, m)
    BY <1>0, <1>7, Types DEF LogCallback, Goto, AtHand
  <2>2. QED
    BY <1>1, <1>7, <2>1 DEF LogCallback, Accepted
<1>8. ASSUME NEW s \in Session, Dequeue(s) PROVE DupInv'
  <2>1. PICK k \in Ready : /\ state' = [state EXCEPT ![k] = "locked"]
                           /\ l_payload' = [l_payload EXCEPT ![s] = k]
                           /\ transaction' = [transaction EXCEPT ![s] = @ \cup {k}]
    BY <1>8 DEF Dequeue
  <2>2. /\ pc[s] = "dequeue" /\ pc' = [pc EXCEPT ![s] = "token"]
        /\ UNCHANGED <<posts, retry_count, shutdowns>>
    BY <1>8 DEF Dequeue, Goto
  <2>3. k \in Msg /\ state[k] = "ready" /\ \A t \in Session : k \notin transaction[t]
    BY DEF Ready, Inv, LockedInTransaction
  <2>4. ASSUME NEW m \in Msg, Accepted(m) PROVE Accepted(m)'
    <3>1. m # k
      BY <2>3, <2>4 DEF Accepted
    <3>2. state'[m] = state[m]
      BY <1>0, <2>1, <2>3, <3>1, Types
    <3>3. ASSUME NEW t \in Session, m \in transaction[t], ~AtHand(t, m)
          PROVE  m \in transaction'[t] /\ ~AtHand(t, m)'
      BY <1>0, <2>1, <2>2, <3>1, <3>3, Types DEF AtHand
    <3>4. QED
      BY <2>4, <3>2, <3>3 DEF Accepted
  <2>5. QED
    BY <1>1, <2>2, <2>4
<1>9. ASSUME NEW s \in Session, UseToken(s) \/ RefreshToken(s) \/ AuthError(s)
      PROVE  DupInv'
  <2>1. /\ pc[s] = "token" /\ \E x \in {"raise", "post"} : pc' = [pc EXCEPT ![s] = x]
        /\ UNCHANGED <<posts, retry_count, shutdowns, l_payload, transaction>>
    BY <1>9 DEF UseToken, RefreshToken, AuthError, Goto, queue
  <2>2. \A m \in Msg : state[m] = "removed" => state'[m] = "removed"
    <3>1. CASE UseToken(s)
      BY <3>1 DEF UseToken, queue
    <3>2. CASE RefreshToken(s) \/ AuthError(s)
      <4>1. \E kind \in Origin \ {"none"} : log_action(kind)
        BY <3>2 DEF RefreshToken, AuthError, Origin
      <4>2. Creates
        BY <1>0, <4>1, LogCreates
      <4>3. QED
        BY <4>2 DEF Creates
    <3>3. QED
      BY <1>9, <3>1, <3>2
  <2>3. \A m \in Msg : \A t \in Session : AtHand(t, m)' <=> AtHand(t, m)
    BY <1>0, <2>1, Types DEF AtHand
  <2>4. \A m \in Msg : Accepted(m) => Accepted(m)'
    BY <2>1, <2>2, <2>3 DEF Accepted
  <2>5. QED
    BY <1>1, <2>1, <2>4
<1>10. ASSUME NEW s \in Session, RaiseAuthError(s) \/ TokenRaises(s) PROVE DupInv'
  <2>1. /\ pc[s] \in {"token", "raise", "post"} /\ Rollback(s)
        /\ posts' = posts /\ shutdowns' = shutdowns
    BY <1>10 DEF RaiseAuthError, TokenRaises
  <2>2. posts' = [posts EXCEPT ![l_payload[s]] = @ + 0]
    <3>1. l_payload[s] \in Msg /\ posts \in [Msg -> Nat]
      BY <1>0, <2>1, Types DEF Inv, SessionInv
    <3>2. QED
      BY <2>1, <3>1
  <2>3. QED
    BY <2>1, <2>2, RollbackPays
<1>11. ASSUME NEW s \in Session, PostRaises(s) PROVE DupInv'
  <2>1. pc[s] \in {"token", "raise", "post"} /\ Rollback(s) /\ shutdowns' = shutdowns
    BY <1>11 DEF PostRaises
  <2>2. PICK n \in {0, 1} : posts' = [posts EXCEPT ![l_payload[s]] = @ + n]
    BY <1>11 DEF PostRaises
  <2>3. QED
    BY <2>1, <2>2, RollbackPays
<1>12. ASSUME NEW s \in Session, Post(s) PROVE DupInv'
  <2>1. /\ pc[s] = "post" /\ pc' = [pc EXCEPT ![s] = "dequeue"]
        /\ posts' = [posts EXCEPT ![l_payload[s]] = @ + 1]
        /\ UNCHANGED <<state, retry_count, l_payload, transaction, shutdowns>>
    BY <1>12 DEF Post, Goto, queue
  <2>2. l_payload[s] \in transaction[s]
    BY <2>1 DEF Inv, SessionInv
  <2>3. posts \in [Msg -> Nat] /\ retry_count \in [Msg -> Nat] /\ shutdowns \in Nat
    BY <1>0, Types
  <2>4. \A m \in Msg, t \in Session :
          ~AtHand(t, m)' <=> ~AtHand(t, m) \/ t = s
    BY <1>0, <2>1, Types DEF AtHand
  <2>5. \A m \in Msg : Accepted(m) => Accepted(m)'
    BY <2>1, <2>4 DEF Accepted
  <2>6. ASSUME NEW m \in Msg
        PROVE  /\ posts'[m] <= retry_count'[m] + shutdowns' + 1
               /\ ~Accepted(m)' => posts'[m] <= retry_count'[m] + shutdowns'
    <3>1. CASE m = l_payload[s]
      <4>1. ~Accepted(m)
        BY <2>1, <2>2, <3>1, TransactionMessage DEF Accepted, AtHand
      <4>2. Accepted(m)'
        BY <2>1, <2>2, <2>4, <3>1 DEF Accepted
      <4>3. posts[m] <= retry_count[m] + shutdowns
        BY <4>1 DEF DupInv
      <4>4. posts'[m] = posts[m] + 1
        BY <2>1, <2>3, <3>1
      <4>5. QED
        BY <2>1, <2>3, <4>2, <4>3, <4>4
    <3>2. CASE m # l_payload[s]
      <4>1. posts'[m] = posts[m]
        BY <2>1, <2>3, <3>2
      <4>2. QED
        BY <2>1, <2>5, <4>1 DEF DupInv
    <3>3. QED
      BY <3>1, <3>2
  <2>7. QED
    BY <2>6 DEF DupInv
<1>13. ASSUME NEW s \in Session, EndOfFetch(s) PROVE DupInv'
  <2>1. /\ pc' = [pc EXCEPT ![s] = "idle"]
        /\ state' = [m \in Msg |-> IF m \in transaction[s] THEN "removed" ELSE state[m]]
        /\ l_payload' = [l_payload EXCEPT ![s] = NoMsg]
        /\ transaction' = [transaction EXCEPT ![s] = {}]
        /\ UNCHANGED <<posts, retry_count, shutdowns>>
    BY <1>13 DEF EndOfFetch, Goto
  <2>2. \A t \in Session, m \in Msg :
          t # s => transaction'[t] = transaction[t] /\ (AtHand(t, m)' <=> AtHand(t, m))
    BY <1>0, <2>1, Types DEF AtHand
  <2>3. \A m \in Msg : Accepted(m) => Accepted(m)'
    BY <2>1, <2>2 DEF Accepted
  <2>4. QED
    BY <1>1, <2>1, <2>3
<1>14. CASE UNCHANGED vars
  BY <1>1, <1>2, <1>14 DEF vars
<1>15. QED
  BY <1>3, <1>4, <1>5, <1>6, <1>7, <1>8, <1>9, <1>10, <1>11, <1>12, <1>13, <1>14
  DEF Next, SessionStep

\* A row reaches the endpoint at most once more than its transactions were
\* rolled back or undone by a shutdown.
THEOREM PostBoundHolds == Spec => []PostBound
<1>1. Init => DupInv
  <2> SUFFICES ASSUME Init PROVE DupInv
    OBVIOUS
  <2>1. \A m \in Msg : posts[m] = 0 /\ retry_count[m] = 0
    BY DEF Init
  <2>2. shutdowns = 0
    BY DEF Init
  <2>3. QED
    BY <2>1, <2>2 DEF DupInv
<1>2. DupInv => PostBound
  BY DEF DupInv, PostBound
<1>3. QED
  BY <1>1, <1>2, DupInductive, Invariance, PTL DEF Spec

-----------------------------------------------------------------------------
(* The pipeline's errors about itself.                                       *)

LEMMA RetriesFinite ==
  IsFiniteSet(Retries) /\ IsFiniteSet(Retries') /\ IsFiniteSet(Logged("error"))
<1>1. {MaxRows, MaxRegs, MaxRetries} \subseteq Nat
  BY LogAssumption DEF LogAssumption
<1>2. IsFiniteSet(Row) /\ IsFiniteSet(Reg) /\ IsFiniteSet(1..MaxRetries + 1)
  BY <1>1, FS_Interval DEF Row, Reg
<1>3. IsFiniteSet(Msg)
  BY <1>2, FS_Product DEF Msg
<1>4. IsFiniteSet(Msg \X (1..MaxRetries + 1))
  BY <1>2, <1>3, FS_Product
<1>5. /\ Retries \subseteq Msg \X (1..MaxRetries + 1)
      /\ Retries' \subseteq Msg \X (1..MaxRetries + 1)
      /\ Logged("error") \subseteq Row
  BY DEF Retries, Logged
<1>6. QED
  BY <1>2, <1>4, <1>5, FS_Subset

\* Retries are only ever counted up.
LEMMA RetriesGrow ==
  ASSUME TypeOK, TypeOK', \A m \in Msg : retry_count'[m] >= retry_count[m]
  PROVE  Retries \subseteq Retries'
BY Types DEF Retries, TypeOK

\* A row is logged under one kind for good.
LEMMA ErrorRows ==
  ASSUME TypeOK, NEW kind, log_action(kind)
  PROVE  /\ kind # "error" => Logged("error")' = Logged("error")
         /\ \E r \in Row \ Logged("error") :
              kind = "error" => Logged("error")' = Logged("error") \cup {r}
<1>1. PICK r \in Logged("none") : origin' = [origin EXCEPT ![r] = kind]
  BY DEF log_action
<1>2. r \in Row /\ origin[r] = "none"
  BY DEF Logged
<1>3. kind # "error" => Logged("error")' = Logged("error")
  BY <1>1, <1>2, Types DEF Logged
<1>4. r \in Row \ Logged("error")
  BY <1>2 DEF Logged
<1>5. kind = "error" => Logged("error")' = Logged("error") \cup {r}
  BY <1>1, <1>2, Types DEF Logged
<1>6. QED
  BY <1>3, <1>4, <1>5

\* The errors that shutdowns have left unpaid so far.
Unpaid == Cardinality(Session) * shutdowns

\* What the inequality counts are natural numbers.
LEMMA Numbers ==
  ASSUME TypeOK, TypeOK'
  PROVE  /\ {Cardinality(Logged("error")), Cardinality(Logged("error")'),
             Cardinality(Retries), Cardinality(Retries'),
             Cardinality(Raising), Cardinality(Raising')} \subseteq Nat
         /\ {Unpaid, Unpaid', Cardinality(Session)} \subseteq Nat
         /\ IsFiniteSet(Raising) /\ IsFiniteSet(Raising')
<1>1. IsFiniteSet(Session)
  BY LogAssumption DEF LogAssumption
<1>2. IsFiniteSet(Raising) /\ IsFiniteSet(Raising')
  BY <1>1, FS_Subset DEF Raising
<1>3. Cardinality(Session) \in Nat /\ shutdowns \in Nat /\ shutdowns' \in Nat
  BY <1>1, FS_CardinalityType, Types, LogAssumption DEF LogAssumption, TypeOK
<1>4. Unpaid \in Nat /\ Unpaid' \in Nat
  BY <1>3 DEF Unpaid
<1>5. IsFiniteSet(Logged("error")')
  <2>1. IsFiniteSet(Row) /\ Logged("error")' \subseteq Row
    BY FS_Interval, LogAssumption DEF LogAssumption, Row, Logged
  <2>2. QED
    BY <2>1, FS_Subset
<1>6. QED
  BY <1>2, <1>3, <1>4, <1>5, RetriesFinite, FS_CardinalityType

\* A new error is outstanding until it is raised.
LEMMA ErrorIsOutstanding ==
  ASSUME Inv, Inv', ErrorsArePaid, NEW s \in Session, AuthError(s)
  PROVE  ErrorsArePaid'
<1>0. TypeOK /\ TypeOK'
  BY DEF Inv
<1>1. /\ pc[s] = "token" /\ pc' = [pc EXCEPT ![s] = "raise"] /\ log_action("error")
      /\ UNCHANGED <<retry_count, shutdowns>>
  BY DEF AuthError, Goto
<1>2. PICK row \in Row \ Logged("error") :
        Logged("error")' = Logged("error") \cup {row}
  BY <1>0, <1>1, ErrorRows
<1>3. Cardinality(Logged("error")') = Cardinality(Logged("error")) + 1
  BY <1>2, RetriesFinite, FS_AddElement
<1>4. Raising' = Raising \cup {s} /\ s \notin Raising
  BY <1>0, <1>1, Types DEF Raising
<1>5. Cardinality(Raising') = Cardinality(Raising) + 1
  BY <1>0, <1>4, Numbers, FS_AddElement
<1>6. Retries' = Retries /\ Unpaid' = Unpaid
  BY <1>1 DEF Retries, Unpaid
<1>7. QED
  BY <1>0, <1>3, <1>5, <1>6, Numbers DEF ErrorsArePaid, Unpaid

\* It is raised, and costs at least one message a retry.
LEMMA ErrorIsPaid ==
  ASSUME Inv, Inv', ErrorsArePaid, NEW s \in Session, RaiseAuthError(s)
  PROVE  ErrorsArePaid'
<1> DEFINE m == l_payload[s]
           r == <<m, retry_count[m] + 1>>
<1>0. TypeOK /\ TypeOK'
  BY DEF Inv
<1>1. /\ pc[s] = "raise" /\ pc' = [pc EXCEPT ![s] = "idle"]
      /\ UNCHANGED <<origin, shutdowns>>
      /\ retry_count' = [k \in Msg |->
           IF k \in transaction[s] THEN retry_count[k] + 1 ELSE retry_count[k]]
  BY DEF RaiseAuthError, Rollback, Goto
<1>2. m \in transaction[s] /\ m \in Msg /\ retry_count[m] \in 0..MaxRetries
  BY <1>1, TransactionMessage DEF Inv, SessionInv
<1>3. r \in Retries' /\ r \notin Retries
  BY <1>0, <1>1, <1>2, Types DEF Retries
<1>4. Retries \cup {r} \subseteq Retries'
  <2>1. \A k \in Msg : retry_count'[k] >= retry_count[k]
    BY <1>0, <1>1, Types
  <2>2. QED
    BY <1>0, <1>3, <2>1, RetriesGrow
<1> HIDE DEF r
<1>5. Raising' = Raising \ {s} /\ s \in Raising
  BY <1>0, <1>1, Types DEF Raising
<1>6. Cardinality(Raising') = Cardinality(Raising) - 1
  BY <1>0, <1>5, Numbers, FS_RemoveElement
<1>7. IsFiniteSet(Retries') /\ IsFiniteSet(Retries \cup {r})
  BY RetriesFinite, FS_AddElement
<1>8. Cardinality(Retries \cup {r}) = Cardinality(Retries) + 1
  BY <1>3, RetriesFinite, FS_AddElement
<1>9. Cardinality(Retries \cup {r}) <= Cardinality(Retries')
  BY <1>4, <1>7, FS_Subset
<1>10. Logged("error")' = Logged("error") /\ Unpaid' = Unpaid
  BY <1>1 DEF Logged, Unpaid
<1>11. QED
  BY <1>0, <1>6, <1>8, <1>9, <1>10, Numbers DEF ErrorsArePaid, Unpaid

\* A shutdown leaves at most the errors of its sessions unpaid.
LEMMA ShutdownExcuses ==
  ASSUME Inv, Inv', ErrorsArePaid, Shutdown
  PROVE  ErrorsArePaid'
<1>0. TypeOK /\ TypeOK' /\ Cardinality(Session) \in Nat /\ shutdowns \in Nat
  BY Types, Numbers DEF Inv
<1>1. UNCHANGED <<origin, retry_count>> /\ shutdowns' = shutdowns + 1
  BY DEF Shutdown
<1>2. Cardinality(Raising) <= Cardinality(Session)
  BY FS_Subset, LogAssumption DEF LogAssumption, Raising
<1>3. Unpaid' = Unpaid + Cardinality(Session)
  BY <1>0, <1>1 DEF Unpaid
<1>4. Logged("error")' = Logged("error") /\ Retries' = Retries
  BY <1>1 DEF Logged, Retries
<1>5. QED
  BY <1>0, <1>2, <1>3, <1>4, Numbers DEF ErrorsArePaid, Unpaid

LEMMA PaidInductive ==
  Inv /\ Inv' /\ ErrorsArePaid /\ [Next]_vars => ErrorsArePaid'
<1> SUFFICES ASSUME Inv, Inv', ErrorsArePaid, [Next]_vars PROVE ErrorsArePaid'
  OBVIOUS
<1>0. TypeOK /\ TypeOK' /\ retry_count \in [Msg -> Nat]
  BY Types DEF Inv
\* Steps that log no error and raise none.
<1>1. ASSUME Logged("error")' = Logged("error"), Raising' = Raising,
             shutdowns' = shutdowns, \A m \in Msg : retry_count'[m] >= retry_count[m]
      PROVE  ErrorsArePaid'
  <2>1. Retries \subseteq Retries'
    BY <1>0, <1>1, RetriesGrow
  <2>2. Cardinality(Retries) <= Cardinality(Retries')
    BY <2>1, RetriesFinite, FS_Subset
  <2>3. Unpaid' = Unpaid
    BY <1>1 DEF Unpaid
  <2>4. QED
    BY <1>0, <1>1, <2>2, <2>3, Numbers DEF ErrorsArePaid, Unpaid
<1>2. ASSUME UNCHANGED <<origin, retry_count, shutdowns>>, Raising' = Raising
      PROVE  ErrorsArePaid'
  BY <1>0, <1>1, <1>2 DEF Logged
<1>3. ASSUME NEW kind \in {"outside", "refresh"}, log_action(kind), Raising' = Raising,
             UNCHANGED <<retry_count, shutdowns>>
      PROVE  ErrorsArePaid'
  <2>1. Logged("error")' = Logged("error")
    BY <1>0, <1>3, ErrorRows
  <2>2. QED
    BY <1>0, <1>1, <1>3, <2>1
<1>4. CASE LogAction
  BY <1>3, <1>4 DEF LogAction, sessions, Raising
<1>5. CASE register_log_cqn \/ StartQueue
  BY <1>2, <1>5 DEF register_log_cqn, StartQueue, queue, sessions, Raising
<1>6. CASE Shutdown
  BY <1>6, ShutdownExcuses
<1>7. ASSUME NEW m \in Msg, uploadrows(m) \/ IgnoreNotification(m) \/ RetryDelayOver(m)
      PROVE  ErrorsArePaid'
  BY <1>2, <1>7 DEF uploadrows, IgnoreNotification, RetryDelayOver, sessions, Raising
<1>8. ASSUME NEW s \in Session, NEW x \in Labels \ {"raise"}, pc[s] # "raise",
             Goto(s, x)
      PROVE  Raising' = Raising
  BY <1>0, <1>8, Types DEF Goto, Raising
<1>9. ASSUME NEW s \in Session,
             LogCallback(s) \/ Dequeue(s) \/ UseToken(s) \/ Post(s) \/ EndOfFetch(s)
      PROVE  ErrorsArePaid'
  <2>1. UNCHANGED <<origin, retry_count, shutdowns>>
    BY <1>9 DEF LogCallback, Dequeue, UseToken, Post, EndOfFetch, queue
  <2>2. pc[s] # "raise" /\ \E x \in Labels \ {"raise"} : Goto(s, x)
    BY <1>9 DEF LogCallback, Dequeue, UseToken, Post, EndOfFetch, Labels
  <2>3. QED
    BY <1>2, <1>8, <2>1, <2>2
<1>10. ASSUME NEW s \in Session, RefreshToken(s) PROVE ErrorsArePaid'
  <2>1. /\ pc[s] # "raise" /\ Goto(s, "post") /\ log_action("refresh")
        /\ UNCHANGED <<retry_count, shutdowns>>
    BY <1>10 DEF RefreshToken
  <2>2. QED
    BY <1>3, <1>8, <2>1 DEF Labels
<1>11. ASSUME NEW s \in Session, TokenRaises(s) \/ PostRaises(s) PROVE ErrorsArePaid'
  <2>1. /\ Logged("error")' = Logged("error") /\ shutdowns' = shutdowns
        /\ pc[s] # "raise" /\ Goto(s, "idle")
    BY <1>11 DEF TokenRaises, PostRaises, Rollback, Logged
  <2>2. \A m \in Msg : retry_count'[m] >= retry_count[m]
    BY <1>0, <1>11 DEF TokenRaises, PostRaises, Rollback
  <2>3. QED
    BY <1>1, <1>8, <2>1, <2>2 DEF Labels
<1>12. ASSUME NEW s \in Session, AuthError(s) PROVE ErrorsArePaid'
  BY <1>12, ErrorIsOutstanding
<1>13. ASSUME NEW s \in Session, RaiseAuthError(s) PROVE ErrorsArePaid'
  BY <1>13, ErrorIsPaid
<1>14. CASE UNCHANGED vars
  BY <1>2, <1>14 DEF vars, Raising
<1>15. QED
  BY <1>4, <1>5, <1>6, <1>7, <1>9, <1>10, <1>11, <1>12, <1>13, <1>14
  DEF Next, SessionStep

\* The errors the pipeline logs about itself never outnumber the retries it has
\* counted, of which each message has at most max_retries + 1, by more than the
\* errors about to be raised and those a shutdown came in between.
THEOREM ErrorsArePaidHolds == Spec => []ErrorsArePaid
<1>1. Init => ErrorsArePaid
  <2> SUFFICES ASSUME Init PROVE ErrorsArePaid
    OBVIOUS
  <2>1. Logged("error") = {} /\ Retries = {} /\ Raising = {} /\ shutdowns = 0
    BY DEF Init, Logged, Retries, Raising
  <2>2. Cardinality(Session) \in Nat
    BY FS_CardinalityType, LogAssumption DEF LogAssumption
  <2>3. Cardinality(Session) * shutdowns = 0
    BY <2>1, <2>2
  <2>4. QED
    BY <2>1, <2>3, FS_EmptySet DEF ErrorsArePaid
<1>2. QED
  BY <1>1, PaidInductive, Invariance, PTL DEF Spec

-----------------------------------------------------------------------------
(* The refinement: every step of the pipeline is one of BatchDelivery's, or  *)
(* changes none of its variables.                                            *)

\* The abstract status of a message in state x.
StatusOf(x) ==
  CASE x = "none"                -> "absent"
    [] x = "notified"            -> "announced"
    [] x \in {"skipped", "lost"} -> "dropped"
    [] x = "removed"             -> "sent"
    [] x = "exception"           -> "setAside"
    [] OTHER                     -> "pending"

LEMMA StatusIs ==
  /\ AbstractStatus = [m \in Msg |-> StatusOf(state[m])]
  /\ AbstractStatus' = [m \in Msg |-> StatusOf(state'[m])]
BY DEF AbstractStatus, StatusOf

\* A step that moves the messages of batch to one status, and no other.
LEMMA StatusMoves ==
  ASSUME NEW batch \in SUBSET Msg, NEW stat,
         \A m \in batch : StatusOf(state'[m]) = stat,
         \A m \in Msg \ batch : StatusOf(state'[m]) = StatusOf(state[m])
  PROVE  AbstractStatus' = Promise!Moved(batch, stat)
BY StatusIs DEF Promise!Moved

LEMMA StatusStays ==
  ASSUME \A m \in Msg : StatusOf(state'[m]) = StatusOf(state[m])
  PROVE  UNCHANGED AbstractStatus
BY StatusIs

\* The messages a step creates.
Created == {m \in Msg : state[m] = "none" /\ state'[m] = "notified"}

\* A row logged by a step that moves nothing else is an announcement.
LEMMA LogAnnounces ==
  ASSUME Inv, NEW kind \in Origin \ {"none"}, log_action(kind),
         UNCHANGED <<posts, retry_count>>
  PROVE  Promise!Next
<1>1. TypeOK /\ FreshInv /\ state \in [Msg -> MsgState]
  BY Types DEF Inv
<1>2. Creates
  BY <1>1, LogCreates
<1>3. Created \in SUBSET Promise!With("absent")
  BY StatusIs DEF Created, Promise!With, StatusOf
<1>4. \A m \in Created : StatusOf(state'[m]) = "announced"
  BY DEF Created, StatusOf
<1>5. \A m \in Msg \ Created : state'[m] = state[m]
  BY <1>2 DEF Creates, Created
<1>6. AbstractStatus' = Promise!Moved(Created, "announced")
  BY <1>4, <1>5, StatusMoves DEF Created
<1>7. Promise!Announce(Created)
  BY <1>6 DEF Promise!Announce
<1>8. QED
  BY <1>3, <1>7 DEF Promise!Next

\* An exception fails the messages of the transaction, and no other.
LEMMA RollbackFails ==
  ASSUME Inv, NEW s \in Session, pc[s] \in {"token", "raise", "post"}, Rollback(s),
         \/ UNCHANGED posts
         \/ posts' = [posts EXCEPT ![l_payload[s]] = @ + 1]
  PROVE  Promise!Next
<1> DEFINE batch == transaction[s]
<1>1. l_payload[s] \in batch
  BY DEF Inv, SessionInv
<1>2. \A m \in batch :
        /\ m \in Msg /\ state[m] = "locked" /\ retry_count[m] \in 0..MaxRetries
        /\ state'[m] = IF retry_count[m] + 1 > MaxRetries THEN "exception" ELSE "delayed"
  BY TransactionMessage, RollbackMessages DEF Rollback
<1>3. \A m \in Msg \ batch : state'[m] = state[m]
  BY RollbackMessages DEF Rollback
<1>4. batch \in SUBSET Promise!With("pending")
  BY <1>2, StatusIs DEF Promise!With, StatusOf
<1>5. retry_count' = [m \in Msg |-> retry_count[m] + IF m \in batch THEN 1 ELSE 0]
  <2>1. retry_count' = [m \in Msg |->
          IF m \in batch THEN retry_count[m] + 1 ELSE retry_count[m]]
    BY DEF Rollback
  <2>2. retry_count \in [Msg -> Nat]
    BY Types DEF Inv
  <2>3. QED
    BY <2>1, <2>2
<1>6. ASSUME NEW m \in Msg
      PROVE  StatusOf(state'[m]) =
               IF m \notin batch THEN AbstractStatus[m]
               ELSE IF retry_count[m] + 1 = MaxRetries + 1 THEN "setAside" ELSE "pending"
  <2>1. CASE m \in batch
    <3>1. MaxRetries \in Nat
      BY Types DEF Inv
    <3>2. state'[m] = IF retry_count[m] + 1 = MaxRetries + 1
                      THEN "exception" ELSE "delayed"
      BY <1>2, <2>1, <3>1
    <3>3. QED
      BY <2>1, <3>2 DEF StatusOf
  <2>2. CASE m \notin batch
    BY <1>3, <2>2, StatusIs
  <2>3. QED
    BY <2>1, <2>2
<1>7. Promise!FailBatch(batch)
  BY <1>1, <1>5, <1>6, StatusIs DEF Promise!FailBatch
<1>8. QED
  BY <1>4, <1>7 DEF Promise!Next

LEMMA StepSimulation ==
  Inv /\ [Next]_vars => [Promise!Next]_(Promise!vars)
<1> SUFFICES ASSUME Inv, [Next]_vars PROVE [Promise!Next]_(Promise!vars)
  OBVIOUS
<1> USE DEF Promise!vars
<1>0. TypeOK /\ state \in [Msg -> MsgState] /\ posts \in [Msg -> Nat]
  BY Types DEF Inv
\* Steps that leave the messages where they are.
<1>1. ASSUME UNCHANGED <<state, posts, retry_count>> PROVE UNCHANGED Promise!vars
  BY <1>1, StatusStays
<1>2. CASE LogAction
  BY <1>2, LogAnnounces DEF LogAction, Origin
<1>3. CASE register_log_cqn \/ StartQueue
  BY <1>1, <1>3 DEF register_log_cqn, StartQueue, queue
<1>4. CASE Shutdown
  <2> DEFINE batch == {m \in Msg : state[m] = "notified"}
             x(m) == IF state[m] = "notified" THEN "lost"
                     ELSE IF state[m] = "locked" THEN "ready" ELSE state[m]
  <2>1. state' = [m \in Msg |-> x(m)]
    BY <1>4 DEF Shutdown
  <2>2. \A m \in batch : StatusOf(state'[m]) = "dropped"
    BY <2>1 DEF StatusOf
  <2>3. \A m \in Msg \ batch : StatusOf(state'[m]) = StatusOf(state[m])
    BY <2>1 DEF StatusOf
  <2>4. AbstractStatus' = Promise!Moved(batch, "dropped")
    BY <2>2, <2>3, StatusMoves
  <2>5. batch \in SUBSET Promise!With("announced")
    BY StatusIs DEF Promise!With, StatusOf
  <2>6. Promise!Drop(batch)
    BY <1>4, <2>4 DEF Shutdown, Promise!Drop
  <2>7. QED
    BY <2>5, <2>6 DEF Promise!Next
<1>5. ASSUME NEW m \in Msg, uploadrows(m) PROVE Promise!Next
  <2>1. /\ state[m] = "notified" /\ UNCHANGED <<posts, retry_count>>
        /\ \A k \in Msg \ {m} : state'[k] = state[k]
        /\ state'[m] \in {"ready", "skipped"}
    BY <1>0, <1>5 DEF uploadrows
  <2>2. m \in Promise!With("announced")
    BY <2>1, StatusIs DEF Promise!With, StatusOf
  <2>3. CASE state'[m] = "ready"
    <3>1. AbstractStatus' = Promise!Moved({m}, "pending")
      BY <2>1, <2>3, StatusMoves DEF StatusOf
    <3>2. Promise!Enqueue(m)
      BY <2>1, <3>1 DEF Promise!Enqueue
    <3>3. QED
      BY <2>2, <3>2 DEF Promise!Next
  <2>4. CASE state'[m] = "skipped"
    <3>1. AbstractStatus' = Promise!Moved({m}, "dropped")
      BY <2>1, <2>4, StatusMoves DEF StatusOf
    <3>2. Promise!Drop({m}) /\ {m} \in SUBSET Promise!With("announced")
      BY <2>1, <2>2, <3>1 DEF Promise!Drop
    <3>3. QED
      BY <3>2 DEF Promise!Next
  <2>5. QED
    BY <2>1, <2>3, <2>4
<1>6. ASSUME NEW m \in Msg, IgnoreNotification(m) PROVE Promise!Next
  <2>1. /\ state[m] = "notified" /\ state'[m] = "lost"
        /\ \A k \in Msg \ {m} : state'[k] = state[k]
        /\ UNCHANGED <<posts, retry_count>>
    BY <1>0, <1>6 DEF IgnoreNotification
  <2>2. AbstractStatus' = Promise!Moved({m}, "dropped")
    BY <2>1, StatusMoves DEF StatusOf
  <2>3. Promise!Drop({m}) /\ {m} \in SUBSET Promise!With("announced")
    BY <2>1, <2>2, StatusIs DEF Promise!Drop, Promise!With, StatusOf
  <2>4. QED
    BY <2>3 DEF Promise!Next
<1>7. ASSUME NEW m \in Msg, RetryDelayOver(m) PROVE UNCHANGED Promise!vars
  <2>1. \A k \in Msg : StatusOf(state'[k]) = StatusOf(state[k])
    BY <1>0, <1>7 DEF RetryDelayOver, StatusOf
  <2>2. QED
    BY <1>7, <2>1, StatusStays DEF RetryDelayOver
<1>8. ASSUME NEW s \in Session, LogCallback(s) \/ UseToken(s)
      PROVE  UNCHANGED Promise!vars
  BY <1>1, <1>8 DEF LogCallback, UseToken, queue
<1>9. ASSUME NEW s \in Session, Dequeue(s) PROVE UNCHANGED Promise!vars
  <2>1. PICK m \in Ready : state' = [state EXCEPT ![m] = "locked"]
    BY <1>9 DEF Dequeue
  <2>2. \A k \in Msg : StatusOf(state'[k]) = StatusOf(state[k])
    BY <1>0, <2>1 DEF Ready, StatusOf
  <2>3. QED
    BY <1>9, <2>2, StatusStays DEF Dequeue
<1>10. ASSUME NEW s \in Session, RefreshToken(s) \/ AuthError(s) PROVE Promise!Next
  BY <1>10, LogAnnounces DEF RefreshToken, AuthError, Origin
<1>11. ASSUME NEW s \in Session, RaiseAuthError(s) \/ TokenRaises(s) PROVE Promise!Next
  BY <1>11, RollbackFails DEF RaiseAuthError, TokenRaises
<1>12. ASSUME NEW s \in Session, PostRaises(s) PROVE Promise!Next
  <2>1. pc[s] \in {"token", "raise", "post"} /\ Rollback(s)
    BY <1>12 DEF PostRaises
  <2>2. l_payload[s] \in Msg
    BY <2>1, TransactionMessage DEF Inv, SessionInv
  <2>3. PICK n \in {0, 1} : posts' = [posts EXCEPT ![l_payload[s]] = @ + n]
    BY <1>12 DEF PostRaises
  <2>4. UNCHANGED posts \/ posts' = [posts EXCEPT ![l_payload[s]] = @ + 1]
    <3>1. CASE n = 0
      BY <1>0, <2>2, <2>3, <3>1
    <3>2. CASE n = 1
      BY <2>3, <3>2
    <3>3. QED
      BY <3>1, <3>2
  <2>5. QED
    BY <2>1, <2>4, RollbackFails
<1>13. ASSUME NEW s \in Session, Post(s) PROVE Promise!Next
  <2> DEFINE m == l_payload[s]
  <2>1. m \in Msg /\ state[m] = "locked"
    BY <1>13, TransactionMessage DEF Post, Inv, SessionInv
  <2>2. m \in Promise!With("pending")
    BY <2>1, StatusIs DEF Promise!With, StatusOf
  <2>3. UNCHANGED AbstractStatus
    BY <1>13, StatusStays DEF Post, queue
  <2>4. Promise!Deliver(m)
    BY <1>13, <2>3 DEF Post, queue, Promise!Deliver
  <2>5. QED
    BY <2>2, <2>4 DEF Promise!Next
<1>14. ASSUME NEW s \in Session, EndOfFetch(s) PROVE Promise!Next
  <2> DEFINE batch == transaction[s]
  <2>1. \A m \in batch : m \in Msg /\ state[m] = "locked"
    BY TransactionMessage
  <2>2. batch \in SUBSET Promise!With("pending")
    BY <2>1, StatusIs DEF Promise!With, StatusOf
  <2>3. \A m \in batch : posts[m] > 0
    <3>1. \A m \in batch : posts[m] >= 1
      BY <1>14 DEF EndOfFetch, Inv, PostedInv, AtHand
    <3>2. QED
      BY <1>0, <2>1, <3>1
  <2>4. AbstractStatus' = Promise!Moved(batch, "sent")
    BY <1>14, <2>1, StatusMoves DEF EndOfFetch, StatusOf
  <2>5. Promise!Acknowledge(batch)
    BY <1>14, <2>3, <2>4 DEF EndOfFetch, Promise!Acknowledge
  <2>6. QED
    BY <2>2, <2>5 DEF Promise!Next
<1>15. CASE UNCHANGED vars
  BY <1>1, <1>15 DEF vars
<1>16. QED
  BY <1>1, <1>2, <1>3, <1>4, <1>5, <1>6, <1>7, <1>8, <1>9, <1>10, <1>11, <1>12, <1>13,
     <1>14, <1>15
  DEF Next, SessionStep

\* QUEUE_LOGGER with its callbacks keeps the promise of BatchDelivery: whatever
\* several callbacks, failures and shutdowns do, a message is forgotten only in
\* a transaction whose messages have all been posted, and one that fails costs
\* each message of its transaction an attempt and no other message anything.
THEOREM Implementation == Spec => ImplementsPromise
<1>1. Init => Promise!Init
  BY StatusIs DEF Init, Promise!Init, StatusOf
<1>2. QED
  BY <1>1, StepSimulation, Invariance, PTL DEF Spec, Promise!Spec, ImplementsPromise
=============================================================================
