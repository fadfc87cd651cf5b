--------------------------- MODULE DmlQueueProofs ---------------------------
(***************************************************************************)
(* Theorems about QUEUE_DML for any number of messages, sessions, retries  *)
(* and killed sessions.                                                    *)
(***************************************************************************)
EXTENDS DmlQueue, FiniteSetTheorems, TLAPS

Labels == {"idle", "dequeue", "authenticate", "post", "log", "commit"}

\* A session holds a message exactly between Dequeue and the end of its
\* transaction, and knows an answer only after the POST.
SessionInv ==
  \A s \in Session :
    /\ held[s] # NoMsg <=> pc[s] \in {"authenticate", "post", "log", "commit"}
    /\ status[s] # "none" <=> pc[s] \in {"log", "commit"}

\* A message not yet set aside has a retry left.
RetryInv ==
  \A m \in Msg : retry_count[m] <= MaxRetries \/ state[m] = "exception"

\* An attempt in progress that the Event Hub has accepted is an acceptance.
AcceptedInv ==
  \A s \in Session : status[s] = "ok" => hub[held[s]] >= 1

Inv ==
  /\ TypeOK
  /\ SessionInv
  /\ RetryInv
  /\ Exclusive
  /\ AcceptedInv
  /\ NoLoss

-----------------------------------------------------------------------------
LEMMA InitInv == Init => Inv
<1> SUFFICES ASSUME Init PROVE Inv
  OBVIOUS
<1> USE QueueAssumption DEF QueueAssumption
<1>1. TypeOK
  BY DEF Init, TypeOK, MsgState
<1>2. SessionInv
  BY DEF Init, SessionInv
<1>3. RetryInv
  BY DEF Init, RetryInv
<1>4. Exclusive
  BY DEF Init, Exclusive
<1>5. AcceptedInv /\ NoLoss
  BY DEF Init, AcceptedInv, NoLoss
<1>6. QED
  BY <1>1, <1>2, <1>3, <1>4, <1>5 DEF Inv

\* The message of a session that is inside send.
LEMMA HeldMessage ==
  ASSUME Inv, NEW s \in Session, pc[s] \in {"authenticate", "post", "log", "commit"}
  PROVE  /\ held[s] \in Msg
         /\ state[held[s]] = "locked"
         /\ retry_count[held[s]] \in 0..MaxRetries
         /\ \A t \in Session : held[t] = held[s] => t = s
<1>1. held[s] # NoMsg /\ held[s] \in Msg
  BY DEF Inv, SessionInv, TypeOK
<1>2. state[held[s]] = "locked"
  BY <1>1 DEF Inv, Exclusive
<1>3. retry_count[held[s]] \in 0..MaxRetries
  BY <1>1, <1>2, QueueAssumption DEF QueueAssumption, Inv, RetryInv, TypeOK
<1>4. QED
  BY <1>1, <1>2, <1>3 DEF Inv, Exclusive

\* Rolling back a failed attempt keeps everything but the Event Hub in order.
LEMMA RollbackKeeps ==
  ASSUME Inv, NEW s \in Session,
         pc[s] \in {"authenticate", "post", "log", "commit"}, Rollback(s),
         hub' \in [Msg -> Nat], logs' \in [Msg -> {"none", "ok", "error"}],
         \A m \in Msg : hub'[m] >= hub[m]
  PROVE  Inv'
<1> DEFINE m == held[s]
<1> USE QueueAssumption DEF QueueAssumption
<1>1. /\ m \in Msg /\ m # NoMsg
      /\ state[m] = "locked"
      /\ retry_count[m] \in 0..MaxRetries
      /\ \A t \in Session : held[t] = m => t = s
  BY HeldMessage
<1>2. /\ pc' = [pc EXCEPT ![s] = "idle"]
      /\ held' = [held EXCEPT ![s] = NoMsg]
      /\ status' = [status EXCEPT ![s] = "none"]
      /\ state' = [state EXCEPT ![m] =
                     IF retry_count[m] + 1 > MaxRetries THEN "exception" ELSE "delayed"]
      /\ retry_count' = [retry_count EXCEPT ![m] = retry_count[m] + 1]
      /\ UNCHANGED <<notifications, kills>>
  BY DEF Rollback, Goto
<1> HIDE DEF m
<1>3. TypeOK'
  BY <1>1, <1>2 DEF Inv, TypeOK, MsgState
<1>4. SessionInv'
  BY <1>2 DEF Inv, TypeOK, SessionInv
<1>5. RetryInv'
  BY <1>1, <1>2 DEF Inv, TypeOK, RetryInv
<1>6. Exclusive'
  BY <1>1, <1>2 DEF Inv, TypeOK, Exclusive, m
<1>7. AcceptedInv'
  BY <1>1, <1>2 DEF Inv, TypeOK, AcceptedInv, SessionInv
<1>8. NoLoss'
  BY <1>1, <1>2 DEF Inv, TypeOK, NoLoss
<1>9. QED
  BY <1>3, <1>4, <1>5, <1>6, <1>7, <1>8 DEF Inv

\* Every step of a session keeps the invariant.
LEMMA SessionKeeps ==
  ASSUME Inv, NEW s \in Session, SessionStep(s)
  PROVE  Inv'
<1> USE QueueAssumption DEF QueueAssumption
<1>1. CASE Dequeue(s)
  <2>1. PICK m \in Ready :
          /\ state' = [state EXCEPT ![m] = "locked"]
          /\ held' = [held EXCEPT ![s] = m]
          /\ logs' = [logs EXCEPT ![m] = "none"]
    BY <1>1 DEF Dequeue
  <2>2. /\ pc[s] = "dequeue" /\ pc' = [pc EXCEPT ![s] = "authenticate"]
        /\ UNCHANGED <<retry_count, notifications, status, hub, kills>>
    BY <1>1 DEF Dequeue, Goto
  <2>3. m \in Msg /\ state[m] = "ready" /\ \A t \in Session : held[t] # m
    BY DEF Ready, Inv, Exclusive
  <2>4. TypeOK'
    BY <2>1, <2>2, <2>3 DEF Inv, TypeOK, MsgState
  <2>5. SessionInv'
    BY <2>1, <2>2, <2>3 DEF Inv, TypeOK, SessionInv
  <2>6. RetryInv'
    BY <2>1, <2>2, <2>3 DEF Inv, TypeOK, RetryInv
  <2>7. Exclusive'
    BY <2>1, <2>2, <2>3 DEF Inv, TypeOK, Exclusive, SessionInv
  <2>8. AcceptedInv'
    BY <2>1, <2>2, <2>3 DEF Inv, TypeOK, AcceptedInv, SessionInv
  <2>9. NoLoss'
    BY <2>1, <2>2, <2>3 DEF Inv, TypeOK, NoLoss
  <2>10. QED
    BY <2>4, <2>5, <2>6, <2>7, <2>8, <2>9 DEF Inv
<1>2. CASE EndOfFetch(s)
  <2>1. TypeOK' /\ SessionInv'
    BY <1>2 DEF EndOfFetch, Goto, Inv, TypeOK, SessionInv
  <2>2. RetryInv' /\ Exclusive' /\ AcceptedInv' /\ NoLoss'
    BY <1>2 DEF EndOfFetch, Inv, RetryInv, Exclusive, AcceptedInv, NoLoss
  <2>3. QED
    BY <2>1, <2>2 DEF Inv
<1>3. CASE Authenticate(s)
  <2>1. TypeOK' /\ SessionInv'
    BY <1>3 DEF Authenticate, Goto, Inv, TypeOK, SessionInv
  <2>2. RetryInv' /\ Exclusive' /\ AcceptedInv' /\ NoLoss'
    BY <1>3 DEF Authenticate, Inv, RetryInv, Exclusive, AcceptedInv, NoLoss
  <2>3. QED
    BY <2>1, <2>2 DEF Inv
<1>4. CASE AuthenticateFails(s) \/ LogRaises(s)
  <2>1. /\ pc[s] \in {"authenticate", "post", "log", "commit"}
        /\ Rollback(s) /\ hub' = hub /\ logs' = logs
    BY <1>4 DEF AuthenticateFails, LogRaises
  <2>2. /\ hub' \in [Msg -> Nat] /\ logs' \in [Msg -> {"none", "ok", "error"}]
        /\ \A m \in Msg : hub'[m] >= hub[m]
    BY <2>1 DEF Inv, TypeOK
  <2>3. QED
    BY <2>1, <2>2, RollbackKeeps
<1>5. CASE PostAccepted(s)
  <2>1. held[s] \in Msg /\ state[held[s]] = "locked"
    BY <1>5, HeldMessage DEF PostAccepted
  <2>2. TypeOK'
    BY <1>5, <2>1 DEF PostAccepted, Goto, Inv, TypeOK
  <2>3. SessionInv'
    BY <1>5 DEF PostAccepted, Goto, Inv, TypeOK, SessionInv
  <2>4. RetryInv' /\ Exclusive'
    BY <1>5 DEF PostAccepted, Inv, RetryInv, Exclusive
  <2>5. AcceptedInv' /\ NoLoss'
    BY <1>5, <2>1 DEF PostAccepted, Inv, TypeOK, AcceptedInv, NoLoss
  <2>6. QED
    BY <2>2, <2>3, <2>4, <2>5 DEF Inv
<1>6. CASE PostRejected(s)
  <2>1. TypeOK' /\ SessionInv' /\ AcceptedInv'
    BY <1>6 DEF PostRejected, Goto, Inv, TypeOK, SessionInv, AcceptedInv
  <2>2. RetryInv' /\ Exclusive' /\ NoLoss'
    BY <1>6 DEF PostRejected, Inv, RetryInv, Exclusive, NoLoss
  <2>3. QED
    BY <2>1, <2>2 DEF Inv
<1>7. CASE PostRaises(s)
  <2>1. /\ pc[s] \in {"authenticate", "post", "log", "commit"}
        /\ Rollback(s) /\ logs' = logs
    BY <1>7 DEF PostRaises
  <2>2. held[s] \in Msg
    BY <2>1, HeldMessage
  <2>3. PICK n \in {0, 1} : hub' = [hub EXCEPT ![held[s]] = @ + n]
    BY <1>7 DEF PostRaises
  <2>4. /\ hub' \in [Msg -> Nat] /\ logs' \in [Msg -> {"none", "ok", "error"}]
        /\ \A m \in Msg : hub'[m] >= hub[m]
    BY <2>1, <2>2, <2>3 DEF Inv, TypeOK
  <2>5. QED
    BY <2>1, <2>4, RollbackKeeps
<1>8. CASE Log(s)
  <2>1. held[s] \in Msg
    BY <1>8, HeldMessage DEF Log
  <2>2. TypeOK' /\ SessionInv'
    BY <1>8, <2>1 DEF Log, Goto, Inv, TypeOK, SessionInv
  <2>3. RetryInv' /\ Exclusive' /\ AcceptedInv' /\ NoLoss'
    BY <1>8 DEF Log, Inv, RetryInv, Exclusive, AcceptedInv, NoLoss
  <2>4. QED
    BY <2>2, <2>3 DEF Inv
<1>9. CASE Commit(s)
  <2>1. /\ held[s] \in Msg /\ state[held[s]] = "locked"
        /\ \A t \in Session : held[t] = held[s] => t = s
        /\ retry_count[held[s]] \in 0..MaxRetries
        /\ hub[held[s]] >= 1
    BY <1>9, HeldMessage DEF Commit, Inv, AcceptedInv
  <2>2. TypeOK'
    BY <1>9, <2>1 DEF Commit, Goto, Inv, TypeOK, MsgState
  <2>3. SessionInv'
    BY <1>9 DEF Commit, Goto, Inv, TypeOK, SessionInv
  <2>4. RetryInv'
    BY <1>9, <2>1 DEF Commit, Inv, TypeOK, RetryInv
  <2>5. Exclusive'
    BY <1>9, <2>1 DEF Commit, Inv, TypeOK, Exclusive
  <2>6. AcceptedInv' /\ NoLoss'
    BY <1>9, <2>1 DEF Commit, Inv, TypeOK, AcceptedInv, NoLoss
  <2>7. QED
    BY <2>2, <2>3, <2>4, <2>5, <2>6 DEF Inv
<1>10. CASE RaiseSendError(s)
  <2>1. /\ pc[s] \in {"authenticate", "post", "log", "commit"}
        /\ Rollback(s) /\ hub' = hub /\ logs' = logs
    BY <1>10 DEF RaiseSendError
  <2>2. /\ hub' \in [Msg -> Nat] /\ logs' \in [Msg -> {"none", "ok", "error"}]
        /\ \A m \in Msg : hub'[m] >= hub[m]
    BY <2>1 DEF Inv, TypeOK
  <2>3. QED
    BY <2>1, <2>2, RollbackKeeps
<1>11. QED
  BY <1>1, <1>2, <1>3, <1>4, <1>5, <1>6, <1>7, <1>8, <1>9, <1>10 DEF SessionStep

\* The queue's own steps keep the invariant.
LEMMA QueueKeeps ==
  ASSUME Inv,
         \/ \E m \in Msg : Enqueue(m) \/ RetryDelayOver(m)
         \/ \E s \in Session : AqCallback(s) \/ Kill(s)
  PROVE  Inv'
<1> USE QueueAssumption DEF QueueAssumption
<1>1. ASSUME NEW m \in Msg, state[m] \in {"absent", "delayed"},
             state' = [state EXCEPT ![m] = "ready"], notifications' = notifications + 1,
             UNCHANGED <<retry_count, pc, held, status, hub, logs, kills>>
      PROVE  Inv'
  <2>1. TypeOK'
    BY <1>1 DEF Inv, TypeOK, MsgState
  <2>2. SessionInv' /\ AcceptedInv'
    BY <1>1 DEF Inv, SessionInv, AcceptedInv
  <2>3. RetryInv' /\ NoLoss'
    BY <1>1 DEF Inv, TypeOK, RetryInv, NoLoss
  <2>4. Exclusive'
    BY <1>1 DEF Inv, TypeOK, Exclusive
  <2>5. QED
    BY <2>1, <2>2, <2>3, <2>4 DEF Inv
<1>2. ASSUME NEW m \in Msg, Enqueue(m) PROVE Inv'
  BY <1>1, <1>2 DEF Enqueue
<1>3. ASSUME NEW m \in Msg, RetryDelayOver(m) PROVE Inv'
  BY <1>1, <1>3 DEF RetryDelayOver
<1>4. ASSUME NEW s \in Session, AqCallback(s) PROVE Inv'
  <2>1. TypeOK' /\ SessionInv'
    BY <1>4 DEF AqCallback, Goto, Inv, TypeOK, SessionInv
  <2>2. RetryInv' /\ Exclusive' /\ AcceptedInv' /\ NoLoss'
    BY <1>4 DEF AqCallback, Inv, RetryInv, Exclusive, AcceptedInv, NoLoss
  <2>3. QED
    BY <2>1, <2>2 DEF Inv
<1>5. ASSUME NEW s \in Session, Kill(s) PROVE Inv'
  <2>1. /\ pc' = [pc EXCEPT ![s] = "idle"]
        /\ held' = [held EXCEPT ![s] = NoMsg]
        /\ status' = [status EXCEPT ![s] = "none"]
        /\ kills' \in 0..MaxKills
        /\ UNCHANGED <<retry_count, notifications, hub, logs>>
    BY <1>5 DEF Kill, Goto, Inv, TypeOK
  <2>2. CASE held[s] = NoMsg
    <3>1. state' = state
      BY <1>5, <2>2 DEF Kill
    <3>2. TypeOK' /\ SessionInv' /\ AcceptedInv'
      BY <2>1, <3>1 DEF Inv, TypeOK, SessionInv, AcceptedInv
    <3>3. RetryInv' /\ NoLoss'
      BY <2>1, <3>1 DEF Inv, RetryInv, NoLoss
    <3>4. Exclusive'
      BY <2>1, <2>2, <3>1 DEF Inv, TypeOK, Exclusive
    <3>5. QED
      BY <3>2, <3>3, <3>4 DEF Inv
  <2>3. CASE held[s] # NoMsg
    <3>1. state' = [state EXCEPT ![held[s]] = "ready"]
      BY <1>5, <2>3 DEF Kill
    <3>2. /\ held[s] \in Msg /\ state[held[s]] = "locked"
          /\ retry_count[held[s]] \in 0..MaxRetries
          /\ \A t \in Session : held[t] = held[s] => t = s
      BY <2>3, HeldMessage DEF Inv, SessionInv
    <3>3. TypeOK'
      BY <2>1, <3>1, <3>2 DEF Inv, TypeOK, MsgState
    <3>4. SessionInv' /\ AcceptedInv'
      BY <2>1, <3>1 DEF Inv, TypeOK, SessionInv, AcceptedInv
    <3>5. RetryInv' /\ NoLoss'
      BY <2>1, <3>1, <3>2 DEF Inv, TypeOK, RetryInv, NoLoss
    <3>6. Exclusive'
      BY <2>1, <3>1, <3>2 DEF Inv, TypeOK, Exclusive
    <3>7. QED
      BY <3>3, <3>4, <3>5, <3>6 DEF Inv
  <2>4. QED
    BY <2>2, <2>3
<1>6. QED
  BY <1>2, <1>3, <1>4, <1>5

LEMMA InvInductive == Inv /\ [Next]_vars => Inv'
<1> SUFFICES ASSUME Inv, [Next]_vars PROVE Inv'
  OBVIOUS
<1>1. CASE Next
  BY <1>1, SessionKeeps, QueueKeeps DEF Next
<1>2. CASE UNCHANGED vars
  <2>1. TypeOK' /\ SessionInv' /\ RetryInv'
    BY <1>2 DEF vars, Inv, TypeOK, SessionInv, RetryInv
  <2>2. Exclusive' /\ AcceptedInv' /\ NoLoss'
    BY <1>2 DEF vars, Inv, Exclusive, AcceptedInv, NoLoss
  <2>3. QED
    BY <2>1, <2>2 DEF Inv
<1>3. QED
  BY <1>1, <1>2

LEMMA Invariance == Spec => []Inv
BY InitInv, InvInductive, PTL DEF Spec

\* The queue, its sessions and their counters keep their types.
THEOREM TypeCorrect == Spec => []TypeOK
<1>1. Inv => TypeOK
  BY DEF Inv
<1>2. QED
  BY <1>1, Invariance, PTL

\* No two callbacks ever work on the same message.
THEOREM ExclusiveHolds == Spec => []Exclusive
<1>1. Inv => Exclusive
  BY DEF Inv
<1>2. QED
  BY <1>1, Invariance, PTL

\* No message leaves the queue as sent that the Event Hub did not accept,
\* whatever fails or is killed in between.
THEOREM NoLossHolds == Spec => []NoLoss
<1>1. Inv => NoLoss
  BY DEF Inv
<1>2. QED
  BY <1>1, Invariance, PTL

-----------------------------------------------------------------------------
(* Duplicates: an acceptance belongs to a rolled back attempt, to a killed   *)
(* session, to the attempt in progress, or to the one that removed the       *)
(* message.                                                                  *)

Accepted(m) ==
  state[m] = "removed" \/ \E s \in Session : held[s] = m /\ status[s] = "ok"

DupInv ==
  \A m \in Msg :
    /\ hub[m] <= retry_count[m] + kills + 1
    /\ ~Accepted(m) => hub[m] <= retry_count[m] + kills

LEMMA DupTypes ==
  ASSUME Inv
  PROVE  /\ hub \in [Msg -> Nat] /\ retry_count \in [Msg -> Nat] /\ kills \in Nat
         /\ state \in [Msg -> MsgState] /\ NoMsg \notin Msg
         /\ held \in [Session -> Msg \cup {NoMsg}]
         /\ status \in [Session -> {"none", "ok", "error"}]
BY QueueAssumption DEF QueueAssumption, Inv, TypeOK

\* A rollback pays for the acceptance its attempt may have caused.
LEMMA RollbackPays ==
  ASSUME Inv, DupInv, NEW s \in Session,
         pc[s] \in {"authenticate", "post", "log", "commit"}, Rollback(s),
         NEW n \in {0, 1}, hub' = [hub EXCEPT ![held[s]] = @ + n],
         n = 1 => status[s] # "ok"
  PROVE  DupInv'
<1>1. /\ held[s] \in Msg /\ state[held[s]] = "locked"
      /\ \A t \in Session : held[t] = held[s] => t = s
  BY HeldMessage
<1>2. /\ retry_count' = [retry_count EXCEPT ![held[s]] = @ + 1]
      /\ held' = [held EXCEPT ![s] = NoMsg]
      /\ status' = [status EXCEPT ![s] = "none"]
      /\ \A m \in Msg : m # held[s] => state'[m] = state[m]
      /\ kills' = kills
  BY DupTypes DEF Rollback
<1> SUFFICES ASSUME NEW m \in Msg
             PROVE  /\ hub'[m] <= retry_count'[m] + kills' + 1
                    /\ ~Accepted(m)' => hub'[m] <= retry_count'[m] + kills'
  BY DEF DupInv
<1>3. CASE m = held[s]
  <2>1. hub[m] + n <= retry_count[m] + kills + 1
    BY <1>1, <1>3, DupTypes DEF DupInv, Accepted
  <2>2. QED
    BY <1>1, <1>2, <1>3, <2>1, DupTypes
<1>4. CASE m # held[s]
  <2>1. hub'[m] = hub[m] /\ retry_count'[m] = retry_count[m]
    BY <1>1, <1>2, <1>4, DupTypes
  <2>2. Accepted(m) => Accepted(m)'
    BY <1>2, <1>4, DupTypes DEF Accepted
  <2>3. QED
    BY <1>2, <2>1, <2>2 DEF DupInv
<1>5. QED
  BY <1>3, <1>4

LEMMA DupInductive == Inv /\ DupInv /\ [Next]_vars => DupInv'
<1> SUFFICES ASSUME Inv, DupInv, [Next]_vars PROVE DupInv'
  OBVIOUS
<1>0. \A m \in Msg : \A s \in Session : held[s] = m => state[m] = "locked"
  BY DupTypes DEF Inv, Exclusive
\* Steps that count nothing and end no accepted attempt.
<1>1. ASSUME UNCHANGED <<hub, retry_count, kills>>,
             \A m \in Msg : Accepted(m) => Accepted(m)'
      PROVE  DupInv'
  BY <1>1 DEF DupInv
<1>2. ASSUME NEW m \in Msg, Enqueue(m) \/ RetryDelayOver(m) PROVE DupInv'
  <2>1. \A k \in Msg : Accepted(k) => Accepted(k)'
    BY <1>2, DupTypes DEF Enqueue, RetryDelayOver, Accepted
  <2>2. QED
    BY <1>1, <1>2, <2>1 DEF Enqueue, RetryDelayOver
<1>3. ASSUME NEW s \in Session,
             AqCallback(s) \/ EndOfFetch(s) \/ Authenticate(s) \/ Log(s)
      PROVE  DupInv'
  <2>1. \A m \in Msg : Accepted(m) => Accepted(m)'
    BY <1>3 DEF AqCallback, EndOfFetch, Authenticate, Log, Accepted
  <2>2. QED
    BY <1>1, <1>3, <2>1 DEF AqCallback, EndOfFetch, Authenticate, Log
<1>4. ASSUME NEW s \in Session, Dequeue(s) PROVE DupInv'
  <2>1. PICK m \in Ready :
          state' = [state EXCEPT ![m] = "locked"] /\ held' = [held EXCEPT ![s] = m]
    BY <1>4 DEF Dequeue
  <2>2. held[s] = NoMsg /\ state[m] = "ready" /\ m \in Msg
    BY <1>4 DEF Dequeue, Ready, Inv, SessionInv
  <2>3. \A k \in Msg : Accepted(k) => Accepted(k)'
    BY <1>4, <2>1, <2>2, DupTypes DEF Dequeue, Accepted
  <2>4. QED
    BY <1>1, <1>4, <2>3 DEF Dequeue
<1>5. ASSUME NEW s \in Session, PostRejected(s) PROVE DupInv'
  <2>1. status[s] = "none"
    BY <1>5, DupTypes DEF PostRejected, Inv, SessionInv
  <2>2. \A m \in Msg : Accepted(m) => Accepted(m)'
    BY <1>5, <2>1, DupTypes DEF PostRejected, Accepted
  <2>3. QED
    BY <1>1, <1>5, <2>2 DEF PostRejected
<1>6. ASSUME NEW s \in Session, AuthenticateFails(s) \/ LogRaises(s) \/ RaiseSendError(s)
      PROVE  DupInv'
  <2>1. /\ pc[s] \in {"authenticate", "post", "log", "commit"}
        /\ Rollback(s) /\ hub' = hub
    BY <1>6 DEF AuthenticateFails, LogRaises, RaiseSendError
  <2>2. \E n \in {0, 1} : n = 0 /\ hub' = [hub EXCEPT ![held[s]] = @ + n]
    BY <2>1, DupTypes, HeldMessage
  <2>3. ASSUME NEW n \in {0, 1}, n = 0, hub' = [hub EXCEPT ![held[s]] = @ + n]
        PROVE  DupInv'
    <3>1. n = 1 => status[s] # "ok"
      BY <2>3
    <3>2. QED
      BY <2>1, <2>3, <3>1, RollbackPays
  <2>4. QED
    BY <2>2, <2>3
<1>7. ASSUME NEW s \in Session, PostRaises(s) PROVE DupInv'
  <2>1. /\ pc[s] \in {"authenticate", "post", "log", "commit"} /\ Rollback(s)
        /\ status[s] # "ok"
    BY <1>7, DupTypes DEF PostRaises, Inv, SessionInv
  <2>2. ASSUME NEW n \in {0, 1}, hub' = [hub EXCEPT ![held[s]] = @ + n]
        PROVE  DupInv'
    BY <2>1, <2>2, RollbackPays
  <2>3. QED
    BY <1>7, <2>2 DEF PostRaises
<1>8. ASSUME NEW s \in Session, PostAccepted(s) PROVE DupInv'
  <2>1. /\ held[s] \in Msg /\ state[held[s]] = "locked" /\ status[s] = "none"
        /\ \A t \in Session : held[t] = held[s] => t = s
    BY <1>8, HeldMessage, DupTypes DEF PostAccepted, Inv, SessionInv
  <2>2. hub[held[s]] <= retry_count[held[s]] + kills
    BY <2>1 DEF DupInv, Accepted
  <2>3. \A m \in Msg : m = held[s] => Accepted(m)'
    BY <1>8, DupTypes DEF PostAccepted, Accepted
  <2>4. \A m \in Msg : Accepted(m) => Accepted(m)'
    BY <1>8, <2>1, DupTypes DEF PostAccepted, Accepted
  <2>5. /\ hub' = [hub EXCEPT ![held[s]] = @ + 1]
        /\ retry_count' = retry_count /\ kills' = kills
    BY <1>8 DEF PostAccepted
  <2>6. \A m \in Msg : hub'[m] <= retry_count'[m] + kills' + 1
    BY <2>1, <2>2, <2>5, DupTypes DEF DupInv
  <2>7. ASSUME NEW m \in Msg, ~Accepted(m)'
        PROVE  hub'[m] <= retry_count'[m] + kills'
    <3>1. m # held[s]
      BY <2>3, <2>7
    <3>2. hub'[m] = hub[m]
      BY <2>1, <2>5, <3>1, DupTypes
    <3>3. ~Accepted(m)
      BY <2>4, <2>7
    <3>4. QED
      BY <2>5, <3>2, <3>3 DEF DupInv
  <2>8. QED
    BY <2>6, <2>7 DEF DupInv
<1>9. ASSUME NEW s \in Session, Commit(s) PROVE DupInv'
  <2>1. /\ held[s] \in Msg
        /\ \A t \in Session : held[t] = held[s] => t = s
    BY <1>9, HeldMessage DEF Commit
  <2>2. \A m \in Msg : Accepted(m) => Accepted(m)'
    BY <1>9, <2>1, DupTypes DEF Commit, Accepted
  <2>3. QED
    BY <1>1, <1>9, <2>2 DEF Commit
<1>10. ASSUME NEW s \in Session, Kill(s) PROVE DupInv'
  <2>1. kills' = kills + 1 /\ hub' = hub /\ retry_count' = retry_count
    BY <1>10 DEF Kill
  <2>2. QED
    BY <2>1, DupTypes DEF DupInv
<1>11. CASE UNCHANGED vars
  <2>1. \A m \in Msg : Accepted(m) => Accepted(m)'
    BY <1>11 DEF vars, Accepted
  <2>2. QED
    BY <1>1, <1>11, <2>1 DEF vars
<1>12. QED
  BY <1>2, <1>3, <1>4, <1>5, <1>6, <1>7, <1>8, <1>9, <1>10, <1>11
  DEF Next, SessionStep

\* The Event Hub takes a message at most once per attempt that was not
\* completed, and once more.
THEOREM DuplicateBoundHolds == Spec => []DuplicateBound
<1>1. Init => DupInv
  BY DEF Init, DupInv, Accepted
<1>2. DupInv => DuplicateBound
  BY DEF DupInv, DuplicateBound
<1>3. QED
  BY <1>1, <1>2, DupInductive, Invariance, PTL DEF Spec

-----------------------------------------------------------------------------
(* The log: an attempt that is about to be committed has its own row, with   *)
(* the answer it was given.                                                  *)

LoggedInv ==
  \A s \in Session : pc[s] = "commit" => logs[held[s]] = status[s]

LEMMA LoggedInductive ==
  Inv /\ LoggedInv /\ SentIsLogged /\ [Next]_vars => LoggedInv' /\ SentIsLogged'
<1> SUFFICES ASSUME Inv, LoggedInv, SentIsLogged, [Next]_vars
             PROVE  LoggedInv' /\ SentIsLogged'
  OBVIOUS
<1>0. /\ logs \in [Msg -> {"none", "ok", "error"}] /\ pc \in [Session -> Labels]
      /\ state \in [Msg -> MsgState] /\ held \in [Session -> Msg \cup {NoMsg}]
      /\ status \in [Session -> {"none", "ok", "error"}]
  BY DEF Inv, TypeOK, Labels
\* Steps that write no row, start no commit and remove nothing.
<1>1. ASSUME logs' = logs,
             \A t \in Session :
               pc'[t] = "commit" =>
                 pc[t] = "commit" /\ held'[t] = held[t] /\ status'[t] = status[t],
             \A m \in Msg : state'[m] = "removed" => state[m] = "removed"
      PROVE  LoggedInv' /\ SentIsLogged'
  BY <1>1 DEF LoggedInv, SentIsLogged
<1>2. ASSUME NEW m \in Msg, Enqueue(m) \/ RetryDelayOver(m)
      PROVE  LoggedInv' /\ SentIsLogged'
  BY <1>0, <1>1, <1>2 DEF Enqueue, RetryDelayOver
<1>3. ASSUME NEW s \in Session,
             \/ AqCallback(s) \/ EndOfFetch(s) \/ Authenticate(s)
             \/ PostAccepted(s) \/ PostRejected(s)
      PROVE  LoggedInv' /\ SentIsLogged'
  BY <1>0, <1>1, <1>3
  DEF AqCallback, EndOfFetch, Authenticate, PostAccepted, PostRejected, Goto
<1>4. ASSUME NEW s \in Session, Dequeue(s) PROVE LoggedInv' /\ SentIsLogged'
  <2>1. PICK m \in Ready :
          /\ state' = [state EXCEPT ![m] = "locked"]
          /\ held' = [held EXCEPT ![s] = m]
          /\ logs' = [logs EXCEPT ![m] = "none"]
    BY <1>4 DEF Dequeue
  <2>2. m \in Msg /\ state[m] = "ready" /\ status' = status
    BY <1>4 DEF Ready, Dequeue
  <2>3. LoggedInv'
    <3> SUFFICES ASSUME NEW t \in Session, pc'[t] = "commit"
                 PROVE  logs'[held'[t]] = status'[t]
      BY DEF LoggedInv
    <3>1. pc[t] = "commit" /\ t # s
      BY <1>0, <1>4 DEF Dequeue, Goto
    <3>2. held[t] \in Msg /\ state[held[t]] = "locked"
      BY <3>1, HeldMessage
    <3>3. held'[t] = held[t] /\ held[t] # m
      BY <1>0, <2>1, <2>2, <3>1, <3>2
    <3>4. QED
      BY <1>0, <2>1, <2>2, <3>1, <3>2, <3>3 DEF LoggedInv
  <2>4. SentIsLogged'
    BY <1>0, <2>1, <2>2 DEF SentIsLogged
  <2>5. QED
    BY <2>3, <2>4
<1>5. ASSUME NEW s \in Session, Rollback(s), logs' = logs
      PROVE  LoggedInv' /\ SentIsLogged'
  BY <1>0, <1>1, <1>5 DEF Rollback, Goto
<1>6. ASSUME NEW s \in Session,
             AuthenticateFails(s) \/ LogRaises(s) \/ RaiseSendError(s) \/ PostRaises(s)
      PROVE  LoggedInv' /\ SentIsLogged'
  BY <1>5, <1>6 DEF AuthenticateFails, LogRaises, RaiseSendError, PostRaises
<1>7. ASSUME NEW s \in Session, Log(s) PROVE LoggedInv' /\ SentIsLogged'
  <2>1. /\ held[s] \in Msg /\ state[held[s]] = "locked"
        /\ \A t \in Session : held[t] = held[s] => t = s
    BY <1>7, HeldMessage DEF Log
  <2>2. /\ logs' = [logs EXCEPT ![held[s]] = status[s]]
        /\ UNCHANGED <<state, held, status>>
    BY <1>7 DEF Log
  <2>3. LoggedInv'
    <3> SUFFICES ASSUME NEW t \in Session, pc'[t] = "commit"
                 PROVE  logs'[held[t]] = status[t]
      BY <2>2 DEF LoggedInv
    <3>1. CASE t = s
      BY <1>0, <2>1, <2>2, <3>1
    <3>2. CASE t # s
      <4>1. pc[t] = "commit"
        BY <1>0, <1>7, <3>2 DEF Log, Goto
      <4>2. held[t] \in Msg /\ held[t] # held[s]
        BY <2>1, <3>2, <4>1, HeldMessage
      <4>3. QED
        BY <1>0, <2>2, <4>1, <4>2 DEF LoggedInv
    <3>3. QED
      BY <3>1, <3>2
  <2>4. SentIsLogged'
    BY <1>0, <2>1, <2>2 DEF SentIsLogged
  <2>5. QED
    BY <2>3, <2>4
<1>8. ASSUME NEW s \in Session, Commit(s) PROVE LoggedInv' /\ SentIsLogged'
  <2>1. /\ held[s] \in Msg /\ logs[held[s]] = "ok"
    BY <1>8, HeldMessage DEF Commit, LoggedInv
  <2>2. \A t \in Session :
          pc'[t] = "commit" =>
            pc[t] = "commit" /\ held'[t] = held[t] /\ status'[t] = status[t]
    BY <1>0, <1>8 DEF Commit, Goto
  <2>3. logs' = logs /\ state' = [state EXCEPT ![held[s]] = "removed"]
    BY <1>8 DEF Commit
  <2>4. LoggedInv'
    BY <2>2, <2>3 DEF LoggedInv
  <2>5. SentIsLogged'
    BY <1>0, <2>1, <2>3 DEF SentIsLogged
  <2>6. QED
    BY <2>4, <2>5
<1>9. ASSUME NEW s \in Session, Kill(s) PROVE LoggedInv' /\ SentIsLogged'
  <2>1. \A m \in Msg : state'[m] = "removed" => state[m] = "removed"
    BY <1>0, <1>9 DEF Kill
  <2>2. QED
    BY <1>0, <1>1, <1>9, <2>1 DEF Kill, Goto
<1>10. CASE UNCHANGED vars
  BY <1>1, <1>10 DEF vars
<1>11. QED
  BY <1>2, <1>3, <1>4, <1>6, <1>7, <1>8, <1>9, <1>10 DEF Next, SessionStep

\* Whatever is removed from the queue has an entry in oqf_logs about the attempt
\* that sent it: the row of that attempt is written before the commit, and no
\* failure in between removes the message.
THEOREM SentIsLoggedHolds == Spec => []SentIsLogged
<1>1. Init => LoggedInv /\ SentIsLogged
  BY DEF Init, LoggedInv, SentIsLogged
<1>2. QED
  BY <1>1, LoggedInductive, Invariance, PTL DEF Spec

-----------------------------------------------------------------------------
(* Nobody is forgotten: ready and held messages are paid for by             *)
(* notifications, running callbacks and kills. There may be infinitely many *)
(* sessions, but only finitely many are ever busy.                           *)

Busy == {s \in Session : pc[s] # "idle"}
Holding == {s \in Session : held[s] # NoMsg}

PaidInv ==
  /\ IsFiniteSet(Busy)
  /\ Cardinality(Ready) + Cardinality(Holding)
       <= notifications + Cardinality(Busy) + kills

LEMMA PaidTypes ==
  ASSUME Inv, IsFiniteSet(Busy)
  PROVE  /\ IsFiniteSet(Ready) /\ IsFiniteSet(Holding) /\ Holding \subseteq Busy
         /\ {Cardinality(Ready), Cardinality(Holding), Cardinality(Busy),
             notifications, kills} \subseteq Nat
         /\ pc \in [Session -> Labels] /\ held \in [Session -> Msg \cup {NoMsg}]
         /\ state \in [Msg -> MsgState] /\ NoMsg \notin Msg
<1>1. Holding \subseteq Busy
  BY DEF Inv, SessionInv, Holding, Busy
<1>2. IsFiniteSet(Holding)
  BY <1>1, FS_Subset
<1>3. IsFiniteSet(Msg)
  BY FS_Interval, QueueAssumption DEF QueueAssumption, Msg
<1>4. IsFiniteSet(Ready)
  BY <1>3, FS_Subset DEF Ready
<1>5. {Cardinality(Ready), Cardinality(Holding), Cardinality(Busy)} \subseteq Nat
  BY <1>2, <1>4, FS_CardinalityType
<1>6. /\ notifications \in Nat /\ kills \in Nat
      /\ pc \in [Session -> Labels] /\ held \in [Session -> Msg \cup {NoMsg}]
      /\ state \in [Msg -> MsgState] /\ NoMsg \notin Msg
  BY QueueAssumption DEF QueueAssumption, Inv, TypeOK, Labels
<1>7. QED
  BY <1>1, <1>2, <1>4, <1>5, <1>6

\* One element more, or one less.
LEMMA CountAdd ==
  ASSUME NEW S, IsFiniteSet(S), NEW x, x \notin S, NEW T, T = S \cup {x}
  PROVE  IsFiniteSet(T) /\ Cardinality(T) = Cardinality(S) + 1
BY FS_AddElement

LEMMA CountRemove ==
  ASSUME NEW S, IsFiniteSet(S), NEW x \in S, NEW T, T = S \ {x}
  PROVE  IsFiniteSet(T) /\ Cardinality(T) = Cardinality(S) - 1
BY FS_RemoveElement

\* A message becomes ready and notifies.
LEMMA ReadyPays ==
  ASSUME Inv, PaidInv, NEW m \in Msg, state[m] # "ready",
         state' = [state EXCEPT ![m] = "ready"], notifications' = notifications + 1,
         UNCHANGED <<pc, held, kills>>
  PROVE  PaidInv'
<1>0. IsFiniteSet(Busy)
  BY DEF PaidInv
<1>1. Ready' = Ready \cup {m} /\ m \notin Ready
  BY <1>0, PaidTypes DEF Ready
<1>2. Cardinality(Ready') = Cardinality(Ready) + 1
  BY <1>0, <1>1, PaidTypes, CountAdd
<1>3. Busy' = Busy /\ Holding' = Holding
  BY DEF Busy, Holding
<1>4. QED
  BY <1>0, <1>2, <1>3, PaidTypes DEF PaidInv

\* A callback ends without its message, which does not become ready.
LEMMA RollbackStrandsNobody ==
  ASSUME Inv, PaidInv, NEW s \in Session,
         pc[s] \in {"authenticate", "post", "log", "commit"}, Rollback(s)
  PROVE  PaidInv'
<1>0. IsFiniteSet(Busy)
  BY DEF PaidInv
<1>1. held[s] \in Msg /\ state[held[s]] = "locked" /\ held[s] # NoMsg
  BY <1>0, HeldMessage, PaidTypes
<1>2. Ready' = Ready
  BY <1>0, <1>1, PaidTypes DEF Ready, Rollback
<1>3. Busy' = Busy \ {s} /\ s \in Busy
  BY <1>0, PaidTypes DEF Busy, Rollback, Goto
<1>4. Holding' = Holding \ {s} /\ s \in Holding
  BY <1>0, <1>1, PaidTypes DEF Holding, Rollback
<1>5. /\ IsFiniteSet(Busy') /\ Cardinality(Busy') = Cardinality(Busy) - 1
      /\ Cardinality(Holding') = Cardinality(Holding) - 1
  BY <1>0, <1>3, <1>4, PaidTypes, CountRemove
<1>6. notifications' = notifications /\ kills' = kills
  BY DEF Rollback
<1>7. QED
  BY <1>0, <1>2, <1>5, <1>6, PaidTypes DEF PaidInv

LEMMA PaidInductive == Inv /\ PaidInv /\ [Next]_vars => PaidInv'
<1> SUFFICES ASSUME Inv, PaidInv, [Next]_vars PROVE PaidInv'
  OBVIOUS
<1>0. IsFiniteSet(Busy)
  BY DEF PaidInv
\* Steps that wake nobody, end nothing and move no message.
<1>1. ASSUME Ready' = Ready, Busy' = Busy, Holding' = Holding,
             UNCHANGED <<notifications, kills>>
      PROVE  PaidInv'
  BY <1>1 DEF PaidInv
<1>2. ASSUME NEW m \in Msg, Enqueue(m) PROVE PaidInv'
  BY <1>2, ReadyPays DEF Enqueue
<1>3. ASSUME NEW m \in Msg, RetryDelayOver(m) PROVE PaidInv'
  BY <1>3, ReadyPays DEF RetryDelayOver
<1>4. ASSUME NEW s \in Session, AqCallback(s) PROVE PaidInv'
  <2>1. Busy' = Busy \cup {s} /\ s \notin Busy
    BY <1>0, <1>4, PaidTypes DEF Busy, AqCallback, Goto
  <2>2. IsFiniteSet(Busy') /\ Cardinality(Busy') = Cardinality(Busy) + 1
    BY <1>0, <2>1, CountAdd
  <2>3. Ready' = Ready /\ Holding' = Holding
    BY <1>4 DEF AqCallback, Ready, Holding
  <2>4. notifications' = notifications - 1 /\ kills' = kills
    BY <1>4 DEF AqCallback
  <2>5. QED
    BY <1>0, <2>2, <2>3, <2>4, PaidTypes DEF PaidInv
<1>5. ASSUME NEW s \in Session, Dequeue(s) PROVE PaidInv'
  <2>1. PICK m \in Ready :
          state' = [state EXCEPT ![m] = "locked"] /\ held' = [held EXCEPT ![s] = m]
    BY <1>5 DEF Dequeue
  <2>2. Ready' = Ready \ {m}
    BY <1>0, <2>1, PaidTypes DEF Ready
  <2>3. s \notin Holding /\ Holding' = Holding \cup {s}
    BY <1>0, <1>5, <2>1, PaidTypes DEF Holding, Dequeue, Ready, Inv, SessionInv
  <2>4. Busy' = Busy
    BY <1>0, <1>5, PaidTypes DEF Busy, Dequeue, Goto
  <2>5. /\ Cardinality(Ready') = Cardinality(Ready) - 1
        /\ Cardinality(Holding') = Cardinality(Holding) + 1
    BY <1>0, <2>1, <2>2, <2>3, PaidTypes, CountAdd, CountRemove
  <2>6. notifications' = notifications /\ kills' = kills
    BY <1>5 DEF Dequeue
  <2>7. QED
    BY <1>0, <2>4, <2>5, <2>6, PaidTypes DEF PaidInv
\* The callback returns only when nothing is ready, so that the others' messages
\* are all it could leave behind.
<1>6. ASSUME NEW s \in Session, EndOfFetch(s) PROVE PaidInv'
  <2>1. Busy' = Busy \ {s} /\ s \in Busy
    BY <1>0, <1>6, PaidTypes DEF Busy, EndOfFetch, Goto
  <2>2. Holding' = Holding /\ Ready' = {}
    BY <1>6 DEF EndOfFetch, Holding, Ready
  <2>3. Holding \subseteq Busy'
    BY <1>0, <1>6, <2>1, PaidTypes DEF EndOfFetch, Inv, SessionInv, Holding
  <2>4. IsFiniteSet(Busy') /\ Cardinality(Busy') \in Nat
    BY <1>0, <2>1, FS_RemoveElement, FS_CardinalityType
  <2>5. Cardinality(Holding) <= Cardinality(Busy')
    BY <2>3, <2>4, FS_Subset
  <2>6. Cardinality(Ready') = 0
    BY <2>2, FS_EmptySet
  <2>7. notifications' = notifications /\ kills' = kills
    BY <1>6 DEF EndOfFetch
  <2>8. QED
    BY <1>0, <2>2, <2>4, <2>5, <2>6, <2>7, PaidTypes DEF PaidInv
<1>7. ASSUME NEW s \in Session,
             Authenticate(s) \/ PostAccepted(s) \/ PostRejected(s) \/ Log(s)
      PROVE  PaidInv'
  <2>1. Busy' = Busy
    BY <1>0, <1>7, PaidTypes
    DEF Busy, Authenticate, PostAccepted, PostRejected, Log, Goto
  <2>2. /\ Ready' = Ready /\ Holding' = Holding
        /\ UNCHANGED <<notifications, kills>>
    BY <1>7 DEF Authenticate, PostAccepted, PostRejected, Log, Ready, Holding
  <2>3. QED
    BY <1>1, <2>1, <2>2
<1>8. ASSUME NEW s \in Session,
             \/ AuthenticateFails(s) \/ PostRaises(s) \/ LogRaises(s)
             \/ RaiseSendError(s)
      PROVE  PaidInv'
  <2>1. pc[s] \in {"authenticate", "post", "log", "commit"} /\ Rollback(s)
    BY <1>8 DEF AuthenticateFails, PostRaises, LogRaises, RaiseSendError
  <2>2. QED
    BY <2>1, RollbackStrandsNobody
<1>9. ASSUME NEW s \in Session, Commit(s) PROVE PaidInv'
  <2>1. held[s] \in Msg /\ state[held[s]] = "locked" /\ held[s] # NoMsg
    BY <1>0, <1>9, HeldMessage, PaidTypes DEF Commit
  <2>2. Ready' = Ready /\ Busy' = Busy
    BY <1>0, <1>9, <2>1, PaidTypes DEF Ready, Busy, Commit, Goto
  <2>3. Holding' = Holding \ {s} /\ s \in Holding
    BY <1>0, <1>9, <2>1, PaidTypes DEF Holding, Commit
  <2>4. Cardinality(Holding') = Cardinality(Holding) - 1
    BY <1>0, <2>3, PaidTypes, CountRemove
  <2>5. notifications' = notifications /\ kills' = kills
    BY <1>9 DEF Commit
  <2>6. QED
    BY <1>0, <2>2, <2>4, <2>5, PaidTypes DEF PaidInv
<1>10. ASSUME NEW s \in Session, Kill(s) PROVE PaidInv'
  <2>1. Busy' = Busy \ {s} /\ s \in Busy
    BY <1>0, <1>10, PaidTypes DEF Busy, Kill, Goto
  <2>2. IsFiniteSet(Busy') /\ Cardinality(Busy') = Cardinality(Busy) - 1
    BY <1>0, <2>1, CountRemove
  <2>3. kills' = kills + 1 /\ notifications' = notifications
    BY <1>10 DEF Kill
  <2>4. CASE held[s] = NoMsg
    <3>1. Ready' = Ready /\ Holding' = Holding
      BY <1>0, <1>10, <2>4, PaidTypes DEF Kill, Ready, Holding
    <3>2. QED
      BY <1>0, <2>2, <2>3, <3>1, PaidTypes DEF PaidInv
  <2>5. CASE held[s] # NoMsg
    <3>1. held[s] \in Msg /\ state[held[s]] = "locked"
      BY <2>5, HeldMessage DEF Inv, SessionInv
    <3>2. Ready' = Ready \cup {held[s]} /\ held[s] \notin Ready
      BY <1>0, <1>10, <2>5, <3>1, PaidTypes DEF Kill, Ready
    <3>3. Holding' = Holding \ {s} /\ s \in Holding
      BY <1>0, <1>10, <2>5, PaidTypes DEF Kill, Holding
    <3>4. /\ Cardinality(Ready') = Cardinality(Ready) + 1
          /\ Cardinality(Holding') = Cardinality(Holding) - 1
      BY <1>0, <3>2, <3>3, PaidTypes, CountAdd, CountRemove
    <3>5. QED
      BY <1>0, <2>2, <2>3, <3>4, PaidTypes DEF PaidInv
  <2>6. QED
    BY <2>4, <2>5
<1>11. CASE UNCHANGED vars
  BY <1>1, <1>11 DEF vars, Ready, Busy, Holding
<1>12. QED
  BY <1>2, <1>3, <1>4, <1>5, <1>6, <1>7, <1>8, <1>9, <1>10, <1>11
  DEF Next, SessionStep

\* However callbacks fail and return, there are always enough notifications and
\* running callbacks for the messages that are ready, save one per kill.
THEOREM NoStrandedHolds == Spec => []NoStranded
<1>1. Init => PaidInv
  <2> SUFFICES ASSUME Init PROVE PaidInv
    OBVIOUS
  <2>1. Ready = {} /\ Busy = {} /\ Holding = {}
    BY DEF Init, Ready, Busy, Holding
  <2>2. notifications = 0 /\ kills = 0
    BY DEF Init
  <2>3. QED
    BY <2>1, <2>2, FS_EmptySet DEF PaidInv
<1>2. PaidInv => NoStranded
  BY DEF PaidInv, NoStranded, Busy, Holding
<1>3. QED
  BY <1>1, <1>2, PaidInductive, Invariance, PTL DEF Spec

-----------------------------------------------------------------------------
(* At-least-once delivery: each step of the queue is a step of AtLeastOnce   *)
(* or leaves its variables alone.                                            *)

\* The abstract status of the messages other than the one a step moves.
LEMMA MovedStatus ==
  ASSUME NEW m \in Msg, state \in [Msg -> MsgState], NEW x \in MsgState,
         state' = [state EXCEPT ![m] = x]
  PROVE  AbstractStatus' =
           [AbstractStatus EXCEPT ![m] =
              CASE x = "absent"    -> "absent"
                [] x = "removed"   -> "sent"
                [] x = "exception" -> "setAside"
                [] OTHER           -> "pending"]
BY DEF AbstractStatus

\* A rolled back attempt is a failed attempt of the promise.
LEMMA RollbackFails ==
  ASSUME Inv, NEW s \in Session,
         pc[s] \in {"authenticate", "post", "log", "commit"}, Rollback(s),
         NEW n \in {0, 1}, hub' = [hub EXCEPT ![held[s]] = @ + n]
  PROVE  Promise!FailAttempt(held[s])
<1> DEFINE m == held[s]
           x == IF retry_count[m] + 1 > MaxRetries THEN "exception" ELSE "delayed"
<1>1. m \in Msg /\ state[m] = "locked" /\ retry_count[m] \in 0..MaxRetries
  BY HeldMessage
<1>2. state \in [Msg -> MsgState] /\ hub \in [Msg -> Nat] /\ x \in MsgState
  BY DEF Inv, TypeOK, MsgState
<1>3. state' = [state EXCEPT ![m] = x]
  BY DEF Rollback
<1>4. retry_count' = [retry_count EXCEPT ![m] = @ + 1]
  BY DEF Rollback
<1>5. AbstractStatus[m] = "pending"
  BY <1>1 DEF AbstractStatus
<1>6. AbstractStatus' =
        [AbstractStatus EXCEPT ![m] =
           IF retry_count[m] + 1 = MaxRetries + 1 THEN "setAside" ELSE "pending"]
  <2>1. x = IF retry_count[m] + 1 = MaxRetries + 1 THEN "exception" ELSE "delayed"
    BY <1>1, QueueAssumption DEF QueueAssumption
  <2> HIDE DEF x
  <2>2. CASE x = "exception"
    BY <1>1, <1>2, <1>3, <2>1, <2>2, MovedStatus
  <2>3. CASE x = "delayed"
    BY <1>1, <1>2, <1>3, <2>1, <2>3, MovedStatus
  <2>4. QED
    BY <2>1, <2>2, <2>3
<1>7. hub[m] + n \in {hub[m], hub[m] + 1}
  BY <1>1, <1>2
<1>8. QED
  BY <1>4, <1>5, <1>6, <1>7 DEF Promise!FailAttempt

\* Every step of the queue is one of the promise's.
LEMMA StepSimulation ==
  Inv /\ [Next]_vars => [Promise!Next]_(Promise!vars)
<1> SUFFICES ASSUME Inv, [Next]_vars PROVE [Promise!Next]_(Promise!vars)
  OBVIOUS
<1> USE DEF Promise!vars
<1>0. state \in [Msg -> MsgState] /\ hub \in [Msg -> Nat]
  BY DEF Inv, TypeOK
<1>1. ASSUME NEW m \in Msg, Enqueue(m) PROVE Promise!Next
  <2>1. AbstractStatus[m] = "absent"
    BY <1>1 DEF Enqueue, AbstractStatus
  <2>2. AbstractStatus' = [AbstractStatus EXCEPT ![m] = "pending"]
    BY <1>0, <1>1, MovedStatus DEF Enqueue, MsgState
  <2>3. QED
    BY <1>1, <2>1, <2>2 DEF Enqueue, Promise!Submit, Promise!Next
<1>2. ASSUME NEW m \in Msg, RetryDelayOver(m) PROVE UNCHANGED Promise!vars
  <2>1. AbstractStatus[m] = "pending"
    BY <1>2 DEF RetryDelayOver, AbstractStatus
  <2>2. AbstractStatus' = [AbstractStatus EXCEPT ![m] = "pending"]
    BY <1>0, <1>2, MovedStatus DEF RetryDelayOver, MsgState
  <2>3. QED
    BY <1>2, <2>1, <2>2 DEF RetryDelayOver, AbstractStatus
<1>3. ASSUME NEW s \in Session,
             \/ AqCallback(s) \/ EndOfFetch(s) \/ Authenticate(s)
             \/ PostRejected(s) \/ Log(s)
      PROVE  UNCHANGED Promise!vars
  BY <1>3 DEF AqCallback, EndOfFetch, Authenticate, PostRejected, Log, AbstractStatus
<1>4. ASSUME NEW s \in Session, Dequeue(s) PROVE UNCHANGED Promise!vars
  <2>1. PICK m \in Ready : state' = [state EXCEPT ![m] = "locked"]
    BY <1>4 DEF Dequeue
  <2>2. m \in Msg /\ AbstractStatus[m] = "pending"
    BY DEF Ready, AbstractStatus
  <2>3. AbstractStatus' = [AbstractStatus EXCEPT ![m] = "pending"]
    BY <1>0, <2>1, <2>2, MovedStatus DEF MsgState
  <2>4. QED
    BY <1>4, <2>2, <2>3 DEF Dequeue, AbstractStatus
<1>5. ASSUME NEW s \in Session, AuthenticateFails(s) \/ LogRaises(s) \/ RaiseSendError(s)
      PROVE  Promise!Next
  <2>1. /\ pc[s] \in {"authenticate", "post", "log", "commit"}
        /\ Rollback(s) /\ hub' = hub
    BY <1>5 DEF AuthenticateFails, LogRaises, RaiseSendError
  <2>2. held[s] \in Msg
    BY <2>1, HeldMessage
  <2>3. hub' = [hub EXCEPT ![held[s]] = @ + 0]
    BY <1>0, <2>1, <2>2
  <2>4. Promise!FailAttempt(held[s])
    BY <2>1, <2>3, RollbackFails
  <2>5. QED
    BY <2>2, <2>4 DEF Promise!Next
<1>6. ASSUME NEW s \in Session, PostAccepted(s) PROVE Promise!Next
  <2>1. held[s] \in Msg /\ state[held[s]] = "locked"
    BY <1>6, HeldMessage DEF PostAccepted
  <2>2. AbstractStatus[held[s]] = "pending" /\ UNCHANGED AbstractStatus
    BY <1>6, <2>1 DEF PostAccepted, AbstractStatus
  <2>3. Promise!Deliver(held[s])
    BY <1>6, <2>2 DEF PostAccepted, Promise!Deliver
  <2>4. QED
    BY <2>1, <2>3 DEF Promise!Next
<1>7. ASSUME NEW s \in Session, PostRaises(s) PROVE Promise!Next
  <2>1. PICK n \in {0, 1} : hub' = [hub EXCEPT ![held[s]] = @ + n]
    BY <1>7 DEF PostRaises
  <2>2. pc[s] \in {"authenticate", "post", "log", "commit"} /\ Rollback(s)
    BY <1>7 DEF PostRaises
  <2>3. held[s] \in Msg
    BY <2>2, HeldMessage
  <2>4. Promise!FailAttempt(held[s])
    BY <2>1, <2>2, RollbackFails
  <2>5. QED
    BY <2>3, <2>4 DEF Promise!Next
<1>8. ASSUME NEW s \in Session, Commit(s) PROVE Promise!Next
  <2>1. held[s] \in Msg /\ state[held[s]] = "locked" /\ hub[held[s]] >= 1
    BY <1>8, HeldMessage DEF Commit, Inv, AcceptedInv
  <2>2. AbstractStatus[held[s]] = "pending"
    BY <2>1 DEF AbstractStatus
  <2>3. AbstractStatus' = [AbstractStatus EXCEPT ![held[s]] = "sent"]
    BY <1>0, <1>8, <2>1, MovedStatus DEF Commit, MsgState
  <2>4. Promise!Acknowledge(held[s])
    BY <1>0, <1>8, <2>1, <2>2, <2>3 DEF Commit, Promise!Acknowledge
  <2>5. QED
    BY <2>1, <2>4 DEF Promise!Next
<1>9. ASSUME NEW s \in Session, Kill(s) PROVE UNCHANGED Promise!vars
  <2>1. CASE held[s] = NoMsg
    BY <1>9, <2>1 DEF Kill, AbstractStatus
  <2>2. CASE held[s] # NoMsg
    <3>1. held[s] \in Msg /\ state[held[s]] = "locked"
      BY <2>2, HeldMessage DEF Inv, SessionInv
    <3>2. AbstractStatus[held[s]] = "pending"
      BY <3>1 DEF AbstractStatus
    <3>3. AbstractStatus' = [AbstractStatus EXCEPT ![held[s]] = "pending"]
      BY <1>0, <1>9, <2>2, <3>1, MovedStatus DEF Kill, MsgState
    <3>4. QED
      BY <1>9, <3>2, <3>3 DEF Kill, AbstractStatus
  <2>3. QED
    BY <2>1, <2>2
<1>10. CASE UNCHANGED vars
  BY <1>10 DEF vars, AbstractStatus
<1>11. QED
  BY <1>1, <1>2, <1>3, <1>4, <1>5, <1>6, <1>7, <1>8, <1>9, <1>10
  DEF Next, SessionStep

\* QUEUE_DML with its callbacks keeps the promise of at-least-once delivery.
THEOREM Implementation == Spec => ImplementsPromise
<1>1. Init => Promise!Init
  BY DEF Init, Promise!Init, AbstractStatus
<1>2. QED
  BY <1>1, StepSimulation, Invariance, PTL DEF Spec, Promise!Spec, ImplementsPromise
=============================================================================
