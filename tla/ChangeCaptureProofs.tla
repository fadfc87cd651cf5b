------------------------- MODULE ChangeCaptureProofs -------------------------
(***************************************************************************)
(* Theorems about the change notification callbacks and the push of whole   *)
(* tables, for any number of tables, rows, transactions and callbacks.      *)
(*                                                                         *)
(* The inductive invariant follows a changed row from the commit to the     *)
(* consumer: its table is ahead in the notification of the transaction that *)
(* last changed it, or the row has been gathered and is at hand, or the     *)
(* entry on top of its entries has its contents.                            *)
(***************************************************************************)
EXTENDS ChangeCapture, FiniteSetTheorems, SequenceTheorems, TLAPS

\* A callback in its loop has a table at hand, no row has been changed by a
\* transaction still to come, and no send operation is used before it is drawn.
ControlInv ==
  /\ \A n \in Txn : pc[n] \in {"notified", "gather", "open", "fetch"} => ntfnds[n].tables # <<>>
  /\ \A r \in RowId : version[r] <= txns
  /\ \A e \in published : e.sendOp <= s_az_send_op
  /\ \A n \in Reader : l_opnum[n] <= s_az_send_op

\* The rows that a transaction is known to have changed are not older.
SinceInv ==
  \A n \in Txn :
    /\ \A i \in DOMAIN ntfnds[n].tables :
         \A x \in ntfnds[n].tables[i].rows : version[x.row] >= n
    /\ \A x \in l_rowids[n] : x.op # "Upsert" => version[x.row] >= n

\* Descriptor i of notification n stands for row r.
Listed(n, i, r) ==
  LET d == ntfnds[n].tables[i]
  IN  d.table = TableOf[r] /\ (d.allRows \/ \E x \in d.rows : x.row = r)

\* The reference date of callback n, taken or to be taken, does not exclude r.
InTime(n, r) ==
  /\ pc[n] = "notified" => /\ now <= ntfnds[n].at + MaxLag
                           /\ ntfnds[n].at <= updated[r] + MaxAge
  /\ pc[n] \in {"gather", "open", "fetch"} => l_dags[n] <= updated[r]

\* The callback of n has still to gather the table of r.
Ahead(n, r) ==
  /\ InTime(n, r)
  /\ \E i \in DOMAIN ntfnds[n].tables :
       /\ Listed(n, i, r)
       /\ \/ pc[n] \in {"notified", "gather"}
          \/ pc[n] \in {"open", "fetch"} /\ i > 1

\* Reader n has gathered r and will publish it on top of its entries.
Gathered(n, r) ==
  /\ \E x \in l_rowids[n] : x.row = r
  /\ \/ pc[n] = "open"
     \/ pc[n] = "fetch" /\ \A e \in EntriesOf(r) : e.sendOp <= l_opnum[n]

\* The callback of n will publish r.
Coming(n, r) ==
  \/ Ahead(n, r)
  \/ Gathered(n, r) /\ ntfnds[n].tables[1].table = TableOf[r]

\* A changed row is coming or has come.
ChangedInv ==
  \A r \in live \ lost, n \in Txn :
    version[r] = n => Coming(n, r) \/ ConsumerHas(r)

\* So is an unchanged row of a table that is being pushed.
PushedInv ==
  \A r \in live \ lost :
    version[r] = 0 /\ TableOf[r] \in pushed =>
      Gathered(Push, r) \/ ConsumerHas(r) \/ pc[Push] = "failed"

\* The part of the invariant that needs nothing of the ALL_ROWS window.
RowsInv == TypeOK /\ ControlInv /\ SinceInv /\ NeverOlderThanTransaction

Inv ==
  /\ RowsInv
  /\ WindowSuffices => ChangedInv
  /\ PushedInv

-----------------------------------------------------------------------------
(* Types *)

LEMMA Constants ==
  /\ {Threshold, Window, MaxLag, MaxAge, MaxTxns, MaxRaises, MaxTime} \subseteq Nat
  /\ Txn \subseteq Nat /\ Txn \subseteq Reader /\ Push \in Reader /\ Push \notin Txn
  /\ Push = 0 /\ Reader \subseteq Nat /\ \A n \in Txn : n > 0
  /\ TableOf \in [RowId -> Table] /\ InitialRows \subseteq RowId
<1>1. /\ {Threshold, Window, MaxLag, MaxAge, MaxTxns, MaxRaises, MaxTime} \subseteq Nat
      /\ TableOf \in [RowId -> Table] /\ InitialRows \subseteq RowId
  BY CaptureAssumption DEF CaptureAssumption
<1>2. QED
  BY <1>1 DEF Txn, Reader, Push

\* Descriptor d stands for just the changed rows of table t.
Describes(d, t, changed) ==
  /\ d \in TableDesc /\ d.table = t
  /\ \A x \in d.rows : x.row \in changed
  /\ \A r \in changed : TableOf[r] = t => d.allRows \/ \E x \in d.rows : x.row = r

LEMMA DescribeType ==
  ASSUME TypeOK, NEW t \in Table, NEW changed \in SUBSET RowId, NEW deleted, NEW rolledUp
  PROVE  Describes(Describe(t, changed, deleted, rolledUp), t, changed)
<1> DEFINE rows == changed \cap RowsOf(t)
           all  == Cardinality(rows) > Threshold \/ t \in rolledUp
           op(r) == IF r \in deleted THEN "Delete" ELSE IF r \in live THEN "Update" ELSE "Insert"
           descs == {[row |-> r, op |-> op(r)] : r \in rows}
           D == Describe(t, changed, deleted, rolledUp)
<1>1. D = [table |-> t, allRows |-> all, rows |-> IF all THEN {} ELSE descs]
  BY DEF Describe
<1>2. rows \subseteq RowId /\ \A r \in rows : r \in changed /\ TableOf[r] = t
  BY DEF RowsOf
<1>3. \A r \in rows : op(r) \in RowOps
  BY DEF RowOps
<1>4. descs \subseteq RowDesc
  BY <1>2, <1>3 DEF RowDesc
<1>5. \A x \in descs : x.row \in rows
  OBVIOUS
<1>6. \A r \in rows : \E x \in descs : x.row = r
  <2> SUFFICES ASSUME NEW r \in rows PROVE \E x \in descs : x.row = r
    OBVIOUS
  <2>1. [row |-> r, op |-> op(r)] \in descs
    OBVIOUS
  <2>2. QED
    BY <2>1
<1>7. \A r \in changed : TableOf[r] = t => r \in rows
  BY DEF RowsOf
<1>8. all \in BOOLEAN
  OBVIOUS
<1> HIDE DEF rows, all, op, descs, D
<1>9. D.table = t /\ D.allRows = all /\ D.rows = IF all THEN {} ELSE descs
  BY <1>1
<1>10. D \in TableDesc
  BY <1>1, <1>4, <1>8 DEF TableDesc
<1>11. QED
  BY <1>2, <1>5, <1>6, <1>7, <1>9, <1>10 DEF D, Describes

\* What the notification of a transaction says.
LEMMA Notified ==
  ASSUME TypeOK, NEW changed \in SUBSET RowId, NEW deleted \in SUBSET changed,
         NEW age \in 0..MaxAge, CommitTxn(changed, deleted, age),
         NEW n, n = txns + 1
  PROVE  /\ n \in Txn /\ ntfnds' \in [Txn -> Notification]
         /\ ntfnds'[n].at = now /\ ntfnds'[n].tables # <<>>
         /\ \A m \in Txn \ {n} : ntfnds'[m] = ntfnds[m]
         /\ \A i \in DOMAIN ntfnds'[n].tables :
              \A x \in ntfnds'[n].tables[i].rows : x.row \in changed
         /\ \A r \in changed : \E i \in DOMAIN ntfnds'[n].tables : Listed(n, i, r)'
<1> DEFINE tables == {TableOf[r] : r \in changed}
           Desc(t, up) == Describe(t, changed, deleted, up)
<1>0. n \in Txn /\ now \in Nat
  <2>1. txns \in Nat /\ n <= MaxTxns
    BY Constants DEF TypeOK, CommitTxn
  <2>2. QED
    BY <2>1, Constants DEF TypeOK, Txn
<1>1. tables \subseteq Table /\ IsFiniteSet(tables) /\ Cardinality(tables) \in Nat
  <2>1. tables \subseteq Table
    BY Constants
  <2>2. QED
    BY <2>1, FS_Subset, FS_CardinalityType, CaptureAssumption DEF CaptureAssumption
<1>2. \E t : t \in tables
  BY DEF CommitTxn
<1> HIDE DEF tables
<1>3. PICK order \in [1..Cardinality(tables) -> tables],
           up \in IF n \in RollUps THEN SUBSET tables ELSE {{}} :
        /\ \A t \in tables : \E i \in DOMAIN order : order[i] = t
        /\ ntfnds' = [ntfnds EXCEPT ![n] =
             [at |-> now, tables |-> [i \in DOMAIN order |-> Desc(order[i], up)]]]
  BY DEF CommitTxn, tables
<1> DEFINE seq == [i \in DOMAIN order |-> Desc(order[i], up)]
<1>4. ASSUME NEW i \in DOMAIN order
      PROVE  order[i] \in Table /\ Describes(Desc(order[i], up), order[i], changed)
  <2>1. order[i] \in Table
    BY <1>1, <1>3
  <2>2. QED
    BY <2>1, DescribeType
<1>5. seq \in Seq(TableDesc) /\ DOMAIN seq = DOMAIN order
  BY <1>1, <1>3, <1>4 DEF Describes
<1>6. seq # <<>>
  <2>1. PICK i \in DOMAIN order : TRUE
    BY <1>2, <1>3
  <2>2. i \in DOMAIN seq
    BY <1>5, <2>1
  <2>3. DOMAIN <<>> = {}
    OBVIOUS
  <2>4. QED
    BY <2>2, <2>3
<1> HIDE DEF seq
<1>7. [at |-> now, tables |-> seq] \in Notification
  BY <1>0, <1>5 DEF Notification
<1>8. ntfnds' = [ntfnds EXCEPT ![n] = [at |-> now, tables |-> seq]]
  BY <1>3 DEF seq
<1>9. /\ ntfnds' \in [Txn -> Notification]
      /\ ntfnds'[n] = [at |-> now, tables |-> seq]
      /\ \A m \in Txn \ {n} : ntfnds'[m] = ntfnds[m]
  BY <1>0, <1>7, <1>8 DEF TypeOK
<1>10. ASSUME NEW i \in DOMAIN seq
       PROVE  Describes(seq[i], order[i], changed)
  BY <1>4, <1>5 DEF seq
<1>11. ASSUME NEW r \in changed PROVE \E i \in DOMAIN seq :
          seq[i].table = TableOf[r] /\ (seq[i].allRows \/ \E x \in seq[i].rows : x.row = r)
  <2>1. TableOf[r] \in tables
    BY DEF tables
  <2>2. PICK i \in DOMAIN order : order[i] = TableOf[r]
    BY <1>3, <2>1
  <2>3. QED
    BY <1>5, <1>10, <2>2 DEF Describes
<1>12. QED
  BY <1>0, <1>6, <1>9, <1>10, <1>11 DEF Listed, Describes

LEMMA TypesCommit ==
  ASSUME TypeOK, ControlInv, NEW changed \in SUBSET RowId, NEW deleted \in SUBSET changed,
         NEW age \in 0..MaxAge, CommitTxn(changed, deleted, age)
  PROVE  TypeOK' /\ ControlInv'
<1> DEFINE n == txns + 1
<1>0. /\ txns \in Nat /\ n \in Txn /\ n \in 0..MaxTxns /\ now \in Int /\ age \in Int
      /\ MaxAge \in Nat
  <2>1. txns \in Nat /\ txns + 1 <= MaxTxns /\ now \in Int /\ age \in Int /\ MaxAge \in Nat
    BY Constants DEF TypeOK, CommitTxn
  <2>2. QED
    BY <2>1, Constants DEF Txn
<1>1. /\ live' = (live \cup changed) \ deleted
      /\ version' = [r \in RowId |-> IF r \in changed THEN n ELSE version[r]]
      /\ updated' = [r \in RowId |-> IF r \in deleted THEN 0
                                 ELSE IF r \in changed THEN now - age ELSE updated[r]]
      /\ txns' = n
      /\ pc' = [pc EXCEPT ![n] = "notified"]
      /\ UNCHANGED <<now, l_dags, l_empty, l_rowids, l_opnum, s_az_send_op, published, lost, pushed>>
  BY DEF CommitTxn, Goto
<1>2. /\ ntfnds' \in [Txn -> Notification] /\ ntfnds'[n].tables # <<>>
      /\ \A m \in Txn \ {n} : ntfnds'[m] = ntfnds[m]
  BY Notified
<1> HIDE DEF n
<1>3. version' \in [RowId -> 0..MaxTxns] /\ updated' \in [RowId -> Int]
  BY <1>0, <1>1 DEF TypeOK
<1>4. TypeOK'
  BY <1>0, <1>1, <1>2, <1>3, Constants DEF TypeOK
<1>5. \A r \in RowId : version'[r] <= txns'
  <2> SUFFICES ASSUME NEW r \in RowId PROVE version'[r] <= txns'
    OBVIOUS
  <2>1. version[r] \in Nat /\ version[r] <= txns /\ version'[r] \in {n, version[r]}
    BY <1>1, Constants DEF TypeOK, ControlInv
  <2>2. QED
    BY <1>0, <1>1, <2>1 DEF n
<1>6. ControlInv'
  BY <1>0, <1>1, <1>2, <1>5, Constants DEF ControlInv, TypeOK
<1>7. QED
  BY <1>4, <1>6

\* A step of reader n, or of the clock.
ReaderStep(n) ==
  \/ n \in Txn /\ Callback(n)
  \/ n = Push /\ (\/ \E t \in PushTables : PushAllRows(t)
                  \/ OpenCursor(Push) \/ FetchRow(Push) \/ EndPush \/ RaisePush)

\* The first table of a notification and the rest of them.
LEMMA HeadAndTail ==
  ASSUME TypeOK, NEW n \in Txn, ntfnds[n].tables # <<>>
  PROVE  /\ TableAtHand(n) = ntfnds[n].tables[1] /\ TableAtHand(n) \in TableDesc
         /\ 1 \in DOMAIN ntfnds[n].tables
         /\ Tail(ntfnds[n].tables) \in Seq(TableDesc)
         /\ Len(Tail(ntfnds[n].tables)) = Len(ntfnds[n].tables) - 1
         /\ \A i \in DOMAIN ntfnds[n].tables : i > 1 =>
              /\ i - 1 \in DOMAIN Tail(ntfnds[n].tables)
              /\ Tail(ntfnds[n].tables)[i - 1] = ntfnds[n].tables[i]
         /\ \A i \in DOMAIN Tail(ntfnds[n].tables) :
              /\ i + 1 \in DOMAIN ntfnds[n].tables
              /\ Tail(ntfnds[n].tables)[i] = ntfnds[n].tables[i + 1]
<1>1. ntfnds[n].tables \in Seq(TableDesc)
  BY DEF TypeOK, Notification
<1>2. Len(ntfnds[n].tables) \in Nat \ {0}
  BY <1>1, EmptySeq
<1>3. QED
  BY <1>1, <1>2 DEF TableAtHand

LEMMA ChangedRowsType ==
  ASSUME NEW t, NEW dags
  PROVE  changed_rows(t, dags) \subseteq RowDesc
BY DEF changed_rows, RowDesc, RowOps, RowsOf

LEMMA TypesReader ==
  ASSUME TypeOK, ControlInv, NEW n \in Reader, ReaderStep(n)
  PROVE  TypeOK' /\ ControlInv'
<1>0. now - Window \in Nat
  BY Constants DEF TypeOK
<1>1. CASE n \in Txn /\ StartCallback(n)
  <2>1. TypeOK'
    BY <1>0, <1>1 DEF StartCallback, TypeOK, Goto, data
  <2>2. ControlInv'
    BY <1>1, Constants DEF StartCallback, TypeOK, Goto, data, ControlInv
  <2>3. QED
    BY <2>1, <2>2
<1>2. CASE n \in Txn /\ GatherRows(n)
  <2>1. ntfnds[n].tables # <<>>
    BY <1>2 DEF GatherRows, ControlInv
  <2>2. TableAtHand(n).rows \in SUBSET RowDesc /\ TableAtHand(n).allRows \in BOOLEAN
    BY <1>2, <2>1, HeadAndTail DEF TableDesc
  <2>3. changed_rows(TableAtHand(n).table, l_dags[n]) \in SUBSET RowDesc
    BY ChangedRowsType
  <2>4. l_empty' \in [Txn -> BOOLEAN]
    BY <1>2, <2>2 DEF GatherRows, TypeOK
  <2>5. l_rowids' \in [Reader -> SUBSET RowDesc]
    BY <1>2, <2>2, <2>3 DEF GatherRows, TypeOK
  <2>6. TypeOK'
    BY <1>2, <2>4, <2>5 DEF GatherRows, TypeOK, Goto, data
  <2>7. ControlInv'
    BY <1>2, Constants DEF GatherRows, TypeOK, Goto, data, ControlInv
  <2>8. QED
    BY <2>6, <2>7
<1>3. CASE OpenCursor(n)
  <2>1. TypeOK'
    BY <1>3 DEF OpenCursor, TypeOK, Goto, data
  <2>2. \A e \in published : e.sendOp \in Nat
    BY DEF TypeOK, Entry
  <2>3. ControlInv'
    <3>1. /\ s_az_send_op \in Nat /\ s_az_send_op' = s_az_send_op + 1
          /\ \A m \in Reader : l_opnum[m] \in Nat /\ l_opnum'[m] \in {l_opnum[m], s_az_send_op'}
      BY <1>3 DEF OpenCursor, TypeOK
    <3>2. \A m \in Reader : l_opnum'[m] <= s_az_send_op'
      BY <3>1 DEF ControlInv
    <3>3. \A e \in published' : e.sendOp <= s_az_send_op'
      BY <1>3, <2>2, <3>1 DEF OpenCursor, ControlInv
    <3>4. \A m \in Txn : pc'[m] \in {"notified", "gather", "open", "fetch"} =>
            ntfnds'[m].tables # <<>>
      BY <1>3 DEF OpenCursor, ControlInv, TypeOK, Goto
    <3>5. QED
      BY <1>3, <3>2, <3>3, <3>4 DEF OpenCursor, ControlInv, data
  <2>4. QED
    BY <2>1, <2>3
<1>4. CASE FetchRow(n)
  <2>1. PICK d \in l_rowids[n] :
          /\ published' = published \cup
            {[row |-> d.row, op |-> d.op, sendOp |-> l_opnum[n], txn |-> n,
              version |-> IF d.row \in live THEN version[d.row] ELSE NoBody]}
          /\ l_rowids' = [l_rowids EXCEPT ![n] = @ \ {d}]
    BY <1>4 DEF FetchRow
  <2>2. d.row \in RowId /\ d.op \in RowOps /\ l_opnum[n] \in Nat
    BY DEF TypeOK, RowDesc
  <2>3. \A v \in 0..MaxTxns : v \in NoBody..MaxTxns
    BY Constants DEF NoBody
  <2>4. NoBody \in NoBody..MaxTxns
    BY Constants DEF NoBody
  <2>5. published' \subseteq Entry
    BY <2>1, <2>2, <2>3, <2>4 DEF TypeOK, Entry
  <2>6. TypeOK'
    BY <1>4, <2>1, <2>5 DEF FetchRow, TypeOK, data
  <2>7. ControlInv'
    BY <1>4, <2>1, Constants DEF FetchRow, TypeOK, data, ControlInv
  <2>8. QED
    BY <2>6, <2>7
<1>5. CASE n \in Txn /\ NextTable(n)
  <2>1. ntfnds[n].tables # <<>>
    BY <1>5 DEF NextTable, ControlInv
  <2>2. [ntfnds[n] EXCEPT !.tables = Tail(@)] \in Notification
    <3>1. ntfnds[n] \in [at : Nat, tables : Seq(TableDesc)]
      BY <1>5 DEF TypeOK, Notification
    <3>2. Tail(ntfnds[n].tables) \in Seq(TableDesc)
      BY <1>5, <2>1, HeadAndTail
    <3>3. QED
      BY <3>1, <3>2 DEF Notification
  <2>3. /\ ntfnds' = [ntfnds EXCEPT ![n] = [ntfnds[n] EXCEPT !.tables = Tail(@)]]
        /\ ntfnds' \in [Txn -> Notification]
    BY <1>5, <2>2 DEF NextTable, TypeOK
  <2>4. TypeOK'
    BY <1>5, <2>3 DEF NextTable, TypeOK, Goto, data
  <2>5. pc'[n] \in {"gather", "done"} /\ (pc'[n] = "gather" => ntfnds'[n].tables # <<>>)
    <3>1. Len(ntfnds[n].tables) \in Nat /\ ntfnds[n].tables \in Seq(TableDesc)
      BY <1>5 DEF TypeOK, Notification
    <3>2. ntfnds'[n].tables = Tail(ntfnds[n].tables)
      BY <1>5, <2>3 DEF TypeOK, Notification
    <3>3. pc'[n] = IF Len(ntfnds[n].tables) > 1 THEN "gather" ELSE "done"
      BY <1>5 DEF NextTable, TypeOK, Goto
    <3>4. Len(<<>>) = 0
      OBVIOUS
    <3>5. QED
      BY <1>5, <2>1, <3>1, <3>2, <3>3, <3>4, HeadAndTail
  <2>6. ControlInv'
    <3>1. \A m \in Txn : pc'[m] \in {"notified", "gather", "open", "fetch"} =>
            ntfnds'[m].tables # <<>>
      BY <1>5, <2>3, <2>5 DEF NextTable, ControlInv, TypeOK, Goto
    <3>2. \A m \in Reader : l_opnum'[m] <= s_az_send_op
      BY <1>5 DEF NextTable, ControlInv, TypeOK
    <3>3. QED
      BY <1>5, <3>1, <3>2 DEF NextTable, ControlInv, data
  <2>7. QED
    BY <2>4, <2>6
<1>6. CASE n \in Txn /\ RaiseError(n)
  <2>1. lost' \subseteq RowId
    BY <1>6 DEF RaiseError, TypeOK, RowsOf
  <2>2. TypeOK'
    BY <1>6, <2>1 DEF RaiseError, TypeOK, Goto, data
  <2>3. ControlInv'
    BY <1>6, Constants DEF RaiseError, TypeOK, Goto, data, ControlInv
  <2>4. QED
    BY <2>2, <2>3
<1>7. ASSUME NEW t \in PushTables, n = Push, PushAllRows(t) PROVE TypeOK' /\ ControlInv'
  <2>1. t \in Table /\ {[row |-> r, op |-> "Init"] : r \in live \cap RowsOf(t)} \in SUBSET RowDesc
    BY CaptureAssumption DEF CaptureAssumption, RowDesc, RowOps, RowsOf
  <2>2. TypeOK'
    BY <1>7, <2>1 DEF PushAllRows, TypeOK, Goto, data
  <2>3. ControlInv'
    BY <1>7, Constants DEF PushAllRows, TypeOK, Goto, data, ControlInv
  <2>4. QED
    BY <2>2, <2>3
<1>8. CASE n = Push /\ (EndPush \/ RaisePush)
  <2>1. TypeOK'
    BY <1>8 DEF EndPush, RaisePush, TypeOK, Goto, data
  <2>2. ControlInv'
    <3>0. s_az_send_op \in Nat /\ \A m \in Reader : l_opnum'[m] \in {l_opnum[m], 0}
      BY <1>8 DEF EndPush, RaisePush, TypeOK
    <3>1. \A m \in Reader : l_opnum'[m] <= s_az_send_op
      BY <3>0 DEF ControlInv
    <3>2. \A m \in Txn : pc'[m] = pc[m]
      BY <1>8, Constants DEF EndPush, RaisePush, TypeOK, Goto
    <3>3. QED
      BY <1>8, <3>1, <3>2 DEF EndPush, RaisePush, ControlInv, data
  <2>3. QED
    BY <2>1, <2>2
<1>9. QED
  BY <1>1, <1>2, <1>3, <1>4, <1>5, <1>6, <1>7, <1>8 DEF ReaderStep, Callback

LEMMA TypesTick ==
  ASSUME TypeOK, ControlInv, Tick
  PROVE  TypeOK' /\ ControlInv'
<1>1. now' \in Window..Window + MaxTime
  BY Constants DEF Tick, TypeOK
<1>2. TypeOK'
  BY <1>1 DEF Tick, TypeOK, data
<1>3. ControlInv'
  BY DEF Tick, ControlInv, data
<1>4. QED
  BY <1>2, <1>3

LEMMA TypesInit == Init => TypeOK /\ ControlInv
<1> SUFFICES ASSUME Init PROVE TypeOK /\ ControlInv
  OBVIOUS
<1>1. [at |-> 0, tables |-> <<>>] \in Notification
  BY DEF Notification
<1>2. Window \in Window..Window + MaxTime /\ 0 \in 0..MaxTxns
  BY Constants
<1>3. TypeOK
  BY <1>1, <1>2, Constants DEF Init, TypeOK
<1>4. ControlInv
  BY Constants DEF Init, ControlInv
<1>5. QED
  BY <1>3, <1>4

\* A step is one of a transaction, of a reader or of the clock.
LEMMA StepOfWhom ==
  ASSUME Next
  PROVE  \/ \E changed \in SUBSET RowId, age \in 0..MaxAge :
              \E deleted \in SUBSET changed : CommitTxn(changed, deleted, age)
         \/ \E n \in Reader : ReaderStep(n)
         \/ Tick
BY Constants DEF Next, ReaderStep

LEMMA TypesInductive == TypeOK /\ ControlInv /\ [Next]_vars => TypeOK' /\ ControlInv'
<1> SUFFICES ASSUME TypeOK, ControlInv, [Next]_vars PROVE TypeOK' /\ ControlInv'
  OBVIOUS
<1>1. CASE UNCHANGED vars
  BY <1>1 DEF vars, TypeOK, ControlInv
<1>2. CASE Next
  BY <1>2, StepOfWhom, TypesCommit, TypesReader, TypesTick
<1>3. QED
  BY <1>1, <1>2

\* Rows, notifications and published entries keep their types, whatever the
\* transactions change and however the callbacks interleave.
THEOREM TypeCorrect == Spec => []TypeOK
BY TypesInit, TypesInductive, PTL DEF Spec

-----------------------------------------------------------------------------
(* What is published is not older than its transaction *)

\* Versions only grow.
LEMMA VersionsGrow ==
  ASSUME TypeOK, ControlInv, NEW changed \in SUBSET RowId, NEW deleted \in SUBSET changed,
         NEW age \in 0..MaxAge, CommitTxn(changed, deleted, age), NEW r \in RowId
  PROVE  /\ version[r] \in Nat /\ version'[r] \in Nat /\ version[r] <= version'[r]
         /\ r \in changed => version'[r] = txns + 1
         /\ r \notin changed => version'[r] = version[r]
<1>1. version[r] \in Nat /\ version[r] <= txns /\ txns \in Nat
  BY Constants DEF TypeOK, ControlInv
<1>2. version'[r] = IF r \in changed THEN txns + 1 ELSE version[r]
  BY DEF CommitTxn
<1>3. QED
  BY <1>1, <1>2

LEMMA SinceCommit ==
  ASSUME TypeOK, ControlInv, SinceInv,
         NEW changed \in SUBSET RowId, NEW deleted \in SUBSET changed,
         NEW age \in 0..MaxAge, CommitTxn(changed, deleted, age)
  PROVE  SinceInv'
<1> SUFFICES ASSUME NEW n \in Txn
             PROVE  /\ \A i \in DOMAIN ntfnds'[n].tables :
                         \A x \in ntfnds'[n].tables[i].rows : version'[x.row] >= n
                    /\ \A x \in l_rowids'[n] : x.op # "Upsert" => version'[x.row] >= n
  BY DEF SinceInv
<1>1. n \in Nat /\ l_rowids' = l_rowids
  BY Constants DEF CommitTxn
<1>2. ASSUME NEW x \in l_rowids'[n], x.op # "Upsert" PROVE version'[x.row] >= n
  <2>1. x.row \in RowId /\ version[x.row] >= n
    BY <1>1, <1>2, Constants DEF SinceInv, TypeOK, RowDesc
  <2>2. QED
    BY <1>1, <2>1, VersionsGrow
<1>3. ASSUME NEW i \in DOMAIN ntfnds'[n].tables, NEW x \in ntfnds'[n].tables[i].rows
      PROVE  version'[x.row] >= n
  <2>1. CASE n = txns + 1
    <3>1. x.row \in changed
      BY <1>3, <2>1, Notified
    <3>2. QED
      BY <1>1, <2>1, <3>1, VersionsGrow
  <2>2. CASE n # txns + 1
    <3>1. ntfnds'[n] = ntfnds[n]
      BY <2>2, Notified
    <3>2. ntfnds[n].tables[i] \in TableDesc
      BY <1>3, <3>1 DEF TypeOK, Notification
    <3>3. x.row \in RowId /\ version[x.row] >= n
      BY <1>3, <3>1, <3>2 DEF SinceInv, TableDesc, RowDesc
    <3>4. version[x.row] \in Nat /\ version'[x.row] \in Nat /\ version[x.row] <= version'[x.row]
      BY <3>3, VersionsGrow
    <3>5. QED
      BY <1>1, <3>3, <3>4
  <2>3. QED
    BY <2>1, <2>2
<1>4. QED
  BY <1>2, <1>3

LEMMA SinceReader ==
  ASSUME TypeOK, ControlInv, SinceInv, NEW n \in Reader, ReaderStep(n)
  PROVE  SinceInv'
<1>1. version' = version
  BY DEF ReaderStep, Callback, StartCallback, GatherRows, OpenCursor, FetchRow, NextTable,
         RaiseError, PushAllRows, EndPush, RaisePush, data
<1>2. ASSUME NEW m \in Txn
      PROVE  \A i \in DOMAIN ntfnds'[m].tables :
               \A x \in ntfnds'[m].tables[i].rows : version[x.row] >= m
  <2>1. CASE n \in Txn /\ NextTable(n)
    <3>1. ntfnds[n].tables # <<>>
      BY <2>1 DEF NextTable, ControlInv
    <3>2. CASE m = n
      <4>1. ntfnds'[n].tables = Tail(ntfnds[n].tables)
        BY <2>1 DEF NextTable, TypeOK, Notification
      <4>2. QED
        BY <2>1, <3>1, <3>2, <4>1, HeadAndTail DEF SinceInv
    <3>3. CASE m # n
      <4>1. ntfnds'[m] = ntfnds[m]
        BY <2>1, <3>3 DEF NextTable, TypeOK
      <4>2. QED
        BY <4>1 DEF SinceInv
    <3>4. QED
      BY <3>2, <3>3
  <2>2. CASE ntfnds' = ntfnds
    BY <2>2 DEF SinceInv
  <2>3. QED
    BY <2>1, <2>2
    DEF ReaderStep, Callback, StartCallback, GatherRows, OpenCursor, FetchRow,
        RaiseError, PushAllRows, EndPush, RaisePush
<1>3. ASSUME NEW m \in Txn, NEW x \in l_rowids'[m], x.op # "Upsert"
      PROVE  version[x.row] >= m
  <2>1. CASE n \in Txn /\ GatherRows(n) /\ m = n
    <3>1. ntfnds[n].tables # <<>>
      BY <2>1 DEF GatherRows, ControlInv
    <3>2. l_rowids'[n] = changed_rows(TableAtHand(n).table, l_dags[n])
          \/ l_rowids'[n] = TableAtHand(n).rows
      BY <2>1, Constants DEF GatherRows, TypeOK
    <3>3. x \in TableAtHand(n).rows
      BY <1>3, <2>1, <3>2 DEF changed_rows
    <3>4. QED
      BY <2>1, <3>1, <3>3, HeadAndTail DEF SinceInv
  <2>2. CASE ~(n \in Txn /\ GatherRows(n) /\ m = n)
    <3>1. m \in Reader /\ m # Push /\ l_rowids \in [Reader -> SUBSET RowDesc]
      BY Constants DEF TypeOK
    <3>2. CASE l_rowids' = l_rowids
      BY <1>3, <3>2 DEF SinceInv
    <3>3. CASE OpenCursor(n) \/ FetchRow(n)
      <4>1. l_rowids'[m] \subseteq l_rowids[m]
        BY <3>1, <3>3 DEF OpenCursor, FetchRow
      <4>2. QED
        BY <1>3, <4>1 DEF SinceInv
    <3>4. CASE n \in Txn /\ GatherRows(n)
      <4>1. l_rowids'[m] = l_rowids[m]
        BY <2>2, <3>1, <3>4 DEF GatherRows
      <4>2. QED
        BY <1>3, <4>1 DEF SinceInv
    <3>5. CASE n = Push /\ \E t \in PushTables : PushAllRows(t)
      <4>1. l_rowids'[m] = l_rowids[m]
        BY <3>1, <3>5 DEF PushAllRows
      <4>2. QED
        BY <1>3, <4>1 DEF SinceInv
    <3>6. QED
      BY <3>2, <3>3, <3>4, <3>5
      DEF ReaderStep, Callback, StartCallback, NextTable, RaiseError, EndPush, RaisePush
  <2>3. QED
    BY <2>1, <2>2
<1>4. QED
  BY <1>1, <1>2, <1>3 DEF SinceInv

LEMMA NeverOlderReader ==
  ASSUME TypeOK, SinceInv, NeverOlderThanTransaction, NEW n \in Reader, ReaderStep(n)
  PROVE  NeverOlderThanTransaction'
<1>1. CASE FetchRow(n)
  <2>1. PICK d \in l_rowids[n] :
          published' = published \cup
            {[row |-> d.row, op |-> d.op, sendOp |-> l_opnum[n], txn |-> n,
              version |-> IF d.row \in live THEN version[d.row] ELSE NoBody]}
    BY <1>1 DEF FetchRow
  <2>2. d.row \in RowId /\ version[d.row] \in Nat
    BY Constants DEF TypeOK, RowDesc
  <2>3. d.op # "Upsert" => version[d.row] >= n
    <3>1. CASE n \in Txn
      BY <3>1 DEF SinceInv
    <3>2. CASE n = Push
      BY <2>2, <3>2 DEF Push
    <3>3. QED
      BY <3>1, <3>2 DEF Reader
  <2>4. QED
    BY <2>1, <2>3 DEF NeverOlderThanTransaction
<1>2. CASE published' = published
  BY <1>2 DEF NeverOlderThanTransaction
<1>3. QED
  BY <1>1, <1>2
  DEF ReaderStep, Callback, StartCallback, GatherRows, OpenCursor, NextTable,
      RaiseError, PushAllRows, EndPush, RaisePush

LEMMA RowsInit == Init => RowsInv
<1> SUFFICES ASSUME Init PROVE RowsInv
  OBVIOUS
<1>1. SinceInv
  BY Constants DEF Init, SinceInv
<1>2. NeverOlderThanTransaction
  BY DEF Init, NeverOlderThanTransaction
<1>3. QED
  BY <1>1, <1>2, TypesInit DEF RowsInv

LEMMA RowsInductive == RowsInv /\ [Next]_vars => RowsInv'
<1> SUFFICES ASSUME RowsInv, [Next]_vars PROVE RowsInv'
  OBVIOUS
<1>0. TypeOK /\ ControlInv /\ SinceInv /\ NeverOlderThanTransaction /\ TypeOK' /\ ControlInv'
  BY TypesInductive DEF RowsInv
<1>1. ASSUME NEW changed \in SUBSET RowId, NEW age \in 0..MaxAge,
             NEW deleted \in SUBSET changed, CommitTxn(changed, deleted, age)
      PROVE  SinceInv' /\ NeverOlderThanTransaction'
  <2>1. SinceInv'
    BY <1>0, <1>1, SinceCommit
  <2>2. published' = published
    BY <1>1 DEF CommitTxn
  <2>3. QED
    BY <1>0, <2>1, <2>2 DEF NeverOlderThanTransaction
<1>2. ASSUME NEW n \in Reader, ReaderStep(n) PROVE SinceInv' /\ NeverOlderThanTransaction'
  BY <1>0, <1>2, SinceReader, NeverOlderReader
<1>3. ASSUME UNCHANGED <<version, ntfnds, l_rowids, published>>
      PROVE  SinceInv' /\ NeverOlderThanTransaction'
  BY <1>0, <1>3 DEF SinceInv, NeverOlderThanTransaction
<1>4. SinceInv' /\ NeverOlderThanTransaction'
  <2>1. CASE Next
    <3>1. CASE Tick
      BY <1>3, <3>1 DEF Tick, data
    <3>2. QED
      BY <1>1, <1>2, <2>1, <3>1, StepOfWhom
  <2>2. CASE UNCHANGED vars
    BY <1>3, <2>2 DEF vars
  <2>3. QED
    BY <2>1, <2>2
<1>5. QED
  BY <1>0, <1>4 DEF RowsInv

LEMMA RowsInvariance == Spec => []RowsInv
BY RowsInit, RowsInductive, PTL DEF Spec

\* An entry with the operation of a transaction never shows its row as it was
\* before that transaction, however late the callback reads it.
THEOREM NeverOlderThanTransactionHolds == Spec => []NeverOlderThanTransaction
<1>1. RowsInv => NeverOlderThanTransaction
  BY DEF RowsInv
<1>2. QED
  BY <1>1, RowsInvariance, PTL

-----------------------------------------------------------------------------
(* What a consumer keeps *)

\* What a step of a reader leaves alone.
LEMMA OtherReaders ==
  ASSUME TypeOK, NEW n \in Reader, ReaderStep(n)
  PROVE  /\ UNCHANGED <<now, live, version, updated, txns>>
         /\ lost \subseteq lost'
         /\ \A k \in Reader \ {n} : /\ pc'[k] = pc[k] /\ l_rowids'[k] = l_rowids[k]
                                    /\ l_opnum'[k] = l_opnum[k]
         /\ \A k \in Txn \ {n} : l_dags'[k] = l_dags[k] /\ ntfnds'[k] = ntfnds[k]
<1> DEFINE Others ==
         /\ UNCHANGED <<now, live, version, updated, txns>>
         /\ lost \subseteq lost'
         /\ \A k \in Reader \ {n} : /\ pc'[k] = pc[k] /\ l_rowids'[k] = l_rowids[k]
                                    /\ l_opnum'[k] = l_opnum[k]
         /\ \A k \in Txn \ {n} : l_dags'[k] = l_dags[k] /\ ntfnds'[k] = ntfnds[k]
<1>1. CASE n \in Txn /\ StartCallback(n)
  BY <1>1 DEF StartCallback, TypeOK, Goto, data
<1>2. CASE n \in Txn /\ GatherRows(n)
  BY <1>2 DEF GatherRows, TypeOK, Goto, data
<1>3. CASE OpenCursor(n) \/ FetchRow(n)
  BY <1>3 DEF OpenCursor, FetchRow, TypeOK, Goto, data
<1>4. CASE n \in Txn /\ (NextTable(n) \/ RaiseError(n))
  BY <1>4 DEF NextTable, RaiseError, TypeOK, Goto, data
<1>5. ASSUME NEW t, n = Push, PushAllRows(t) PROVE Others
  BY <1>5 DEF PushAllRows, TypeOK, Goto, data
<1>6. CASE n = Push /\ (EndPush \/ RaisePush)
  BY <1>6 DEF EndPush, RaisePush, TypeOK, Goto, data
<1>7. QED
  BY <1>1, <1>2, <1>3, <1>4, <1>5, <1>6 DEF ReaderStep, Callback

\* A row that exists is published as it is.
LEMMA PublishesCurrent ==
  ASSUME TypeOK, NEW n \in Reader, ReaderStep(n), NEW r \in live
  PROVE  /\ \A e \in EntriesOf(r) : e.sendOp \in Nat
         /\ l_opnum[n] \in Nat
         /\ \/ EntriesOf(r)' = EntriesOf(r)
            \/ \E e : /\ EntriesOf(r)' = EntriesOf(r) \cup {e}
                      /\ e.sendOp = l_opnum[n] /\ e.version = version'[r]
<1>1. (\A e \in EntriesOf(r) : e.sendOp \in Nat) /\ l_opnum[n] \in Nat
  BY DEF TypeOK, Entry, EntriesOf
<1>2. version' = version
  BY OtherReaders
<1>3. CASE FetchRow(n)
  <2>1. PICK d \in l_rowids[n] :
          published' = published \cup
            {[row |-> d.row, op |-> d.op, sendOp |-> l_opnum[n], txn |-> n,
              version |-> IF d.row \in live THEN version[d.row] ELSE NoBody]}
    BY <1>3 DEF FetchRow
  <2> DEFINE e == [row |-> d.row, op |-> d.op, sendOp |-> l_opnum[n], txn |-> n,
                   version |-> IF d.row \in live THEN version[d.row] ELSE NoBody]
  <2>2. CASE d.row = r
    <3>1. EntriesOf(r)' = EntriesOf(r) \cup {e}
      BY <2>1, <2>2 DEF EntriesOf
    <3>2. e.sendOp = l_opnum[n] /\ e.version = version'[r]
      BY <1>2, <2>2
    <3>3. QED
      BY <1>1, <3>1, <3>2
  <2>3. CASE d.row # r
    <3>1. EntriesOf(r)' = EntriesOf(r)
      BY <2>1, <2>3 DEF EntriesOf
    <3>2. QED
      BY <1>1, <3>1
  <2>4. QED
    BY <2>2, <2>3
<1>4. CASE published' = published
  BY <1>1, <1>4 DEF EntriesOf
<1>5. QED
  BY <1>3, <1>4
  DEF ReaderStep, Callback, StartCallback, GatherRows, OpenCursor, NextTable,
      RaiseError, PushAllRows, EndPush, RaisePush

\* A consumer that has a row keeps having it.
LEMMA KeepsHaving ==
  ASSUME TypeOK, NEW n \in Reader, ReaderStep(n), NEW r \in live, ConsumerHas(r)
  PROVE  ConsumerHas(r)'
<1>1. version' = version
  BY OtherReaders
<1>2. PICK top \in EntriesOf(r) :
        (\A f \in EntriesOf(r) : f.sendOp <= top.sendOp) /\ top.version = version[r]
  BY DEF ConsumerHas
<1>3. CASE EntriesOf(r)' = EntriesOf(r)
  BY <1>1, <1>2, <1>3 DEF ConsumerHas
<1>4. ASSUME NEW e, EntriesOf(r)' = EntriesOf(r) \cup {e},
             e.sendOp = l_opnum[n], e.version = version'[r]
      PROVE  ConsumerHas(r)'
  <2>1. (\A f \in EntriesOf(r) : f.sendOp \in Nat) /\ e.sendOp \in Nat
    BY <1>4, PublishesCurrent
  <2>2. CASE top.sendOp <= e.sendOp
    <3>1. \A f \in EntriesOf(r)' : f.sendOp <= e.sendOp
      BY <1>2, <1>4, <2>1, <2>2
    <3>2. QED
      BY <1>4, <3>1 DEF ConsumerHas
  <2>3. CASE ~(top.sendOp <= e.sendOp)
    <3>1. \A f \in EntriesOf(r)' : f.sendOp <= top.sendOp
      BY <1>2, <1>4, <2>1, <2>3
    <3>2. QED
      BY <1>1, <1>2, <1>4, <3>1 DEF ConsumerHas
  <2>4. QED
    BY <2>2, <2>3
<1>5. QED
  BY <1>3, <1>4, PublishesCurrent

\* A row gathered by one reader stays so while another works, or the other
\* has published it on top.
LEMMA StaysGathered ==
  ASSUME TypeOK, NEW n \in Reader, ReaderStep(n), NEW r \in live,
         NEW k \in Reader \ {n}, Gathered(k, r)
  PROVE  Gathered(k, r)' \/ ConsumerHas(r)'
<1>1. pc'[k] = pc[k] /\ l_rowids'[k] = l_rowids[k] /\ l_opnum'[k] = l_opnum[k]
  BY OtherReaders
<1>2. CASE pc[k] = "open"
  BY <1>1, <1>2 DEF Gathered
<1>3. CASE pc[k] = "fetch" /\ \A e \in EntriesOf(r) : e.sendOp <= l_opnum[k]
  <2>1. CASE EntriesOf(r)' = EntriesOf(r)
    BY <1>1, <1>3, <2>1 DEF Gathered
  <2>2. ASSUME NEW e, EntriesOf(r)' = EntriesOf(r) \cup {e},
               e.sendOp = l_opnum[n], e.version = version'[r]
        PROVE  Gathered(k, r)' \/ ConsumerHas(r)'
    <3>1. (\A f \in EntriesOf(r) : f.sendOp \in Nat) /\ e.sendOp \in Nat /\ l_opnum[k] \in Nat
      BY <2>2, PublishesCurrent DEF TypeOK
    <3>2. CASE e.sendOp <= l_opnum[k]
      <4>1. \A f \in EntriesOf(r)' : f.sendOp <= l_opnum'[k]
        BY <1>1, <1>3, <2>2, <3>2
      <4>2. QED
        BY <1>1, <1>3, <4>1 DEF Gathered
    <3>3. CASE ~(e.sendOp <= l_opnum[k])
      <4>1. \A f \in EntriesOf(r)' : f.sendOp <= e.sendOp
        BY <1>3, <2>2, <3>1, <3>3
      <4>2. QED
        BY <2>2, <4>1 DEF ConsumerHas
    <3>4. QED
      BY <3>2, <3>3
  <2>3. QED
    BY <2>1, <2>2, PublishesCurrent
<1>4. QED
  BY <1>2, <1>3 DEF Gathered

\* A row gathered by a reader stays so through the reader's own steps, until it
\* is published on top or the reader raises.
LEMMA OwnGathered ==
  ASSUME TypeOK, ControlInv, NEW n \in Reader, ReaderStep(n), NEW r \in live, Gathered(n, r)
  PROVE  \/ Gathered(n, r)' /\ ntfnds' = ntfnds
         \/ ConsumerHas(r)'
         \/ pc'[n] = "failed"
<1>1. PICK x \in l_rowids[n] : x.row = r
  BY DEF Gathered
<1>2. CASE OpenCursor(n)
  <2>1. /\ pc'[n] = "fetch" /\ l_rowids'[n] = {d \in l_rowids[n] : d.row \in live}
        /\ l_opnum'[n] = s_az_send_op + 1 /\ UNCHANGED <<published, ntfnds>>
    BY <1>2 DEF OpenCursor, TypeOK, Goto
  <2>2. \A e \in EntriesOf(r) :
          e.sendOp \in Nat /\ s_az_send_op \in Nat /\ e.sendOp <= s_az_send_op
    BY DEF TypeOK, ControlInv, EntriesOf, Entry
  <2>3. \A e \in EntriesOf(r)' : e.sendOp <= l_opnum'[n]
    BY <2>1, <2>2 DEF EntriesOf
  <2>4. x \in l_rowids'[n]
    BY <1>1, <2>1
  <2>5. QED
    BY <1>1, <2>1, <2>3, <2>4 DEF Gathered
<1>3. CASE FetchRow(n)
  <2>1. PICK d \in l_rowids[n] :
          /\ published' = published \cup
            {[row |-> d.row, op |-> d.op, sendOp |-> l_opnum[n], txn |-> n,
              version |-> IF d.row \in live THEN version[d.row] ELSE NoBody]}
          /\ l_rowids' = [l_rowids EXCEPT ![n] = @ \ {d}]
    BY <1>3 DEF FetchRow
  <2> DEFINE e == [row |-> d.row, op |-> d.op, sendOp |-> l_opnum[n], txn |-> n,
                   version |-> IF d.row \in live THEN version[d.row] ELSE NoBody]
  <2>2. /\ pc[n] = "fetch" /\ UNCHANGED <<pc, l_opnum, ntfnds, version>>
        /\ \A f \in EntriesOf(r) : f.sendOp <= l_opnum[n]
        /\ l_opnum[n] \in Nat /\ l_rowids'[n] = l_rowids[n] \ {d}
    BY <1>3, <2>1 DEF FetchRow, Gathered, TypeOK, data
  <2>3. CASE d.row = r
    <3>1. EntriesOf(r)' = EntriesOf(r) \cup {e}
      BY <2>1, <2>3 DEF EntriesOf
    <3>2. e.sendOp = l_opnum[n] /\ e.version = version'[r]
      BY <2>2, <2>3
    <3>3. \A f \in EntriesOf(r)' : f.sendOp <= e.sendOp
      BY <2>2, <3>1, <3>2
    <3>4. QED
      BY <3>1, <3>2, <3>3 DEF ConsumerHas
  <2>4. CASE d.row # r
    <3>1. EntriesOf(r)' = EntriesOf(r)
      BY <2>1, <2>4 DEF EntriesOf
    <3>2. x \in l_rowids'[n]
      BY <1>1, <2>2, <2>4
    <3>3. QED
      BY <1>1, <2>2, <3>1, <3>2 DEF Gathered
  <2>5. QED
    BY <2>3, <2>4
<1>4. CASE (n \in Txn /\ RaiseError(n)) \/ (n = Push /\ RaisePush)
  BY <1>4 DEF RaiseError, RaisePush, Goto, TypeOK
<1>5. ~(NextTable(n) \/ (n = Push /\ EndPush))
  BY <1>1 DEF NextTable, EndPush
<1>6. ~(StartCallback(n) \/ GatherRows(n) \/ (n = Push /\ \E t \in PushTables : PushAllRows(t)))
  BY DEF StartCallback, GatherRows, PushAllRows, Gathered
<1>7. QED
  BY <1>2, <1>3, <1>4, <1>5, <1>6 DEF ReaderStep, Callback

-----------------------------------------------------------------------------
(* Changed rows are coming or have come *)

\* The steps of a callback bring it nearer to the tables ahead of it, until it
\* raises: then it loses the rows of all of them.
LEMMA OwnAhead ==
  ASSUME TypeOK, ControlInv, WindowSuffices, NEW n \in Txn, Callback(n),
         NEW r \in live, Ahead(n, r)
  PROVE  Coming(n, r)' \/ r \in lost'
<1>0. /\ ntfnds[n].tables # <<>> /\ ntfnds[n].tables \in Seq(TableDesc)
      /\ r \in RowId /\ updated' = updated /\ live' = live /\ now' = now
      /\ n \in Reader /\ ReaderStep(n)
  <2>1. n \in Reader /\ ReaderStep(n)
    BY Constants DEF ReaderStep
  <2>2. QED
    BY <2>1, OtherReaders DEF ControlInv, Ahead, TypeOK, Notification
<1>1. PICK i \in DOMAIN ntfnds[n].tables :
        /\ Listed(n, i, r)
        /\ \/ pc[n] \in {"notified", "gather"}
           \/ pc[n] \in {"open", "fetch"} /\ i > 1
  BY DEF Ahead
<1>2. i \in Nat \ {0} /\ i <= Len(ntfnds[n].tables) /\ Len(ntfnds[n].tables) \in Nat
  BY <1>0
<1>3. ASSUME ntfnds' = ntfnds, InTime(n, r)', pc'[n] \in {"gather", "open", "fetch"},
             pc'[n] = "gather" \/ i > 1
      PROVE  Coming(n, r)'
  <2>1. Listed(n, i, r)'
    BY <1>1, <1>3 DEF Listed
  <2>2. QED
    BY <1>1, <1>3, <2>1 DEF Coming, Ahead
<1>4. CASE StartCallback(n)
  <2>1. pc[n] = "notified" /\ pc'[n] = "gather" /\ l_dags'[n] = now - Window /\ ntfnds' = ntfnds
    BY <1>4, Constants DEF StartCallback, TypeOK, Goto
  <2>2. now <= ntfnds[n].at + MaxLag /\ ntfnds[n].at <= updated[r] + MaxAge
    BY <2>1 DEF Ahead, InTime
  <2>3. now \in Int /\ ntfnds[n].at \in Int /\ updated[r] \in Int
        /\ MaxLag \in Int /\ MaxAge \in Int /\ Window \in Int
    BY <1>0, Constants DEF TypeOK, Notification
  <2>4. now - Window <= updated[r]
    BY <2>2, <2>3 DEF WindowSuffices
  <2>5. InTime(n, r)'
    BY <1>0, <2>1, <2>4 DEF InTime
  <2>6. QED
    BY <1>3, <2>1, <2>5
<1>5. CASE GatherRows(n)
  <2>1. /\ pc[n] = "gather" /\ pc'[n] = "open" /\ UNCHANGED <<ntfnds, l_dags>>
        /\ l_rowids'[n] = IF l_empty[n] \/ TableAtHand(n).allRows
                            THEN changed_rows(TableAtHand(n).table, l_dags[n])
                            ELSE TableAtHand(n).rows
    BY <1>0, <1>5 DEF GatherRows, TypeOK, Goto
  <2>2. l_dags[n] <= updated[r] /\ l_dags[n] \in Int /\ updated[r] \in Int
    BY <1>0, <2>1 DEF Ahead, InTime, TypeOK
  <2>3. InTime(n, r)'
    BY <1>0, <2>1, <2>2 DEF InTime
  <2>4. CASE i > 1
    BY <1>3, <2>1, <2>3, <2>4
  <2>5. CASE i = 1
    <3>1. TableAtHand(n) = ntfnds[n].tables[1]
      BY <1>0, HeadAndTail
    <3>2. TableAtHand(n).table = TableOf[r] /\
          (TableAtHand(n).allRows \/ \E x \in TableAtHand(n).rows : x.row = r)
      BY <1>1, <2>5, <3>1 DEF Listed
    <3>3. \E x \in changed_rows(TableOf[r], l_dags[n]) : x.row = r
      <4>1. [row |-> r, op |-> "Upsert"] \in changed_rows(TableOf[r], l_dags[n])
        BY <1>0, <2>2 DEF changed_rows, RowsOf
      <4>2. QED
        BY <4>1
    <3>4. \E x \in l_rowids'[n] : x.row = r
      BY <2>1, <3>2, <3>3
    <3>5. QED
      BY <2>1, <3>1, <3>2, <3>4 DEF Coming, Gathered
  <2>6. QED
    BY <1>2, <2>4, <2>5
<1>6. CASE OpenCursor(n) \/ FetchRow(n)
  <2>1. pc[n] \in {"open", "fetch"} /\ pc'[n] = "fetch" /\ UNCHANGED <<ntfnds, l_dags>>
    BY <1>0, <1>6 DEF OpenCursor, FetchRow, TypeOK, Goto
  <2>2. InTime(n, r)'
    BY <1>0, <2>1 DEF Ahead, InTime
  <2>3. i > 1
    BY <1>1, <2>1
  <2>4. QED
    BY <1>3, <2>1, <2>2, <2>3
<1>7. CASE NextTable(n)
  <2>1. pc[n] = "fetch" /\ l_dags' = l_dags
        /\ ntfnds'[n].tables = Tail(ntfnds[n].tables)
        /\ pc'[n] = IF Len(ntfnds[n].tables) > 1 THEN "gather" ELSE "done"
    BY <1>0, <1>7 DEF NextTable, TypeOK, Goto, Notification
  <2>2. i > 1 /\ pc'[n] = "gather"
    BY <1>1, <1>2, <2>1
  <2>3. InTime(n, r)'
    BY <1>0, <2>1, <2>2 DEF Ahead, InTime
  <2>4. i - 1 \in DOMAIN ntfnds'[n].tables /\ ntfnds'[n].tables[i - 1] = ntfnds[n].tables[i]
    BY <1>0, <2>1, <2>2, HeadAndTail
  <2>5. Listed(n, i - 1, r)'
    BY <1>1, <2>4 DEF Listed
  <2>6. QED
    BY <2>2, <2>3, <2>4, <2>5 DEF Coming, Ahead
<1>8. CASE RaiseError(n)
  <2>1. r \in RowsOf(ntfnds[n].tables[i].table)
    BY <1>0, <1>1 DEF Listed, RowsOf
  <2>2. QED
    BY <1>8, <2>1 DEF RaiseError
<1>9. QED
  BY <1>4, <1>5, <1>6, <1>7, <1>8 DEF Callback

LEMMA OwnComing ==
  ASSUME TypeOK, ControlInv, WindowSuffices, NEW n \in Txn, Callback(n),
         NEW r \in live, Coming(n, r)
  PROVE  Coming(n, r)' \/ ConsumerHas(r)' \/ r \in lost'
<1>0. n \in Reader /\ ReaderStep(n) /\ r \in RowId
  BY Constants DEF ReaderStep, TypeOK
<1>1. CASE Ahead(n, r)
  BY <1>1, OwnAhead
<1>2. CASE Gathered(n, r) /\ ntfnds[n].tables[1].table = TableOf[r]
  <2>1. CASE Gathered(n, r)' /\ ntfnds' = ntfnds
    BY <1>2, <2>1 DEF Coming
  <2>2. CASE pc'[n] = "failed"
    <3>1. RaiseError(n)
      BY <1>0, <2>2 DEF Callback, StartCallback, GatherRows, OpenCursor, FetchRow, NextTable,
                        TypeOK, Goto
    <3>2. ntfnds[n].tables # <<>>
      BY <1>2 DEF Gathered, ControlInv
    <3>3. 1 \in DOMAIN ntfnds[n].tables
      BY <3>2, HeadAndTail
    <3>4. r \in RowsOf(ntfnds[n].tables[1].table)
      BY <1>0, <1>2 DEF RowsOf
    <3>5. QED
      BY <3>1, <3>3, <3>4 DEF RaiseError
  <2>3. QED
    BY <1>0, <1>2, <2>1, <2>2, OwnGathered
<1>3. QED
  BY <1>1, <1>2 DEF Coming

\* Other readers do not come between.
LEMMA StaysComing ==
  ASSUME TypeOK, NEW n \in Reader, ReaderStep(n), NEW r \in live,
         NEW k \in Txn \ {n}, Coming(k, r)
  PROVE  Coming(k, r)' \/ ConsumerHas(r)'
<1>1. /\ k \in Reader \ {n} /\ pc'[k] = pc[k] /\ l_dags'[k] = l_dags[k] /\ ntfnds'[k] = ntfnds[k]
      /\ now' = now /\ updated' = updated
  BY Constants, OtherReaders
<1>2. CASE Ahead(k, r)
  <2>1. InTime(k, r)'
    BY <1>1, <1>2 DEF Ahead, InTime
  <2>2. QED
    BY <1>1, <1>2, <2>1 DEF Ahead, Coming, Listed
<1>3. CASE Gathered(k, r) /\ ntfnds[k].tables[1].table = TableOf[r]
  BY <1>1, <1>3, StaysGathered DEF Coming
<1>4. QED
  BY <1>2, <1>3 DEF Coming

LEMMA ChangedReader ==
  ASSUME TypeOK, ControlInv, WindowSuffices, ChangedInv, NEW n \in Reader, ReaderStep(n)
  PROVE  ChangedInv'
<1> SUFFICES ASSUME NEW r \in live' \ lost', NEW k \in Txn, version'[r] = k
             PROVE  Coming(k, r)' \/ ConsumerHas(r)'
  BY DEF ChangedInv
<1>1. r \in live \ lost /\ r \notin lost' /\ version' = version /\ r \in RowId
  BY OtherReaders DEF TypeOK
<1>2. version[r] = k
  BY <1>1
<1>3. CASE ConsumerHas(r)
  BY <1>1, <1>3, KeepsHaving
<1>4. CASE Coming(k, r) /\ k = n
  <2>1. Callback(n)
    BY <1>4, Constants DEF ReaderStep
  <2>2. QED
    BY <1>1, <1>4, <2>1, OwnComing
<1>5. CASE Coming(k, r) /\ k # n
  BY <1>1, <1>5, StaysComing
<1>6. QED
  BY <1>1, <1>2, <1>3, <1>4, <1>5 DEF ChangedInv

LEMMA PushedReader ==
  ASSUME TypeOK, ControlInv, PushedInv, NEW n \in Reader, ReaderStep(n)
  PROVE  PushedInv'
<1> SUFFICES ASSUME NEW r \in live' \ lost', version'[r] = 0, TableOf[r] \in pushed'
             PROVE  Gathered(Push, r)' \/ ConsumerHas(r)' \/ pc'[Push] = "failed"
  BY DEF PushedInv
<1>1. r \in live \ lost /\ version' = version /\ r \in RowId
  BY OtherReaders DEF TypeOK
<1>2. CASE n = Push /\ \E t \in PushTables : PushAllRows(t)
  <2>1. PICK t \in PushTables : PushAllRows(t)
    BY <1>2
  <2>2. /\ pc'[Push] = "open" /\ TableOf[r] = t
        /\ l_rowids'[Push] = {[row |-> q, op |-> "Init"] : q \in live \cap RowsOf(t)}
    BY <2>1, Constants DEF PushAllRows, TypeOK, Goto
  <2>3. [row |-> r, op |-> "Init"] \in l_rowids'[Push]
    BY <1>1, <2>2 DEF RowsOf
  <2>4. QED
    BY <2>2, <2>3 DEF Gathered
<1>3. CASE ~(n = Push /\ \E t \in PushTables : PushAllRows(t))
  <2>1. pushed' = pushed
    BY <1>3 DEF ReaderStep, Callback, StartCallback, GatherRows, OpenCursor, FetchRow,
                NextTable, RaiseError, EndPush, RaisePush
  <2>2. Gathered(Push, r) \/ ConsumerHas(r) \/ pc[Push] = "failed"
    BY <1>1, <2>1 DEF PushedInv
  <2>3. CASE ConsumerHas(r)
    BY <1>1, <2>3, KeepsHaving
  <2>4. CASE Gathered(Push, r) /\ n = Push
    BY <1>1, <2>4, OwnGathered
  <2>5. CASE Gathered(Push, r) /\ n # Push
    BY <1>1, <2>5, Constants, StaysGathered
  <2>6. CASE pc[Push] = "failed"
    <3>1. CASE n = Push
      BY <1>3, <2>6, <3>1, Constants DEF ReaderStep, OpenCursor, FetchRow, EndPush, RaisePush
    <3>2. CASE n # Push
      BY <2>6, <3>2, Constants, OtherReaders
    <3>3. QED
      BY <3>1, <3>2
  <2>7. QED
    BY <2>2, <2>3, <2>4, <2>5, <2>6
<1>4. QED
  BY <1>2, <1>3

\* A commit announces what it has changed and disturbs nothing else.
LEMMA LatestCommit ==
  ASSUME TypeOK, ControlInv,
         NEW changed \in SUBSET RowId, NEW deleted \in SUBSET changed,
         NEW age \in 0..MaxAge, CommitTxn(changed, deleted, age)
  PROVE  /\ ChangedInv => ChangedInv'
         /\ PushedInv => PushedInv'
<1>a. txns \in Nat /\ txns + 1 <= MaxTxns
  BY Constants DEF TypeOK, CommitTxn
<1>b. txns + 1 \in Txn
  BY <1>a, Constants DEF Txn
<1>c. PICK n \in Txn : n = txns + 1
  BY <1>b
<1>0. n = txns + 1 /\ n # Push /\ n \in Nat /\ n > 0 /\ now \in Int /\ MaxLag \in Nat
      /\ age \in Int /\ age <= MaxAge /\ MaxAge \in Nat
  BY <1>c, Constants DEF TypeOK
<1>1. /\ live' = (live \cup changed) \ deleted
      /\ updated' = [r \in RowId |-> IF r \in deleted THEN 0
                                 ELSE IF r \in changed THEN now - age ELSE updated[r]]
      /\ UNCHANGED <<now, l_dags, l_rowids, l_opnum, published, lost, pushed>>
      /\ pc'[n] = "notified" /\ \A k \in Reader \ {n} : pc'[k] = pc[k]
  BY <1>0, Constants DEF CommitTxn, Goto, TypeOK
<1>2. ntfnds'[n].at = now /\ \A k \in Txn \ {n} : ntfnds'[k] = ntfnds[k]
  BY <1>0, Notified
<1>3. \A r \in changed : \E i \in DOMAIN ntfnds'[n].tables : Listed(n, i, r)'
  BY <1>0, Notified
<1>4. ASSUME NEW r \in live', r \notin changed
      PROVE  /\ r \in live /\ r \in RowId /\ version'[r] = version[r] /\ updated'[r] = updated[r]
             /\ ConsumerHas(r) => ConsumerHas(r)'
             /\ \A k \in Reader \ {n} : Gathered(k, r) => Gathered(k, r)'
  <2>1. r \in live /\ r \in RowId
    BY <1>1, <1>4 DEF TypeOK
  <2>2. version'[r] = version[r] /\ updated'[r] = updated[r]
    BY <1>1, <1>4, <2>1, VersionsGrow
  <2>3. EntriesOf(r)' = EntriesOf(r)
    BY <1>1 DEF EntriesOf
  <2>4. QED
    BY <1>1, <2>1, <2>2, <2>3 DEF ConsumerHas, Gathered
<1>5. ASSUME ChangedInv, NEW r \in live' \ lost', NEW k \in Txn, version'[r] = k
      PROVE  Coming(k, r)' \/ ConsumerHas(r)'
  <2>1. CASE r \in changed
    <3>1. k = n /\ r \in RowId /\ r \notin deleted
      BY <1>0, <1>1, <1>5, <2>1, VersionsGrow DEF TypeOK
    <3>2. updated'[r] = now - age
      BY <1>1, <2>1, <3>1
    <3>3. InTime(n, r)'
      BY <1>0, <1>1, <1>2, <3>2 DEF InTime
    <3>4. QED
      BY <1>1, <1>3, <2>1, <3>1, <3>3 DEF Coming, Ahead
  <2>2. CASE r \notin changed
    <3>1. r \in live \ lost /\ version[r] = k /\ k \in Reader
      BY <1>1, <1>4, <1>5, <2>2, Constants
    <3>2. k # n
      <4>1. version[r] <= txns /\ txns \in Nat /\ k \in Nat
        BY <1>4, <1>5, <2>2, Constants DEF ControlInv, TypeOK
      <4>2. QED
        BY <1>0, <3>1, <4>1
    <3>3. pc'[k] = pc[k] /\ ntfnds'[k] = ntfnds[k] /\ updated'[r] = updated[r]
      BY <1>1, <1>2, <1>4, <1>5, <2>2, <3>1, <3>2
    <3>4. Coming(k, r) => Coming(k, r)'
      <4>1. Ahead(k, r) => Ahead(k, r)'
        BY <1>1, <3>3 DEF Ahead, InTime, Listed
      <4>2. Gathered(k, r) => Gathered(k, r)'
        BY <1>4, <1>5, <2>2, <3>1, <3>2
      <4>3. QED
        BY <3>3, <4>1, <4>2 DEF Coming
    <3>5. QED
      BY <1>4, <1>5, <2>2, <3>1, <3>4 DEF ChangedInv
  <2>3. QED
    BY <2>1, <2>2
<1>6. ASSUME PushedInv, NEW r \in live' \ lost', version'[r] = 0, TableOf[r] \in pushed'
      PROVE  Gathered(Push, r)' \/ ConsumerHas(r)' \/ pc'[Push] = "failed"
  <2>1. r \notin changed
    BY <1>0, <1>1, <1>6, VersionsGrow DEF TypeOK
  <2>2. r \in live \ lost /\ version[r] = 0 /\ TableOf[r] \in pushed /\ pc'[Push] = pc[Push]
    BY <1>0, <1>1, <1>4, <1>6, <2>1, Constants
  <2>3. QED
    BY <1>0, <1>4, <1>6, <2>1, <2>2, Constants DEF PushedInv
<1>7. QED
  BY <1>5, <1>6 DEF ChangedInv, PushedInv

\* The clock waits for the notifications.
LEMMA LatestTick ==
  ASSUME TypeOK, Tick
  PROVE  /\ ChangedInv => ChangedInv'
         /\ PushedInv => PushedInv'
<1>1. /\ now' = now + 1 /\ now \in Int /\ MaxLag \in Int
      /\ UNCHANGED <<live, version, updated, ntfnds, pc, l_dags, l_rowids, l_opnum, published, lost, pushed>>
      /\ \A n \in Txn : ntfnds[n].at \in Int /\ (pc[n] = "notified" => now - ntfnds[n].at < MaxLag)
  BY Constants DEF Tick, data, TypeOK, Notification
<1>2. ASSUME NEW n, NEW r
      PROVE  /\ Gathered(n, r)' <=> Gathered(n, r)
             /\ ConsumerHas(r)' <=> ConsumerHas(r)
  BY <1>1 DEF Gathered, ConsumerHas, EntriesOf
<1>3. ASSUME NEW n \in Txn, NEW r, Coming(n, r) PROVE Coming(n, r)'
  <2>1. InTime(n, r) => InTime(n, r)'
    BY <1>1 DEF InTime
  <2>2. Ahead(n, r) => Ahead(n, r)'
    BY <1>1, <2>1 DEF Ahead, Listed
  <2>3. QED
    BY <1>1, <1>2, <1>3, <2>2 DEF Coming
<1>4. QED
  BY <1>1, <1>2, <1>3 DEF ChangedInv, PushedInv

-----------------------------------------------------------------------------
(* The invariant *)

LEMMA InvInit == Init => Inv
<1> SUFFICES ASSUME Init PROVE Inv
  OBVIOUS
<1>1. ChangedInv
  BY Constants DEF Init, ChangedInv
<1>2. PushedInv
  BY DEF Init, PushedInv
<1>3. QED
  BY <1>1, <1>2, RowsInit DEF Inv

LEMMA InvInductive == Inv /\ [Next]_vars => Inv'
<1> SUFFICES ASSUME Inv, [Next]_vars PROVE Inv'
  OBVIOUS
<1>0. RowsInv /\ RowsInv' /\ TypeOK /\ ControlInv
  BY RowsInductive DEF Inv, RowsInv
<1>1. ASSUME NEW changed \in SUBSET RowId, NEW age \in 0..MaxAge,
             NEW deleted \in SUBSET changed, CommitTxn(changed, deleted, age)
      PROVE  Inv'
  BY <1>0, <1>1, LatestCommit DEF Inv, WindowSuffices
<1>2. ASSUME NEW n \in Reader, ReaderStep(n) PROVE Inv'
  BY <1>0, <1>2, ChangedReader, PushedReader DEF Inv, WindowSuffices
<1>3. CASE Tick
  BY <1>0, <1>3, LatestTick DEF Inv, WindowSuffices
<1>4. CASE UNCHANGED vars
  <2>1. PushedInv'
    BY <1>4 DEF vars, Inv, PushedInv, Gathered, ConsumerHas, EntriesOf
  <2>2. WindowSuffices => ChangedInv'
    BY <1>4 DEF vars, Inv, ChangedInv, Coming, Ahead, InTime, Listed, Gathered, ConsumerHas,
                EntriesOf
  <2>3. QED
    BY <1>0, <2>1, <2>2 DEF Inv, WindowSuffices
<1>5. QED
  BY <1>1, <1>2, <1>3, <1>4, StepOfWhom

LEMMA InvInvariance == Spec => []Inv
BY InvInit, InvInductive, PTL DEF Spec

\* Once the callbacks have run, a changed row can no longer be coming.
LEMMA ChangedHasCome ==
  ASSUME Inv, Quiescent, WindowSuffices, NEW r \in live \ lost, version[r] > 0
  PROVE  ConsumerHas(r)
<1>1. PICK n \in Txn : n = version[r]
  BY Constants DEF Inv, RowsInv, TypeOK, Txn
<1>2. n \in 1..txns
  BY <1>1, Constants DEF Inv, RowsInv, TypeOK, ControlInv
<1>3. pc[n] \in {"done", "failed"}
  BY <1>2 DEF Quiescent
<1>4. ~Coming(n, r)
  BY <1>3 DEF Coming, Ahead, Gathered
<1>5. QED
  BY <1>1, <1>4 DEF Inv, ChangedInv

\* Whenever the callbacks have run, the entry with the highest send operation
\* of every changed row that exists has the row's contents: no interleaving of
\* transactions, callbacks and the push leaves a stale entry on top, provided
\* the ALL_ROWS window covers the delays.
THEOREM LatestBySendOperationHolds == Spec => []LatestBySendOperation
<1>1. Inv => LatestBySendOperation
  BY ChangedHasCome DEF LatestBySendOperation
<1>2. QED
  BY <1>1, InvInvariance, PTL

\* When the push of a table has ended too, that holds of every row of the
\* table: the initial load and the changes it races with leave no gap.
THEOREM InitialLoadCompleteHolds == Spec => []InitialLoadComplete
<1>1. Inv => InitialLoadComplete
  <2> SUFFICES ASSUME Inv, Quiescent, WindowSuffices, pc[Push] = "done",
                      NEW r \in live \ lost, TableOf[r] \in pushed
               PROVE  ConsumerHas(r)
    BY DEF InitialLoadComplete
  <2>1. CASE version[r] = 0
    <3>1. ~Gathered(Push, r)
      BY DEF Gathered
    <3>2. QED
      BY <2>1, <3>1 DEF Inv, PushedInv
  <2>2. CASE version[r] # 0
    <3>1. version[r] > 0
      BY <2>2, Constants DEF Inv, RowsInv, TypeOK
    <3>2. QED
      BY <3>1, ChangedHasCome
  <2>3. QED
    BY <2>1, <2>2
<1>2. QED
  BY <1>1, InvInvariance, PTL
=============================================================================
