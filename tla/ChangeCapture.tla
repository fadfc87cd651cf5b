---------------------------- MODULE ChangeCapture ----------------------------
(***************************************************************************)
(* cqn_callback, changed_rows, push_all_rows and the cursor of             *)
(* enqueue_rowids in package az_change_notifications: how a committed      *)
(* change of a registered table, and the initial load, become rows of      *)
(* messages.                                                               *)
(*                                                                         *)
(* A transaction commits and Oracle notifies the callback once, with the   *)
(* rowids and operations it touched in each table, or with ALL_ROWS for a  *)
(* table in which it touched more than the rowid threshold, or whose       *)
(* rowids the database had no room for. The callbacks of different         *)
(* transactions run concurrently with each other and with later            *)
(* transactions. They publish the rows as they find them, not as the       *)
(* transaction left them: a cursor joins the rowids with the live rows,    *)
(* and get_rowdata reads each row again when it is fetched, in a           *)
(* consistent read of its own.                                             *)
(*                                                                         *)
(* A row is its rowid; its contents are the number of the transaction that *)
(* last changed it, and the time in its update column. What happens to the *)
(* published rows is the subject of Batching and DmlQueue. sql_filter is   *)
(* taken to accept every row. One session may push all rows of a table, as *)
(* register_table does for the initial load, while all this goes on.       *)
(***************************************************************************)
EXTENDS Integers, Sequences, FiniteSets

CONSTANTS
  RowId,        \* the rows that can exist
  InitialRows,  \* the rows that exist when the tables are registered
  Table,        \* the registered tables
  TableOf,      \* RowId -> Table
  UpdCol,       \* the tables with oqf_tables.updcol
  PushTables,   \* the tables push_all_rows may be called for
  Threshold,    \* rowids in a notification of one table
  Window,       \* c_all_row_minutes
  MaxLag,       \* the longest a notification waits for its callback
  MaxAge,       \* the longest a transaction stays open after a change
  MaxTxns,      \* bound: transactions
  RollUps,      \* bound: the transactions whose rowids may be rolled up
  MaxRaises,    \* bound: callbacks that raise
  MaxTime       \* bound: the clock stops there

ASSUME CaptureAssumption ==
  /\ TableOf \in [RowId -> Table] /\ InitialRows \subseteq RowId
  /\ UpdCol \subseteq Table /\ PushTables \subseteq Table
  /\ {Threshold, Window, MaxLag, MaxAge, MaxTxns, MaxRaises, MaxTime} \subseteq Nat
  /\ RollUps \subseteq 1..MaxTxns
  /\ IsFiniteSet(RowId) /\ IsFiniteSet(Table)

Txn == 1..MaxTxns
Push == 0              \* the session that calls push_all_rows
Reader == Txn \cup {Push}

VARIABLES
  now,        \* sysdate, shifted so that now - Window is never negative
  live,       \* the rows that exist
  version,    \* RowId -> the transaction that last changed the row
  updated,    \* RowId -> the value of its update column
  txns,       \* transactions committed
  ntfnds,     \* Txn -> its notification: when, and the descriptors of the tables
  pc,         \* Reader -> the next statement of the callback or the push
  l_dags,     \* Txn -> the reference date of an ALL_ROWS notification
  l_empty,    \* Txn -> the ALL_ROWS flag of its callback
  l_rowids,   \* Reader -> the rows gathered for the table at hand
  l_opnum,    \* Reader -> the send operation of the table at hand
  s_az_send_op, \* the sequence of send operations
  published,  \* the rows handed over for publication
  lost,       \* history: the rows of callbacks that raised
  pushed      \* history: the table the push is about, none before it starts

vars == <<now, live, version, updated, txns, ntfnds, pc, l_dags, l_empty,
          l_rowids, l_opnum, s_az_send_op, published, lost, pushed>>

data == <<live, version, updated, txns>>

RowOps == {"Upsert", "Insert", "Update", "Delete", "Init"}
RowDesc == [row : RowId, op : RowOps]
TableDesc == [table : Table, allRows : BOOLEAN, rows : SUBSET RowDesc]
Notification == [at : Nat, tables : Seq(TableDesc)]
NoBody == -1     \* the contents of a row that get_rowdata no longer finds
Entry == [row : RowId, op : RowOps, version : NoBody..MaxTxns, sendOp : Nat, txn : Reader]

TypeOK ==
  /\ now \in Window..Window + MaxTime
  /\ live \subseteq RowId
  /\ version \in [RowId -> 0..MaxTxns]
  /\ updated \in [RowId -> Int]
  /\ txns \in 0..MaxTxns
  /\ ntfnds \in [Txn -> Notification]
  /\ pc \in [Reader -> {"none", "notified", "gather", "open", "fetch", "done", "failed"}]
  /\ l_dags \in [Txn -> Nat]
  /\ l_empty \in [Txn -> BOOLEAN]
  /\ l_rowids \in [Reader -> SUBSET RowDesc]
  /\ l_opnum \in [Reader -> Nat]
  /\ s_az_send_op \in Nat
  /\ published \subseteq Entry
  /\ lost \subseteq RowId
  /\ pushed \subseteq Table

\* No change has been made since the tables were registered.
Init ==
  /\ now = Window
  /\ live = InitialRows
  /\ version = [r \in RowId |-> 0]
  /\ updated = [r \in RowId |-> 0]
  /\ txns = 0
  /\ ntfnds = [n \in Txn |-> [at |-> 0, tables |-> <<>>]]
  /\ pc = [n \in Reader |-> "none"]
  /\ l_dags = [n \in Txn |-> 0]
  /\ l_empty = [n \in Txn |-> FALSE]
  /\ l_rowids = [n \in Reader |-> {}]
  /\ l_opnum = [n \in Reader |-> 0]
  /\ s_az_send_op = 0
  /\ published = {}
  /\ lost = {}
  /\ pushed = {}

Goto(n, label) == pc' = [pc EXCEPT ![n] = label]

RowsOf(t) == {r \in RowId : TableOf[r] = t}

-----------------------------------------------------------------------------
\* The descriptor of the changes a transaction made to one table: ALL_ROWS when
\* they are too many, or when the database has rolled them up for want of memory.
Describe(t, changed, deleted, rolledUp) ==
  LET rows == changed \cap RowsOf(t)
      all  == Cardinality(rows) > Threshold \/ t \in rolledUp
  IN  [table |-> t, allRows |-> all,
       rows |-> IF all THEN {}
                ELSE {[row |-> r, op |-> IF r \in deleted THEN "Delete"
                                         ELSE IF r \in live THEN "Update" ELSE "Insert"]
                        : r \in rows}]

\* A transaction commits: it has deleted some rows, updated others, and
\* inserted rows; the update columns say when. The notification lists the
\* tables in any order.
CommitTxn(changed, deleted, age) ==
  LET n == txns + 1
      tables == {TableOf[r] : r \in changed}
  IN
  /\ n <= MaxTxns
  /\ changed # {} /\ deleted \subseteq changed \cap live
  /\ live' = (live \cup changed) \ deleted
  /\ version' = [r \in RowId |-> IF r \in changed THEN n ELSE version[r]]
  /\ updated' = [r \in RowId |-> IF r \in deleted THEN 0
                                 ELSE IF r \in changed THEN now - age ELSE updated[r]]
  /\ txns' = n
  /\ \E order \in [1..Cardinality(tables) -> tables],
          rolledUp \in IF n \in RollUps THEN SUBSET tables ELSE {{}} :
       /\ \A t \in tables : \E i \in DOMAIN order : order[i] = t
       /\ ntfnds' = [ntfnds EXCEPT ![n] =
            [at |-> now,
             tables |-> [i \in DOMAIN order |-> Describe(order[i], changed, deleted, rolledUp)]]]
  /\ Goto(n, "notified")
  /\ UNCHANGED <<now, l_dags, l_empty, l_rowids, l_opnum, s_az_send_op, published, lost, pushed>>

-----------------------------------------------------------------------------
TableAtHand(n) == Head(ntfnds[n].tables)

\* Mutant of StartCallback: the minutes are subtracted twice.
StartWithTwoWindows(n) ==
  /\ pc[n] = "notified"
  /\ l_dags' = [l_dags EXCEPT ![n] = now - 2 * Window]
  /\ Goto(n, "gather")
  /\ UNCHANGED <<now, data, ntfnds, l_empty, l_rowids, l_opnum, s_az_send_op, published, lost, pushed>>

\* Mutant of StartCallback: the reference date is the date of the callback.
StartWithoutWindow(n) ==
  /\ pc[n] = "notified"
  /\ l_dags' = [l_dags EXCEPT ![n] = now]
  /\ Goto(n, "gather")
  /\ UNCHANGED <<now, data, ntfnds, l_empty, l_rowids, l_opnum, s_az_send_op, published, lost, pushed>>

\* The callback starts: the reference date is taken before anything else.
StartCallback(n) ==
  /\ pc[n] = "notified"
  /\ l_dags' = [l_dags EXCEPT ![n] = now - Window]
  /\ Goto(n, "gather")
  /\ UNCHANGED <<now, data, ntfnds, l_empty, l_rowids, l_opnum, s_az_send_op, published, lost, pushed>>

\* Mutant of changed_rows: the rows are labelled as updates of the transaction.
changed_rows_updates(t, dags) ==
  {[row |-> r, op |-> "Update"] :
     r \in {s \in live \cap RowsOf(t) : t \in UpdCol => updated[s] >= dags}}

\* changed_rows: the rows whose update column has reached the reference date,
\* or the whole table when it has no update column.
changed_rows(t, dags) ==
  {[row |-> r, op |-> "Upsert"] :
     r \in {s \in live \cap RowsOf(t) : t \in UpdCol => updated[s] >= dags}}

\* The rows of the table at hand: l_empty, once set, stays set for the tables
\* that follow in the notification.
GatherRows(n) ==
  /\ pc[n] = "gather"
  /\ LET t == TableAtHand(n)
         empty == l_empty[n] \/ t.allRows
     IN  /\ l_empty' = [l_empty EXCEPT ![n] = empty]
         /\ l_rowids' = [l_rowids EXCEPT ![n] =
              IF empty THEN changed_rows(t.table, l_dags[n]) ELSE t.rows]
  /\ Goto(n, "open")
  /\ UNCHANGED <<now, data, ntfnds, l_dags, l_opnum, s_az_send_op, published, lost, pushed>>

\* enqueue_rowids draws a send operation and opens the cursor, which joins
\* the rowids with the rows that exist: deleted rows are not in it.
OpenCursor(n) ==
  /\ pc[n] = "open"
  /\ s_az_send_op' = s_az_send_op + 1
  /\ l_opnum' = [l_opnum EXCEPT ![n] = s_az_send_op + 1]
  /\ l_rowids' = [l_rowids EXCEPT ![n] = {d \in @ : d.row \in live}]
  /\ Goto(n, "fetch")
  /\ UNCHANGED <<now, data, ntfnds, l_dags, l_empty, published, lost, pushed>>

\* A row is fetched, and get_rowdata reads it as it is now; the function
\* returns null to the query when the row has been deleted meanwhile.
FetchRow(n) ==
  /\ pc[n] = "fetch"
  /\ \E d \in l_rowids[n] :
       /\ published' = published \cup
            {[row |-> d.row, op |-> d.op, sendOp |-> l_opnum[n], txn |-> n,
              version |-> IF d.row \in live THEN version[d.row] ELSE NoBody]}
       /\ l_rowids' = [l_rowids EXCEPT ![n] = @ \ {d}]
  /\ UNCHANGED <<now, data, ntfnds, pc, l_dags, l_empty, l_opnum, s_az_send_op, lost, pushed>>

\* The cursor is exhausted; the loop goes on to the next table.
NextTable(n) ==
  /\ pc[n] = "fetch" /\ l_rowids[n] = {}
  /\ ntfnds' = [ntfnds EXCEPT ![n].tables = Tail(@)]
  /\ Goto(n, IF Len(ntfnds[n].tables) > 1 THEN "gather" ELSE "done")
  /\ l_opnum' = [l_opnum EXCEPT ![n] = 0]
  /\ UNCHANGED <<now, data, l_dags, l_empty, l_rowids, s_az_send_op, published, lost, pushed>>

\* A statement raises; the callback logs the error and raises it again, and the
\* remaining rows of its notification are never published.
RaiseError(n) ==
  /\ pc[n] \in {"gather", "open", "fetch"}
  /\ Cardinality({k \in Reader : pc[k] = "failed"}) < MaxRaises
  /\ Goto(n, "failed")
  /\ lost' = lost \cup UNION {RowsOf(ntfnds[n].tables[i].table) :
                                i \in DOMAIN ntfnds[n].tables}
  /\ UNCHANGED <<now, data, ntfnds, l_dags, l_empty, l_rowids, l_opnum, s_az_send_op, published, pushed>>

-----------------------------------------------------------------------------
\* Mutant of PushAllRows: only rows changed before are pushed.
PushChangedRows(t) ==
  /\ pc[Push] = "none"
  /\ l_rowids' = [l_rowids EXCEPT ![Push] =
       {[row |-> r, op |-> "Init"] : r \in {q \in live \cap RowsOf(t) : updated[q] > 0}}]
  /\ pushed' = {t}
  /\ Goto(Push, "open")
  /\ UNCHANGED <<now, data, ntfnds, l_dags, l_empty, l_opnum, s_az_send_op, published, lost>>

\* push_all_rows: every row of the table, with an operation of its own, goes
\* through enqueue_rowids like the rows of a notification.
PushAllRows(t) ==
  /\ pc[Push] = "none"
  /\ l_rowids' = [l_rowids EXCEPT ![Push] =
       {[row |-> r, op |-> "Init"] : r \in live \cap RowsOf(t)}]
  /\ pushed' = {t}
  /\ Goto(Push, "open")
  /\ UNCHANGED <<now, data, ntfnds, l_dags, l_empty, l_opnum, s_az_send_op, published, lost>>

\* The push has enqueued all its rows.
EndPush ==
  /\ pc[Push] = "fetch" /\ l_rowids[Push] = {}
  /\ Goto(Push, "done")
  /\ l_opnum' = [l_opnum EXCEPT ![Push] = 0]
  /\ UNCHANGED <<now, data, ntfnds, l_dags, l_empty, l_rowids, s_az_send_op, published, lost, pushed>>

\* The push raises to its caller.
RaisePush ==
  /\ pc[Push] \in {"open", "fetch"}
  /\ Cardinality({k \in Reader : pc[k] = "failed"}) < MaxRaises
  /\ Goto(Push, "failed")
  /\ UNCHANGED <<now, data, ntfnds, l_dags, l_empty, l_rowids, l_opnum, s_az_send_op, published, lost, pushed>>

\* Time passes, but no notification waits longer than MaxLag.
Tick ==
  /\ now < Window + MaxTime
  /\ \A n \in Txn : pc[n] = "notified" => now - ntfnds[n].at < MaxLag
  /\ now' = now + 1
  /\ UNCHANGED <<data, ntfnds, pc, l_dags, l_empty, l_rowids, l_opnum, s_az_send_op,
                 published, lost, pushed>>

Callback(n) ==
  \/ StartCallback(n) \/ GatherRows(n) \/ OpenCursor(n) \/ FetchRow(n)
  \/ NextTable(n) \/ RaiseError(n)

Next ==
  \/ \E changed \in SUBSET RowId, age \in 0..MaxAge :
       \E deleted \in SUBSET changed : CommitTxn(changed, deleted, age)
  \/ \E n \in Txn : Callback(n)
  \/ \E t \in PushTables : PushAllRows(t)
  \/ OpenCursor(Push) \/ FetchRow(Push) \/ EndPush \/ RaisePush
  \/ Tick

Spec == Init /\ [][Next]_vars

-----------------------------------------------------------------------------
(* Properties *)

Quiescent ==
  /\ \A n \in 1..txns : pc[n] \in {"done", "failed"}
  /\ pc[Push] \in {"none", "done", "failed"}

EntriesOf(r) == {e \in published : e.row = r}

\* The ALL_ROWS window reaches back far enough for the changes it stands for.
WindowSuffices == MaxLag + MaxAge <= Window

\* The entry a consumer keeps that goes by send_operation is the row's contents.
ConsumerHas(r) ==
  \E e \in EntriesOf(r) :
    /\ \A f \in EntriesOf(r) : f.sendOp <= e.sendOp
    /\ e.version = version[r]

\* Once the callbacks have run, a consumer that keeps the entry with the
\* highest send operation has the current contents of every changed row that
\* exists, although callbacks overtake each other and read the rows twice.
LatestBySendOperation ==
  (Quiescent /\ WindowSuffices) =>
    \A r \in live \ lost : version[r] > 0 => ConsumerHas(r)

\* The same holds for every row of a table that was pushed as a whole, changed
\* or not: the push and the callbacks of the changes it races with leave no
\* gap and no stale entry on top.
InitialLoadComplete ==
  (Quiescent /\ WindowSuffices /\ pc[Push] = "done") =>
    \A r \in live \ lost : TableOf[r] \in pushed => ConsumerHas(r)

\* An entry with the operation of a transaction shows its row as that
\* transaction left it or later, never an earlier state, unless the row was
\* deleted while the callback ran and the entry has no Body.
NeverOlderThanTransaction ==
  \A e \in published :
    e.op # "Upsert" => e.version = NoBody \/ e.version >= e.txn

\* The operations listed in enqueue_rowids, and the decode in its cursor,
\* have deletions published: once the callbacks have run, the consumer knows
\* of every deleted row.
DeletesPublished ==
  Quiescent =>
    \A r \in RowId \ (live \cup lost) : version[r] > 0 =>
      \E e \in EntriesOf(r) : e.op = "Delete"
=============================================================================
