------------------------------ MODULE Batching ------------------------------
(***************************************************************************)
(* enqueue_rowids of package az_change_notifications: the rows of one      *)
(* send operation are fetched from a cursor, collected in the JSON array   *)
(* l_json, and handed to the Advanced Queue as one message each time the   *)
(* Event Hub limits would be exceeded, and once more after the last row.   *)
(* enqueue commits, so every message is durable on its own.                *)
(*                                                                         *)
(* A row is a rowid and the length of its JSON text; a JSON array is the   *)
(* rows in it and its length in bytes ("[]", and a comma between rows).    *)
(***************************************************************************)
EXTENDS Naturals, Sequences

CONSTANTS
  MaxRows,    \* oqf_event_hubs.max_rows of the target hub
  MaxSize,    \* oqf_event_hubs.max_size_kb of the target hub, in bytes
  RowIds,     \* the rowids a cursor can return
  RowSizes,   \* the lengths a row's JSON text can have
  Cursors     \* the results the joined cursor can have

Row == [rowid : RowIds, len : RowSizes]

ASSUME BatchingAssumption ==
  /\ MaxRows \in Nat \ {0}
  /\ MaxSize \in Nat /\ MaxSize >= 2   \* a positive number of kilobytes
  /\ RowSizes \subseteq Nat \ {0}
  /\ Cursors \subseteq Seq(Row)

VARIABLES
  result,      \* the rows of the cursor when it was opened
  cursor,      \* the rows not yet handled; its head is l_payload
  l_json,      \* the JSON array being filled
  l_rowcount,  \* the counter compared with max_rows
  queue,       \* the messages enqueued and committed by this operation
  published,   \* history: the rows in those messages, in order
  pc           \* "loop", "done", or "failed" once an exception is raised

vars == <<result, cursor, l_json, l_rowcount, queue, published, pc>>

Json == [rows : Seq(Row), bytes : Nat]

EmptyArray == [rows |-> <<>>, bytes |-> 2]

\* One row more, with a comma unless it is the first.
AppendRow(json, row) ==
  [rows  |-> Append(json.rows, row),
   bytes |-> json.bytes + row.len + (IF json.rows = <<>> THEN 0 ELSE 1)]

\* Mutant of Full: the number of rows is compared one row too late.
FullOneLate(json, row, count) ==
  \/ count > MaxRows
  \/ json.bytes + row.len + 1 > MaxSize

\* Mutant of Full: the size is tested without the row to be appended.
FullWithoutRow(json, row, count) ==
  \/ count >= MaxRows
  \/ json.bytes > MaxSize

\* The test made before a row is appended; count includes that row.
Full(json, row, count) ==
  \/ count >= MaxRows
  \/ json.bytes + row.len + 1 > MaxSize

TypeOK ==
  /\ result \in Seq(Row)
  /\ cursor \in Seq(Row)
  /\ l_json \in Json
  /\ l_rowcount \in 0..MaxRows - 1
  /\ queue \in Seq(Json)
  /\ published \in Seq(Row)
  /\ pc \in {"loop", "done", "failed"}

Init ==
  /\ result \in Cursors
  /\ cursor = result
  /\ l_json = EmptyArray
  /\ l_rowcount = 0
  /\ queue = <<>>
  /\ published = <<>>
  /\ pc = "loop"

-----------------------------------------------------------------------------
\* The enqueue procedure: one message, committed.
enqueue(json) ==
  /\ queue' = Append(queue, json)
  /\ published' = published \o json.rows

\* The row still fits: it is appended to the array.
CollectRow ==
  /\ pc = "loop" /\ cursor # <<>>
  /\ ~Full(l_json, Head(cursor), l_rowcount + 1)
  /\ l_json' = AppendRow(l_json, Head(cursor))
  /\ l_rowcount' = l_rowcount + 1
  /\ cursor' = Tail(cursor)
  /\ UNCHANGED <<result, queue, published, pc>>

\* Mutant of FlushAndCollect: the row that did not fit is forgotten.
FlushAndForget ==
  /\ pc = "loop" /\ cursor # <<>>
  /\ Full(l_json, Head(cursor), l_rowcount + 1)
  /\ enqueue(l_json)
  /\ l_json' = EmptyArray
  /\ l_rowcount' = 0
  /\ cursor' = Tail(cursor)
  /\ UNCHANGED <<result, pc>>

\* The array is full: it is enqueued and a new one starts with the row.
FlushAndCollect ==
  /\ pc = "loop" /\ cursor # <<>>
  /\ Full(l_json, Head(cursor), l_rowcount + 1)
  /\ enqueue(l_json)
  /\ l_json' = AppendRow(EmptyArray, Head(cursor))
  /\ l_rowcount' = 0
  /\ cursor' = Tail(cursor)
  /\ UNCHANGED <<result, pc>>

\* Mutant of EnqueueRest: the last array is not enqueued.
ForgetRest ==
  /\ pc = "loop" /\ cursor = <<>>
  /\ pc' = "done"
  /\ UNCHANGED <<result, cursor, l_json, l_rowcount, queue, published>>

\* After the loop whatever is in the array is enqueued.
EnqueueRest ==
  /\ pc = "loop" /\ cursor = <<>>
  /\ enqueue(l_json)
  /\ pc' = "done"
  /\ UNCHANGED <<result, cursor, l_json, l_rowcount>>

\* A fetch or an enqueue raises: the operation is abandoned, and what it
\* has enqueued before stays committed.
Raise ==
  /\ pc = "loop"
  /\ pc' = "failed"
  /\ UNCHANGED <<result, cursor, l_json, l_rowcount, queue, published>>

Next == CollectRow \/ FlushAndCollect \/ EnqueueRest \/ Raise

Spec == Init /\ [][Next]_vars

-----------------------------------------------------------------------------
(* Properties *)

\* No message holds more rows than max_rows, although l_rowcount restarts at
\* 0 with a row already in the new array.
RowLimit == \A i \in 1..Len(queue) : Len(queue[i].rows) <= MaxRows

\* A message is larger than max_size_kb only when it is a single row, which
\* cannot be split.
SizeLimit ==
  \A i \in 1..Len(queue) :
    queue[i].bytes > MaxSize => Len(queue[i].rows) = 1

\* Until the last enqueue, whatever was enqueued, is collected or is still to
\* come is the cursor's result: no row is lost, repeated or reordered over the
\* message boundaries, even when the operation is abandoned half-way.
RowsConserved == pc # "done" => published \o l_json.rows \o cursor = result

\* When the operation returns normally every row of the cursor was enqueued.
AllPublished == pc = "done" => published = result

\* Only the first message of an operation can be an empty array, so an
\* operation with rows sends at most one.
EmptyOnlyFirst ==
  \A i \in 1..Len(queue) : queue[i].rows = <<>> => i = 1
=============================================================================
