--------------------------- MODULE BatchingProofs ---------------------------
(***************************************************************************)
(* Theorems about enqueue_rowids for every cursor and every value of the   *)
(* Event Hub limits.                                                       *)
(***************************************************************************)
EXTENDS Batching, SequenceTheorems, TLAPS

LEMMA Limits ==
  /\ MaxRows \in Nat /\ MaxRows >= 1
  /\ MaxSize \in Nat /\ MaxSize >= 2
BY BatchingAssumption DEF BatchingAssumption

LEMMA RowLength == ASSUME NEW row \in Row PROVE row.len \in Nat
BY BatchingAssumption DEF BatchingAssumption, Row

LEMMA JsonFields ==
  ASSUME NEW json \in Json
  PROVE  json.rows \in Seq(Row) /\ json.bytes \in Nat /\ Len(json.rows) \in Nat
BY DEF Json

\* Appending a row makes the array one row longer, and longer by at most the
\* row and a comma.
LEMMA AppendRowType ==
  ASSUME NEW json \in Json, NEW row \in Row
  PROVE  /\ AppendRow(json, row) \in Json
         /\ Len(AppendRow(json, row).rows) = Len(json.rows) + 1
         /\ AppendRow(json, row).rows # <<>>
         /\ AppendRow(json, row).rows = Append(json.rows, row)
         /\ AppendRow(json, row).bytes <= json.bytes + row.len + 1
<1>1. row.len \in Nat
  BY RowLength
<1>2. json.rows \in Seq(Row) /\ json.bytes \in Nat
  BY JsonFields
<1>3. Append(json.rows, row) \in Seq(Row)
  BY <1>2
<1>4. Len(Append(json.rows, row)) = Len(json.rows) + 1
  BY <1>2
<1>5. Append(json.rows, row) # <<>>
  BY <1>2, <1>4, LenProperties, EmptySeq
<1>6. json.bytes + row.len + (IF json.rows = <<>> THEN 0 ELSE 1) \in Nat
  BY <1>1, <1>2
<1>7. QED
  BY <1>1, <1>2, <1>3, <1>4, <1>5, <1>6 DEF AppendRow, Json

LEMMA EmptyArrayType ==
  EmptyArray \in Json /\ Len(EmptyArray.rows) = 0 /\ EmptyArray.rows = <<>>
BY DEF EmptyArray, Json

\* The variables of enqueue_rowids keep their types in every reachable state.
THEOREM TypeCorrect == Spec => []TypeOK
<1>1. Init => TypeOK
  BY BatchingAssumption, EmptyArrayType DEF BatchingAssumption, Init, TypeOK
<1>2. TypeOK /\ [Next]_vars => TypeOK'
  <2> SUFFICES ASSUME TypeOK, [Next]_vars PROVE TypeOK'
    OBVIOUS
  <2>a. cursor # <<>> => Head(cursor) \in Row /\ Tail(cursor) \in Seq(Row)
    BY DEF TypeOK
  <2>b. l_json.rows \in Seq(Row)
    BY DEF TypeOK, Json
  <2>1. CASE CollectRow
    <3>1. AppendRow(l_json, Head(cursor)) \in Json
      BY <2>1, <2>a, AppendRowType DEF CollectRow, TypeOK
    <3>2. l_rowcount' \in 0..MaxRows - 1
      BY <2>1, Limits DEF CollectRow, Full, TypeOK
    <3>3. QED
      BY <2>1, <2>a, <3>1, <3>2 DEF CollectRow, TypeOK
  <2>2. CASE FlushAndCollect
    <3>1. AppendRow(EmptyArray, Head(cursor)) \in Json
      BY <2>2, <2>a, EmptyArrayType, AppendRowType DEF FlushAndCollect
    <3>2. QED
      BY <2>2, <2>a, <2>b, <3>1, Limits DEF FlushAndCollect, enqueue, TypeOK
  <2>3. CASE EnqueueRest
    BY <2>3, <2>b DEF EnqueueRest, enqueue, TypeOK
  <2>4. CASE Raise
    BY <2>4 DEF Raise, TypeOK
  <2>5. CASE UNCHANGED vars
    BY <2>5 DEF vars, TypeOK
  <2>6. QED
    BY <2>1, <2>2, <2>3, <2>4, <2>5 DEF Next
<1>3. QED
  BY <1>1, <1>2, PTL DEF Spec

-----------------------------------------------------------------------------
(* The limits of a message. l_rowcount lags behind the array by the row the  *)
(* last flush left in it, so the array holds l_rowcount or l_rowcount + 1    *)
(* rows, and l_rowcount stays below max_rows.                                *)

RowCounter ==
  /\ l_rowcount < MaxRows
  /\ Len(l_json.rows) <= l_rowcount + 1

Sized(json) == json.bytes > MaxSize => Len(json.rows) = 1

LimitInv ==
  /\ RowCounter
  /\ Sized(l_json)
  /\ \A i \in 1..Len(queue) :
       Len(queue[i].rows) <= MaxRows /\ Sized(queue[i])

\* Enqueueing an array within the limits keeps every message within them.
LEMMA EnqueueKeepsLimits ==
  ASSUME TypeOK, LimitInv, enqueue(l_json)
  PROVE  \A i \in 1..Len(queue') :
           Len(queue'[i].rows) <= MaxRows /\ Sized(queue'[i])
<1>1. Len(queue') = Len(queue) + 1
  BY DEF enqueue, TypeOK
<1>2. \A i \in 1..Len(queue) : queue'[i] = queue[i]
  BY DEF enqueue, TypeOK
<1>3. queue'[Len(queue) + 1] = l_json
  BY DEF enqueue, TypeOK
<1>4. Len(l_json.rows) <= MaxRows
  BY Limits, JsonFields DEF LimitInv, RowCounter, TypeOK
<1> SUFFICES ASSUME NEW i \in 1..Len(queue')
             PROVE  Len(queue'[i].rows) <= MaxRows /\ Sized(queue'[i])
  OBVIOUS
<1>5. i \in 1..Len(queue) \/ i = Len(queue) + 1
  BY <1>1 DEF TypeOK
<1>6. CASE i \in 1..Len(queue)
  BY <1>2, <1>6 DEF LimitInv
<1>7. CASE i = Len(queue) + 1
  BY <1>3, <1>4, <1>7 DEF LimitInv
<1>8. QED
  BY <1>5, <1>6, <1>7

LEMMA LimitsHold == Spec => []LimitInv
<1>1. Init => LimitInv
  BY Limits, EmptyArrayType DEF Init, LimitInv, RowCounter, Sized, EmptyArray
<1>2. TypeOK /\ LimitInv /\ [Next]_vars => LimitInv'
  <2> SUFFICES ASSUME TypeOK, LimitInv, [Next]_vars PROVE LimitInv'
    OBVIOUS
  <2>0. l_json.bytes \in Nat /\ l_rowcount \in Nat /\ Len(l_json.rows) \in Nat
    BY JsonFields DEF TypeOK
  <2>1. CASE CollectRow
    <3> DEFINE row == Head(cursor)
    <3>1. row \in Row /\ row.len \in Nat
      BY <2>1, RowLength DEF CollectRow, TypeOK
    <3> HIDE DEF row
    <3>2. l_rowcount + 1 < MaxRows /\ l_json.bytes + row.len + 1 <= MaxSize
      BY <2>0, <2>1, <3>1, Limits DEF CollectRow, Full, row
    <3>3. l_json' = AppendRow(l_json, row) /\ l_rowcount' = l_rowcount + 1
      BY <2>1 DEF CollectRow, row
    <3>4. /\ l_json' \in Json
          /\ Len(l_json'.rows) = Len(l_json.rows) + 1
          /\ l_json'.rows # <<>>
          /\ l_json'.bytes <= l_json.bytes + row.len + 1
      BY <3>1, <3>3, AppendRowType DEF TypeOK
    <3>5. RowCounter'
      BY <2>0, <3>2, <3>3, <3>4 DEF LimitInv, RowCounter
    <3>6. Sized(l_json)'
      BY <2>0, <3>1, <3>2, <3>4, Limits, JsonFields DEF Sized
    <3>7. QED
      BY <2>1, <3>4, <3>5, <3>6 DEF CollectRow, LimitInv, Sized
  <2>2. CASE FlushAndCollect
    <3>1. Head(cursor) \in Row
      BY <2>2 DEF FlushAndCollect, TypeOK
    <3>2. l_json' = AppendRow(EmptyArray, Head(cursor))
      BY <2>2 DEF FlushAndCollect
    <3>3. Len(l_json'.rows) = 1 /\ l_json'.rows # <<>>
      <4>1. Len(l_json'.rows) = 0 + 1 /\ l_json'.rows # <<>>
        BY <3>1, <3>2, EmptyArrayType, AppendRowType
      <4>2. QED
        BY <4>1
    <3>4. l_rowcount' = 0
      BY <2>2 DEF FlushAndCollect
    <3>5. RowCounter'
      BY <3>3, <3>4, Limits DEF RowCounter
    <3>6. Sized(l_json)'
      BY <3>3 DEF Sized
    <3>7. \A i \in 1..Len(queue') : Len(queue'[i].rows) <= MaxRows /\ Sized(queue'[i])
      BY <2>2, EnqueueKeepsLimits DEF FlushAndCollect
    <3>8. QED
      BY <3>3, <3>5, <3>6, <3>7 DEF LimitInv, Sized
  <2>3. CASE EnqueueRest
    BY <2>3, EnqueueKeepsLimits DEF EnqueueRest, LimitInv, RowCounter, Sized
  <2>4. CASE Raise
    BY <2>4 DEF Raise, LimitInv, RowCounter, Sized
  <2>5. CASE UNCHANGED vars
    BY <2>5 DEF vars, LimitInv, RowCounter, Sized
  <2>6. QED
    BY <2>1, <2>2, <2>3, <2>4, <2>5 DEF Next
<1>3. QED
  BY <1>1, <1>2, TypeCorrect, PTL DEF Spec

\* No message enqueue_rowids commits holds more than max_rows rows.
THEOREM RowLimitHolds == Spec => []RowLimit
<1>1. LimitInv => RowLimit
  BY DEF LimitInv, RowLimit
<1>2. QED
  BY <1>1, LimitsHold, PTL

\* A message of several rows never exceeds max_size_kb.
THEOREM SizeLimitHolds == Spec => []SizeLimit
<1>1. LimitInv => SizeLimit
  BY DEF LimitInv, SizeLimit, Sized
<1>2. QED
  BY <1>1, LimitsHold, PTL

-----------------------------------------------------------------------------
(* Empty messages: once something was enqueued the array holds at least the  *)
(* row that caused the flush.                                                *)

EmptyInv ==
  /\ EmptyOnlyFirst
  /\ pc = "loop" /\ queue # <<>> => l_json.rows # <<>>

\* Only the first message of a send operation can be an empty array.
THEOREM EmptyOnlyFirstHolds == Spec => []EmptyOnlyFirst
<1>1. Init => EmptyInv
  BY DEF Init, EmptyInv, EmptyOnlyFirst
<1>2. TypeOK /\ EmptyInv /\ [Next]_vars => EmptyInv'
  <2> SUFFICES ASSUME TypeOK, EmptyInv, [Next]_vars PROVE EmptyInv'
    OBVIOUS
  <2>0. ASSUME pc = "loop", enqueue(l_json) PROVE EmptyOnlyFirst'
    <3>1. /\ Len(queue) \in Nat
          /\ Len(queue') = Len(queue) + 1
          /\ queue'[Len(queue) + 1] = l_json
          /\ \A i \in 1..Len(queue) : queue'[i] = queue[i]
      BY <2>0 DEF enqueue, TypeOK
    <3>2. queue = <<>> => Len(queue) = 0
      OBVIOUS
    <3>3. SUFFICES ASSUME NEW i \in 1..Len(queue'), queue'[i].rows = <<>>
                   PROVE  i = 1
      BY DEF EmptyOnlyFirst
    <3>4. CASE i \in 1..Len(queue)
      BY <3>1, <3>3, <3>4 DEF EmptyInv, EmptyOnlyFirst
    <3>5. CASE i = Len(queue) + 1
      BY <2>0, <3>1, <3>2, <3>3, <3>5 DEF EmptyInv
    <3>6. QED
      BY <3>1, <3>3, <3>4, <3>5
  <2>1. CASE CollectRow
    <3>1. l_json'.rows # <<>>
      BY <2>1, AppendRowType DEF CollectRow, TypeOK
    <3>2. QED
      BY <2>1, <3>1 DEF CollectRow, EmptyInv, EmptyOnlyFirst
  <2>2. CASE FlushAndCollect
    <3>1. l_json'.rows # <<>>
      BY <2>2, EmptyArrayType, AppendRowType DEF FlushAndCollect, TypeOK
    <3>2. QED
      BY <2>0, <2>2, <3>1 DEF FlushAndCollect, EmptyInv
  <2>3. CASE EnqueueRest
    BY <2>0, <2>3 DEF EnqueueRest, EmptyInv
  <2>4. CASE Raise
    BY <2>4 DEF Raise, EmptyInv, EmptyOnlyFirst
  <2>5. CASE UNCHANGED vars
    BY <2>5 DEF vars, EmptyInv, EmptyOnlyFirst
  <2>6. QED
    BY <2>1, <2>2, <2>3, <2>4, <2>5 DEF Next
<1>3. EmptyInv => EmptyOnlyFirst
  BY DEF EmptyInv
<1>4. QED
  BY <1>1, <1>2, <1>3, TypeCorrect, PTL DEF Spec

-----------------------------------------------------------------------------
(* No row is lost: moving the head of the cursor to the end of the array     *)
(* leaves the concatenation of both unchanged.                               *)

LEMMA HeadFirst ==
  ASSUME NEW c \in Seq(Row), c # <<>>
  PROVE  /\ Head(c) \in Row
         /\ <<Head(c)>> \in Seq(Row)
         /\ Tail(c) \in Seq(Row)
         /\ c = <<Head(c)>> \o Tail(c)
BY HeadTailProperties

LEMMA AppendOne ==
  ASSUME NEW b \in Seq(Row), NEW e \in Row
  PROVE  Append(b, e) = b \o <<e>>
BY AppendIsConcat

ConservationInv == RowsConserved /\ AllPublished

LEMMA ConservationHolds == Spec => []ConservationInv
<1>1. Init => ConservationInv
  <2> SUFFICES ASSUME Init PROVE ConservationInv
    OBVIOUS
  <2>1. cursor \in Seq(Row) /\ <<>> \in Seq(Row)
    BY BatchingAssumption, EmptySeq DEF BatchingAssumption, Init
  <2>2. <<>> \o <<>> \o cursor = cursor
    BY <2>1, ConcatEmptySeq
  <2>3. QED
    BY <2>2, EmptyArrayType DEF Init, ConservationInv, RowsConserved, AllPublished
<1>2. TypeOK /\ ConservationInv /\ [Next]_vars => ConservationInv'
  <2> SUFFICES ASSUME TypeOK, ConservationInv, [Next]_vars PROVE ConservationInv'
    OBVIOUS
  <2>0. published \in Seq(Row) /\ l_json.rows \in Seq(Row) /\ cursor \in Seq(Row)
    BY JsonFields DEF TypeOK
  <2>1. CASE CollectRow
    <3> DEFINE a == published
               b == l_json.rows
               h == <<Head(cursor)>>
               t == Tail(cursor)
    <3>1. h \in Seq(Row) /\ t \in Seq(Row) /\ cursor = h \o t /\ Head(cursor) \in Row
      BY <2>0, <2>1, HeadFirst DEF CollectRow
    <3>2. l_json'.rows = b \o h
      BY <2>0, <2>1, <3>1, AppendRowType, AppendOne DEF CollectRow, TypeOK
    <3>3. a \in Seq(Row) /\ b \in Seq(Row) /\ published' = a /\ cursor' = t
      BY <2>0, <2>1 DEF CollectRow
    <3>4. pc # "done" => a \o b \o cursor = result
      BY DEF ConservationInv, RowsConserved
    <3> HIDE DEF a, b, h, t
    <3>5. a \o (b \o h) = (a \o b) \o h
      BY <3>1, <3>3
    <3>6. a \o b \in Seq(Row)
      BY <3>3
    <3>7. ((a \o b) \o h) \o t = (a \o b) \o (h \o t)
      BY <3>1, <3>6
    <3>8. published' \o l_json'.rows \o cursor' = a \o b \o cursor
      BY <3>1, <3>2, <3>3, <3>5, <3>7
    <3>9. QED
      BY <2>1, <3>4, <3>8 DEF CollectRow, ConservationInv, RowsConserved, AllPublished
  <2>2. CASE FlushAndCollect
    <3> DEFINE sent == published \o l_json.rows
               h == <<Head(cursor)>>
               t == Tail(cursor)
    <3>1. h \in Seq(Row) /\ t \in Seq(Row) /\ cursor = h \o t /\ Head(cursor) \in Row
      BY <2>0, <2>2, HeadFirst DEF FlushAndCollect
    <3>2. l_json'.rows = h
      <4>1. l_json'.rows = Append(<<>>, Head(cursor))
        BY <2>2, <3>1, EmptyArrayType, AppendRowType DEF FlushAndCollect
      <4>2. QED
        BY <4>1
    <3>3. sent \in Seq(Row) /\ published' = sent /\ cursor' = t
      BY <2>0, <2>2 DEF FlushAndCollect, enqueue
    <3>4. pc # "done" => sent \o cursor = result
      BY DEF ConservationInv, RowsConserved
    <3> HIDE DEF sent, h, t
    <3>5. (sent \o h) \o t = sent \o (h \o t)
      BY <3>1, <3>3
    <3>6. published' \o l_json'.rows \o cursor' = sent \o cursor
      BY <3>1, <3>2, <3>3, <3>5
    <3>7. QED
      BY <2>2, <3>4, <3>6
      DEF FlushAndCollect, ConservationInv, RowsConserved, AllPublished
  <2>3. CASE EnqueueRest
    <3>1. published \o l_json.rows \in Seq(Row)
      BY <2>0, ConcatProperties
    <3>2. (published \o l_json.rows) \o <<>> = published \o l_json.rows
      BY <3>1, ConcatEmptySeq
    <3>3. QED
      BY <2>3, <3>2
      DEF EnqueueRest, enqueue, ConservationInv, RowsConserved, AllPublished
  <2>4. CASE Raise
    BY <2>4 DEF Raise, ConservationInv, RowsConserved, AllPublished
  <2>5. CASE UNCHANGED vars
    BY <2>5 DEF vars, ConservationInv, RowsConserved, AllPublished
  <2>6. QED
    BY <2>1, <2>2, <2>3, <2>4, <2>5 DEF Next
<1>3. QED
  BY <1>1, <1>2, TypeCorrect, PTL DEF Spec

\* No row of the cursor is lost, repeated or reordered on its way to the queue.
THEOREM RowsConservedHolds == Spec => []RowsConserved
<1>1. ConservationInv => RowsConserved
  BY DEF ConservationInv
<1>2. QED
  BY <1>1, ConservationHolds, PTL

\* A normal return of enqueue_rowids has enqueued every row.
THEOREM AllPublishedHolds == Spec => []AllPublished
<1>1. ConservationInv => AllPublished
  BY DEF ConservationInv
<1>2. QED
  BY <1>1, ConservationHolds, PTL
=============================================================================
