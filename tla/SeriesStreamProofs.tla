------------------------- MODULE SeriesStreamProofs -------------------------
(***************************************************************************)
(* The safety of SeriesStream, for every source, budget, row and sample    *)
(* limit.                                                                  *)
(*                                                                         *)
(* Each invariant says what holds where the task is suspended; the parts   *)
(* of IInv say what holds at every place of the loop in between.           *)
(***************************************************************************)
EXTENDS SeriesStream, SequenceFacts

\* TypeOK, the flags apart from the values.
FlagsOK ==
  /\ arrived \in BOOLEAN /\ registered \in BOOLEAN /\ input \in BOOLEAN
  /\ outputReady \in BOOLEAN /\ due \in BOOLEAN /\ woken \in BOOLEAN

ValuesOK ==
  /\ source \in Inputs /\ sent \in 0 .. Len(source.batches)
  /\ batch \in Seq(RawRow) \cup {None} /\ from \in Nat /\ cursor \in Nat
  /\ batch # None => from <= Len(batch)
  /\ block \in Nat \cup {None} /\ current \in Open \cup {None}
  /\ output \in Output \cup {None}
  /\ reserved \in Nat /\ budget \in 0 .. WorkUnits /\ turns \in 0 .. Turns
  /\ until \in Nat
  /\ pc \in {"idle", "turn", "yield", "ready", "update", "settle", "row", "finish",
              "copied", "ended"}
  /\ ended \in {"open", "done", "failed", "dropped"}

InLoop == {"update", "row", "settle", "finish", "copied"}

\* Where the run is, and what is in hand there.
Placed ==
  /\ (pc = "ended") <=> (ended # "open")
  /\ pc \in {"idle", "ready", "ended"} => ~due
  /\ pc \in InLoop => turns > 0
  /\ pc \in {"update", "row", "settle"} => batch # None
  /\ pc = "update" => from <= until /\ until <= Len(batch)
  /\ pc \in {"row", "finish", "copied"} /\ batch # None => from < until /\ until <= Len(batch)
  /\ pc \in {"finish", "copied"} => current # None

\* A series is open in a block, and a suspended row is the one at from.
RowInHand ==
  /\ current # None => block \in Nat
  /\ cursor # 0 => batch # None /\ from < Len(batch) /\ cursor <= batch[from + 1].work

Fits(b) ==
  /\ b.rows # <<>> /\ Len(b.rows) <= source.batchSize
  /\ \A n \in DOMAIN b.rows : b.rows[n].block = b.block
  /\ b.count <= BatchSamples \/ Len(b.rows) = 1

\* The output never exceeds its limits, and takes a row only below them.
OutputFits ==
  /\ output # None => output.block = block /\ Fits(output)
  /\ output # None /\ ~outputReady /\ pc # "copied" => Len(output.rows) < source.batchSize
  /\ outputReady => output # None /\ pc \notin {"update", "row", "finish", "copied"}
  /\ pc = "copied" => output # None

\* What is held is charged wherever the loop may leave for a suspension.
Charged ==
  ~due /\ (pc \notin InLoop \/ (pc = "finish" /\ batch = None)) => reserved = Size

IInv ==
  /\ TypeOK /\ delivered \in Seq(Output)
  /\ Placed /\ RowInHand /\ OutputFits /\ Charged
  /\ BatchesAreBounded /\ SleepsSafely /\ EndsReleased

-----------------------------------------------------------------------------
\* TypeOK is its flags and its values.
LEMMA TypeParts == TypeOK <=> FlagsOK /\ ValuesOK
  BY DEF TypeOK, FlagsOK, ValuesOK

\* What is held is never less than nothing (SeriesStream::size).
LEMMA SizeType ==
  ASSUME ValuesOK PROVE Size \in Nat
<1>1. current # None => Len(current.rows) \in Nat BY DEF ValuesOK, Open
<1>2. output # None => Len(output.rows) \in Nat BY DEF ValuesOK, Output
<1> DEFINE Batch == IF batch = None THEN 0 ELSE 1
           Rest == IF cursor > 0 THEN 1 ELSE 0
           Series == IF current = None THEN 0 ELSE 1 + Len(current.rows) + Rest
           Out == IF output = None THEN 0 ELSE Len(output.rows)
<1>3. Batch \in Nat /\ Rest \in Nat OBVIOUS
<1>4. Out \in Nat BY <1>2
<1>5. Size = Batch + Series + Out BY DEF Size
<1>6. Series \in Nat
  <2> HIDE DEF Rest
  <2> QED BY <1>1, <1>3
<1> HIDE DEF Batch, Series, Out
<1> QED BY <1>3, <1>4, <1>5, <1>6

\* The raw row in hand, in any turn of update_budgeted.
LEMMA RawRowType ==
  ASSUME ValuesOK, Placed, batch # None, pc = "row"
  PROVE  RawAt \in RawRow /\ from + 1 \in DOMAIN batch /\ from < Len(batch)
<1>1. batch \in Seq(RawRow) /\ from \in Nat /\ until \in Nat BY DEF ValuesOK
<1>2. from < until /\ until <= Len(batch) BY DEF Placed
<1> QED BY <1>1, <1>2 DEF RawAt

\* A stream starts with nothing held, charged or handed over.
LEMMA InitIInv == Init => IInv
<1> SUFFICES ASSUME Init PROVE IInv OBVIOUS
<1>1. Len(source.batches) \in Nat BY StreamAssumption DEF Init
<1>2. FlagsOK BY DEF Init, FlagsOK
<1>3. ValuesOK BY <1>1, StreamAssumption DEF Init, ValuesOK
<1>4. delivered = <<>> /\ delivered \in Seq(Output) BY DEF Init
<1>5. Placed /\ RowInHand BY DEF Init, Placed, RowInHand, InLoop
<1>6. OutputFits BY DEF Init, OutputFits
<1>7. Size = 0 BY DEF Init, Size
<1>8. Charged BY <1>7 DEF Init, Charged
<1>9. BatchesAreBounded BY <1>4 DEF BatchesAreBounded
<1>10. SleepsSafely /\ EndsReleased BY DEF Init, SleepsSafely, EndsReleased
<1> QED BY <1>2, <1>3, <1>4, <1>5, <1>6, <1>8, <1>9, <1>10, TypeParts DEF IInv

-----------------------------------------------------------------------------
\* The output CopyRow leaves.
LEMMA CopiedOutput ==
  ASSUME ValuesOK, Placed, RowInHand, CopyRow
  PROVE  /\ output' \in Output /\ Total \in Nat
         /\ output'.block = block /\ output'.count = Total
         /\ output'.rows = IF output = None THEN <<RowOf(block, current.id, current.rows)>>
                           ELSE Append(output.rows, RowOf(block, current.id, current.rows))
<1>1. current \in Open /\ block \in Nat
  BY DEF CopyRow, InFinish, Placed, InLoop, RowInHand, ValuesOK
<1> DEFINE row == RowOf(block, current.id, current.rows)
           rows == IF output = None THEN <<row>> ELSE Append(output.rows, row)
<1>2. row \in OutputRow BY <1>1 DEF RowOf, OutputRow, Open
<1>3. Total \in Nat BY <1>1 DEF Total, Open, Output, ValuesOK
<1>4. output # None => output.rows \in Seq(OutputRow) BY DEF ValuesOK, Output
<1>5. output' = [block |-> block, count |-> Total, rows |-> rows]
  BY DEF CopyRow
<1>6. rows \in Seq(OutputRow)
  <2> HIDE DEF row
  <2> QED BY <1>2, <1>4
<1> SUFFICES /\ output' \in Output /\ Total \in Nat
             /\ output'.block = block /\ output'.count = Total /\ output'.rows = rows
  OBVIOUS
<1> HIDE DEF rows
<1> QED BY <1>1, <1>3, <1>5, <1>6 DEF Output

\* The values keep their types in every step.
LEMMA ValuesStep ==
  ASSUME ValuesOK, Placed, RowInHand, Next
  PROVE  ValuesOK'
<1> USE StreamAssumption
<1>1. CASE InputArrives
  BY <1>1 DEF InputArrives, ValuesOK, Placed, RowInHand, RawRow, Open, InLoop, held,
     poll
<1>2. CASE Demand
  BY <1>2 DEF Demand, ValuesOK, Placed, RowInHand, RawRow, Open, InLoop, upstream,
     held, poll
<1>3. CASE Poll
  BY <1>3 DEF Poll, ValuesOK, Placed, RowInHand, RawRow, Open, InLoop, upstream, held
<1>4. CASE Drop
  BY <1>4 DEF Drop, ValuesOK, Placed, RowInHand, RawRow, Open, InLoop, Release, poll
<1>5. CASE Charge
  BY <1>5, SizeType DEF Charge, ValuesOK, Placed, RowInHand, RawRow, Open, InLoop,
     upstream, held, poll, task
<1>6. CASE Refuse
  BY <1>6 DEF Refuse, ValuesOK, Placed, RowInHand, RawRow, Open, InLoop, Release,
     poll
<1>7. CASE Yield
  BY <1>7 DEF Yield, ValuesOK, Placed, RowInHand, RawRow, Open, InLoop, upstream,
     held, poll
<1>8. CASE Emit
  <2>1. output' = None /\ current' \in Open \cup {None} /\ batch' = batch
    BY <1>8 DEF Emit, ValuesOK
  <2>2. Size' \in Nat
    <3>1. current' = current BY <1>8 DEF Emit
    <3>2. current # None => Len(current.rows) \in Nat BY DEF ValuesOK, Open
    <3>3. cursor' \in Nat BY <1>8 DEF Emit, ValuesOK
    <3>4. (IF batch' = None THEN 0 ELSE 1) \in Nat OBVIOUS
    <3> DEFINE rest == IF cursor' > 0 THEN 1 ELSE 0
           Series == IF current' = None THEN 0 ELSE 1 + Len(current'.rows) + rest
    <3>5. rest \in Nat OBVIOUS
    <3>6. Series \in Nat
      <4> HIDE DEF rest
      <4> QED BY <3>1, <3>2, <3>5
    <3>7. Size' = (IF batch' = None THEN 0 ELSE 1) + Series BY <2>1, <3>4, <3>6 DEF Size
    <3> HIDE DEF Series
    <3> QED BY <3>4, <3>6, <3>7
  <2>3. reserved' \in Nat BY <1>8, <2>2 DEF Emit
  <2>4. from' \in Nat /\ cursor' \in Nat /\ (batch' # None => from' <= Len(batch'))
    BY <1>8 DEF Emit, ValuesOK
  <2>5. block' \in Nat \cup {None} BY <1>8 DEF Emit, ValuesOK
  <2> QED BY <1>8, <2>1, <2>3, <2>4, <2>5 DEF Emit, ValuesOK, upstream, poll
<1>9. CASE EmitRefused
  BY <1>9 DEF EmitRefused, ValuesOK, Placed, RowInHand, RawRow, Open, InLoop, Turn,
     Release, poll
<1>10. CASE StartUpdate
  BY <1>10 DEF StartUpdate, ValuesOK, Placed, RowInHand, RawRow, Open, InLoop, Turn,
     Lesser, upstream, held
<1>11. CASE FinishLast
  BY <1>11 DEF FinishLast, ValuesOK, Placed, RowInHand, RawRow, Open, InLoop, Turn,
     Drained, upstream, held, poll
<1>12. CASE EndOfRows
  BY <1>12 DEF EndOfRows, ValuesOK, Placed, RowInHand, RawRow, Open, InLoop, Turn,
     Drained, Release, poll
<1>13. CASE AwaitInput
  BY <1>13 DEF AwaitInput, ValuesOK, Placed, RowInHand, RawRow, Open, InLoop, Turn,
     NextTurn, Drained
<1>14. CASE TakeBatch
  BY <1>14 DEF TakeBatch, ValuesOK, Placed, RowInHand, RawRow, Open, InLoop, Turn,
     NextTurn, Drained
<1>15. CASE InputEnds
  BY <1>15 DEF InputEnds, ValuesOK, Placed, RowInHand, RawRow, Open, InLoop, Turn,
     NextTurn, Drained, held
<1>16. CASE InputFails
  BY <1>16 DEF InputFails, ValuesOK, Placed, RowInHand, RawRow, Open, InLoop, Turn,
     Drained, Release, poll
<1>17. CASE UpdateEnds
  BY <1>17 DEF UpdateEnds, ValuesOK, Placed, RowInHand, RawRow, Open, InLoop,
     InUpdate, upstream, held, poll
<1>18. CASE EnterRow
  BY <1>18 DEF EnterRow, ValuesOK, Placed, RowInHand, RawRow, Open, InLoop, InUpdate,
     upstream, held, poll
<1>19. CASE Settle
  BY SMTT(30), <1>19 DEF Settle, ValuesOK, Placed, RowInHand, RawRow, Open, InLoop, NextTurn,
     upstream
<1>20. CASE LeaveSeries
  BY <1>20 DEF LeaveSeries, ValuesOK, Placed, RowInHand, RawRow, Open, InLoop, InRow,
     RawAt, ChangedBlock, ChangedId, upstream, held, poll
<1>21. CASE EnterBlock
  <2>1. RawAt \in RawRow BY <1>21, RawRowType DEF EnterBlock, InRow, Placed, InLoop
  <2>2. block' \in Nat \cup {None} BY <1>21, <2>1 DEF EnterBlock, ValuesOK, RawRow
  <2>3. pc' \in {"settle", "row"} BY <1>21 DEF EnterBlock, InRow
  <2> QED BY <1>21, <2>2, <2>3 DEF EnterBlock, ValuesOK, upstream, poll
<1>22. CASE OpenSeries
  <2>1. RawAt \in RawRow BY <1>22, RawRowType DEF OpenSeries, InRow, Placed, InLoop
  <2>2. current' \in Open BY <1>22, <2>1 DEF OpenSeries, Open, RawRow
  <2> QED BY <1>22, <2>2 DEF OpenSeries, InRow, ValuesOK, upstream, poll, task
<1>23. CASE PushRow
  <2>1. RawAt \in RawRow /\ from < Len(batch)
    BY <1>23, RawRowType DEF PushRow, Pushing, InRow, Placed, InLoop
  <2>2. current \in Open BY <1>23 DEF PushRow, Pushing, ValuesOK
  <2>3. current' \in Open
    <3>1. Append(current.rows, RawAt) \in Seq(RawRow) BY <2>1, <2>2 DEF Open
    <3>2. current.count + RawAt.yields \in Nat BY <2>1, <2>2 DEF Open, RawRow
    <3>3. current' = [current EXCEPT !.rows = Append(@, RawAt), !.count = @ + RawAt.yields]
      BY <1>23 DEF PushRow
    <3> HIDE DEF RawAt
    <3> QED BY <2>2, <3>1, <3>2, <3>3 DEF Open
  <2>4. WorkLeft \in Nat
    <3>1. cursor \in Nat BY DEF ValuesOK
    <3>2. RawAt.work \in Nat BY <2>1 DEF RawRow
    <3>3. cursor # 0 => cursor <= RawAt.work BY DEF RowInHand, RawAt
    <3> QED BY <3>1, <3>2, <3>3 DEF WorkLeft
  <2>5. budget' \in 0 .. WorkUnits BY SMTT(30), <1>23, <2>4 DEF PushRow, ValuesOK
  <2> QED BY SMTT(30), <1>23, <2>1, <2>3, <2>5 DEF PushRow, ValuesOK, upstream
<1>24. CASE SuspendRow
  BY <1>24 DEF SuspendRow, ValuesOK, Placed, RowInHand, RawRow, Open, InLoop, InRow,
     RawAt, ChangedBlock, ChangedId, Pushing, WorkLeft, upstream
<1>25. CASE SealSeries
  <2>1. current \in Open BY <1>25 DEF SealSeries, InFinish, Placed, InLoop, ValuesOK
  <2>2. CloseLeft \in Nat BY <2>1 DEF CloseLeft, Open
  <2>3. current' \in Open
    <3>1. CloseWork \in 0 .. CloseWork OBVIOUS
    <3>2. current' = [current EXCEPT !.closing = CloseWork, !.sealed = TRUE]
      BY <1>25 DEF SealSeries
    <3> QED BY <2>1, <3>1, <3>2, Zenon DEF Open
  <2>4. budget' \in 0 .. WorkUnits BY SMTT(30), <1>25, <2>2 DEF SealSeries, ValuesOK
  <2> QED BY <1>25, <2>3, <2>4 DEF SealSeries, ValuesOK, upstream, task
<1>26. CASE SuspendClose
  <2>1. current \in Open BY <1>26 DEF SuspendClose, InFinish, Placed, InLoop, ValuesOK
  <2>2. current.closing + budget \in 0 .. CloseWork
    <3>1. current.closing \in Nat /\ budget \in Nat BY <2>1 DEF Open, ValuesOK
    <3>2. CloseWork - current.closing > budget BY <1>26 DEF SuspendClose, CloseLeft
    <3> QED BY <3>1, <3>2
  <2>3. current' \in Open BY <1>26, <2>1, <2>2 DEF SuspendClose, Open
  <2>4. pc' \in {"settle", "yield"} BY <1>26 DEF SuspendClose
  <2> QED BY <1>26, <2>3, <2>4 DEF SuspendClose, ValuesOK, upstream
<1>27. CASE HoldRow
  <2>1. turns \in Nat /\ turns > 0 BY <1>27 DEF HoldRow, InFinish, Placed, InLoop, ValuesOK
  <2>2. pc' \in {"settle", "turn"} /\ turns' \in 0 .. Turns
    BY <1>27, <2>1 DEF HoldRow, NextTurn, ValuesOK
  <2> QED BY <1>27, <2>2 DEF HoldRow, ValuesOK, upstream
<1>28. CASE TooManySamples
  BY <1>28 DEF TooManySamples, ValuesOK, Placed, RowInHand, RawRow, Open, InLoop,
     InFinish, Total, Overfull, Release, poll
<1>29. CASE CopyRow
  <2>1. output' \in Output BY <1>29, CopiedOutput
  <2> QED BY <1>29, <2>1 DEF CopyRow, ValuesOK, upstream, poll
<1>30. CASE DropFold
  BY SMTT(30), <1>30 DEF DropFold, ValuesOK, Placed, RowInHand, RawRow, Open, InLoop, NextTurn,
     upstream
<1> QED
  BY <1>1, <1>2, <1>3, <1>4, <1>5, <1>6, <1>7, <1>8, <1>9, <1>10, <1>11, <1>12,
     <1>13, <1>14, <1>15, <1>16, <1>17, <1>18, <1>19, <1>20, <1>21, <1>22, <1>23,
     <1>24, <1>25, <1>26, <1>27, <1>28, <1>29, <1>30 DEF Next, Run, PollInner,
     Update, FinishSeries

\* The flags are flags in every step.
LEMMA FlagsStep ==
  ASSUME FlagsOK, Next
  PROVE  FlagsOK'
<1>1. CASE InputArrives BY <1>1 DEF InputArrives, FlagsOK, held, poll
<1>2. CASE Demand BY <1>2 DEF Demand, FlagsOK, upstream, held, poll
<1>3. CASE Poll BY <1>3 DEF Poll, FlagsOK, upstream, held
<1>4. CASE Drop BY <1>4 DEF Drop, FlagsOK, Release, poll
<1>5. CASE Charge BY <1>5 DEF Charge, FlagsOK, upstream, held, poll, task
<1>6. CASE Refuse BY <1>6 DEF Refuse, FlagsOK, Release, poll
<1>7. CASE Yield BY <1>7 DEF Yield, FlagsOK, upstream, held, poll
<1>8. CASE Emit BY <1>8 DEF Emit, FlagsOK, Turn, upstream, poll
<1>9. CASE EmitRefused BY <1>9 DEF EmitRefused, FlagsOK, Turn, Release, poll
<1>10. CASE StartUpdate
  BY <1>10 DEF StartUpdate, FlagsOK, Turn, Lesser, upstream, held
<1>11. CASE FinishLast
  BY <1>11 DEF FinishLast, FlagsOK, Turn, Drained, upstream, held, poll
<1>12. CASE EndOfRows BY <1>12 DEF EndOfRows, FlagsOK, Turn, Drained, Release, poll
<1>13. CASE AwaitInput BY <1>13 DEF AwaitInput, FlagsOK, Turn, NextTurn, Drained
<1>14. CASE TakeBatch BY <1>14 DEF TakeBatch, FlagsOK, Turn, NextTurn, Drained
<1>15. CASE InputEnds BY <1>15 DEF InputEnds, FlagsOK, Turn, NextTurn, Drained, held
<1>16. CASE InputFails BY <1>16 DEF InputFails, FlagsOK, Turn, Drained, Release, poll
<1>17. CASE UpdateEnds
  BY <1>17 DEF UpdateEnds, FlagsOK, InUpdate, upstream, held, poll
<1>18. CASE EnterRow BY <1>18 DEF EnterRow, FlagsOK, InUpdate, upstream, held, poll
<1>19. CASE Settle BY <1>19 DEF Settle, FlagsOK, NextTurn, upstream
<1>20. CASE LeaveSeries
  BY <1>20 DEF LeaveSeries, FlagsOK, InRow, RawAt, ChangedBlock, ChangedId, upstream,
     held, poll
<1>21. CASE EnterBlock
  BY <1>21 DEF EnterBlock, FlagsOK, InRow, RawAt, ChangedBlock, upstream, poll
<1>22. CASE OpenSeries
  BY <1>22 DEF OpenSeries, FlagsOK, InRow, RawAt, ChangedBlock, upstream, poll, task
<1>23. CASE PushRow
  BY <1>23 DEF PushRow, FlagsOK, InRow, RawAt, ChangedBlock, ChangedId, Pushing,
     WorkLeft, upstream
<1>24. CASE SuspendRow
  BY <1>24 DEF SuspendRow, FlagsOK, InRow, RawAt, ChangedBlock, ChangedId, Pushing,
     WorkLeft, upstream
<1>25. CASE SealSeries
  BY <1>25 DEF SealSeries, FlagsOK, InFinish, CloseLeft, upstream, task
<1>26. CASE SuspendClose
  BY <1>26 DEF SuspendClose, FlagsOK, InFinish, CloseLeft, upstream
<1>27. CASE HoldRow
  BY <1>27 DEF HoldRow, FlagsOK, NextTurn, InFinish, Total, Overfull, upstream
<1>28. CASE TooManySamples
  BY <1>28 DEF TooManySamples, FlagsOK, InFinish, Total, Overfull, Release, poll
<1>29. CASE CopyRow
  BY <1>29 DEF CopyRow, FlagsOK, InFinish, Total, Overfull, RowOf, upstream, poll
<1>30. CASE DropFold BY <1>30 DEF DropFold, FlagsOK, NextTurn, upstream
<1> QED
  BY <1>1, <1>2, <1>3, <1>4, <1>5, <1>6, <1>7, <1>8, <1>9, <1>10, <1>11, <1>12,
     <1>13, <1>14, <1>15, <1>16, <1>17, <1>18, <1>19, <1>20, <1>21, <1>22, <1>23,
     <1>24, <1>25, <1>26, <1>27, <1>28, <1>29, <1>30 DEF Next, Run, PollInner,
     Update, FinishSeries

\* The loop is where it was sent, with in hand what that place needs.
LEMMA PlacedStep ==
  ASSUME ValuesOK, Placed, OutputFits, Next
  PROVE  Placed'
<1> USE StreamAssumption
<1>1. CASE InputArrives
  BY <1>1 DEF InputArrives, ValuesOK, Placed, OutputFits, InLoop, held, poll
<1>2. CASE Demand
  BY <1>2 DEF Demand, ValuesOK, Placed, OutputFits, InLoop, upstream, held, poll
<1>3. CASE Poll BY <1>3 DEF Poll, ValuesOK, Placed, OutputFits, InLoop, upstream, held
<1>4. CASE Drop BY <1>4 DEF Drop, ValuesOK, Placed, OutputFits, InLoop, Release, poll
<1>5. CASE Charge
  BY <1>5 DEF Charge, ValuesOK, Placed, OutputFits, InLoop, upstream, held, poll,
     task
<1>6. CASE Refuse
  BY <1>6 DEF Refuse, ValuesOK, Placed, OutputFits, InLoop, Release, poll
<1>7. CASE Yield
  BY <1>7 DEF Yield, ValuesOK, Placed, OutputFits, InLoop, upstream, held, poll
<1>8. CASE Emit
  BY <1>8 DEF Emit, ValuesOK, Placed, OutputFits, InLoop, Turn, upstream, poll
<1>9. CASE EmitRefused
  BY <1>9 DEF EmitRefused, ValuesOK, Placed, OutputFits, InLoop, Turn, Release, poll
<1>10. CASE StartUpdate
  BY <1>10 DEF StartUpdate, ValuesOK, Placed, OutputFits, InLoop, Turn, Lesser,
     upstream, held
<1>11. CASE FinishLast
  BY <1>11 DEF FinishLast, ValuesOK, Placed, OutputFits, InLoop, Turn, Drained,
     upstream, held, poll
<1>12. CASE EndOfRows
  BY <1>12 DEF EndOfRows, ValuesOK, Placed, OutputFits, InLoop, Turn, Drained,
     Release, poll
<1>13. CASE AwaitInput
  BY <1>13 DEF AwaitInput, ValuesOK, Placed, OutputFits, InLoop, Turn, NextTurn,
     Drained
<1>14. CASE TakeBatch
  BY <1>14 DEF TakeBatch, ValuesOK, Placed, OutputFits, InLoop, Turn, NextTurn,
     Drained
<1>15. CASE InputEnds
  BY <1>15 DEF InputEnds, ValuesOK, Placed, OutputFits, InLoop, Turn, NextTurn,
     Drained, held
<1>16. CASE InputFails
  BY <1>16 DEF InputFails, ValuesOK, Placed, OutputFits, InLoop, Turn, Drained,
     Release, poll
<1>17. CASE UpdateEnds
  BY <1>17 DEF UpdateEnds, ValuesOK, Placed, OutputFits, InLoop, InUpdate, upstream,
     held, poll
<1>18. CASE EnterRow
  BY <1>18 DEF EnterRow, ValuesOK, Placed, OutputFits, InLoop, InUpdate, upstream,
     held, poll
<1>19. CASE Settle
  BY <1>19 DEF Settle, ValuesOK, Placed, OutputFits, InLoop, NextTurn, upstream
<1>20. CASE LeaveSeries
  BY <1>20 DEF LeaveSeries, ValuesOK, Placed, OutputFits, InLoop, InRow, RawAt,
     ChangedBlock, ChangedId, upstream, held, poll
<1>21. CASE EnterBlock
  BY <1>21 DEF EnterBlock, ValuesOK, Placed, OutputFits, InLoop, InRow, RawAt,
     ChangedBlock, upstream, poll
<1>22. CASE OpenSeries
  BY <1>22 DEF OpenSeries, ValuesOK, Placed, OutputFits, InLoop, InRow, RawAt,
     ChangedBlock, upstream, poll, task
<1>23. CASE PushRow
  BY SMTT(30), <1>23 DEF PushRow, ValuesOK, Placed, OutputFits, InLoop, InRow, RawAt,
     ChangedBlock, ChangedId, Pushing, WorkLeft, upstream
<1>24. CASE SuspendRow
  BY <1>24 DEF SuspendRow, ValuesOK, Placed, OutputFits, InLoop, InRow, RawAt,
     ChangedBlock, ChangedId, Pushing, WorkLeft, upstream
<1>25. CASE SealSeries
  <2>1. pc = "finish" /\ pc' = pc /\ UNCHANGED <<batch, from, until, turns, ended>>
    BY <1>25 DEF SealSeries, InFinish, task
  <2>2. current # None /\ current' = [current EXCEPT !.closing = CloseWork, !.sealed = TRUE]
    BY <1>25, <2>1 DEF SealSeries, Placed
  <2>3. current' # None
    <3>1. current \in Open BY <2>2 DEF ValuesOK
    <3>2. CloseWork \in 0 .. CloseWork OBVIOUS
    <3>3. current' \in Open BY <2>2, <3>1, <3>2, Zenon DEF Open
    <3> QED BY <3>3
  <2> QED BY <1>25, <2>1, <2>3 DEF Placed, InLoop
<1>26. CASE SuspendClose
  BY <1>26 DEF SuspendClose, ValuesOK, Placed, OutputFits, InLoop, InFinish,
     CloseLeft, upstream
<1>27. CASE HoldRow
  BY <1>27 DEF HoldRow, ValuesOK, Placed, OutputFits, InLoop, NextTurn, InFinish,
     Total, Overfull, upstream
<1>28. CASE TooManySamples
  BY <1>28 DEF TooManySamples, ValuesOK, Placed, OutputFits, InLoop, InFinish, Total,
     Overfull, Release, poll
<1>29. CASE CopyRow
  BY <1>29 DEF CopyRow, ValuesOK, Placed, OutputFits, InLoop, InFinish, Total,
     Overfull, RowOf, upstream, poll
<1>30. CASE DropFold
  BY <1>30 DEF DropFold, ValuesOK, Placed, OutputFits, InLoop, NextTurn, upstream
<1> QED
  BY <1>1, <1>2, <1>3, <1>4, <1>5, <1>6, <1>7, <1>8, <1>9, <1>10, <1>11, <1>12,
     <1>13, <1>14, <1>15, <1>16, <1>17, <1>18, <1>19, <1>20, <1>21, <1>22, <1>23,
     <1>24, <1>25, <1>26, <1>27, <1>28, <1>29, <1>30 DEF Next, Run, PollInner,
     Update, FinishSeries

\* An open series keeps its block, and a suspended row its place.
LEMMA RowInHandStep ==
  ASSUME ValuesOK, Placed, RowInHand, Next
  PROVE  RowInHand'
<1>1. CASE OpenSeries
  <2>1. RawAt \in RawRow BY <1>1, RawRowType DEF OpenSeries, InRow, Placed, InLoop
  <2>2. block' \in Nat BY <1>1, <2>1 DEF OpenSeries, ChangedBlock, RawRow
  <2>3. UNCHANGED <<batch, from, cursor>> BY <1>1 DEF OpenSeries
  <2> QED BY <2>2, <2>3 DEF RowInHand
<1>2. CASE SuspendRow
  <2>1. RawAt \in RawRow /\ from < Len(batch) /\ batch # None
    BY <1>2, RawRowType DEF SuspendRow, Pushing, InRow, Placed, InLoop
  <2>2. RawAt.work \in Nat /\ cursor \in Nat /\ budget \in Nat
    BY <2>1 DEF RawRow, ValuesOK
  <2>3. RawAt.work - cursor > budget BY <1>2 DEF SuspendRow, WorkLeft
  <2>4. cursor + budget <= RawAt.work BY <2>2, <2>3
  <2>5. cursor' <= batch[from + 1].work BY <1>2, <2>4 DEF SuspendRow, RawAt
  <2>6. UNCHANGED <<batch, from, block, current>> BY <1>2 DEF SuspendRow
  <2> QED BY <2>1, <2>5, <2>6 DEF RowInHand
<1>3. CASE PushRow
  BY <1>3 DEF PushRow, ValuesOK, Placed, RowInHand, InLoop, InRow, RawAt,
     ChangedBlock, ChangedId, Pushing, WorkLeft, upstream
<1>4. CASE SealSeries \/ SuspendClose \/ CopyRow \/ DropFold
  BY <1>4 DEF SealSeries, SuspendClose, CopyRow, DropFold, ValuesOK, Placed,
     RowInHand, InLoop, NextTurn, InFinish, CloseLeft, Total, Overfull, RowOf,
     upstream, poll, task
<1>5. CASE Settle
  BY <1>5 DEF Settle, ValuesOK, Placed, RowInHand, InLoop, NextTurn, upstream
<1>6. CASE EnterBlock
  BY <1>6 DEF EnterBlock, ValuesOK, Placed, RowInHand, InLoop, InRow, RawAt,
     ChangedBlock, upstream, poll
<1>7. CASE TakeBatch
  BY <1>7 DEF TakeBatch, ValuesOK, Placed, RowInHand, InLoop, Turn, NextTurn, Drained
<1>8. CASE Emit
  BY <1>8 DEF Emit, ValuesOK, Placed, RowInHand, InLoop, Turn, upstream, poll
<1>9. CASE Drop \/ Refuse \/ EmitRefused \/ EndOfRows \/ InputFails \/ TooManySamples
  BY <1>9 DEF Drop, Refuse, EmitRefused, EndOfRows, InputFails, TooManySamples,
     ValuesOK, Placed, RowInHand, InLoop, Turn, Drained, InFinish, Total, Overfull,
     Release, poll
<1>10. CASE InputArrives \/ Demand \/ Poll \/ Charge \/ Yield \/ StartUpdate \/
   FinishLast \/ AwaitInput \/ InputEnds \/ UpdateEnds \/ EnterRow \/ LeaveSeries \/
   HoldRow
  BY <1>10 DEF InputArrives, Demand, Poll, Charge, Yield, StartUpdate, FinishLast,
     AwaitInput, InputEnds, UpdateEnds, EnterRow, LeaveSeries, HoldRow, ValuesOK,
     Placed, RowInHand, InLoop, Turn, NextTurn, Drained, InUpdate, InRow, RawAt,
     ChangedBlock, ChangedId, InFinish, Total, Overfull, Lesser, upstream, held,
     poll, task
<1> QED
  BY <1>1, <1>2, <1>3, <1>4, <1>5, <1>6, <1>7, <1>8, <1>9, <1>10 DEF Next, Run,
     PollInner, Update, FinishSeries

\* The output keeps its limits: only CopyRow adds to it.
LEMMA OutputFitsStep ==
  ASSUME ValuesOK, FlagsOK, Placed, RowInHand, OutputFits, Next
  PROVE  OutputFits'
<1>1. CASE CopyRow
  <2> DEFINE row == RowOf(block, current.id, current.rows)
             rows == IF output = None THEN <<row>> ELSE Append(output.rows, row)
  <2>1. output \in Output \cup {None} /\ ~outputReady
    BY <1>1 DEF CopyRow, InFinish, OutputFits, ValuesOK
  <2>2. source.batchSize \in Nat \ {0} /\ BatchSamples \in Nat
    BY StreamAssumption DEF ValuesOK
  <2>3. /\ output' \in Output /\ Total \in Nat
        /\ output'.block = block /\ output'.count = Total /\ output'.rows = rows
    BY <1>1, CopiedOutput
  <2>4. output' # None BY <2>3, StreamAssumption
  <2>5. row.block = block BY DEF RowOf
  <2>6. pc' = "copied" /\ source' = source /\ block' = block /\ outputReady' = outputReady
    BY <1>1 DEF CopyRow, upstream
  <2>7. Fits(output)'
    <3> SUFFICES /\ rows # <<>> /\ Len(rows) <= source.batchSize
                 /\ \A n \in DOMAIN rows : rows[n].block = block
                 /\ Total <= BatchSamples \/ Len(rows) = 1
      BY <2>3, <2>6 DEF Fits
    <3>1. CASE output = None
      <4>1. rows = <<row>> BY <3>1
      <4> HIDE DEF row, rows
      <4> QED BY <2>2, <2>5, <4>1
    <3>2. CASE output # None
      <4>1. Total <= BatchSamples BY <1>1, <2>2, <2>3, <3>2 DEF CopyRow, Overfull
      <4>2. output.rows \in Seq(OutputRow) BY <2>1, <3>2 DEF Output
      <4>3. Len(output.rows) < source.batchSize /\ output.block = block /\ Fits(output)
        BY <1>1, <2>1, <3>2 DEF CopyRow, InFinish, OutputFits
      <4>4. \A n \in DOMAIN output.rows : output.rows[n].block = block
        BY <4>3 DEF Fits
      <4>5. rows = Append(output.rows, row) BY <3>2
      <4> HIDE DEF row, rows
      <4>6. rows # <<>> /\ Len(rows) <= source.batchSize BY <2>2, <4>2, <4>3, <4>5
      <4>7. \A n \in DOMAIN rows : rows[n].block = block BY <2>5, <4>2, <4>4, <4>5
      <4> QED BY <4>1, <4>6, <4>7
    <3> QED BY <3>1, <3>2
  <2> QED BY <2>1, <2>3, <2>4, <2>6, <2>7 DEF OutputFits
<1>2. CASE DropFold
  BY <1>2, StreamAssumption DEF DropFold, ValuesOK, Placed, OutputFits, Fits, Output,
     InLoop, NextTurn, upstream
<1>3. CASE HoldRow
  BY <1>3, StreamAssumption DEF HoldRow, ValuesOK, Placed, OutputFits, Fits, Output,
     InLoop, NextTurn, InFinish, Total, Overfull, upstream
<1>4. CASE EnterBlock
  BY <1>4, StreamAssumption DEF EnterBlock, ValuesOK, Placed, OutputFits, Fits,
     Output, InLoop, InRow, RawAt, ChangedBlock, upstream, poll
<1>5. CASE Settle
  BY <1>5, StreamAssumption DEF Settle, ValuesOK, Placed, OutputFits, Fits, Output,
     InLoop, NextTurn, upstream
<1>6. CASE Emit
  BY <1>6, StreamAssumption DEF Emit, ValuesOK, Placed, OutputFits, Fits, Output,
     InLoop, Turn, upstream, poll
<1>7. CASE AwaitInput
  BY <1>7, StreamAssumption DEF AwaitInput, ValuesOK, Placed, OutputFits, Fits,
     Output, InLoop, Turn, NextTurn, Drained
<1>8. CASE LeaveSeries
  BY <1>8, StreamAssumption DEF LeaveSeries, ValuesOK, Placed, OutputFits, Fits,
     Output, InLoop, InRow, RawAt, ChangedBlock, ChangedId, upstream, held, poll
<1>9. CASE OpenSeries
  BY <1>9, StreamAssumption DEF OpenSeries, ValuesOK, Placed, OutputFits, Fits,
     Output, InLoop, InRow, RawAt, ChangedBlock, upstream, poll, task
<1>10. CASE PushRow
  BY <1>10, StreamAssumption DEF PushRow, ValuesOK, Placed, OutputFits, Fits, Output,
     InLoop, InRow, RawAt, ChangedBlock, ChangedId, Pushing, WorkLeft, upstream
<1>11. CASE SuspendRow
  BY <1>11, StreamAssumption DEF SuspendRow, ValuesOK, Placed, OutputFits, Fits,
     Output, InLoop, InRow, RawAt, ChangedBlock, ChangedId, Pushing, WorkLeft,
     upstream
<1>12. CASE UpdateEnds
  BY <1>12, StreamAssumption DEF UpdateEnds, ValuesOK, Placed, OutputFits, Fits,
     Output, InLoop, InUpdate, upstream, held, poll
<1>13. CASE EnterRow
  BY <1>13, StreamAssumption DEF EnterRow, ValuesOK, Placed, OutputFits, Fits,
     Output, InLoop, InUpdate, upstream, held, poll
<1>14. CASE SealSeries
  BY <1>14, StreamAssumption DEF SealSeries, ValuesOK, Placed, OutputFits, Fits,
     Output, InLoop, InFinish, CloseLeft, upstream, task
<1>15. CASE SuspendClose
  BY <1>15, StreamAssumption DEF SuspendClose, ValuesOK, Placed, OutputFits, Fits,
     Output, InLoop, InFinish, CloseLeft, upstream
<1>16. CASE Drop \/ Refuse \/ EmitRefused \/ EndOfRows \/ InputFails \/ TooManySamples
  BY <1>16, StreamAssumption DEF Drop, Refuse, EmitRefused, EndOfRows, InputFails,
     TooManySamples, ValuesOK, Placed, OutputFits, Fits, Output, InLoop, Turn,
     Drained, InFinish, Total, Overfull, Release, poll
<1>17. CASE InputArrives \/ Demand \/ Poll \/ Charge \/ Yield \/ StartUpdate \/
   FinishLast \/ TakeBatch \/ InputEnds
  BY SMTT(30), <1>17, StreamAssumption DEF InputArrives, Demand, Poll, Charge, Yield,
     StartUpdate, FinishLast, TakeBatch, InputEnds, ValuesOK, Placed, OutputFits,
     Fits, Output, InLoop, Turn, NextTurn, Drained, Lesser, upstream, held, poll,
     task
<1> QED
  BY <1>1, <1>2, <1>3, <1>4, <1>5, <1>6, <1>7, <1>8, <1>9, <1>10, <1>11, <1>12,
     <1>13, <1>14, <1>15, <1>16, <1>17 DEF Next, Run, PollInner, Update, FinishSeries

\* release leaves nothing held and nothing charged.
LEMMA ReleaseLeavesNothing ==
  ASSUME NEW how, Release(how)
  PROVE  reserved' = 0 /\ Size' = 0
BY DEF Release, Size

\* Whatever changes what is held makes a charge due before a suspension.
LEMMA ChargedStep ==
  ASSUME Placed, Charged, Next
  PROVE  Charged'
<1>1. CASE Emit
  <2>1. CASE ~input /\ current = None /\ batch = None
    BY <1>1, <2>1 DEF Emit, Charged, Size
  <2>2. CASE ~(~input /\ current = None /\ batch = None)
    BY <1>1, <2>2 DEF Emit, Charged
  <2> QED BY <2>1, <2>2
<1>2. CASE InputArrives \/ Demand \/ Poll \/ Charge \/ Yield
  BY <1>2 DEF InputArrives, Demand, Poll, Charge, Yield, Placed, Charged, Size,
     InLoop, upstream, held, poll, task
<1>3. CASE UpdateEnds \/ EnterRow \/ Settle \/ LeaveSeries \/ EnterBlock \/
   OpenSeries \/ PushRow \/ SuspendRow
  BY <1>3 DEF UpdateEnds, EnterRow, Settle, LeaveSeries, EnterBlock, OpenSeries,
     PushRow, SuspendRow, Placed, Charged, Size, InLoop, NextTurn, InUpdate, InRow,
     RawAt, ChangedBlock, ChangedId, Pushing, WorkLeft, upstream, held, poll, task
<1>4. CASE SealSeries \/ SuspendClose \/ HoldRow \/ CopyRow \/ DropFold
  BY <1>4 DEF SealSeries, SuspendClose, HoldRow, CopyRow, DropFold, Placed, Charged,
     Size, InLoop, NextTurn, InFinish, CloseLeft, Total, Overfull, RowOf, upstream,
     poll, task
<1>5. CASE Drop \/ Refuse \/ EmitRefused \/ EndOfRows \/ InputFails \/ TooManySamples
  <2>1. \E how \in {"dropped", "failed", "done"} : Release(how)
    BY <1>5 DEF Drop, Refuse, EmitRefused, EndOfRows, InputFails, TooManySamples
  <2> QED BY <2>1, ReleaseLeavesNothing DEF Charged
<1>6. CASE StartUpdate \/ FinishLast \/ AwaitInput \/ TakeBatch \/ InputEnds
  BY <1>6 DEF StartUpdate, FinishLast, AwaitInput, TakeBatch, InputEnds, Placed,
     Charged, Size, InLoop, Turn, NextTurn, Drained, Lesser, upstream, held, poll
<1> QED
  BY <1>1, <1>2, <1>3, <1>4, <1>5, <1>6 DEF Next, Run, PollInner, Update,
     FinishSeries

\* Only Emit hands a batch over, and its batch fits.
LEMMA BatchesStep ==
  ASSUME ValuesOK, OutputFits, delivered \in Seq(Output), BatchesAreBounded, Next
  PROVE  delivered' \in Seq(Output) /\ BatchesAreBounded'
<1>1. CASE Emit
  BY SMTT(30), <1>1 DEF Emit, ValuesOK, OutputFits, Fits, BatchesAreBounded, Turn, upstream,
     poll
<1>2. CASE Drop \/ Refuse \/ EmitRefused \/ EndOfRows \/ InputFails \/ TooManySamples
  BY <1>2 DEF Drop, Refuse, EmitRefused, EndOfRows, InputFails, TooManySamples,
     ValuesOK, OutputFits, Fits, BatchesAreBounded, Turn, Drained, InFinish, Total,
     Overfull, Release, poll
<1>3. CASE InputArrives \/ Demand \/ Poll \/ Charge \/ Yield \/ StartUpdate \/
   FinishLast \/ AwaitInput \/ TakeBatch \/ InputEnds \/ UpdateEnds \/ EnterRow \/
   Settle \/ LeaveSeries \/ EnterBlock \/ OpenSeries \/ PushRow \/ SuspendRow \/
   SealSeries \/ SuspendClose \/ HoldRow \/ CopyRow \/ DropFold
  BY <1>3 DEF InputArrives, Demand, Poll, Charge, Yield, StartUpdate, FinishLast,
     AwaitInput, TakeBatch, InputEnds, UpdateEnds, EnterRow, Settle, LeaveSeries,
     EnterBlock, OpenSeries, PushRow, SuspendRow, SealSeries, SuspendClose, HoldRow,
     CopyRow, DropFold, ValuesOK, OutputFits, Fits, BatchesAreBounded, Turn,
     NextTurn, Drained, InUpdate, InRow, RawAt, ChangedBlock, ChangedId, Pushing,
     WorkLeft, InFinish, CloseLeft, Total, Overfull, RowOf, Lesser, upstream, held,
     poll, task
<1> QED
  BY <1>1, <1>2, <1>3 DEF Next, Run, PollInner, Update, FinishSeries

\* The task falls asleep in AwaitInput alone, with its waker registered.
LEMMA SleepsStep ==
  ASSUME FlagsOK, SleepsSafely, Next
  PROVE  SleepsSafely'
<1>1. CASE AwaitInput
  BY <1>1 DEF AwaitInput, FlagsOK, SleepsSafely, Turn, NextTurn, Drained
<1>2. CASE InputArrives BY <1>2 DEF InputArrives, FlagsOK, SleepsSafely, held, poll
<1>3. CASE Demand \/ Poll \/ Yield \/ Charge
  BY <1>3 DEF Demand, Poll, Yield, Charge, FlagsOK, SleepsSafely, upstream, held,
     poll, task
<1>4. CASE Drop \/ Refuse \/ EmitRefused \/ EndOfRows \/ InputFails \/ TooManySamples
  BY <1>4 DEF Drop, Refuse, EmitRefused, EndOfRows, InputFails, TooManySamples,
     FlagsOK, SleepsSafely, Turn, Drained, InFinish, Total, Overfull, Release, poll
<1>5. CASE Emit \/ StartUpdate \/ FinishLast \/ TakeBatch \/ InputEnds \/ UpdateEnds
   \/ EnterRow \/ Settle \/ LeaveSeries \/ EnterBlock \/ OpenSeries \/ PushRow \/
   SuspendRow \/ SealSeries \/ SuspendClose \/ HoldRow \/ CopyRow \/ DropFold
  BY <1>5 DEF Emit, StartUpdate, FinishLast, TakeBatch, InputEnds, UpdateEnds,
     EnterRow, Settle, LeaveSeries, EnterBlock, OpenSeries, PushRow, SuspendRow,
     SealSeries, SuspendClose, HoldRow, CopyRow, DropFold, FlagsOK, SleepsSafely,
     Turn, NextTurn, Drained, InUpdate, InRow, RawAt, ChangedBlock, ChangedId,
     Pushing, WorkLeft, InFinish, CloseLeft, Total, Overfull, RowOf, Lesser,
     upstream, held, poll, task
<1> QED
  BY <1>1, <1>2, <1>3, <1>4, <1>5 DEF Next, Run, PollInner, Update, FinishSeries

\* release leaves nothing behind, and no step follows it.
LEMMA EndsStep ==
  ASSUME Placed, EndsReleased, Next
  PROVE  EndsReleased'
<1>1. CASE Drop \/ Refuse \/ EmitRefused \/ EndOfRows \/ InputFails \/ TooManySamples
  BY <1>1 DEF Drop, Refuse, EmitRefused, EndOfRows, InputFails, TooManySamples,
     Placed, EndsReleased, InLoop, Turn, Drained, InFinish, Total, Overfull, Release,
     poll
<1>2. CASE InputArrives \/ Demand \/ Poll \/ Charge \/ Yield \/ Emit \/ StartUpdate
   \/ FinishLast \/ AwaitInput \/ TakeBatch \/ InputEnds \/ UpdateEnds \/ EnterRow \/
   Settle \/ LeaveSeries \/ EnterBlock \/ OpenSeries \/ PushRow \/ SuspendRow \/
   SealSeries \/ SuspendClose \/ HoldRow \/ CopyRow \/ DropFold
  BY <1>2 DEF InputArrives, Demand, Poll, Charge, Yield, Emit, StartUpdate,
     FinishLast, AwaitInput, TakeBatch, InputEnds, UpdateEnds, EnterRow, Settle,
     LeaveSeries, EnterBlock, OpenSeries, PushRow, SuspendRow, SealSeries,
     SuspendClose, HoldRow, CopyRow, DropFold, Placed, EndsReleased, InLoop, Turn,
     NextTurn, Drained, InUpdate, InRow, RawAt, ChangedBlock, ChangedId, Pushing,
     WorkLeft, InFinish, CloseLeft, Total, Overfull, RowOf, Lesser, upstream, held,
     poll, task
<1> QED
  BY <1>1, <1>2 DEF Next, Run, PollInner, Update, FinishSeries

-----------------------------------------------------------------------------
\* A stutter changes nothing IInv speaks of.
LEMMA StutterIInv == IInv /\ UNCHANGED vars => IInv'
<1> SUFFICES ASSUME IInv, UNCHANGED vars PROVE IInv' OBVIOUS
<1>1. /\ UNCHANGED <<source, sent, arrived, registered, input, promised>>
      /\ UNCHANGED <<batch, from, cursor, block, current, output, outputReady>>
      /\ UNCHANGED <<budget, turns, until, pc, woken>>
      /\ UNCHANGED <<reserved, due, delivered, ended>>
  BY DEF vars, upstream, held, poll, task
<1>2. TypeOK' BY <1>1 DEF IInv, TypeOK
<1>3. delivered' \in Seq(Output) /\ BatchesAreBounded'
  BY <1>1 DEF IInv, BatchesAreBounded
<1>4. Placed' /\ RowInHand' BY <1>1 DEF IInv, Placed, RowInHand
<1>5. OutputFits' BY <1>1 DEF IInv, OutputFits, Fits
<1>6. Size' = Size BY <1>1 DEF Size
<1>7. Charged' BY <1>1, <1>6 DEF IInv, Charged
<1>8. SleepsSafely' /\ EndsReleased' BY <1>1 DEF IInv, SleepsSafely, EndsReleased
<1> QED BY <1>2, <1>3, <1>4, <1>5, <1>7, <1>8 DEF IInv

\* IInv is inductive.
LEMMA NextIInv == IInv /\ [Next]_vars => IInv'
<1> SUFFICES ASSUME IInv, Next PROVE IInv' BY StutterIInv
<1>1. FlagsOK /\ ValuesOK BY TypeParts DEF IInv
<1>2. Placed /\ RowInHand /\ OutputFits /\ Charged BY DEF IInv
<1>3. ValuesOK' BY <1>1, <1>2, ValuesStep
<1>4. FlagsOK' BY <1>1, FlagsStep
<1>5. TypeOK' BY <1>3, <1>4 DEF TypeOK, FlagsOK, ValuesOK
<1>6. Placed' BY <1>1, <1>2, PlacedStep DEF IInv
<1>7. RowInHand' BY <1>1, <1>2, RowInHandStep
<1>8. OutputFits' BY <1>1, <1>2, OutputFitsStep
<1>9. Charged' BY <1>2, ChargedStep
<1>10. delivered' \in Seq(Output) /\ BatchesAreBounded'
  BY <1>1, <1>2, BatchesStep DEF IInv
<1>11. SleepsSafely' BY <1>1, SleepsStep DEF IInv
<1>12. EndsReleased' BY <1>2, EndsStep DEF IInv
<1> QED BY <1>5, <1>6, <1>7, <1>8, <1>9, <1>10, <1>11, <1>12 DEF IInv

\* IInv holds throughout: all the theorems below follow from it.
THEOREM Inductive == Spec => []IInv
BY InitIInv, NextIInv, PTL DEF Spec

\* Every value the driver holds keeps its type; in particular a batch is never
\* read past its end, the budget of a poll never goes below zero, and a fold
\* never takes more closing work than it has (update_budgeted,
\* finish_series_budgeted).
THEOREM TypesHold == Spec => []TypeOK
<1>1. IInv => TypeOK BY DEF IInv
<1> QED BY <1>1, Inductive, PTL

\* A batch handed downstream is never empty, never straddles a block edge and
\* keeps its row and sample budgets unless one row alone exceeds the latter
\* (emit, finish_series_budgeted).
THEOREM BatchBounds == Spec => []BatchesAreBounded
<1>1. IInv => BatchesAreBounded BY DEF IInv
<1> QED BY <1>1, Inductive, PTL

\* A task that sleeps without a pending wake has left its waker with an input
\* that has not answered, and holds no finished row (poll_inner).
THEOREM SleepSafety == Spec => []SleepsSafely
<1>1. IInv => SleepsSafely BY DEF IInv
<1> QED BY <1>1, Inductive, PTL

\* An end of any kind leaves nothing held and nothing charged (release).
THEOREM EndRelease == Spec => []EndsReleased
<1>1. IInv => EndsReleased BY DEF IInv
<1> QED BY <1>1, Inductive, PTL

\* Whenever the task is suspended, handed a batch out or has ended, the
\* reservation equals what the driver holds (charge, checkpoint, emit, release).
THEOREM ReservationIsExact == Spec => []ReservationCoversHeld
<1>1. IInv => ReservationCoversHeld
  BY DEF IInv, Placed, Charged, InLoop, ReservationCoversHeld
<1> QED BY <1>1, Inductive, PTL

-----------------------------------------------------------------------------
(***************************************************************************)
(* Grouped, one raw row at a time.                                         *)
(***************************************************************************)
\* Adding a raw row to rows gives rows.
LEMMA GroupedWithType ==
  ASSUME NEW groups \in Seq(OutputRow), NEW r \in RawRow
  PROVE  GroupedWith(groups, r) \in Seq(OutputRow)
<1>1. r.block \in Nat /\ r.id \in Nat /\ <<r>> \in Seq(RawRow)
  BY DEF RawRow
<1>2. RowOf(r.block, r.id, <<r>>) \in OutputRow
  BY <1>1 DEF RowOf, OutputRow
<1>3. CASE ~Continues(groups, r)
  BY <1>2, <1>3 DEF GroupedWith
<1>4. CASE Continues(groups, r)
  <2> DEFINE last == groups[Len(groups)]
             grown == [last EXCEPT !.rows = Append(@, r)]
  <2>1. Len(groups) \in 1 .. Len(groups) /\ last \in OutputRow
    BY <1>4 DEF Continues
  <2>2. grown \in OutputRow
    <3>1. last.rows \in Seq(RawRow)
      BY <2>1 DEF OutputRow
    <3>2. Append(last.rows, r) \in Seq(RawRow)
      BY <3>1
    <3> QED BY <2>1, <3>2 DEF OutputRow
  <2>3. GroupedWith(groups, r) = [groups EXCEPT ![Len(groups)] = grown]
    BY <1>4 DEF GroupedWith
  <2> HIDE DEF grown
  <2> QED BY <2>1, <2>2, <2>3
<1> QED BY <1>3, <1>4

\* GroupedWith as a function.
Adding == [gr \in Seq(OutputRow) \X RawRow |-> GroupedWith(gr[1], gr[2])]

\* It takes rows and a raw row to rows.
LEMMA AddingType ==
  /\ Adding \in [Seq(OutputRow) \X RawRow -> Seq(OutputRow)]
  /\ \A groups \in Seq(OutputRow), r \in RawRow :
       Adding[<<groups, r>>] = GroupedWith(groups, r)
<1> DEFINE X == Seq(OutputRow)
<1>1. \A groups \in X, r \in RawRow : GroupedWith(groups, r) \in X
  BY GroupedWithType
<1>2. Adding = [gr \in X \X RawRow |-> GroupedWith(gr[1], gr[2])]
  BY DEF Adding
<1> HIDE DEF X
<1>3. \A gr \in X \X RawRow : GroupedWith(gr[1], gr[2]) \in X
  BY <1>1
<1>4. Adding \in [X \X RawRow -> X]
  BY <1>2, <1>3
<1>5. \A groups \in X, r \in RawRow : Adding[<<groups, r>>] = GroupedWith(groups, r)
  BY <1>2
<1> QED BY <1>4, <1>5 DEF X

\* Grouped is a solution of its recursion.
LEMMA GroupedFolds ==
  ASSUME NEW s \in Seq(RawRow)
  PROVE  FoldsTo(Seq(OutputRow), Adding, <<>>, s, Grouped(s))
<1> DEFINE X == Seq(OutputRow)
           H == Adding
           none == <<>>
           Iter == CHOOSE iter : iter = [T \in SUBSET DOMAIN s |->
                     IF T = {} THEN <<>> ELSE GroupedWith(iter[T \ {Max(T)}], s[Max(T)])]
<1>1. Grouped(s) = Iter[DOMAIN s]
  BY Zenon DEF Grouped, FoldLeft, MapThenFoldSet
<1>2. \A groups \in X, r \in RawRow : H[<<groups, r>>] = GroupedWith(groups, r)
  BY AddingType
<1>3. H \in [X \X RawRow -> X] /\ none \in X
  BY AddingType
<1> HIDE DEF X, H, none
<1>4. PICK g \in [SUBSET DOMAIN s -> X] : FoldsOver(H, none, s, g)
  BY <1>3, FoldExists, Zenon
<1>0. \A T \in SUBSET DOMAIN s : T # {} =>
        Max(T) \in DOMAIN s /\ s[Max(T)] \in RawRow /\ T \ {Max(T)} \in SUBSET DOMAIN s
  <2> TAKE T \in SUBSET DOMAIN s
  <2> HAVE T # {}
  <2>1. DOMAIN s = 1 .. Len(s) /\ Len(s) \in Nat OBVIOUS
  <2>2. Max(T) \in T
    BY <2>1, MaxIn
  <2> QED BY <2>1, <2>2
<1>5. \A T \in SUBSET DOMAIN s :
        g[T] = IF T = {} THEN <<>> ELSE GroupedWith(g[T \ {Max(T)}], s[Max(T)])
  <2> TAKE T \in SUBSET DOMAIN s
  <2>1. CASE T = {} BY <1>4, <2>1 DEF none, FoldsOver
  <2>2. CASE T # {} BY <1>0, <1>2, <1>4, <2>2 DEF FoldsOver
  <2> QED BY <2>1, <2>2
<1>6. g = [T \in SUBSET DOMAIN s |->
             IF T = {} THEN <<>> ELSE GroupedWith(g[T \ {Max(T)}], s[Max(T)])]
  BY <1>4, <1>5, Zenon
<1>7. Iter = [T \in SUBSET DOMAIN s |->
             IF T = {} THEN <<>> ELSE GroupedWith(Iter[T \ {Max(T)}], s[Max(T)])]
  BY <1>6, Zenon
<1> HIDE DEF Iter
<1>8. Iter[{}] = none
  BY <1>7 DEF none
<1>9. FoldsWithin(X, H, s, Iter)
  <2> SUFFICES ASSUME NEW T \in SUBSET DOMAIN s, T # {}, Iter[T \ {Max(T)}] \in X
               PROVE  Iter[T] = H[<<Iter[T \ {Max(T)}], s[Max(T)]>>]
    BY DEF FoldsWithin
  <2>1. Iter[T] = GroupedWith(Iter[T \ {Max(T)}], s[Max(T)])
    BY <1>7
  <2> QED BY <1>0, <1>2, <2>1
<1>10. FoldsTo(X, H, none, s, Iter[DOMAIN s])
  BY <1>3, <1>8, <1>9, FoldPrefixes
<1> QED BY <1>1, <1>10, Zenon DEF X, H, none

\* No raw row makes no row, and one more raw row is added to the rows so far.
LEMMA GroupedNone == Grouped(<<>>) = <<>>
<1>1. <<>> \in Seq(RawRow)
  OBVIOUS
<1>2. FoldsTo(Seq(OutputRow), Adding, <<>>, <<>>, Grouped(<<>>))
  BY <1>1, GroupedFolds, Zenon
<1> QED BY <1>2, FoldOfNone, Zenon

\* Grouping rows into series gives a sequence of series.
LEMMA GroupedType ==
  ASSUME NEW s \in Seq(RawRow)
  PROVE  Grouped(s) \in Seq(OutputRow)
<1>1. FoldsTo(Seq(OutputRow), Adding, <<>>, s, Grouped(s))
  BY GroupedFolds
<1>2. Len(s) \in 0 .. Len(s)
  OBVIOUS
<1> QED BY <1>1, <1>2 DEF FoldsTo

\* Grouping rows extended by one adds that row to the groups so far.
LEMMA GroupedAppend ==
  ASSUME NEW s \in Seq(RawRow), NEW r \in RawRow
  PROVE  Grouped(Append(s, r)) = GroupedWith(Grouped(s), r)
<1> DEFINE X == Seq(OutputRow)
           none == <<>>
           more == Append(s, r)
           v == Grouped(s)
           w == Grouped(more)
<1>1. none \in X /\ more \in Seq(RawRow) /\ Extended(s, r, more)
  BY AppendExtends
<1>2. FoldsTo(X, Adding, none, s, v) /\ v \in X
  BY GroupedFolds, GroupedType
<1>3. FoldsTo(X, Adding, none, more, w)
  <2> HIDE DEF more
  <2> QED BY <1>1, GroupedFolds
<1>4. Adding \in [X \X RawRow -> X]
  BY AddingType
<1>5. \A groups \in X : Adding[<<groups, r>>] = GroupedWith(groups, r)
  BY AddingType
<1> HIDE DEF X, none, more, v, w
<1>8. Folding(X, RawRow, Adding, none)
  BY <1>1, <1>4 DEF Folding
<1>6. w = Adding[<<v, r>>]
  <2>1. s \in Seq(RawRow) /\ r \in RawRow
    OBVIOUS
  <2> QED BY <1>1, <1>2, <1>3, <1>8, <2>1, FoldAppend, Zenon
<1>7. w = GroupedWith(v, r)
  BY <1>2, <1>5, <1>6
<1> QED BY <1>7, Zenon DEF v, w, more

\* Adding a raw row leaves a row, and touches only the last one.
LEMMA GroupedWithLast ==
  ASSUME NEW p \in Seq(OutputRow), NEW groups \in Seq(OutputRow), NEW r \in RawRow,
         groups # <<>> \/ ~Continues(p, r)
  PROVE  /\ GroupedWith(groups, r) # <<>>
         /\ GroupedWith(p \o groups, r) = p \o GroupedWith(groups, r)
<1> DEFINE row == RowOf(r.block, r.id, <<r>>)
<1>1. row \in OutputRow
  <2>1. r.block \in Nat /\ r.id \in Nat /\ <<r>> \in Seq(RawRow) BY DEF RawRow
  <2> QED BY <2>1 DEF RowOf, OutputRow
<1>2. CASE groups = <<>>
  <2>1. p \o groups = p /\ ~Continues(groups, r) /\ ~Continues(p, r)
    BY <1>2, ConcatEmptySeq DEF Continues
  <2>2. /\ GroupedWith(groups, r) = Append(groups, row)
        /\ GroupedWith(p \o groups, r) = Append(p \o groups, row)
    BY <2>1 DEF GroupedWith
  <2>3. /\ Append(groups, row) # <<>>
        /\ Append(p \o groups, row) = p \o Append(groups, row)
    <3> HIDE DEF row
    <3> QED BY <1>1
  <2> QED BY <2>2, <2>3, Zenon
<1>3. CASE groups # <<>>
  <2> DEFINE all == p \o groups
  <2>1. /\ Len(groups) \in 1 .. Len(groups) /\ Len(all) = Len(p) + Len(groups)
        /\ all \in Seq(OutputRow) /\ all # <<>> /\ Len(p) \in Nat
    BY <1>3
  <2>2. all[Len(all)] = groups[Len(groups)] /\ Last(all) = Last(groups)
    <3>1. all[Len(all)] = groups[Len(groups)]
      BY <2>1
    <3> QED BY <3>1 DEF Last
  <2>3. Continues(all, r) <=> Continues(groups, r)
    BY <1>3, <2>1, <2>2 DEF Continues
  <2>4. CASE ~Continues(groups, r)
    <3>1. /\ GroupedWith(groups, r) = Append(groups, row)
          /\ GroupedWith(all, r) = Append(all, row)
      BY <2>3, <2>4 DEF GroupedWith
    <3>2. /\ Append(groups, row) # <<>>
          /\ Append(all, row) = p \o Append(groups, row)
      <4> HIDE DEF row
      <4> QED BY <1>1 DEF all
    <3> QED BY <3>1, <3>2, Zenon
  <2>5. CASE Continues(groups, r)
    <3> DEFINE last == groups[Len(groups)]
               grown == [last EXCEPT !.rows = Append(@, r)]
    <3>1. grown \in OutputRow
      <4>0. last \in OutputRow
        BY <2>1
      <4>1. last \in OutputRow /\ last.rows \in Seq(RawRow)
        BY <4>0 DEF OutputRow
      <4>2. Append(last.rows, r) \in Seq(RawRow)
        BY <4>1
      <4> QED BY <4>1, <4>2 DEF OutputRow
    <3>2. /\ GroupedWith(groups, r) = [groups EXCEPT ![Len(groups)] = grown]
          /\ GroupedWith(all, r) = [all EXCEPT ![Len(all)] = grown]
      BY <2>2, <2>3, <2>5 DEF GroupedWith
    <3> HIDE DEF grown, last, all
    <3>3. [all EXCEPT ![Len(all)] = grown] = p \o [groups EXCEPT ![Len(groups)] = grown]
      <4> DEFINE a == [all EXCEPT ![Len(all)] = grown]
                 g == [groups EXCEPT ![Len(groups)] = grown]
                 b == p \o g
      <4>1. /\ g \in Seq(OutputRow) /\ Len(g) = Len(groups)
            /\ \A j \in 1 .. Len(groups) :
                 g[j] = IF j = Len(groups) THEN grown ELSE groups[j]
        BY <2>1, <3>1
      <4>2. /\ a \in Seq(OutputRow) /\ Len(a) = Len(all)
            /\ \A j \in 1 .. Len(all) : a[j] = IF j = Len(all) THEN grown ELSE all[j]
        BY <2>1, <3>1
      <4>3. /\ b \in Seq(OutputRow) /\ Len(b) = Len(p) + Len(groups)
            /\ \A j \in 1 .. Len(b) : b[j] = IF j <= Len(p) THEN p[j] ELSE g[j - Len(p)]
        <5>1. p \in Seq(OutputRow) /\ g \in Seq(OutputRow)
          BY <4>1
        <5> HIDE DEF g
        <5>2. b \in Seq(OutputRow)
          BY <5>1, Associates, Zenon
        <5>3. /\ Len(b) = Len(p) + Len(g)
              /\ \A j \in 1 .. Len(p) + Len(g) : b[j] = IF j <= Len(p) THEN p[j] ELSE g[j - Len(p)]
          BY <5>1, ConcatProperties, Zenon
        <5> HIDE DEF b
        <5> QED BY <4>1, <5>2, <5>3
      <4>4. \A j \in 1 .. Len(all) : all[j] = IF j <= Len(p) THEN p[j] ELSE groups[j - Len(p)]
        BY ConcatProperties DEF all
      <4> HIDE DEF a, b, g
      <4>5. \A j \in 1 .. Len(a) : a[j] = b[j]
        <5> TAKE j \in 1 .. Len(a)
        <5>1. CASE j <= Len(p)
          BY <2>1, <4>2, <4>3, <4>4, <5>1
        <5>2. CASE ~(j <= Len(p))
          <6>1. j - Len(p) \in 1 .. Len(groups) /\ (j = Len(all) <=> j - Len(p) = Len(groups))
            BY <2>1, <4>2, <5>2
          <6> QED BY <2>1, <4>1, <4>2, <4>3, <4>4, <5>2, <6>1
        <5> QED BY <5>1, <5>2
      <4>6. a = b
        BY <2>1, <4>2, <4>3, <4>5, SeqEqual
      <4> QED BY <4>6 DEF a, b, g
    <3>4. [groups EXCEPT ![Len(groups)] = grown] # <<>>
      BY <2>1
    <3> QED BY <3>2, <3>3, <3>4 DEF all
  <2> QED BY <2>4, <2>5
<1> QED BY <1>2, <1>3

\* A raw row of the identity of the only row joins it.
LEMMA GroupedWithOne ==
  ASSUME NEW rows \in Seq(RawRow), NEW r \in RawRow
  PROVE  GroupedWith(<<RowOf(r.block, r.id, rows)>>, r) = <<RowOf(r.block, r.id, Append(rows, r))>>
<1> DEFINE row == RowOf(r.block, r.id, rows)
           grown == RowOf(r.block, r.id, Append(rows, r))
           one == <<row>>
<1>1. one # <<>> /\ Len(one) = 1 /\ one[1] = row /\ Last(one) = row
  BY DEF Last
<1>2. row.block = r.block /\ row.id = r.id
  BY DEF RowOf
<1>3. [row EXCEPT !.rows = Append(@, r)] = grown
  <2> DEFINE more == Append(rows, r)
  <2>1. [row EXCEPT !.rows = Append(@, r)] = [row EXCEPT !.rows = more]
    BY DEF RowOf
  <2> HIDE DEF more
  <2>2. [row EXCEPT !.rows = more] = RowOf(r.block, r.id, more)
    BY DEF RowOf
  <2> QED BY <2>1, <2>2 DEF more
<1> HIDE DEF row, grown
<1>4. Continues(one, r)
  <2> HIDE DEF one
  <2> QED BY <1>1, <1>2 DEF Continues
<1>5. GroupedWith(one, r) = [one EXCEPT ![1] = [row EXCEPT !.rows = Append(@, r)]]
  <2>1. GroupedWith(one, r) = [one EXCEPT ![Len(one)].rows = Append(@, r)]
    <3> HIDE DEF one
    <3> QED BY <1>4 DEF GroupedWith
  <2> QED BY <1>1, <2>1
<1>6. [one EXCEPT ![1] = grown] = <<grown>>
  OBVIOUS
<1> QED BY <1>3, <1>5, <1>6 DEF row, grown

\* Raw rows of one identity in one block are one row.
LEMMA GroupedOne ==
  ASSUME NEW b, NEW i, NEW g \in Seq(RawRow), g # <<>>,
         \A k \in DOMAIN g : g[k].block = b /\ g[k].id = i
  PROVE  Grouped(g) = <<RowOf(b, i, g)>>
<1> DEFINE P(k) == SubSeq(g, 1, k)
           S == {k \in 0 .. Len(g) : k = 0 \/ Grouped(P(k)) = <<RowOf(b, i, P(k))>>}
<1>1. Len(g) \in Nat \ {0} /\ P(0) = <<>> /\ P(Len(g)) = g
  OBVIOUS
<1>2. \A k \in 0 .. Len(g) : P(k) \in Seq(RawRow)
  OBVIOUS
<1>3. \A k \in 0 .. Len(g) - 1 :
        /\ k + 1 \in 0 .. Len(g) /\ k \in 0 .. Len(g)
        /\ g[k + 1] \in RawRow /\ g[k + 1].block = b /\ g[k + 1].id = i
        /\ P(k + 1) = Append(P(k), g[k + 1])
  OBVIOUS
<1>4. \A k : k \in S <=> k \in 0 .. Len(g) /\ (k = 0 \/ Grouped(P(k)) = <<RowOf(b, i, P(k))>>)
  OBVIOUS
<1> HIDE DEF S, P
<1>5. 0 \in S
  <2>1. 0 \in 0 .. Len(g) BY <1>1
  <2> QED BY <1>4, <2>1
<1>6. \A k \in 0 .. Len(g) - 1 : k \in S => k + 1 \in S
  <2> SUFFICES ASSUME NEW k \in 0 .. Len(g) - 1, k \in S PROVE k + 1 \in S
    OBVIOUS
  <2> DEFINE p == P(k)
             r == g[k + 1]
  <2>1. p \in Seq(RawRow) /\ r \in RawRow /\ P(k + 1) = Append(p, r)
    BY <1>2, <1>3
  <2> HIDE DEF p, r
  <2>2. Grouped(Append(p, r)) = GroupedWith(Grouped(p), r)
    BY <2>1, GroupedAppend
  <2>3. r.block = b /\ r.id = i
    BY <1>3 DEF r
  <2>4. CASE k = 0
    <3>1. p = <<>>
      BY <1>1, <2>4 DEF p
    <3>2. GroupedWith(<<>>, r) = <<RowOf(b, i, <<r>>)>>
      <4> DEFINE row == RowOf(b, i, <<r>>)
      <4>1. GroupedWith(<<>>, r) = Append(<<>>, row)
        BY <2>3 DEF GroupedWith, Continues
      <4> HIDE DEF row
      <4>2. Append(<<>>, row) = <<row>>
        OBVIOUS
      <4> QED BY <4>1, <4>2 DEF row
    <3>3. Append(p, r) = <<r>>
      BY <3>1
    <3>4. Grouped(P(k + 1)) = <<RowOf(b, i, P(k + 1))>>
      BY <2>1, <2>2, <3>1, <3>2, <3>3, GroupedNone, Zenon
    <3> QED BY <1>3, <1>4, <3>4
  <2>5. CASE k # 0
    <3>1. Grouped(p) = <<RowOf(b, i, p)>>
      BY <1>4, <2>5 DEF p
    <3>2. GroupedWith(<<RowOf(b, i, p)>>, r) = <<RowOf(b, i, Append(p, r))>>
      BY <2>1, <2>3, GroupedWithOne
    <3>3. Grouped(P(k + 1)) = <<RowOf(b, i, P(k + 1))>>
      BY <2>1, <2>2, <3>1, <3>2, Zenon
    <3> QED BY <1>3, <1>4, <3>3
  <2> QED BY <2>4, <2>5
<1>7. Len(g) \in S
  <2>1. \A k \in 0 .. Len(g) : k \in S BY <1>1, <1>5, <1>6, Induct
  <2>2. Len(g) \in 0 .. Len(g) BY <1>1
  <2> QED BY <2>1, <2>2, Zenon
<1>8. Grouped(P(Len(g))) = <<RowOf(b, i, P(Len(g)))>>
  BY <1>1, <1>4, <1>7
<1> QED BY <1>1, <1>8, Zenon

\* g is rows of one series; u goes on with another.
OneSeries(g, b, i) ==
  /\ g \in Seq(RawRow) /\ g # <<>>
  /\ \A k \in DOMAIN g : g[k].block = b /\ g[k].id = i

Elsewhere(u, b, i) ==
  u \in Seq(RawRow) /\ (u # <<>> => u[1].block # b \/ u[1].id # i)

\* A row is closed by the first raw row of another identity or block.
LEMMA GroupedSplit ==
  ASSUME NEW b, NEW i, NEW g, NEW u, OneSeries(g, b, i), Elsewhere(u, b, i)
  PROVE  Grouped(g \o u) = <<RowOf(b, i, g)>> \o Grouped(u)
<1>0. /\ g \in Seq(RawRow) /\ g # <<>> /\ \A k \in DOMAIN g : g[k].block = b /\ g[k].id = i
      /\ u \in Seq(RawRow) /\ (u # <<>> => u[1].block # b \/ u[1].id # i)
  BY DEF OneSeries, Elsewhere
<1> SUFFICES ASSUME g \in Seq(RawRow), u \in Seq(RawRow), g # <<>>,
                    \A k \in DOMAIN g : g[k].block = b /\ g[k].id = i,
                    u # <<>> => u[1].block # b \/ u[1].id # i
             PROVE  Grouped(g \o u) = <<RowOf(b, i, g)>> \o Grouped(u)
  BY <1>0
<1> DEFINE row == RowOf(b, i, g)
           one == <<row>>
           P(k) == SubSeq(u, 1, k)
           S == {k \in 0 .. Len(u) : /\ Grouped(g \o P(k)) = one \o Grouped(P(k))
                                     /\ k # 0 => Grouped(P(k)) # <<>>}
<1>1. Len(u) \in Nat /\ P(0) = <<>> /\ P(Len(u)) = u
  OBVIOUS
<1>2. \A k \in 0 .. Len(u) : P(k) \in Seq(RawRow)
  OBVIOUS
<1>3. \A k \in 0 .. Len(u) - 1 :
        /\ k + 1 \in 0 .. Len(u) /\ k \in 0 .. Len(u) /\ u[k + 1] \in RawRow
        /\ P(k + 1) = Append(P(k), u[k + 1])
  OBVIOUS
<1>4. \A k : k \in S <=> /\ k \in 0 .. Len(u)
                         /\ Grouped(g \o P(k)) = one \o Grouped(P(k))
                         /\ k # 0 => Grouped(P(k)) # <<>>
  OBVIOUS
<1>5. Grouped(g) = one
  BY GroupedOne
<1>6. one \in Seq(OutputRow)
  BY <1>5, GroupedType
<1>7. \A r \in RawRow : Continues(one, r) => r.block = b /\ r.id = i
  <2>1. Last(one) = row
    BY DEF Last
  <2>2. row.block = b /\ row.id = i
    BY DEF RowOf
  <2> HIDE DEF one, row
  <2> QED BY <2>1, <2>2 DEF Continues
<1> HIDE DEF S, P, one, row
<1>8. 0 \in S
  <2>1. 0 \in 0 .. Len(u) BY <1>1
  <2>2. g \o <<>> = g /\ one \o <<>> = one
    BY <1>6, ConcatEmptySeq
  <2>3. Grouped(g \o P(0)) = one \o Grouped(P(0))
    BY <1>1, <1>5, <2>2, GroupedNone, Zenon
  <2> QED BY <1>4, <2>1, <2>3
<1>9. \A k \in 0 .. Len(u) - 1 : k \in S => k + 1 \in S
  <2> SUFFICES ASSUME NEW k \in 0 .. Len(u) - 1, k \in S PROVE k + 1 \in S
    OBVIOUS
  <2> DEFINE p == P(k)
             r == u[k + 1]
             front == g \o p
             gp == Grouped(p)
  <2>1. p \in Seq(RawRow) /\ r \in RawRow /\ P(k + 1) = Append(p, r)
    BY <1>2, <1>3
  <2>2. gp \in Seq(OutputRow)
    BY <2>1, GroupedType
  <2>3. Grouped(front) = one \o gp /\ (k # 0 => gp # <<>>)
    BY <1>4
  <2>4. gp # <<>> \/ ~Continues(one, r)
    <3>1. CASE k # 0 BY <2>3, <3>1
    <3>2. CASE k = 0
      <4>1. u # <<>> /\ r = u[1]
        BY <1>1, <3>2
      <4> HIDE DEF r
      <4> QED BY <1>7, <2>1, <4>1
    <3> QED BY <3>1, <3>2
  <2>5. front \in Seq(RawRow)
    <3> HIDE DEF p
    <3> QED BY <2>1
  <2>6. g \o P(k + 1) = Append(front, r)
    <3> HIDE DEF p, r
    <3>1. g \o Append(p, r) = Append(g \o p, r)
      BY <2>1
    <3> QED BY <2>1, <3>1, Zenon
  <2> HIDE DEF p, r, front, gp
  <2>7. Grouped(Append(front, r)) = GroupedWith(Grouped(front), r)
    BY <2>1, <2>5, GroupedAppend
  <2>8. Grouped(Append(p, r)) = GroupedWith(gp, r)
    BY <2>1, GroupedAppend DEF gp
  <2>9. GroupedWith(gp, r) # <<>> /\ GroupedWith(one \o gp, r) = one \o GroupedWith(gp, r)
    BY <1>6, <2>1, <2>2, <2>4, GroupedWithLast
  <2>10. Grouped(g \o P(k + 1)) = one \o Grouped(P(k + 1)) /\ Grouped(P(k + 1)) # <<>>
    BY <2>1, <2>3, <2>6, <2>7, <2>8, <2>9, Zenon
  <2> QED BY <1>3, <1>4, <2>10
<1>10. Len(u) \in S
  <2>1. \A k \in 0 .. Len(u) : k \in S BY <1>1, <1>8, <1>9, Induct
  <2>2. Len(u) \in 0 .. Len(u) BY <1>1
  <2> QED BY <2>1, <2>2, Zenon
<1>11. Grouped(g \o P(Len(u))) = one \o Grouped(P(Len(u)))
  BY <1>4, <1>10, Zenon
<1> QED BY <1>1, <1>11, Zenon DEF one, row

-----------------------------------------------------------------------------
(***************************************************************************)
(* The stream implements RowStream: what is handed over, what is held and  *)
(* what is still to come make up the promised rows, wherever the run is.   *)
(***************************************************************************)
Remaining == IF batch = None THEN <<>> ELSE SubSeq(batch, from + 1, Len(batch))
Unsent == FlattenSeq(SubSeq(source.batches, sent + 1, Len(source.batches)))
Unread == Remaining \o Unsent
InFold == IF current = None \/ pc = "copied" THEN <<>> ELSE current.rows
InOutput == IF output = None THEN <<>> ELSE output.rows

\* The rows of a fold are of its identity in its block; it opens at the first.
FoldIsOne ==
  current # None =>
    /\ \A k \in DOMAIN current.rows :
         current.rows[k].block = block /\ current.rows[k].id = current.id
    /\ current.rows = <<>> =>
         batch # None /\ from < Len(batch) /\ RawAt.block = block /\ RawAt.id = current.id

\* A fold is closed where another begins, or where the input has ended.
AtEdge ==
  /\ pc \in {"finish", "copied"} => IF batch = None THEN ~input ELSE ChangedBlock \/ ChangedId
  /\ ended = "open" /\ ~input => sent = Len(source.batches)

Accounted ==
  ended = "open" => promised = Rows \o (InOutput \o Grouped(InFold \o Unread))

RowsInv == IInv /\ FoldIsOne /\ AtEdge /\ Accounted

\* Closing is the only change to a fold outside of PushRow.
LEMMA FoldKept ==
  ASSUME ValuesOK, Placed, SealSeries \/ SuspendClose
  PROVE  /\ current # None /\ current' # None
         /\ current'.rows = current.rows /\ current'.id = current.id
<1>1. current \in Open /\ current # None
  BY DEF SealSeries, SuspendClose, InFinish, Placed, ValuesOK
<1>2. None \notin Open
  BY StreamAssumption
<1>3. CASE SealSeries
  <2>1. current' = [current EXCEPT !.closing = CloseWork, !.sealed = TRUE]
    BY <1>3 DEF SealSeries
  <2>2. CloseWork \in 0 .. CloseWork /\ TRUE \in BOOLEAN
    BY StreamAssumption
  <2>3. current' \in Open
    BY <1>1, <2>1, <2>2, Zenon DEF Open
  <2>4. current'.rows = current.rows /\ current'.id = current.id
    BY <1>1, <2>1 DEF Open
  <2> QED BY <1>1, <1>2, <2>3, <2>4
<1>4. CASE SuspendClose
  <2>1. current' = [current EXCEPT !.closing = current.closing + budget]
    BY <1>4 DEF SuspendClose
  <2>2. current.closing + budget \in 0 .. CloseWork
    <3>1. CloseWork - current.closing > budget BY <1>4 DEF SuspendClose, CloseLeft
    <3>2. current.closing \in 0 .. CloseWork /\ budget \in Nat /\ CloseWork \in Nat
      BY <1>1, StreamAssumption DEF Open, ValuesOK
    <3> QED BY <3>1, <3>2
  <2>3. current' \in Open
    BY <1>1, <2>1, <2>2 DEF Open
  <2>4. current'.rows = current.rows /\ current'.id = current.id
    BY <1>1, <2>1 DEF Open
  <2> QED BY <1>1, <1>2, <2>3, <2>4
<1> QED BY <1>3, <1>4

\* PushRow adds the row in hand to the open fold.
LEMMA FoldGrows ==
  ASSUME ValuesOK, Placed, PushRow
  PROVE  /\ current # None /\ current' # None /\ RawAt \in RawRow
         /\ current'.rows = Append(current.rows, RawAt) /\ current'.id = current.id
         /\ current.rows \in Seq(RawRow)
         /\ RawAt.block = block /\ RawAt.id = current.id
<1>1. current \in Open /\ current # None
  BY DEF PushRow, Pushing, ValuesOK
<1>2. RawAt \in RawRow
  BY RawRowType DEF PushRow, Pushing, InRow, Placed, InLoop
<1>3. current' = [current EXCEPT !.rows = Append(current.rows, RawAt),
                                 !.count = current.count + RawAt.yields]
  BY DEF PushRow
<1>4. current.rows \in Seq(RawRow) /\ current.count \in Nat /\ RawAt.yields \in Nat
  BY <1>1, <1>2 DEF Open, RawRow
<1>5. Append(current.rows, RawAt) \in Seq(RawRow) /\ current.count + RawAt.yields \in Nat
  BY <1>2, <1>4
<1>6. current' \in Open
  BY <1>1, <1>3, <1>5 DEF Open
<1>7. current'.rows = Append(current.rows, RawAt) /\ current'.id = current.id
  BY <1>1, <1>3 DEF Open
<1>8. RawAt.block = block /\ RawAt.id = current.id
  BY <1>1 DEF PushRow, Pushing, ChangedBlock, ChangedId
<1> QED BY <1>1, <1>2, <1>4, <1>6, <1>7, <1>8, StreamAssumption

\* A fold takes only rows of its identity.
LEMMA FoldIsOneStep ==
  ASSUME ValuesOK, Placed, FoldIsOne, Next
  PROVE  FoldIsOne'
<1>1. CASE PushRow
  <2>1. /\ current # None /\ current' # None /\ RawAt \in RawRow
        /\ current'.rows = Append(current.rows, RawAt) /\ current'.id = current.id
        /\ current.rows \in Seq(RawRow)
        /\ RawAt.block = block /\ RawAt.id = current.id /\ block' = block
    BY <1>1, FoldGrows DEF PushRow
  <2>2. current'.rows # <<>>
    BY <2>1
  <2>3. \A k \in DOMAIN current'.rows : \/ k \in DOMAIN current.rows /\ current'.rows[k] = current.rows[k]
                                        \/ current'.rows[k] = RawAt
    BY <2>1
  <2>4. \A k \in DOMAIN current'.rows :
          current'.rows[k].block = block' /\ current'.rows[k].id = current'.id
    BY <2>1, <2>3 DEF FoldIsOne
  <2> QED BY <2>2, <2>4 DEF FoldIsOne
<1>2. CASE SealSeries \/ SuspendClose
  <2>1. /\ current # None /\ current' # None
        /\ current'.rows = current.rows /\ current'.id = current.id
    BY <1>2, FoldKept
  <2>2. UNCHANGED <<batch, from, block>>
    BY <1>2 DEF SealSeries, SuspendClose
  <2>3. RawAt' = RawAt
    BY <2>2 DEF RawAt
  <2> QED BY <2>1, <2>2, <2>3 DEF FoldIsOne
<1>3. CASE OpenSeries
  <2>1. /\ current'.rows = <<>> /\ current'.id = RawAt.id /\ block = RawAt.block
        /\ UNCHANGED <<batch, from, block>>
    BY <1>3 DEF OpenSeries, ChangedBlock
  <2>2. batch # None /\ from < Len(batch)
    BY <1>3, RawRowType DEF OpenSeries, InRow, Placed, InLoop
  <2>3. RawAt' = RawAt
    BY <2>1 DEF RawAt
  <2>4. DOMAIN current'.rows = {}
    BY <2>1
  <2> QED BY <2>1, <2>2, <2>3, <2>4 DEF FoldIsOne
<1>4. CASE DropFold \/ EnterBlock
  BY <1>4 DEF DropFold, EnterBlock, FoldIsOne
<1>5. CASE Drop \/ Refuse \/ EmitRefused \/ EndOfRows \/ InputFails \/ TooManySamples
  BY <1>5 DEF Drop, Refuse, EmitRefused, EndOfRows, InputFails, TooManySamples,
     Release, FoldIsOne
<1>6. CASE Settle
  <2>1. UNCHANGED <<block, current>>
    BY <1>6 DEF Settle
  <2>2. batch # None /\ from < Len(batch) => UNCHANGED <<batch, from>>
    <3> HAVE batch # None /\ from < Len(batch)
    <3>1. Len(batch) \in Nat /\ from \in Nat BY DEF ValuesOK
    <3> QED BY <1>6, <3>1 DEF Settle
  <2> QED BY <2>1, <2>2 DEF FoldIsOne, RawAt
<1>7. CASE TakeBatch
  BY <1>7 DEF TakeBatch, Drained, FoldIsOne
<1>8. CASE Emit
  BY <1>8 DEF Emit, FoldIsOne, RawAt
<1>9. CASE InputArrives \/ Demand \/ Poll \/ Charge \/ Yield \/ StartUpdate \/ FinishLast
   \/ AwaitInput \/ InputEnds \/ UpdateEnds \/ EnterRow \/ LeaveSeries \/ SuspendRow
   \/ HoldRow \/ CopyRow
  <2>1. UNCHANGED <<batch, from, block, current>>
    BY <1>9 DEF InputArrives, Demand, Poll, Charge, Yield, StartUpdate, FinishLast,
       AwaitInput, InputEnds, UpdateEnds, EnterRow, LeaveSeries, SuspendRow, HoldRow,
       CopyRow, upstream, held, poll, task
  <2> QED BY <2>1 DEF FoldIsOne, RawAt
<1> QED
  BY <1>1, <1>2, <1>3, <1>4, <1>5, <1>6, <1>7, <1>8, <1>9 DEF Next, Run, PollInner,
     Update, FinishSeries

\* The driver closes a fold at an edge only, and the edge stays until it is
\* dropped; an input that has ended has handed over all its batches.
LEMMA AtEdgeStep ==
  ASSUME ValuesOK, FlagsOK, Placed, AtEdge, Next
  PROVE  AtEdge'
<1>1. CASE SealSeries \/ SuspendClose
  <2>1. /\ current # None /\ current' # None /\ current'.id = current.id
        /\ pc = "finish"
    BY <1>1, FoldKept DEF SealSeries, SuspendClose, InFinish
  <2>2. UNCHANGED <<source, sent, input, batch, from, block, ended>>
    BY <1>1 DEF SealSeries, SuspendClose, upstream
  <2>3. RawAt' = RawAt
    BY <2>2 DEF RawAt
  <2>4. (ChangedBlock \/ ChangedId) => (ChangedBlock \/ ChangedId)'
    BY <2>1, <2>2, <2>3 DEF ChangedBlock, ChangedId
  <2> QED BY <2>1, <2>2, <2>4 DEF AtEdge
<1>2. CASE LeaveSeries
  <2>1. UNCHANGED <<source, sent, input, batch, from, block, current, ended>> /\ batch # None
    BY <1>2 DEF LeaveSeries, upstream, held, InRow, Placed
  <2>2. (ChangedBlock \/ ChangedId)'
    BY <1>2, <2>1 DEF LeaveSeries, ChangedBlock, ChangedId, RawAt
  <2> QED BY <2>1, <2>2 DEF AtEdge
<1>3. CASE CopyRow
  <2>1. UNCHANGED <<source, sent, input, batch, from, block, current, ended>> /\ pc = "finish"
    BY <1>3 DEF CopyRow, InFinish, upstream
  <2> QED BY <2>1 DEF AtEdge, ChangedBlock, ChangedId, RawAt
<1>4. CASE FinishLast
  <2>1. UNCHANGED <<source, sent, input, batch, ended>> /\ batch = None /\ ~input
    BY <1>4 DEF FinishLast, Drained, upstream, held
  <2> QED BY <2>1 DEF AtEdge
<1>5. CASE InputEnds
  <2>1. sent = Len(source.batches) /\ UNCHANGED <<source, sent>> /\ pc' = "turn"
    BY <1>5 DEF InputEnds, NextTurn
  <2> QED BY <2>1 DEF AtEdge
<1>6. CASE TakeBatch
  <2>1. input' = input /\ input /\ pc' = "turn"
    BY <1>6 DEF TakeBatch, NextTurn
  <2> QED BY <2>1 DEF AtEdge
<1>7. CASE Drop \/ Refuse \/ EmitRefused \/ EndOfRows \/ InputFails \/ TooManySamples
  <2>1. ended' # "open" /\ pc' = "ended"
    BY <1>7 DEF Drop, Refuse, EmitRefused, EndOfRows, InputFails, TooManySamples, Release
  <2> QED BY <2>1 DEF AtEdge
<1>8. CASE InputArrives \/ Charge
  <2>1. UNCHANGED <<source, sent, input, batch, from, block, current, ended, pc>>
    BY <1>8 DEF InputArrives, Charge, upstream, held, task
  <2> QED BY <2>1 DEF AtEdge, ChangedBlock, ChangedId, RawAt
<1>9. CASE Demand \/ Poll \/ Yield \/ Emit \/ StartUpdate \/ AwaitInput \/ UpdateEnds
   \/ EnterRow \/ Settle \/ EnterBlock \/ OpenSeries \/ PushRow \/ SuspendRow \/ HoldRow
   \/ DropFold
  <2>1. UNCHANGED <<source, sent, input, ended>>
    BY <1>9 DEF Demand, Poll, Yield, Emit, StartUpdate, AwaitInput, UpdateEnds, EnterRow,
       Settle, EnterBlock, OpenSeries, PushRow, SuspendRow, HoldRow, DropFold, upstream
  <2>2. pc' \notin {"finish", "copied"}
    BY <1>9 DEF Demand, Poll, Yield, Emit, StartUpdate, AwaitInput, UpdateEnds, EnterRow,
       Settle, EnterBlock, OpenSeries, PushRow, SuspendRow, HoldRow, DropFold, Turn,
       NextTurn, Drained, InRow, task
  <2> QED BY <2>1, <2>2 DEF AtEdge
<1> QED
  BY <1>1, <1>2, <1>3, <1>4, <1>5, <1>6, <1>7, <1>8, <1>9 DEF Next, Run, PollInner,
     Update, FinishSeries

\* What is accounted for are rows.
LEMMA RowsTypes ==
  ASSUME ValuesOK, delivered \in Seq(Output)
  PROVE  /\ Remaining \in Seq(RawRow) /\ Unsent \in Seq(RawRow) /\ Unread \in Seq(RawRow)
         /\ InFold \in Seq(RawRow) /\ InOutput \in Seq(OutputRow)
         /\ Rows \in Seq(OutputRow)
<1>1. Remaining \in Seq(RawRow)
  <2>1. CASE batch = None BY <2>1 DEF Remaining
  <2>2. CASE batch # None
    <3>1. batch \in Seq(RawRow) /\ from \in Nat BY <2>2 DEF ValuesOK
    <3>2. SubSeq(batch, from + 1, Len(batch)) \in Seq(RawRow) BY <3>1
    <3> QED BY <2>2, <3>2 DEF Remaining
  <2> QED BY <2>1, <2>2
<1>2. Unsent \in Seq(RawRow)
  <2> DEFINE rest == SubSeq(source.batches, sent + 1, Len(source.batches))
  <2>1. source.batches \in Seq(Seq(RawRow)) /\ sent \in Nat
    BY StreamAssumption DEF ValuesOK
  <2>2. rest \in Seq(Seq(RawRow))
    BY <2>1
  <2> HIDE DEF rest
  <2>3. FlattenSeq(rest) \in Seq(RawRow)
    BY <2>2, FlattenType
  <2> QED BY <2>3 DEF Unsent, rest
<1>3. Unread \in Seq(RawRow)
  BY <1>1, <1>2, ConcatProperties DEF Unread
<1>4. InFold \in Seq(RawRow)
  BY DEF InFold, ValuesOK, Open
<1>5. InOutput \in Seq(OutputRow)
  BY DEF InOutput, ValuesOK, Output
<1>6. Rows \in Seq(OutputRow)
  <2> DEFINE parts == [k \in DOMAIN delivered |-> delivered[k].rows]
  <2>1. \A k \in DOMAIN delivered : delivered[k].rows \in Seq(OutputRow)
    <3> TAKE k \in DOMAIN delivered
    <3>1. delivered[k] \in Output OBVIOUS
    <3> QED BY <3>1 DEF Output
  <2>2. parts \in Seq(Seq(OutputRow))
    BY <2>1
  <2> HIDE DEF parts
  <2>3. FlattenSeq(parts) \in Seq(OutputRow)
    BY <2>2, FlattenType
  <2> QED BY <2>3 DEF Rows, parts
<1> QED BY <1>1, <1>2, <1>3, <1>4, <1>5, <1>6

\* Most steps move no row.
LEMMA RowsKept ==
  ASSUME Accounted, ended' = ended, InFold' = InFold,
         UNCHANGED <<promised, source, sent, batch, from, delivered, output>>
  PROVE  Accounted'
<1>1. Remaining' = Remaining /\ Unsent' = Unsent
  BY DEF Remaining, Unsent
<1>2. Unread' = Unread
  BY <1>1 DEF Unread
<1>3. InOutput' = InOutput /\ Rows' = Rows
  BY DEF InOutput, Rows
<1> QED BY <1>2, <1>3 DEF Accounted

\* A batch moves from what is not sent to what is in hand.
LEMMA TakeBatchKeeps ==
  ASSUME ValuesOK, FlagsOK, delivered \in Seq(Output), Accounted, TakeBatch
  PROVE  Accounted'
<1> DEFINE all == source.batches
           n == Len(source.batches)
           b == all[sent + 1]
           rest == SubSeq(all, sent + 2, n)
<1>1. /\ batch = None /\ sent < n /\ sent' = sent + 1 /\ batch' = b /\ from' = 0
      /\ UNCHANGED <<promised, source, current, output, delivered, ended>>
      /\ pc = "turn" /\ pc' = "turn"
  BY DEF TakeBatch, Drained, Turn, NextTurn
<1>2. all \in Seq(Seq(RawRow)) /\ sent \in Nat /\ n \in Nat
  BY StreamAssumption DEF ValuesOK
<1>3. b \in Seq(RawRow) /\ rest \in Seq(Seq(RawRow))
  <2> DEFINE Z == Seq(RawRow)
  <2>1. sent + 1 \in 1 .. n
    BY <1>1, <1>2
  <2>2. all \in Seq(Z) /\ n = Len(all)
    BY <1>2
  <2> HIDE DEF all, n, Z
  <2>3. b \in Z
    BY <2>1, <2>2
  <2>4. rest \in Seq(Z)
    BY <1>2, <2>2
  <2> QED BY <2>3, <2>4 DEF Z
<1>4. SubSeq(all, sent + 1, n) = <<b>> \o rest
  <2>1. sent + 1 \in 1 .. n /\ n \in sent + 1 .. n /\ (sent + 1) + 1 = sent + 2
    BY <1>1, <1>2
  <2>2. SubSeq(all, sent + 1, n) = <<all[sent + 1]>> \o SubSeq(all, (sent + 1) + 1, n)
    BY <1>2, <2>1, SubSeqRecursiveFirst
  <2> QED BY <2>1, <2>2
<1>5. Unsent = b \o FlattenSeq(rest)
  <2>1. Unsent = FlattenSeq(<<b>> \o rest)
    BY <1>4, Zenon DEF Unsent
  <2> HIDE DEF b, rest
  <2> QED BY <1>3, <2>1, FlattenCons
<1>6. Unsent' = FlattenSeq(rest)
  <2>1. sent' + 1 = sent + 2 /\ source' = source
    BY <1>1, <1>2
  <2> QED BY <2>1, Zenon DEF Unsent
<1>7. Remaining' = b
  <2>1. batch' # None
    BY <1>1, <1>3, StreamAssumption
  <2>2. Remaining' = SubSeq(b, 0 + 1, Len(b))
    BY <1>1, <2>1, Zenon DEF Remaining
  <2> HIDE DEF b
  <2>3. SubSeq(b, 0 + 1, Len(b)) = b
    BY <1>3
  <2> QED BY <2>2, <2>3
<1>8. Remaining = <<>>
  BY <1>1 DEF Remaining
<1>9. Unread' = Unread
  <2>1. Unread = <<>> \o Unsent /\ <<>> \o Unsent = Unsent
    BY <1>8, RowsTypes, ConcatEmptySeq DEF Unread
  <2>2. Unread' = b \o FlattenSeq(rest)
    BY <1>6, <1>7, Zenon DEF Unread
  <2> QED BY <1>5, <2>1, <2>2, Zenon
<1>10. InFold' = InFold /\ InOutput' = InOutput /\ Rows' = Rows
  BY <1>1 DEF InFold, InOutput, Rows
<1> QED BY <1>1, <1>9, <1>10 DEF Accounted

\* A batch is let go once all of it is consumed.
LEMMA SettleKeeps ==
  ASSUME ValuesOK, FlagsOK, Accounted, Settle
  PROVE  Accounted'
<1>1. /\ UNCHANGED <<promised, source, sent, current, output, delivered, ended>>
      /\ pc = "settle" /\ pc' # "copied"
      /\ IF from = Len(batch) THEN batch' = None /\ from' = 0 ELSE UNCHANGED <<batch, from>>
  BY DEF Settle, upstream, NextTurn
<1>2. Remaining' = Remaining
  <2>1. CASE from # Len(batch)
    BY <1>1, <2>1 DEF Remaining
  <2>2. CASE from = Len(batch)
    <3>1. batch # None => SubSeq(batch, from + 1, Len(batch)) = <<>>
      <4> HAVE batch # None
      <4>1. batch \in Seq(RawRow) /\ Len(batch) \in Nat /\ Len(batch) < from + 1
        BY <2>2 DEF ValuesOK
      <4>2. from + 1 \in Int /\ Len(batch) \in Int
        BY <4>1 DEF ValuesOK
      <4> QED BY <4>1, <4>2, SubSeqEmpty
    <3>2. Remaining = <<>>
      BY <3>1 DEF Remaining
    <3>3. Remaining' = <<>>
      BY <1>1, <2>2 DEF Remaining
    <3> QED BY <3>2, <3>3
  <2> QED BY <2>1, <2>2
<1>3. Unsent' = Unsent
  BY <1>1 DEF Unsent
<1>4. Unread' = Unread
  BY <1>2, <1>3 DEF Unread
<1>5. InFold' = InFold /\ InOutput' = InOutput /\ Rows' = Rows
  BY <1>1 DEF InFold, InOutput, Rows
<1> QED BY <1>1, <1>4, <1>5 DEF Accounted

\* The row in hand is the first of what is unread.
LEMMA FirstUnread ==
  ASSUME ValuesOK, batch # None, from < Len(batch), RawAt \in RawRow
  PROVE  /\ Remaining = <<RawAt>> \o SubSeq(batch, from + 2, Len(batch))
         /\ SubSeq(batch, from + 2, Len(batch)) \in Seq(RawRow)
<1>1. batch \in Seq(RawRow) /\ from \in Nat /\ Len(batch) \in Nat
  BY DEF ValuesOK
<1>2. /\ from + 1 \in 1 .. Len(batch) /\ Len(batch) \in from + 1 .. Len(batch)
      /\ (from + 1) + 1 = from + 2
  BY <1>1
<1>3. SubSeq(batch, from + 1, Len(batch))
        = <<batch[from + 1]>> \o SubSeq(batch, (from + 1) + 1, Len(batch))
  BY <1>1, <1>2, SubSeqRecursiveFirst
<1>4. SubSeq(batch, from + 2, Len(batch)) \in Seq(RawRow)
  BY <1>1, <1>2
<1> QED BY <1>2, <1>3, <1>4 DEF Remaining, RawAt

\* It does not matter where a row between two sequences of rows is put.
LEMMA PushAssociates ==
  \A rows, rest, rem \in Seq(RawRow), r \in RawRow :
    rows \o ((<<r>> \o rest) \o rem) = Append(rows, r) \o (rest \o rem)
<1> TAKE rows, rest, rem \in Seq(RawRow), r \in RawRow
<1> DEFINE one == <<r>>
           w == rest \o rem
<1>1. one \in Seq(RawRow) /\ w \in Seq(RawRow)
  OBVIOUS
<1>2. (one \o rest) \o rem = one \o w
  <2> HIDE DEF one
  <2> QED BY <1>1, Regroups, SMTT(30) DEF w
<1>3. rows \o (one \o w) = Append(rows, r) \o w
  <2> HIDE DEF w
  <2> QED BY <1>1, PushesOne DEF one
<1> QED BY <1>2, <1>3 DEF one, w

\* The same without the second sequence.
LEMMA PushAssociatesOne ==
  \A o, g \in Seq(OutputRow), row \in OutputRow :
    o \o (<<row>> \o g) = Append(o, row) \o g
<1> TAKE o, g \in Seq(OutputRow), row \in OutputRow
<1> QED BY PushesOne

\* Rows handed over are not duplicated when the output starts empty again.
LEMMA NoneAssociates ==
  \A d, o, g \in Seq(OutputRow) : (d \o o) \o (<<>> \o g) = d \o (o \o g)
<1> TAKE d, o, g \in Seq(OutputRow)
<1>1. <<>> \o g = g
  BY ConcatEmptySeq
<1>2. (d \o o) \o g = d \o (o \o g)
  BY Regroups
<1> QED BY <1>1, <1>2, Zenon

\* The row in hand moves from what is unread to the fold.
LEMMA PushRowKeeps ==
  ASSUME ValuesOK, FlagsOK, Placed, delivered \in Seq(Output), Accounted, PushRow
  PROVE  Accounted'
<1> DEFINE rest == SubSeq(batch, from + 2, Len(batch))
           rows == current.rows
           r == RawAt
           rem == Unsent
<1>1. /\ current # None /\ current' # None /\ r \in RawRow
      /\ current'.rows = Append(rows, r) /\ rows \in Seq(RawRow)
  BY FoldGrows
<1>2. /\ UNCHANGED <<promised, source, sent, batch, output, delivered, ended>>
      /\ from' = from + 1 /\ pc = "row" /\ pc' = "update"
  BY DEF PushRow, Pushing, InRow, upstream
<1>3. batch # None /\ from < Len(batch)
  BY <1>2, RawRowType DEF Placed
<1>4. Remaining = <<r>> \o rest /\ rest \in Seq(RawRow)
  BY <1>1, <1>3, FirstUnread
<1>5. Remaining' = rest
  <2>1. from' + 1 = from + 2
    BY <1>2 DEF ValuesOK
  <2> QED BY <1>2, <1>3, <2>1 DEF Remaining
<1>6. rem \in Seq(RawRow) /\ Unsent' = rem
  BY <1>2, RowsTypes DEF Unsent
<1>7. InFold = rows /\ InFold' = Append(rows, r)
  BY <1>1, <1>2 DEF InFold
<1>8. Unread = (<<r>> \o rest) \o rem /\ Unread' = rest \o rem
  BY <1>4, <1>5, <1>6 DEF Unread
<1> HIDE DEF rest, rows, r, rem
<1>9. rows \o ((<<r>> \o rest) \o rem) = Append(rows, r) \o (rest \o rem)
  <2>1. rows \in Seq(RawRow) /\ r \in RawRow /\ rest \in Seq(RawRow) /\ rem \in Seq(RawRow)
    BY <1>1, <1>4, <1>6
  <2> QED BY <2>1, PushAssociates
<1>10. InFold' \o Unread' = InFold \o Unread
  BY <1>7, <1>8, <1>9, Zenon
<1>11. InOutput' = InOutput /\ Rows' = Rows
  BY <1>2 DEF InOutput, Rows
<1> QED BY <1>2, <1>10, <1>11 DEF Accounted

\* A fold that is closed is the first of the rows still to come.
LEMMA ClosedFoldIsFirst ==
  ASSUME ValuesOK, FlagsOK, Placed, delivered \in Seq(Output), FoldIsOne, AtEdge,
         pc = "finish", ended = "open"
  PROVE  /\ current # None /\ current.rows \in Seq(RawRow)
         /\ Grouped(current.rows \o Unread)
              = <<RowOf(block, current.id, current.rows)>> \o Grouped(Unread)
<1>1. current # None /\ current \in Open /\ current.rows \in Seq(RawRow)
  BY DEF Placed, ValuesOK, Open
<1>2. Unread \in Seq(RawRow)
  BY RowsTypes
<1>3. Len(source.batches) \in Nat
  BY StreamAssumption DEF ValuesOK
<1>4. \A k \in DOMAIN current.rows : current.rows[k].block = block /\ current.rows[k].id = current.id
  BY <1>1 DEF FoldIsOne
<1>5. CASE batch = None
  <2>1. sent = Len(source.batches)
    BY <1>5 DEF AtEdge, FlagsOK
  <2>2. SubSeq(source.batches, sent + 1, Len(source.batches)) = <<>>
    BY <1>3, <2>1, SubSeqEmpty
  <2>3. Unread = <<>>
    <3>1. Remaining = <<>> /\ Unsent = <<>>
      BY <1>5, <2>2, FlattenNone DEF Remaining, Unsent
    <3>2. <<>> \o <<>> = <<>>
      OBVIOUS
    <3> QED BY <3>1, <3>2 DEF Unread
  <2>4. current.rows # <<>>
    BY <1>1, <1>5 DEF FoldIsOne
  <2>5. OneSeries(current.rows, block, current.id) /\ Elsewhere(Unread, block, current.id)
    BY <1>1, <1>2, <1>4, <2>3, <2>4 DEF OneSeries, Elsewhere
  <2> QED BY <1>1, <2>5, GroupedSplit
<1>6. CASE batch # None
  <2>1. from < Len(batch) /\ RawAt \in RawRow
    <3>1. from < until /\ until <= Len(batch) /\ batch \in Seq(RawRow) /\ from \in Nat /\ until \in Nat
      BY <1>6 DEF Placed, ValuesOK
    <3>2. from + 1 \in 1 .. Len(batch) /\ from < Len(batch)
      BY <3>1
    <3> QED BY <3>1, <3>2 DEF RawAt
  <2>2. RawAt.block # block \/ RawAt.id # current.id
    BY <1>6 DEF AtEdge, ChangedBlock, ChangedId
  <2>3. current.rows # <<>>
    BY <1>1, <2>2 DEF FoldIsOne
  <2> DEFINE rest == SubSeq(batch, from + 2, Len(batch))
             r == RawAt
             u == Unread
  <2>4. Remaining = <<r>> \o rest /\ rest \in Seq(RawRow)
    BY <1>6, <2>1, FirstUnread
  <2>5. u[1] = r
    <3>1. Unsent \in Seq(RawRow)
      BY RowsTypes
    <3> DEFINE s == Unsent
    <3>2. u = (<<r>> \o rest) \o s
      BY <2>4, Zenon DEF Unread
    <3> HIDE DEF rest, r, u, s
    <3>3. r \in RawRow
      BY <2>1 DEF r
    <3> QED BY <2>4, <3>1, <3>2, <3>3 DEF s
  <2>6. u # <<>> => u[1].block # block \/ u[1].id # current.id
    <3> HIDE DEF u
    <3> QED BY <2>2, <2>5
  <2> HIDE DEF u, r
  <2>7. u \in Seq(RawRow)
    BY <1>2 DEF u
  <2>8. Grouped(current.rows \o u) = <<RowOf(block, current.id, current.rows)>> \o Grouped(u)
    <3>1. OneSeries(current.rows, block, current.id) /\ Elsewhere(u, block, current.id)
      BY <1>1, <1>4, <2>3, <2>6, <2>7 DEF OneSeries, Elsewhere
    <3> QED BY <3>1, GroupedSplit
  <2> QED BY <1>1, <2>8 DEF u
<1> QED BY <1>5, <1>6

\* A closed fold is copied to the end of the output.
LEMMA CopyRowKeeps ==
  ASSUME ValuesOK, FlagsOK, Placed, RowInHand, delivered \in Seq(Output), FoldIsOne,
         AtEdge, Accounted, CopyRow
  PROVE  Accounted'
<1> DEFINE row == RowOf(block, current.id, current.rows)
           u == Unread
           d == Rows
           o == InOutput
<1>1. /\ UNCHANGED <<promised, source, sent, batch, from, current, delivered, ended>>
      /\ pc = "finish" /\ pc' = "copied" /\ ended = "open"
  BY DEF CopyRow, InFinish, upstream, Placed
<1>2. /\ current # None /\ current.rows \in Seq(RawRow)
      /\ Grouped(current.rows \o u) = <<row>> \o Grouped(u)
  BY <1>1, ClosedFoldIsFirst
<1>3. /\ output' \in Output
      /\ output'.rows = IF output = None THEN <<row>> ELSE Append(output.rows, row)
  BY CopiedOutput
<1>4. output' # None
  BY <1>3, StreamAssumption
<1>5. o \in Seq(OutputRow) /\ d \in Seq(OutputRow) /\ u \in Seq(RawRow)
  BY RowsTypes
<1>6. row \in OutputRow
  <2>1. current.id \in Nat /\ block \in Nat
    BY <1>2 DEF ValuesOK, Open, RowInHand
  <2> QED BY <1>2, <2>1 DEF RowOf, OutputRow
<1>7. InOutput' = Append(o, row)
  <2>1. InOutput' = output'.rows
    BY <1>4 DEF InOutput
  <2>2. CASE output = None
    <3>1. o = <<>> BY <2>2 DEF InOutput
    <3> HIDE DEF row, o
    <3>2. Append(<<>>, row) = <<row>> OBVIOUS
    <3> QED BY <1>3, <2>1, <2>2, <3>1, <3>2
  <2>3. CASE output # None
    <3>1. o = output.rows BY <2>3 DEF InOutput
    <3> HIDE DEF row, o
    <3> QED BY <1>3, <2>1, <2>3, <3>1
  <2> QED BY <2>2, <2>3
<1>8. Unread' = u /\ Rows' = d
  BY <1>1 DEF Unread, Remaining, Unsent, Rows
<1>9. InFold = current.rows /\ InFold' = <<>>
  BY <1>1, <1>2 DEF InFold
<1>10. promised = d \o (o \o (<<row>> \o Grouped(u)))
  BY <1>1, <1>2, <1>9, Zenon DEF Accounted
<1>11. <<>> \o u = u
  BY <1>5, ConcatEmptySeq
<1>12. o \o (<<row>> \o Grouped(u)) = Append(o, row) \o Grouped(u)
  <2> DEFINE g == Grouped(u)
  <2>1. g \in Seq(OutputRow)
    BY <1>5, GroupedType
  <2> HIDE DEF g, o, row
  <2>2. o \o (<<row>> \o g) = Append(o, row) \o g
    BY <1>5, <1>6, <2>1, PushAssociatesOne
  <2> QED BY <2>2 DEF g
<1>13. promised' = Rows' \o (InOutput' \o Grouped(InFold' \o Unread'))
  <2>1. InFold' \o Unread' = u
    BY <1>8, <1>9, <1>11, Zenon
  <2> QED BY <1>1, <1>7, <1>8, <1>10, <1>12, <2>1, Zenon
<1> QED BY <1>13 DEF Accounted

\* Emit moves the rows of the output to what is handed over.
LEMMA EmitAppends ==
  ASSUME ValuesOK, Placed, OutputFits, delivered \in Seq(Output), Emit
  PROVE  output # None /\ output.rows # <<>> /\ Rows' = Rows \o InOutput
<1>1. output # None /\ output \in Output /\ output.rows \in Seq(OutputRow) /\ output.rows # <<>>
  BY DEF Emit, OutputFits, Fits, ValuesOK, Output
<1>2. delivered' = Append(delivered, output)
  BY DEF Emit
<1> DEFINE parts == [k \in DOMAIN delivered |-> delivered[k].rows]
           more == [k \in DOMAIN delivered' |-> delivered'[k].rows]
           X == OutputRow
<1>3. parts \in Seq(Seq(X))
  <2>1. \A k \in DOMAIN delivered : delivered[k].rows \in Seq(OutputRow)
    <3> TAKE k \in DOMAIN delivered
    <3>1. delivered[k] \in Output OBVIOUS
    <3> QED BY <3>1 DEF Output
  <2> QED BY <2>1
<1>4. more = Append(parts, output.rows)
  <2>1. /\ Len(delivered') = Len(delivered) + 1 /\ Len(delivered) \in Nat
        /\ DOMAIN delivered = 1 .. Len(delivered)
        /\ DOMAIN delivered' = 1 .. Len(delivered) + 1
        /\ \A k \in 1 .. Len(delivered) : delivered'[k] = delivered[k]
        /\ delivered'[Len(delivered) + 1] = output
    BY <1>1, <1>2
  <2>2. /\ Len(parts) = Len(delivered)
        /\ \A k \in 1 .. Len(delivered) : parts[k] = delivered[k].rows
    BY <2>1
  <2>3. more = [k \in 1 .. Len(delivered) + 1 |-> delivered'[k].rows]
    BY <2>1
  <2> DEFINE app == Append(parts, output.rows)
             new == output.rows
  <2>4. /\ app \in Seq(Seq(X)) /\ Len(app) = Len(delivered) + 1
        /\ \A k \in 1 .. Len(delivered) : app[k] = parts[k]
        /\ app[Len(delivered) + 1] = new
    <3> HIDE DEF parts, new
    <3>1. new \in Seq(X) BY <1>1 DEF new
    <3> QED BY <1>3, <2>2, <3>1, AppendProperties DEF new
  <2>5. app = [k \in 1 .. Len(delivered) + 1 |-> app[k]]
    <3> HIDE DEF app
    <3> QED BY <2>1, <2>4
  <2>6. \A k \in 1 .. Len(delivered) + 1 : app[k] = delivered'[k].rows
    <3> HIDE DEF app, parts
    <3> QED BY <2>1, <2>2, <2>4
  <2> HIDE DEF app, more, parts, new
  <2> QED BY <2>3, <2>5, <2>6 DEF app
<1>5. FlattenSeq(more) = FlattenSeq(parts) \o output.rows
  <2> HIDE DEF parts, more
  <2>1. FlattenSeq(Append(parts, output.rows)) = FlattenSeq(parts) \o output.rows
    BY <1>1, <1>3, FlattenAppend
  <2> QED BY <1>4, <2>1
<1>6. Rows = FlattenSeq(parts) /\ Rows' = FlattenSeq(more)
  BY DEF Rows
<1> QED BY <1>1, <1>5, <1>6 DEF InOutput

\* Emitting a batch keeps the account of the rows.
LEMMA EmitKeeps ==
  ASSUME ValuesOK, FlagsOK, Placed, OutputFits, delivered \in Seq(Output), Accounted, Emit
  PROVE  Accounted'
<1> DEFINE d == Rows
           o == InOutput
           g == Grouped(InFold \o Unread)
<1>1. /\ UNCHANGED <<promised, source, sent, batch, current, ended>>
      /\ output' = None /\ pc = "turn" /\ pc' = "ready"
      /\ batch # None => from' = from
  BY DEF Emit, Turn, upstream
<1>2. Rows' = d \o o
  BY EmitAppends
<1>3. InOutput' = <<>>
  BY <1>1 DEF InOutput
<1>4. Remaining' = Remaining /\ Unsent' = Unsent
  BY <1>1 DEF Remaining, Unsent
<1>5. Unread' = Unread /\ InFold' = InFold
  BY <1>1, <1>4 DEF Unread, InFold
<1>6. d \in Seq(OutputRow) /\ o \in Seq(OutputRow) /\ g \in Seq(OutputRow)
  <2>1. d \in Seq(OutputRow) /\ o \in Seq(OutputRow) /\ InFold \in Seq(RawRow) /\ Unread \in Seq(RawRow)
    BY RowsTypes
  <2>2. InFold \o Unread \in Seq(RawRow)
    BY <2>1, ConcatProperties
  <2> QED BY <2>1, <2>2, GroupedType
<1>7. Grouped(InFold' \o Unread') = g
  BY <1>5, Zenon
<1> HIDE DEF d, o, g
<1>8. (d \o o) \o (<<>> \o g) = d \o (o \o g)
  BY <1>6, NoneAssociates
<1>9. ended = "open" => promised = d \o (o \o g)
  BY DEF Accounted, d, o, g
<1> QED BY <1>1, <1>2, <1>3, <1>7, <1>8, <1>9 DEF Accounted

\* Every step keeps the account of the rows.
LEMMA AccountedStep ==
  ASSUME IInv, FoldIsOne, AtEdge, Accounted, Next
  PROVE  Accounted'
<1>0. /\ FlagsOK /\ ValuesOK /\ Placed /\ RowInHand /\ OutputFits
      /\ delivered \in Seq(Output)
  BY TypeParts DEF IInv
<1>1. CASE TakeBatch BY <1>0, <1>1, TakeBatchKeeps
<1>2. CASE Settle BY <1>0, <1>2, SettleKeeps
<1>3. CASE PushRow BY <1>0, <1>3, PushRowKeeps
<1>4. CASE CopyRow BY <1>0, <1>4, CopyRowKeeps
<1>5. CASE Emit BY <1>0, <1>5, EmitKeeps
<1>6. CASE Drop \/ Refuse \/ EmitRefused \/ EndOfRows \/ InputFails \/ TooManySamples
  <2>1. ended' # "open"
    BY <1>6 DEF Drop, Refuse, EmitRefused, EndOfRows, InputFails, TooManySamples, Release
  <2> QED BY <2>1 DEF Accounted
<1>7. CASE SealSeries \/ SuspendClose
  <2>1. /\ current # None /\ current' # None /\ current'.rows = current.rows
        /\ pc = "finish" /\ pc' # "copied"
        /\ UNCHANGED <<promised, source, sent, batch, from, delivered, output, ended>>
    BY <1>0, <1>7, FoldKept DEF SealSeries, SuspendClose, InFinish, upstream, task
  <2>2. InFold' = InFold
    BY <2>1 DEF InFold
  <2> QED BY <2>1, <2>2, RowsKept
<1>8. CASE DropFold
  <2>1. /\ UNCHANGED <<promised, source, sent, batch, from, delivered, output, ended>>
        /\ pc = "copied" /\ current' = None
    BY <1>8 DEF DropFold, upstream
  <2>2. InFold' = InFold
    BY <2>1 DEF InFold
  <2> QED BY <2>1, <2>2, RowsKept
<1>9. CASE OpenSeries
  <2>1. /\ UNCHANGED <<promised, source, sent, batch, from, delivered, output, ended>>
        /\ current = None /\ current'.rows = <<>>
    BY <1>9 DEF OpenSeries, upstream, poll, task
  <2>2. InFold' = InFold
    BY <2>1 DEF InFold
  <2> QED BY <2>1, <2>2, RowsKept
<1>10. CASE InputArrives \/ Charge
  <2>1. /\ UNCHANGED <<promised, source, sent, batch, from, delivered, output, ended>>
        /\ UNCHANGED <<current, pc>>
    BY <1>10 DEF InputArrives, Charge, upstream, held, task
  <2>2. InFold' = InFold
    BY <2>1 DEF InFold
  <2> QED BY <2>1, <2>2, RowsKept
<1>11. CASE Demand \/ Poll \/ Yield \/ StartUpdate \/ FinishLast \/ AwaitInput \/ InputEnds
   \/ UpdateEnds \/ EnterRow \/ LeaveSeries \/ EnterBlock \/ SuspendRow \/ HoldRow
  <2>1. /\ UNCHANGED <<promised, source, sent, batch, from, delivered, output, ended>>
        /\ current' = current
    BY <1>11 DEF Demand, Poll, Yield, StartUpdate, FinishLast, AwaitInput, InputEnds,
       UpdateEnds, EnterRow, LeaveSeries, EnterBlock, SuspendRow, HoldRow, upstream, held
  <2>2. pc # "copied" /\ pc' # "copied"
    BY <1>11 DEF Demand, Poll, Yield, StartUpdate, FinishLast, AwaitInput, InputEnds,
       UpdateEnds, EnterRow, LeaveSeries, EnterBlock, SuspendRow, HoldRow, Turn, NextTurn,
       Drained, InUpdate, InRow, Pushing, InFinish
  <2>3. InFold' = InFold
    BY <2>1, <2>2 DEF InFold
  <2> QED BY <2>1, <2>3, RowsKept
<1> QED
  BY <1>1, <1>2, <1>3, <1>4, <1>5, <1>6, <1>7, <1>8, <1>9, <1>10, <1>11 DEF Next, Run,
     PollInner, Update, FinishSeries

\* A stream starts with all rows to come.
LEMMA InitRows == Init => RowsInv
<1> SUFFICES ASSUME Init PROVE RowsInv OBVIOUS
<1>1. IInv BY InitIInv
<1>2. FoldIsOne /\ AtEdge BY DEF Init, FoldIsOne, AtEdge
<1>3. Rows = <<>>
  <2>1. delivered = <<>> BY DEF Init
  <2>2. [k \in DOMAIN delivered |-> delivered[k].rows] = <<>>
    BY <2>1
  <2> QED BY <2>2, FlattenNone, Zenon DEF Rows
<1>4. InOutput = <<>> /\ InFold = <<>> /\ Remaining = <<>>
  BY DEF Init, InOutput, InFold, Remaining
<1>5. Unsent = FlattenSeq(source.batches)
  <2>1. source.batches \in Seq(Seq(RawRow)) /\ sent = 0
    BY StreamAssumption DEF Init
  <2>2. SubSeq(source.batches, sent + 1, Len(source.batches)) = source.batches
    BY <2>1, SubSeqFull
  <2> QED BY <2>2 DEF Unsent
<1>6. Unsent \in Seq(RawRow)
  BY <1>1, TypeParts, RowsTypes DEF IInv
<1>7. InFold \o Unread = Unsent
  <2>1. <<>> \o Unsent = Unsent
    BY <1>6, ConcatEmptySeq
  <2> QED BY <1>4, <2>1 DEF Unread
<1>8. promised = Grouped(Unsent) /\ promised \in Seq(OutputRow)
  <2>1. promised = Grouped(Unsent)
    BY <1>5 DEF Init
  <2> QED BY <1>6, <2>1, GroupedType
<1>9. <<>> \o (<<>> \o promised) = promised
  BY <1>8, ConcatEmptySeq
<1>10. Accounted
  BY <1>3, <1>4, <1>7, <1>8, <1>9, Zenon DEF Accounted
<1> QED BY <1>1, <1>2, <1>10 DEF RowsInv

\* RowsInv is inductive.
LEMMA NextRows == RowsInv /\ [Next]_vars => RowsInv'
<1> SUFFICES ASSUME RowsInv, [Next]_vars PROVE RowsInv' OBVIOUS
<1>1. IInv' BY NextIInv DEF RowsInv
<1>2. CASE Next
  <2>1. FlagsOK /\ ValuesOK /\ Placed BY TypeParts DEF RowsInv, IInv
  <2>2. FoldIsOne' BY <1>2, <2>1, FoldIsOneStep DEF RowsInv
  <2>3. AtEdge' BY <1>2, <2>1, AtEdgeStep DEF RowsInv
  <2>4. Accounted' BY <1>2, AccountedStep DEF RowsInv
  <2> QED BY <1>1, <2>2, <2>3, <2>4 DEF RowsInv
<1>3. CASE UNCHANGED vars
  <2>1. /\ UNCHANGED <<source, sent, input, promised, batch, from, block, current, output>>
        /\ UNCHANGED <<pc, delivered, ended>>
    BY <1>3 DEF vars, upstream, held, task
  <2>2. FoldIsOne' /\ AtEdge'
    BY <2>1 DEF RowsInv, FoldIsOne, AtEdge, ChangedBlock, ChangedId, RawAt
  <2>3. InFold' = InFold
    BY <2>1 DEF InFold
  <2>4. Accounted'
    BY <2>1, <2>3, RowsKept DEF RowsInv
  <2> QED BY <1>1, <2>2, <2>4 DEF RowsInv
<1> QED BY <1>2, <1>3

\* At every moment the rows handed over, the output's, the open fold's and those
\* still to come are the promised ones: none is lost, repeated, split or merged
\* by a spent budget, a full output, a stalled input or an edge (update_budgeted,
\* finish_series_budgeted, emit).
THEOREM RowsAccounted == Spec => []Accounted
<1>1. RowsInv => Accounted BY DEF RowsInv
<1> QED BY <1>1, InitRows, NextRows, PTL DEF Spec

-----------------------------------------------------------------------------
\* Handing an output over is RowStream's Deliver.
LEMMA EmitDelivers ==
  ASSUME RowsInv, Emit
  PROVE  Stream!Deliver
<1>1. ended = "open" /\ ended' = ended /\ promised' = promised
  BY DEF RowsInv, IInv, Placed, Emit, Turn, upstream
<1>2. FlagsOK /\ ValuesOK /\ Placed /\ OutputFits /\ delivered \in Seq(Output)
  BY TypeParts DEF RowsInv, IInv
<1>3. output # None /\ output.rows # <<>> /\ Rows' = Rows \o InOutput
  BY <1>2, EmitAppends
<1> DEFINE d == Rows
           o == InOutput
           g == Grouped(InFold \o Unread)
<1>4. d \in Seq(OutputRow) /\ o \in Seq(OutputRow) /\ g \in Seq(OutputRow)
  <2>1. d \in Seq(OutputRow) /\ o \in Seq(OutputRow) /\ InFold \in Seq(RawRow) /\ Unread \in Seq(RawRow)
    BY <1>2, RowsTypes
  <2>2. InFold \o Unread \in Seq(RawRow)
    BY <2>1, ConcatProperties
  <2> QED BY <2>1, <2>2, GroupedType
<1>5. promised = d \o (o \o g) /\ o # <<>>
  BY <1>1, <1>3 DEF RowsInv, Accounted, InOutput
<1> HIDE DEF d, o, g
<1> DEFINE n == Len(d) + Len(o)
<1>6. n \in Len(d) + 1 .. Len(promised) /\ d \o o = SubSeq(promised, 1, n)
  <2>1. \A X : \A a, b, c \in Seq(X) : b # <<>> =>
          /\ Len(a) + Len(b) \in Len(a) + 1 .. Len(a \o (b \o c))
          /\ a \o b = SubSeq(a \o (b \o c), 1, Len(a) + Len(b))
    OBVIOUS
  <2> QED BY <1>4, <1>5, <2>1
<1>7. \E k \in Len(Rows) + 1 .. Len(promised) : Rows' = SubSeq(promised, 1, k)
  BY <1>3, <1>6 DEF d, o
<1> QED BY <1>1, <1>7 DEF Stream!Deliver

\* The driver implements RowStream, whatever its budgets: its consumer gets the
\* promised rows in their order, each once and whole, until all are out or an
\* error or a cancelled query ends the stream early (SeriesStream::poll_next).
\* The liveness half of RowsInOrder stays with the model checker.
THEOREM ImplementsRowStream == Spec => Stream!Init /\ [][Stream!Next]_(Stream!view)
<1>1. Init => Stream!Init
  <2> SUFFICES ASSUME Init PROVE Stream!Init OBVIOUS
  <2>1. delivered = <<>> /\ ended = "open" BY DEF Init
  <2>2. [k \in DOMAIN delivered |-> delivered[k].rows] = <<>>
    BY <2>1
  <2>3. Rows = <<>> BY <2>2, FlattenNone, Zenon DEF Rows
  <2> QED BY <2>1, <2>3 DEF Stream!Init
<1>2. RowsInv /\ [Next]_vars => [Stream!Next]_(Stream!view)
  <2> SUFFICES ASSUME RowsInv, [Next]_vars PROVE [Stream!Next]_(Stream!view) OBVIOUS
  <2>1. CASE Emit BY <2>1, EmitDelivers DEF Stream!Next
  <2>2. CASE EndOfRows
    <3>1. /\ ended = "open" /\ ended' = "done" /\ UNCHANGED <<promised, delivered>>
          /\ batch = None /\ ~input /\ current = None /\ output = None
      BY <2>2 DEF EndOfRows, Drained, Turn, Release, RowsInv, IInv, Placed
    <3>2. FlagsOK /\ ValuesOK /\ delivered \in Seq(Output) BY TypeParts DEF RowsInv, IInv
    <3>3. sent = Len(source.batches) /\ Len(source.batches) \in Nat
      BY <3>1, <3>2, StreamAssumption DEF RowsInv, AtEdge, ValuesOK
    <3>4. SubSeq(source.batches, sent + 1, Len(source.batches)) = <<>>
      BY <3>3, SubSeqEmpty
    <3>5. Unsent = <<>> /\ Remaining = <<>> /\ InFold = <<>> /\ InOutput = <<>>
      BY <3>1, <3>4, FlattenNone DEF Unsent, Remaining, InFold, InOutput
    <3>6. <<>> \o <<>> = <<>> OBVIOUS
    <3>7. Grouped(InFold \o Unread) = <<>>
      BY <3>5, <3>6, GroupedNone DEF Unread
    <3>8. Rows \in Seq(OutputRow) BY <3>2, RowsTypes
    <3>9. Rows \o <<>> = Rows BY <3>8, ConcatEmptySeq
    <3>10. promised = Rows
      BY <3>1, <3>5, <3>6, <3>7, <3>9 DEF RowsInv, Accounted
    <3>11. Rows' = Rows BY <3>1 DEF Rows
    <3> QED BY <3>1, <3>10, <3>11 DEF Stream!Next, Stream!Finish
  <2>3. CASE Drop \/ Refuse \/ EmitRefused \/ InputFails \/ TooManySamples
    <3>1. /\ ended = "open" /\ ended' \in {"failed", "dropped"}
          /\ UNCHANGED <<promised, delivered>>
      BY <2>3 DEF Drop, Refuse, EmitRefused, InputFails, TooManySamples, Drained, Turn,
         InFinish, Release, RowsInv, IInv, Placed
    <3>2. Rows' = Rows BY <3>1 DEF Rows
    <3> QED BY <3>1, <3>2 DEF Stream!Next, Stream!Stop
  <2>4. CASE InputArrives \/ Demand \/ Poll \/ Charge \/ Yield \/ StartUpdate \/ FinishLast
     \/ AwaitInput \/ TakeBatch \/ InputEnds \/ UpdateEnds \/ EnterRow \/ Settle
     \/ LeaveSeries \/ EnterBlock \/ OpenSeries \/ PushRow \/ SuspendRow \/ SealSeries
     \/ SuspendClose \/ HoldRow \/ CopyRow \/ DropFold
    <3>1. UNCHANGED <<promised, delivered, ended>>
      BY <2>4 DEF InputArrives, Demand, Poll, Charge, Yield, StartUpdate, FinishLast,
         AwaitInput, TakeBatch, InputEnds, UpdateEnds, EnterRow, Settle, LeaveSeries,
         EnterBlock, OpenSeries, PushRow, SuspendRow, SealSeries, SuspendClose, HoldRow,
         CopyRow, DropFold, upstream
    <3>2. Rows' = Rows BY <3>1 DEF Rows
    <3> QED BY <3>1, <3>2 DEF Stream!view
  <2>5. CASE UNCHANGED vars
    <3>1. UNCHANGED <<promised, delivered, ended>> BY <2>5 DEF vars, upstream
    <3>2. Rows' = Rows BY <3>1 DEF Rows
    <3> QED BY <3>1, <3>2 DEF Stream!view
  <2> QED
    BY <2>1, <2>2, <2>3, <2>4, <2>5 DEF Next, Run, PollInner, Update, FinishSeries
<1> QED BY <1>1, <1>2, InitRows, NextRows, PTL DEF Spec
=============================================================================
