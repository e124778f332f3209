----------------------------- MODULE SeriesStream -----------------------------
(***************************************************************************)
(* SeriesStream (promql-engine/src/series_eval/exec.rs): the sole driver   *)
(* of raw sources.  It groups a partition's raw rows into one evaluated    *)
(* row per series and block, under a work budget per poll, a row and a     *)
(* sample budget per output batch, and a memory reservation.               *)
(*                                                                         *)
(* The fold of a series is WindowBuffer's machine; here a row is the work  *)
(* it takes and the answers it yields, and a fold is the rows pushed into  *)
(* it.  A charge of the reservation may be refused whenever it grows.      *)
(***************************************************************************)
EXTENDS Naturals, Sequences, SequencesExt

CONSTANTS
  BatchSamples,  \* BATCH_SAMPLES
  InputRows,     \* INPUT_ROWS
  WorkUnits,     \* WORK_UNITS
  Turns,         \* the turns of one poll
  MaxSamples,    \* i32::MAX, the samples one column can hold
  CloseWork,     \* what closing a fold takes
  None,          \* an Option's None
  Inputs         \* what the sources a run considers send

\* One raw row: its block and identity, the work of pushing it (none for a
\* row without samples) and the answers it leads to.
RawRow == [block : Nat, id : Nat, work : Nat, yields : Nat]

\* An open series, an evaluated row and the rows of an output batch.
Open == [id : Nat, rows : Seq(RawRow), count : Nat, closing : 0 .. CloseWork,
         sealed : BOOLEAN]
OutputRow == [block : Nat, id : Nat, rows : Seq(RawRow)]
Output == [block : Nat, count : Nat, rows : Seq(OutputRow)]

ASSUME StreamAssumption ==
  /\ None \notin Open \cup Output \cup Seq(RawRow)
  /\ BatchSamples \in Nat \ {0} /\ InputRows \in Nat \ {0}
  /\ WorkUnits \in Nat \ {0} /\ Turns \in Nat \ {0}
  /\ MaxSamples \in Nat /\ CloseWork \in Nat
  /\ \A i \in Inputs :
       /\ i.batches \in Seq(Seq(RawRow)) /\ i.fails \in BOOLEAN
       /\ i.batchSize \in Nat \ {0}

VARIABLES
  source,       \* batches, whether they end in an error, and batch_size
  sent,         \* how many batches the input has handed over
  arrived,      \* the input's next poll is ready
  registered,   \* the input holds the task's waker
  input,        \* the input stream is still open
  batch, from,  \* pending
  cursor,       \* push_cursor: the work done on the row in hand
  block, current, output, outputReady,
  reserved,     \* the reservation
  due,          \* a charge of the reservation comes next
  budget, turns, until, pc,
  woken,        \* the task is scheduled
  delivered,    \* the batches handed downstream
  ended,
  promised      \* history: one row per series and block of the source

task == <<pc, woken>>
upstream == <<source, sent, arrived, registered, input, promised>>
held == <<batch, from, cursor, block, current, output, outputReady>>
poll == <<budget, turns, until>>
vars == <<upstream, held, poll, task, reserved, due, delivered, ended>>

-----------------------------------------------------------------------------
RowOf(b, id, rows) == [block |-> b, id |-> id, rows |-> rows]

\* Consecutive raw rows of one identity in one block are one row.
Continues(groups, r) ==
  groups # <<>> /\ Last(groups).block = r.block /\ Last(groups).id = r.id

GroupedWith(groups, r) ==
  IF Continues(groups, r) THEN [groups EXCEPT ![Len(groups)].rows = Append(@, r)]
  ELSE Append(groups, RowOf(r.block, r.id, <<r>>))

Grouped(raw) == FoldLeft(GroupedWith, <<>>, raw)

\* What is held, in units of a batch, an open fold and its rows, output rows.
Size ==
  (IF batch = None THEN 0 ELSE 1)
    + (IF current = None THEN 0 ELSE 1 + Len(current.rows) + (IF cursor > 0 THEN 1 ELSE 0))
    + (IF output = None THEN 0 ELSE Len(output.rows))

Lesser(a, b) == IF a < b THEN a ELSE b

Init ==
  /\ source \in Inputs
  /\ promised = Grouped(FlattenSeq(source.batches))
  /\ sent = 0 /\ arrived \in BOOLEAN /\ registered = FALSE /\ input = TRUE
  /\ batch = None /\ from = 0 /\ cursor = 0
  /\ block = None /\ current = None /\ output = None /\ outputReady = FALSE
  /\ reserved = 0 /\ due = FALSE
  /\ budget = 0 /\ turns = 0 /\ until = 0
  /\ pc = "idle" /\ woken = TRUE
  /\ delivered = <<>> /\ ended = "open"

\* Variant: the open series outlives the stream.
ReleaseAllButCurrent(how) ==
  /\ input' = FALSE /\ batch' = None /\ from' = 0 /\ cursor' = 0
  /\ block' = None /\ current' = current /\ output' = None /\ outputReady' = FALSE
  /\ reserved' = 0 /\ due' = FALSE
  /\ ended' = how /\ pc' = "ended"
  /\ UNCHANGED <<source, sent, arrived, registered, promised, poll, woken, delivered>>

\* release, and the end of the stream it comes with.
Release(how) ==
  /\ input' = FALSE /\ batch' = None /\ from' = 0 /\ cursor' = 0
  /\ block' = None /\ current' = None /\ output' = None /\ outputReady' = FALSE
  /\ reserved' = 0 /\ due' = FALSE
  /\ ended' = how /\ pc' = "ended"
  /\ UNCHANGED <<source, sent, arrived, registered, promised, poll, woken, delivered>>

-----------------------------------------------------------------------------
(***************************************************************************)
(* The task, its input and its consumer.                                   *)
(***************************************************************************)
InputArrives ==
  /\ ended = "open" /\ ~arrived
  /\ arrived' = TRUE
  /\ registered' = FALSE
  /\ woken' = (woken \/ registered)
  /\ UNCHANGED <<source, sent, input, promised, held, poll, pc, reserved, due,
                 delivered, ended>>

\* The consumer takes a batch and asks for the next.
Demand ==
  /\ pc = "ready"
  /\ pc' = "idle" /\ woken' = TRUE
  /\ UNCHANGED <<upstream, held, poll, reserved, due, delivered, ended>>

Poll ==
  /\ pc = "idle" /\ woken
  /\ woken' = FALSE /\ pc' = "turn"
  /\ turns' = Turns /\ budget' = WorkUnits
  /\ UNCHANGED <<upstream, held, until, reserved, due, delivered, ended>>

\* The query is cancelled between two polls.
Drop == pc \in {"idle", "ready"} /\ Release("dropped")

\* charge: try_resize succeeds, or is refused and the error ends the stream.
Charge ==
  /\ due
  /\ due' = FALSE /\ reserved' = Size
  /\ UNCHANGED <<upstream, held, poll, task, delivered, ended>>

Refuse == due /\ Size > reserved /\ Release("failed")

\* Variant: Poll::Pending without the wake.
YieldUnwoken ==
  /\ ~due
  /\ pc = "yield" \/ (pc = "turn" /\ turns = 0)
  /\ pc' = "idle"
  /\ UNCHANGED <<upstream, held, poll, woken, reserved, due, delivered, ended>>

\* wake_by_ref and Poll::Pending.
Yield ==
  /\ ~due
  /\ pc = "yield" \/ (pc = "turn" /\ turns = 0)
  /\ pc' = "idle" /\ woken' = TRUE
  /\ UNCHANGED <<upstream, held, poll, reserved, due, delivered, ended>>

-----------------------------------------------------------------------------
(***************************************************************************)
(* poll_inner's loop.                                                      *)
(***************************************************************************)
Turn == pc = "turn" /\ ~due /\ turns > 0
NextTurn == pc' = "turn" /\ turns' = turns - 1

\* emit: the arrays are charged on top, then the builders are gone.
Emit ==
  /\ Turn /\ outputReady
  /\ delivered' = Append(delivered, output)
  /\ output' = None /\ outputReady' = FALSE
  /\ IF ~input /\ current = None /\ batch = None
     THEN /\ from' = 0 /\ cursor' = 0 /\ block' = None /\ current' = current
          /\ batch' = batch /\ reserved' = 0
     ELSE UNCHANGED <<batch, from, cursor, block, current>> /\ reserved' = Size'
  /\ pc' = "ready"
  /\ UNCHANGED <<upstream, poll, woken, due, ended>>

EmitRefused == Turn /\ outputReady /\ Release("failed")

StartUpdate ==
  /\ Turn /\ ~outputReady /\ batch # None
  /\ pc' = "update"
  /\ until' = Lesser(Len(batch), from + Lesser(source.batchSize, InputRows))
  /\ UNCHANGED <<upstream, held, budget, turns, woken, reserved, due, delivered, ended>>

Drained == Turn /\ ~outputReady /\ batch = None

\* The input has ended: finish the open series, or end.  DropFold flushes what
\* a finished last series leaves, so no output is left over without one.
FinishLast ==
  /\ Drained /\ ~input /\ current # None
  /\ pc' = "finish"
  /\ UNCHANGED <<upstream, held, poll, woken, reserved, due, delivered, ended>>

EndOfRows == Drained /\ ~input /\ current = None /\ output = None /\ Release("done")

\* Poll::Pending: flush what is finished before going to sleep.
AwaitInput ==
  /\ Drained /\ input /\ ~arrived
  /\ registered' = TRUE
  /\ IF output # None
     THEN outputReady' = TRUE /\ NextTurn
     ELSE pc' = "idle" /\ UNCHANGED <<outputReady, turns>>
  /\ UNCHANGED <<source, sent, arrived, input, promised, batch, from, cursor, block,
                 current, output, budget, until, woken, reserved, due, delivered, ended>>

TakeBatch ==
  /\ Drained /\ input /\ arrived /\ sent < Len(source.batches)
  /\ sent' = sent + 1 /\ arrived' \in BOOLEAN
  /\ batch' = source.batches[sent + 1] /\ from' = 0
  /\ due' = TRUE
  /\ NextTurn
  /\ UNCHANGED <<source, registered, input, promised, cursor, block, current, output,
                 outputReady, budget, until, woken, reserved, delivered, ended>>

InputEnds ==
  /\ Drained /\ input /\ arrived /\ sent = Len(source.batches) /\ ~source.fails
  /\ input' = FALSE
  /\ NextTurn
  /\ UNCHANGED <<source, sent, arrived, registered, promised, held, budget, until, woken,
                 reserved, due, delivered, ended>>

InputFails ==
  /\ Drained /\ input /\ arrived /\ sent = Len(source.batches) /\ source.fails
  /\ Release("failed")

-----------------------------------------------------------------------------
(***************************************************************************)
(* update_budgeted: the raw rows of one batch.                             *)
(***************************************************************************)
InUpdate == pc = "update" /\ ~due

UpdateEnds ==
  /\ InUpdate
  /\ from = until \/ budget = 0
  /\ due' = TRUE /\ pc' = "settle"
  /\ UNCHANGED <<upstream, held, poll, woken, reserved, delivered, ended>>

EnterRow ==
  /\ InUpdate /\ from < until /\ budget > 0
  /\ pc' = "row"
  /\ UNCHANGED <<upstream, held, poll, woken, reserved, due, delivered, ended>>

\* Variant: a consumed batch is dropped without a charge.
SettleUncharged ==
  /\ pc = "settle" /\ ~due
  /\ IF from = Len(batch) THEN batch' = None /\ from' = 0 ELSE UNCHANGED <<batch, from>>
  /\ IF outputReady THEN NextTurn ELSE pc' = "yield" /\ turns' = turns
  /\ UNCHANGED <<upstream, cursor, block, current, output, outputReady, budget, until,
                 woken, reserved, due, delivered, ended>>

\* A batch is kept whole until its last row is consumed.  A finished output
\* goes out at once; otherwise the task yields.
Settle ==
  /\ pc = "settle" /\ ~due
  /\ due' = TRUE
  /\ IF from = Len(batch) THEN batch' = None /\ from' = 0 ELSE UNCHANGED <<batch, from>>
  /\ IF outputReady THEN NextTurn ELSE pc' = "yield" /\ turns' = turns
  /\ UNCHANGED <<upstream, cursor, block, current, output, outputReady, budget, until,
                 woken, reserved, delivered, ended>>

InRow == pc = "row" /\ ~due
RawAt == batch[from + 1]
ChangedBlock == block # RawAt.block
ChangedId == current # None /\ current.id # RawAt.id

\* An edge of a block or of an identity closes the open series first.
LeaveSeries ==
  /\ InRow /\ current # None
  /\ ChangedBlock \/ ChangedId
  /\ pc' = "finish"
  /\ UNCHANGED <<upstream, held, poll, woken, reserved, due, delivered, ended>>

\* Variant: a new block joins the output of the old one.
EnterBlockUnflushed ==
  /\ InRow /\ ChangedBlock /\ current = None
  /\ block' = RawAt.block
  /\ UNCHANGED <<upstream, batch, from, cursor, current, output, outputReady, poll, task,
                 reserved, due, delivered, ended>>

\* A new block begins with no output row of the old one left.
EnterBlock ==
  /\ InRow /\ ChangedBlock /\ current = None
  /\ IF output # None
     THEN outputReady' = TRUE /\ pc' = "settle" /\ block' = block
     ELSE block' = RawAt.block /\ UNCHANGED <<outputReady, pc>>
  /\ UNCHANGED <<upstream, batch, from, cursor, current, output, poll, woken, reserved,
                 due, delivered, ended>>

OpenSeries ==
  /\ InRow /\ ~ChangedBlock /\ current = None
  /\ current' = [id |-> RawAt.id, rows |-> <<>>, count |-> 0, closing |-> 0, sealed |-> FALSE]
  /\ UNCHANGED <<upstream, batch, from, cursor, block, output, outputReady, poll, task,
                 reserved, due, delivered, ended>>

Pushing == InRow /\ ~ChangedBlock /\ ~ChangedId /\ current # None
WorkLeft == RawAt.work - cursor

\* Variant: a row's work overdraws the budget.
PushRowOverdrawn ==
  /\ Pushing
  /\ budget' = budget - WorkLeft
  /\ current' = [current EXCEPT !.rows = Append(@, RawAt), !.count = @ + RawAt.yields]
  /\ from' = from + 1 /\ cursor' = 0
  /\ pc' = "update"
  /\ UNCHANGED <<upstream, batch, block, output, outputReady, turns, until, woken,
                 reserved, due, delivered, ended>>

PushRow ==
  /\ Pushing /\ WorkLeft <= budget
  /\ budget' = budget - WorkLeft
  /\ current' = [current EXCEPT !.rows = Append(@, RawAt), !.count = @ + RawAt.yields]
  /\ from' = from + 1 /\ cursor' = 0
  /\ pc' = "update"
  /\ UNCHANGED <<upstream, batch, block, output, outputReady, turns, until, woken,
                 reserved, due, delivered, ended>>

\* The budget is spent inside the row: its cursor is kept.
SuspendRow ==
  /\ Pushing /\ WorkLeft > budget
  /\ cursor' = cursor + budget /\ budget' = 0
  /\ due' = TRUE /\ pc' = "settle"
  /\ UNCHANGED <<upstream, batch, from, block, current, output, outputReady, turns, until,
                 woken, reserved, delivered, ended>>

-----------------------------------------------------------------------------
(***************************************************************************)
(* finish_series_budgeted, for an edge inside a batch or for the end of    *)
(* the input.                                                              *)
(***************************************************************************)
InFinish == pc = "finish" /\ ~due
CloseLeft == CloseWork - current.closing

SealSeries ==
  /\ InFinish /\ ~current.sealed /\ CloseLeft <= budget
  /\ budget' = budget - CloseLeft
  /\ current' = [current EXCEPT !.closing = CloseWork, !.sealed = TRUE]
  /\ due' = TRUE
  /\ UNCHANGED <<upstream, batch, from, cursor, block, output, outputReady, turns, until,
                 task, reserved, delivered, ended>>

SuspendClose ==
  /\ InFinish /\ ~current.sealed /\ CloseLeft > budget
  /\ current' = [current EXCEPT !.closing = @ + budget]
  /\ budget' = 0 /\ due' = TRUE
  /\ pc' = IF batch # None THEN "settle" ELSE "yield"
  /\ UNCHANGED <<upstream, batch, from, cursor, block, output, outputReady, turns, until,
                 woken, reserved, delivered, ended>>

Total == current.count + IF output = None THEN 0 ELSE output.count
Overfull == output # None /\ Total > BatchSamples

\* Variant: a sealed row that cannot join the output is dropped.
HoldRowLost ==
  /\ InFinish /\ current.sealed /\ Overfull
  /\ outputReady' = TRUE /\ current' = None /\ due' = TRUE
  /\ IF batch # None THEN pc' = "settle" /\ turns' = turns ELSE NextTurn
  /\ UNCHANGED <<upstream, batch, from, cursor, block, output, budget, until,
                 woken, reserved, delivered, ended>>

\* The sealed row waits for the output it cannot join to go out.
HoldRow ==
  /\ InFinish /\ current.sealed /\ Overfull
  /\ outputReady' = TRUE
  /\ IF batch # None THEN pc' = "settle" /\ turns' = turns ELSE NextTurn
  /\ UNCHANGED <<upstream, batch, from, cursor, block, current, output, budget, until,
                 woken, reserved, due, delivered, ended>>

TooManySamples ==
  InFinish /\ current.sealed /\ ~Overfull /\ Total > MaxSamples /\ Release("failed")

\* The row is copied while its fold is still held and charged.
CopyRow ==
  /\ InFinish /\ current.sealed /\ ~Overfull /\ Total <= MaxSamples
  /\ LET row == RowOf(block, current.id, current.rows)
     IN  output' = [block |-> block, count |-> Total,
                    rows  |-> IF output = None THEN <<row>> ELSE Append(output.rows, row)]
  /\ due' = TRUE /\ pc' = "copied"
  /\ UNCHANGED <<upstream, batch, from, cursor, block, current, outputReady, poll, woken,
                 reserved, delivered, ended>>

\* The next identity opens only if the output is not full.
DropFold ==
  /\ pc = "copied" /\ ~due
  /\ current' = None
  /\ outputReady' = \/ Len(output.rows) >= source.batchSize
                     \/ output.count >= BatchSamples
                     \/ batch = None
  /\ due' = TRUE
  /\ IF batch = None THEN NextTurn
     ELSE pc' = (IF outputReady' THEN "settle" ELSE "row") /\ turns' = turns
  /\ UNCHANGED <<upstream, batch, from, cursor, block, output, budget, until, woken,
                 reserved, delivered, ended>>

-----------------------------------------------------------------------------
Update ==
  \/ UpdateEnds \/ EnterRow \/ Settle
  \/ LeaveSeries \/ EnterBlock \/ OpenSeries \/ PushRow \/ SuspendRow

FinishSeries ==
  SealSeries \/ SuspendClose \/ HoldRow \/ TooManySamples \/ CopyRow \/ DropFold

PollInner ==
  \/ Emit \/ EmitRefused \/ StartUpdate \/ FinishLast \/ EndOfRows
  \/ AwaitInput \/ TakeBatch \/ InputEnds \/ InputFails

\* What the runtime runs to its end once the task is polled.
Run == Charge \/ Refuse \/ Yield \/ PollInner \/ Update \/ FinishSeries

Next == InputArrives \/ Demand \/ Poll \/ Drop \/ Run

\* The runtime polls a woken task and runs it, the input answers in the end,
\* and the consumer asks for more.  Nothing makes a query be cancelled.
Spec ==
  /\ Init /\ [][Next]_vars
  /\ WF_vars(Poll) /\ WF_vars(Run) /\ WF_vars(InputArrives) /\ WF_vars(Demand)

-----------------------------------------------------------------------------
TypeOK ==
  /\ source \in Inputs /\ sent \in 0 .. Len(source.batches)
  /\ arrived \in BOOLEAN /\ registered \in BOOLEAN /\ input \in BOOLEAN
  /\ outputReady \in BOOLEAN /\ due \in BOOLEAN /\ woken \in BOOLEAN
  /\ batch \in Seq(RawRow) \cup {None} /\ from \in Nat /\ cursor \in Nat
  /\ batch # None => from <= Len(batch)
  /\ block \in Nat \cup {None} /\ current \in Open \cup {None}
  /\ output \in Output \cup {None}
  /\ reserved \in Nat /\ budget \in 0 .. WorkUnits /\ turns \in 0 .. Turns
  /\ until \in Nat
  /\ pc \in {"idle", "turn", "yield", "ready", "update", "settle", "row", "finish",
              "copied", "ended"}
  /\ ended \in {"open", "done", "failed", "dropped"}

Rows == FlattenSeq([k \in DOMAIN delivered |-> delivered[k].rows])

(***************************************************************************)
(* One row per series and block, in source order, whole: nothing of a      *)
(* pending batch, a suspended row or a sealed fold is lost or repeated by  *)
(* a spent budget, a full output, an early flush or an input that stalls,  *)
(* and the stream ends once all rows are out, or early for an error.       *)
(***************************************************************************)
Stream == INSTANCE RowStream WITH rows <- promised, delivered <- Rows

RowsInOrder == Stream!Spec

(***************************************************************************)
(* "One batch never straddles a block edge" (exec.rs), is never empty,     *)
(* and keeps its row and sample budgets unless one row alone exceeds them. *)
(***************************************************************************)
BatchesAreBounded ==
  \A k \in DOMAIN delivered :
    LET b == delivered[k]
    IN  /\ b.rows # <<>> /\ Len(b.rows) <= source.batchSize
        /\ \A n \in DOMAIN b.rows : b.rows[n].block = b.block
        /\ b.count <= BatchSamples \/ Len(b.rows) = 1

(***************************************************************************)
(* Whenever the task is not running, what it holds is charged: an early    *)
(* return that skips its checkpoint would hide memory from the pool while  *)
(* the task sleeps.                                                        *)
(***************************************************************************)
ReservationCoversHeld == pc \in {"idle", "ready", "ended"} => ~due /\ reserved = Size

(***************************************************************************)
(* A sleeping task is woken or will be: the input holds its waker.  And it *)
(* never sleeps on a finished row it could have handed over.               *)
(***************************************************************************)
SleepsSafely ==
  pc = "idle" /\ ~woken => registered /\ ~arrived /\ output = None

(***************************************************************************)
(* An end of any kind leaves nothing held.                                 *)
(***************************************************************************)
EndsReleased ==
  ended # "open" =>
    /\ batch = None /\ current = None /\ output = None /\ block = None
    /\ reserved = 0 /\ ~outputReady /\ cursor = 0
=============================================================================
