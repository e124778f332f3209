----------------------------- MODULE MCResults -----------------------------
(***************************************************************************)
(* Without a sort, every result of up to three rows, in one or two         *)
(* batches: rows of every label set of two columns in one block, and rows  *)
(* of two label sets at every choice of times in two blocks of three and   *)
(* of two steps.  Sorted by value, every three rows of a few values, NaN   *)
(* and none; sorted by labels, every two label values of a few bytes that  *)
(* numbers, texts and the marks of a key are made of.                      *)
(***************************************************************************)
EXTENDS Results

\* Values of up to two bytes of NUL, one below the digits, two digits and a letter,
\* and some longer ones, in byte order.
MCText ==
  <<
    <<0>>, <<0, 0>>, <<0, 33>>, <<0, 48>>, <<0, 55>>, <<0, 97>>, <<33>>, <<33, 0>>,
    <<33, 33>>, <<33, 48>>, <<33, 55>>, <<33, 97>>, <<48>>, <<48, 0>>, <<48, 33>>,
    <<48, 48>>, <<48, 48, 55>>, <<48, 55>>, <<48, 55, 55>>, <<48, 55, 97, 48>>, <<48, 97>>,
    <<55>>, <<55, 0>>, <<55, 0, 48>>, <<55, 33>>, <<55, 48>>, <<55, 48, 48>>, <<55, 55>>,
    <<55, 97>>, <<55, 97, 55>>, <<97>>, <<97, 0>>, <<97, 33>>, <<97, 48>>, <<97, 48, 55>>,
    <<97, 55>>, <<97, 55, 0>>, <<97, 55, 48>>, <<97, 97>>
  >>

\* Label names of which one begins another.
MCColumnNames == <<<<97>>, <<97, 98>>>>

Ascending(times) ==
  [n \in 1 .. Cardinality(times) |->
     CHOOSE t \in times : Cardinality({u \in times : u < t}) = n - 1]

Row(labels, start, times, value) ==
  [labels |-> labels, start |-> start, times |-> times, value |-> value]

LabelRows == {Row(<<a, b>>, 1, <<1>>, 0) : a, b \in 0 .. 2}

TimedRows ==
  {Row(labels, 1, Ascending(times), 0) : labels \in {<<1, 0>>, <<1, 1>>}, times \in SUBSET (1 .. 3)}
  \cup {Row(labels, 4, Ascending(times), 0) :
          labels \in {<<1, 0>>, <<1, 1>>}, times \in SUBSET (4 .. 5)}

ValuedRows ==
  {Row(labels, 1, <<1>>, value) : labels \in {<<1, 0>>, <<0, 1>>, <<2, 0>>}, value \in {1, 2, NaN}}
  \cup {Row(<<1, 0>>, 1, <<>>, 0)}

NamedRows == {Row(<<a, 0>>, 1, <<1>>, 0) : a \in 0 .. Len(Text)}

\* The row at a place of a batch, the id-th to come.
At(id, batch, place, row) ==
  [id |-> id, labels |-> row.labels, start |-> row.start, times |-> row.times,
   value |-> row.value, at |-> <<batch, place>>]

Batched(sort, first, second) == [sort |-> sort, batches |-> <<first, second>>]

Sort(func, labels) == <<[func |-> func, labels |-> labels]>>

\* By one label, by none, and by one the schema lacks before one it has.
LabelSorts ==
  {Sort(func, labels) : func \in {"sort_by_label", "sort_by_label_desc"},
                        labels \in {<<<<97>>>>, <<>>, <<<<98>>, <<97>>>>}}

MCQueries ==
  <<
    {Batched(NoSort, <<At(1, 1, 1, x), At(2, 1, 2, y)>>, <<At(3, 2, 1, z)>>) :
       x, y, z \in LabelRows},
    {Batched(NoSort, <<At(1, 1, 1, x), At(2, 1, 2, y), At(3, 1, 3, z)>>, <<>>) :
       x, y, z \in TimedRows},
    {Batched(NoSort, <<At(1, 1, 1, x)>>, <<At(2, 2, 1, y)>>) : x, y \in TimedRows},
    {Batched(Sort(func, <<>>), <<At(1, 1, 1, x), At(2, 1, 2, y)>>, <<At(3, 2, 1, z)>>) :
       func \in {"sort", "sort_desc"}, x, y, z \in ValuedRows},
    {Batched(sort, <<At(1, 1, 1, x)>>, <<At(2, 2, 1, y)>>) :
       sort \in LabelSorts, x, y \in NamedRows},
    {Batched(sort, <<At(1, 1, 1, x)>>, <<At(2, 2, 1, y)>>) :
       sort \in LabelSorts, x, y \in LabelRows}>>
=============================================================================
