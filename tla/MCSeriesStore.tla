---------------------------- MODULE MCSeriesStore ----------------------------
(* A small instance of SeriesStore for TLC. *)
EXTENDS SeriesStore

\* Letters
a == 97
b == 98
m == 109
n == 110
x == 120
y == 121

\* One of the keys has an `=' sign in a tag's value.
PlainKeys ==
  {[metric_name |-> <<n>>, tags |-> (<<a>> :> <<x>>)],
   [metric_name |-> <<m>>, tags |-> (<<a>> :> <<x>>) @@ (<<b>> :> <<y>>)],
   [metric_name |-> <<m>>, tags |-> (<<a>> :> <<x, Equals, y>>)]}

ASSUME PlainAssumption == \A k \in PlainKeys : Plain(k)

MCTimes == {I64MIN, 0, I64MAX}

=============================================================================
