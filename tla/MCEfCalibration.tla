--------------------------- MODULE MCEfCalibration ---------------------------
EXTENDS EfCalibration

\* A block of neighbouring scores with a score apart on either side, two blocks,
\* groups of two, one group, holes.
MCScoreLists == {<<0, 2, 3, 4>>, <<5, 1, 2, 3>>, <<3, 1, 3, 1>>, <<2, 2, 2, 2>>, <<0, 4, 4, 5>>}
MCConvLists == {<<1, 2, 3, 5>>, <<1, 1, 3, 3>>}
MCOutcomes == {<<2, 2, 2, 2>>, <<1, 1, 1, 1>>, <<1, 2, 0, 2>>, <<0, 1, 2, 1>>}
\* A recall, more than any recall, less, no number.
MCNaN == -5000
MCJunk == {[q \in Queries |-> x] : x \in {0, 1500, -3000, NaN}}
=============================================================================
