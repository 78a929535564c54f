---------------------------- MODULE EfCalibration ----------------------------
(***************************************************************************)
(* The calibration of ef (shiro_ef.h, EfAdapter and RecallEstimator) and    *)
(* the lookups in its result (sketch.h, Sketch).                            *)
(*                                                                         *)
(* The training queries are sorted by convergence and cut into n buckets.   *)
(* For each bucket, two batches of searches give each group of queries with *)
(* one score a recall at ef = K and at ef = 1.5 K; the ef of a group is then *)
(* raised, batch by batch, until its recall is reached, the recall stops    *)
(* growing, or ef is at its bound; the ef chosen for the groups are spread  *)
(* over all scores.  The sketch interpolates between buckets.               *)
(*                                                                         *)
(* Queries are named by their rank of convergence.  What a batch of          *)
(* searches finds is any of Outcomes.  Recalls are numbers of which Unit is *)
(* a recall of 1; one read past the end of a vector is any float.           *)
(***************************************************************************)
EXTENDS Integers, Sequences, FiniteSets, FiniteSetsExt

CONSTANTS
  NumQueries,    \* training queries
  MaxScore,      \* the largest score, 100 in the code
  K,             \* results per query
  EfUpper,       \* ef_upper_bound
  MinQueries,    \* min_queries_per_score
  Unit, Eps,     \* a recall of 1, and the 1e-4 of the comparisons
  Expected, Easy,\* expected_recall and easy_recall_
  BucketCounts,  \* the values of n_convergence_buckets
  ScoreLists,    \* the lists of scores that the queries may have
  ConvLists,     \* the lists of convergences, sorted
  Outcomes,      \* the numbers of hits per query that a batch may have
  Junk,          \* what memory past the end of a vector may hold, per query
  NaN,           \* stands for the float NaN, below every number
  IntMax         \* the largest int

Queries == 1..NumQueries
Scores == 0..MaxScore
SecondEf == (3 * K) \div 2

ASSUME Parameters ==
  /\ NumQueries \in Nat \ {0} /\ MaxScore \in Nat /\ K \in Nat \ {0}
  /\ EfUpper \in Nat \ {0} /\ MinQueries \in Nat
  /\ Unit \in Nat /\ Eps \in Nat \ {0}
  /\ Expected \in 0..Unit /\ Easy \in 0..Unit
  /\ NaN \in Int /\ NaN < 0 /\ IntMax \in Nat
  /\ \A junk \in Junk, q \in Queries : junk[q] \in Int /\ junk[q] >= NaN
  /\ BucketCounts \subseteq Nat \ {0}
  /\ ScoreLists \subseteq [Queries -> Scores]
  /\ ConvLists \subseteq [Queries -> Nat]
  /\ Outcomes \subseteq [Queries -> 0..K]

VARIABLES
  n, score, conv,   \* the input: number of buckets, scores and convergences
  t,                \* the bucket at work
  pc,
  todo,             \* the groups whose ef is not yet raised
  list,             \* out_table: the (ef, recall) pairs of each group
  diff,             \* ef_diff and recall_diff
  tables,           \* convergence_buckets: the ef for every score
  batch,            \* history: the hits of the last estimation
  tried             \* history: every pair a group was evaluated at

vars == <<n, score, conv, t, pc, todo, list, diff, tables, batch, tried>>
input == <<n, score, conv>>

(***************************************************************************)
(* Buckets and groups                                                      *)
(***************************************************************************)
Chunk == NumQueries \div n
First(b) == (b - 1) * Chunk
End(b) == IF b = n THEN NumQueries ELSE b * Chunk
Bucket(b) == First(b) + 1 .. End(b)

\* convergence_centers: the convergence of a bucket's middle query.
Center(b) == conv[(First(b) + End(b)) \div 2 + 1]
ConvP20 == conv[(2 * (NumQueries - 1) + 5) \div 10 + 1]
Target(b) == IF Center(b) <= ConvP20 THEN Expected ELSE Easy

Group(s) == {q \in Bucket(t) : score[q] = s}
Groups == {s \in Scores : Group(s) # {} /\ Cardinality(Group(s)) >= MinQueries}

(***************************************************************************)
(* Recalls                                                                 *)
(***************************************************************************)
Total(f, S) == MapThenSumSet(LAMBDA x : f[x], S)
RecallOf(hits, q) == (hits[q] * Unit) \div K

\* The recalls without the zeros, in the order of the bucket's queries: the
\* i-th one is that of the i-th query with a hit.
Recalls(hits, i) ==
  {q \in Bucket(t) : hits[q] > 0 /\ Cardinality({p \in Bucket(t) : p <= q /\ hits[p] > 0}) = i}

\* The recall of query i is read at position i all the same: further on it is
\* that of a later query, or whatever lies behind the vector.
ReadRecall(hits, q, junk) ==
  LET there == Recalls(hits, q - First(t))
  IN  IF there = {} THEN junk[q] ELSE RecallOf(hits, CHOOSE r \in there : TRUE)

GroupAverage(s, hits, junk) ==
  LET read == [q \in Group(s) |-> ReadRecall(hits, q, junk)]
  IN  IF \E q \in Group(s) : read[q] = NaN THEN NaN
      ELSE Total(read, Group(s)) \div Cardinality(Group(s))

\* The average over a group's own queries with a hit.
Average(s, hits) ==
  LET found == {q \in Group(s) : hits[q] > 0}
  IN  IF found = {} THEN NaN ELSE (Total(hits, found) * Unit) \div (K * Cardinality(found))

\* recall_diff between two recalls, as the division by it sees it.
Rise(a, b) == IF NaN \in {a, b} THEN NaN ELSE Max({b - a, Eps})

\* A float as an int: one that no int holds gives the least int, as NaN does.
Converted(x) == IF x \in -IntMax - 1 .. IntMax THEN x ELSE -IntMax - 1

Pair(ef, recall) == [ef |-> ef, recall |-> recall]
LastOf(seq) == seq[Len(seq)]
Reaches(pair, b) == pair.recall >= Target(b)

(***************************************************************************)
(* Calibration of a bucket                                                 *)
(***************************************************************************)
Init ==
  /\ n \in BucketCounts /\ score \in ScoreLists /\ conv \in ConvLists
  /\ t = 1 /\ pc = "first" /\ todo = {} /\ list = <<>> /\ diff = Pair(0, Eps)
  /\ tables = <<>> /\ batch = <<>> /\ tried = <<>>

\* The differences that the raising of group s begins with.
FirstDiff(lists, s) ==
  Pair(lists[s][2].ef - lists[s][1].ef, Rise(lists[s][1].recall, lists[s][2].recall))

\* Mutant: the loop over the groups starts over.
EnterAgain(rest, lists) ==
  /\ todo' = IF rest = {} THEN {} ELSE Groups
  /\ pc' = IF rest = {} THEN "fill" ELSE "raise"
  /\ diff' = IF rest = {} THEN Pair(0, Eps) ELSE FirstDiff(lists, Min(Groups))

\* Go on with the smallest score of rest, or to the filling of the table.
Enter(rest, lists) ==
  /\ todo' = rest
  /\ pc' = IF rest = {} THEN "fill" ELSE "raise"
  /\ diff' = IF rest = {} THEN Pair(0, Eps) ELSE FirstDiff(lists, Min(rest))

EstimateFirst ==
  /\ pc = "first" /\ pc' = "second"
  /\ \E hits \in Outcomes, junk \in Junk :
       /\ list' = [s \in Groups |-> <<Pair(K, GroupAverage(s, hits, junk))>>]
       /\ tried' = [s \in Groups |-> {Pair(K, GroupAverage(s, hits, junk))}]
       /\ batch' = hits
  /\ UNCHANGED <<input, t, todo, diff, tables>>

\* The second estimation groups alike, so the sizes never differ.
EstimateSecond ==
  /\ pc = "second"
  /\ \E hits \in Outcomes, junk \in Junk :
       LET pair(s) == Pair(SecondEf, GroupAverage(s, hits, junk))
           lists == [s \in Groups |-> Append(list[s], pair(s))]
       IN  /\ list' = lists
           /\ tried' = [s \in Groups |-> tried[s] \cup {pair(s)}]
           /\ Enter(Groups, lists)
  /\ batch' = <<>>
  /\ UNCHANGED <<input, t, tables>>

InReach(pair) == pair.recall = NaN \/ Target(t) - pair.recall <= Eps

\* How far ef is raised: by the last slope, by half of K at least.
Step(latest) ==
  IF diff.recall = NaN THEN K \div 2
  ELSE Max({Converted((diff.ef * (Target(t) - latest.recall)) \div diff.recall), K \div 2})

\* Mutant: ef is not limited.
NextEfUnbounded(latest) == latest.ef + Step(latest)

NextEf(latest) == Min({latest.ef + Step(latest), EfUpper})

\* A comparison with NaN is false: a batch that finds nothing is no plateau.
Grown(pair, latest) == pair.recall = NaN \/ pair.recall - latest.recall >= Eps

Leaves(pair, latest) == pair.ef = EfUpper \/ ~Grown(pair, latest)

\* One round of the loop: search the group's queries again, keep the pair if
\* the recall has grown, and leave if it has not or ef is at its bound.
Raise ==
  /\ pc = "raise"
  /\ LET s == Min(todo)
         latest == LastOf(list[s])
     IN  /\ ~InReach(latest)
         /\ \E hits \in Outcomes :
              LET pair == Pair(NextEf(latest), Average(s, hits))
                  lists == IF Grown(pair, latest) THEN [list EXCEPT ![s] = Append(@, pair)]
                           ELSE list
              IN  /\ tried' = [tried EXCEPT ![s] = @ \cup {pair}]
                  /\ list' = lists
                  /\ IF Leaves(pair, latest) THEN Enter(todo \ {s}, lists)
                     ELSE /\ diff' = Pair(Step(latest), Rise(latest.recall, pair.recall))
                          /\ UNCHANGED <<todo, pc>>
  /\ UNCHANGED <<input, t, tables, batch>>

Settle ==
  /\ pc = "raise" /\ InReach(LastOf(list[Min(todo)]))
  /\ Enter(todo \ {Min(todo)}, list)
  /\ UNCHANGED <<input, t, list, tables, batch, tried>>

(***************************************************************************)
(* Filling the table of a bucket (FILLING_METHOD 2)                        *)
(***************************************************************************)
\* Mutant: the last pair, whatever the earlier ones reached.
ChosenLast(s) == LastOf(list[s]).ef

\* The ef of the first pair that reaches the recall, else of the last one.
Chosen(s) ==
  LET good == {i \in DOMAIN list[s] : Reaches(list[s][i], t)}
  IN  IF good = {} THEN LastOf(list[s]).ef ELSE list[s][Min(good)].ef

RoundedDiv(a, b) == (2 * a + b) \div (2 * b)
Distance(a, b) == IF a < b THEN b - a ELSE a - b

\* The longest run of neighbouring scores, the first of the longest, without
\* its ends if there are three or more.
Block(scores) ==
  LET Run(r) == r[1] <= r[2] /\ r[1]..r[2] \subseteq scores
      block == CHOOSE r \in scores \X scores : Run(r) /\ \A q \in scores \X scores :
        Run(q) => q[2] - q[1] < r[2] - r[1] \/ (q[2] - q[1] = r[2] - r[1] /\ r[1] <= q[1])
  IN  IF scores = {} THEN {}
      ELSE IF block[2] - block[1] >= 2 THEN block[1] + 1 .. block[2] - 1 ELSE block[1]..block[2]

\* The average of efs over some scores, weighted by their queries.
MeanEf(efs, scores, default) ==
  IF scores = {} THEN default
  ELSE RoundedDiv(Total([s \in scores |-> efs[s] * Cardinality(Group(s))], scores),
                  Total([s \in scores |-> Cardinality(Group(s))], scores))

\* A hole: the average weighted by the inverse squares of the distances.
Interpolated(efs, s) ==
  LET Square(g) == Distance(s, g) * Distance(s, g)
      weight == [g \in DOMAIN efs |->
                  ProductSet({Square(h) : h \in DOMAIN efs}) \div Square(g)]
  IN  RoundedDiv(Total([g \in DOMAIN efs |-> weight[g] * efs[g]], DOMAIN efs),
                 Total(weight, DOMAIN efs))

\* Mutant: the low scores get the smallest of the averages.
LeftEndLow(ef, left, middle) == Min({ef, left, middle})

\* Low scores get no less than the averages, high scores no more.
LeftEnd(ef, left, middle) == Max({ef, left, middle})
RightEnd(ef, right, middle) == Min({ef, right, middle})

\* The ef of every score; without a group large enough, every ef is 0.
Filled(efs, block) ==
  LET low == Min(DOMAIN efs)
      high == Max(DOMAIN efs)
      middle == MeanEf(efs, block, 0)
      left == MeanEf(efs, {s \in DOMAIN efs : s < Min(block)}, efs[low])
      right == MeanEf(efs, {s \in DOMAIN efs : s > Max(block)}, efs[high])
  IN  [s \in Scores |->
        IF DOMAIN efs = {} THEN 0
        ELSE IF s <= low THEN LeftEnd(efs[low], left, middle)
        ELSE IF s >= high THEN RightEnd(efs[high], right, middle)
        ELSE IF s \in DOMAIN efs THEN efs[s]
        ELSE Interpolated(efs, s)]

ChosenEfs == [s \in Groups |-> Chosen(s)]

Fill ==
  /\ pc = "fill"
  /\ \E efs \in {ChosenEfs}, block \in {Block(Groups)} :
       tables' = Append(tables, Filled(efs, block))
  /\ list' = <<>> /\ tried' = <<>>
  /\ IF t < n THEN t' = t + 1 /\ pc' = "first" ELSE pc' = "done" /\ UNCHANGED t
  /\ UNCHANGED <<input, todo, diff, batch>>

Next == EstimateFirst \/ EstimateSecond \/ Raise \/ Settle \/ Fill

Spec == Init /\ [][Next]_vars /\ WF_vars(Next)

(***************************************************************************)
(* The sketch: from the score and convergence of a search to its ef        *)
(***************************************************************************)
\* smoothed_ef: the average over a score and its two neighbours.
Smoothed(b, s) ==
  IF s < 1 \/ s >= MaxScore THEN tables[b][s]
  ELSE (tables[b][s] + tables[b][s - 1] + tables[b][s + 1]) \div 3

\* Mutant: the pair of centers ends below the convergence.
BracketBelow(c) ==
  LET below == {b \in 1..n : Center(b) <= c}
  IN  IF Cardinality(below) < 2 THEN <<1, 1>> ELSE <<Max(below) - 1, Max(below)>>

\* Mutant: without the test for the first center.
BracketFromStart(c) ==
  IF n = 1 \/ c >= Center(n) THEN <<n, n>>
  ELSE LET above == Min({b \in 2..n : c <= Center(b)}) IN <<above - 1, above>>

\* The buckets whose centers enclose a convergence.
Bracket(c) ==
  IF c <= Center(1) THEN <<1, 1>>
  ELSE IF c >= Center(n) THEN <<n, n>>
  ELSE LET above == Min({b \in 2..n : c <= Center(b)}) IN <<above - 1, above>>

\* estimate_ef2: the linear interpolation between the two.
EstimateEf(s, c) ==
  LET b == Bracket(c)
      width == Center(b[2]) - Center(b[1])
      before == c - Center(b[1])
  IN  IF b[1] = b[2] THEN Smoothed(b[1], s)
      ELSE RoundedDiv(Smoothed(b[1], s) * (width - before) + Smoothed(b[2], s) * before, width)

(***************************************************************************)
(* Properties                                                              *)
(***************************************************************************)
Efs == 0..Max({EfUpper, SecondEf})
Pairs == [ef : Efs, recall : Int]

\* The pairs of each group, the buckets' tables and the history stay typed; in
\* particular no ef passes ef_upper_bound and 1.5 k, whatever float is read as a
\* recall.  (Of the recalls themselves nothing holds: see Junk.)
TypeOK ==
  /\ n \in BucketCounts /\ score \in ScoreLists /\ conv \in ConvLists
  /\ t \in 1..n /\ pc \in {"first", "second", "raise", "fill", "done"}
  /\ todo \subseteq Groups
  /\ pc \notin {"first", "done"} =>
       \A s \in Groups : list[s] \in Seq(Pairs) /\ tried[s] \subseteq Pairs
  /\ \A b \in DOMAIN tables : tables[b] \in [Scores -> Efs]

\* The README says that the minimum ef that achieved the recall is used: of all
\* the searches of a group, those dropped on a plateau too, none reached the
\* recall with a smaller ef than the chosen one, and if any did, so did it.
LeastEfChosen ==
  pc = "fill" =>
    \A s \in Groups : LET good == {pair \in tried[s] : Reaches(pair, t)} IN
      good # {} => Chosen(s) = Min({pair.ef : pair \in good})

\* Spreading the ef over all scores stays within what was chosen for some group,
\* keeps what was chosen between the ends, and is cautious at the ends: queries
\* of low scores get no less than their group's ef, those of high scores no more.
FilledFromGroups ==
  pc = "fill" /\ Groups # {} => \E efs \in {ChosenEfs}, block \in {Block(Groups)} :
    LET table == Filled(efs, block)
        range == {efs[s] : s \in DOMAIN efs}
    IN  \A s \in Scores :
          /\ table[s] \in Min(range)..Max(range)
          /\ s <= Min(Groups) => table[s] >= efs[Min(Groups)]
          /\ s \in Groups /\ s # Min(Groups) =>
               IF s = Max(Groups) THEN table[s] <= efs[s] ELSE table[s] = efs[s]

\* With a convergence of their own and no more buckets than queries, the training
\* queries of a bucket are served from the table they trained: alone, or together
\* with a neighbouring one.
ServedByOwnBucket ==
  n <= NumQueries /\ (\A p, q \in Queries : p < q => conv[p] < conv[q]) =>
    \A b \in 1..n : \A q \in Bucket(b) : b \in {Bracket(conv[q])[1], Bracket(conv[q])[2]}

\* Every lookup is defined (the two centers it interpolates between differ) and
\* gives an ef between those of the two buckets for the score and its neighbours.
EstimateEnclosed ==
  pc = "done" =>
    \A s \in Scores, q \in Queries : LET
      b == Bracket(conv[q])
      near == {tables[b[i]][r] : i \in {1, 2}, r \in {p \in Scores : Distance(p, s) <= 1}}
    IN /\ b[1] # b[2] => Center(b[1]) < Center(b[2])
       /\ EstimateEf(s, conv[q]) \in Min(near)..Max(near)

\* The statistics of a group come from its own queries: its average recall is
\* between the lowest and the highest recall among them.
GroupStatistics ==
  pc = "second" =>
    \A s \in Groups : LET own == {RecallOf(batch, q) : q \in Group(s)} IN
      list[s][1].recall \in Min(own)..Max(own)

\* Every calibration ends.
CalibrationEnds == <>(pc = "done")
=============================================================================
