-------------------------- MODULE BestFirstSearch --------------------------
(***************************************************************************)
(* One best-first search of the base layer of HierarchicalNSW              *)
(* (hnswlib/hnswalg.h) over a graph at rest, while other threads mark and  *)
(* unmark elements deleted.  The four copies of the loop in the source are *)
(* one loop with a mode:                                                   *)
(*   "plain"     searchBaseLayerST for searchKnn;                          *)
(*   "epsilon"   the same loop with an EpsilonSearchStopCondition;         *)
(*   "adaptive"  adaptiveSearchBaseLayerST and adaptiveSearchBaseLayerST2: *)
(*               ef is unlimited until StatsLimit distances are collected, *)
(*               then the sketch chooses it;                               *)
(*   "patience"  searchBaseLayerSTWithPatienceInProximity.                 *)
(* Elements are named by their rank in the order of distance from the      *)
(* query: 1 is the nearest.  Distances do not tie.                         *)
(***************************************************************************)
EXTENDS Integers, FiniteSets, FiniteSetsExt

CONSTANTS
  NumNodes,    \* cur_element_count
  Graphs,      \* the base layers searched: sets of links, level 0 of each element
  K,           \* k, the number of results asked for
  Efs,         \* the values ef_ may have, or the sketch may choose
  StatsLimit,  \* stats_length, the number of distances to collect
  Saturation,  \* common elements of two top-k sets that count as stable
  Patience,    \* stable expansions in a row that end the search
  Epsilon,     \* elements within epsilon_ of the query
  MinItems,    \* min_num_candidates_
  MaxMarks     \* bound: marks set or removed during the search

Nodes == 1..NumNodes
Unlimited == NumNodes + 1   \* numeric_limits<size_t>::max() as an ef
Infinity  == NumNodes + 1   \* numeric_limits<dist_t>::max()
Modes == {"plain", "epsilon", "adaptive", "patience"}

ASSUME SizeAssumption == {NumNodes, K, StatsLimit, MinItems, MaxMarks} \subseteq Nat
ASSUME EfAssumption == Efs \subseteq 1..NumNodes /\ K >= 1
ASSUME PatienceAssumption == Patience \in Nat \ {0} /\ {Saturation, Epsilon} \subseteq Int
ASSUME GraphAssumption == Graphs \subseteq [Nodes -> SUBSET Nodes]

VARIABLES
  mode, links, entry,  \* the kind of search, the graph, the element reached on level 1
  bare,        \* bare_bone_search: num_deleted_ was 0 and there is no filter
  hidden,      \* elements marked deleted, or that the filter rejects
  ef,          \* ef
  collecting,  \* flag_collect_statistics
  evals,       \* edge_evals.size()
  top,         \* top_candidates; the elements returned once pc = "done"
  cand,        \* candidate_set
  bound,       \* lowerBound
  visited,     \* the elements whose visited_array entry has the tag
  rest,        \* the links of the expanded element not yet scanned
  prev,        \* prev_topk_ids
  stable,      \* stable_counter
  pc,          \* "start", "loop", "scan" or "done"
  marks,       \* bound: marks changed so far
  seen,        \* history: elements found admissible when they were visited
  everHidden,  \* history: elements hidden at some time of the search
  everShown    \* history: elements not hidden at some time of the search

request == <<mode, links, entry, bare>>
history == <<marks, everHidden, everShown>>
vars == <<request, hidden, ef, collecting, evals, top, cand, bound, visited, rest,
          prev, stable, pc, seen, history>>

-----------------------------------------------------------------------------

\* What is left of a max-heap when its top is popped until m elements are left.
Nearest(S, m) == {x \in S : Cardinality({y \in S : y < x}) < m}

Admissible(n) == bare \/ n \notin hidden

Init ==
  /\ mode \in Modes
  /\ links \in Graphs
  /\ entry \in Nodes
  /\ bare \in BOOLEAN
  /\ hidden \in SUBSET Nodes
  /\ bare => hidden = {} /\ mode # "epsilon"
  /\ ef \in Efs
  /\ mode # "epsilon" => ef >= K
  /\ mode = "epsilon" => ef >= MinItems
  /\ collecting = FALSE /\ evals = 0
  /\ top = {} /\ cand = {} /\ visited = {} /\ rest = {} /\ bound = Infinity
  /\ prev = {} /\ stable = 0
  /\ pc = "start"
  /\ seen = {} /\ marks = 0
  /\ everHidden = hidden /\ everShown = Nodes \ hidden

\* Mutant: the entry point is a result, deleted or not.
StartUnchecked ==
  /\ pc = "start"
  /\ top' = {entry} /\ seen' = top' /\ bound' = entry
  /\ cand' = {entry} /\ visited' = {entry}
  /\ collecting' = (mode = "adaptive")
  /\ evals' = IF mode = "adaptive" THEN 1 ELSE 0
  /\ ef' = IF mode = "adaptive" THEN Unlimited ELSE ef
  /\ pc' = "loop"
  /\ UNCHANGED <<request, hidden, rest, prev, stable, history>>

(***************************************************************************)
(* The entry point is a candidate in any case, a result if admissible.     *)
(***************************************************************************)
Start ==
  /\ pc = "start"
  /\ top' = {entry} \cap {n \in Nodes : Admissible(n)}
  /\ seen' = top'
  /\ bound' = IF Admissible(entry) THEN entry ELSE Infinity
  /\ cand' = {entry} /\ visited' = {entry}
  /\ collecting' = (mode = "adaptive")
  /\ evals' = IF mode = "adaptive" THEN Cardinality(top') ELSE 0
  /\ ef' = IF mode = "adaptive" THEN Unlimited ELSE ef
  /\ pc' = "loop"
  /\ UNCHANGED <<request, hidden, rest, prev, stable, history>>

\* The distance in candidate_set; the entry point, always the first to be
\* expanded, has the largest there is when it is no result: the bound it set.
Distance(c) == IF c = entry THEN bound ELSE c

\* Mutant: the loop asks no longer whether ef results have been found.
StopSearchEarly(c) ==
  \/ Distance(c) > bound
  \/ mode = "epsilon" /\ Distance(c) > Epsilon /\ Cardinality(top) >= MinItems

(***************************************************************************)
(* The bare loop does not ask whether ef results have been found.          *)
(***************************************************************************)
StopSearch(c) ==
  \/ Distance(c) > bound /\ (bare \/ Cardinality(top) = ef)
  \/ mode = "epsilon" /\ Distance(c) > Epsilon /\ Cardinality(top) >= MinItems

Expand ==
  /\ pc = "loop" /\ cand # {}
  /\ LET c == Min(cand) IN
     /\ ~StopSearch(c)
     /\ cand' = cand \ {c}
     /\ rest' = links[c]
  /\ pc' = "scan"
  /\ UNCHANGED <<request, hidden, ef, collecting, evals, top, bound, visited,
                 prev, stable, seen, history>>

(***************************************************************************)
(* A link is scanned: its distance is collected, even if it was visited;   *)
(* the distance that completes the statistics makes the sketch choose ef   *)
(* (GROUND_WAE is 0: whatever it estimates) and trims the results.  Then   *)
(* an element not visited before is visited.                               *)
(***************************************************************************)
CompletesStats == collecting /\ evals + 1 = StatsLimit

\* Mutant: only an element nearer than the farthest result is considered.
ConsideredNearer(n, t, b, e) == b > n

Considered(n, t, b, e) ==
  \/ collecting /\ evals + 1 <= StatsLimit
  \/ Cardinality(t) < e
  \/ b > n

Farthest(t, b) == IF t = {} THEN b ELSE Max(t)

\* Mutant: an element that is considered is not marked visited.
VisitUnmarked(n, t, b, e) ==
  /\ visited' = IF Considered(n, t, b, e) THEN visited ELSE visited \cup {n}
  /\ seen' = seen \cup ({n} \cap {x \in Nodes : Admissible(x)})
  /\ IF Considered(n, t, b, e)
     THEN /\ cand' = cand \cup {n}
          /\ top' = Nearest(t \cup (seen' \cap {n}), e)
          /\ bound' = Farthest(top', b)
     ELSE cand' = cand /\ top' = t /\ bound' = b

Visit(n, t, b, e) ==
  /\ visited' = visited \cup {n}
  /\ seen' = seen \cup ({n} \cap {x \in Nodes : Admissible(x)})
  /\ IF Considered(n, t, b, e)
     THEN /\ cand' = cand \cup {n}
          /\ top' = Nearest(t \cup (seen' \cap {n}), e)
          /\ bound' = Farthest(top', b)
     ELSE cand' = cand /\ top' = t /\ bound' = b

\* Mutant: the results are not trimmed to the ef chosen.
ScanUntrimmed(n) ==
  /\ pc = "scan" /\ n \in rest
  /\ rest' = rest \ {n}
  /\ evals' = IF collecting THEN evals + 1 ELSE evals
  /\ collecting' = (collecting /\ ~CompletesStats)
  /\ ef' \in IF CompletesStats THEN Efs ELSE {ef}
  /\ IF n \in visited
     THEN UNCHANGED <<top, bound, cand, visited, seen>>
     ELSE Visit(n, top, bound, ef')
  /\ UNCHANGED <<request, hidden, prev, stable, pc, history>>

Scan(n) ==
  /\ pc = "scan" /\ n \in rest
  /\ rest' = rest \ {n}
  /\ evals' = IF collecting THEN evals + 1 ELSE evals
  /\ collecting' = (collecting /\ ~CompletesStats)
  /\ ef' \in IF CompletesStats THEN Efs ELSE {ef}
  /\ LET t == IF CompletesStats THEN Nearest(top, ef') ELSE top
         b == IF CompletesStats THEN Farthest(t, bound) ELSE bound
     IN IF n \in visited
        THEN top' = t /\ bound' = b /\ UNCHANGED <<cand, visited, seen>>
        ELSE Visit(n, t, b, ef')
  /\ UNCHANGED <<request, hidden, prev, stable, pc, history>>

(***************************************************************************)
(* What the caller makes of top_candidates.                                *)
(***************************************************************************)
Result == IF mode = "epsilon" THEN {n \in top : n <= Epsilon} ELSE Nearest(top, K)

(***************************************************************************)
(* An expansion ends.  With patience, two top-k sets in a row that have    *)
(* enough in common count as stable, Patience of them end the search.      *)
(***************************************************************************)
EndExpansion ==
  /\ pc = "scan" /\ rest = {}
  /\ mode # "patience" \/ Cardinality(top) < K
  /\ pc' = "loop"
  /\ UNCHANGED <<request, hidden, ef, collecting, evals, top, cand, bound, visited,
                 rest, prev, stable, seen, history>>

CompareTopK ==
  /\ pc = "scan" /\ rest = {} /\ mode = "patience" /\ Cardinality(top) >= K
  /\ LET current == Nearest(top, K) IN
     /\ stable' = IF Cardinality(current \cap prev) >= Saturation THEN stable + 1 ELSE 0
     /\ IF stable' >= Patience
        THEN pc' = "done" /\ top' = Result /\ prev' = prev
        ELSE pc' = "loop" /\ top' = top /\ prev' = current
  /\ UNCHANGED <<request, hidden, ef, collecting, evals, cand, bound, visited,
                 rest, seen, history>>

Finish ==
  /\ pc = "loop"
  /\ cand = {} \/ (cand # {} /\ StopSearch(Min(cand)))
  /\ pc' = "done"
  /\ top' = Result
  /\ UNCHANGED <<request, hidden, ef, collecting, evals, cand, bound, visited,
                 rest, prev, stable, seen, history>>

(***************************************************************************)
(* External threads: markDelete and unmarkDelete change the byte the       *)
(* search reads at a visit.  They take no lock that the search holds.      *)
(***************************************************************************)
Mark(n) ==
  /\ pc # "done" /\ marks < MaxMarks
  /\ marks' = marks + 1
  /\ hidden' = IF n \in hidden THEN hidden \ {n} ELSE hidden \cup {n}
  /\ everHidden' = everHidden \cup hidden'
  /\ everShown' = everShown \cup (Nodes \ hidden')
  /\ UNCHANGED <<request, ef, collecting, evals, top, cand, bound, visited, rest,
                 prev, stable, pc, seen>>

Search == Start \/ Expand \/ (\E n \in Nodes : Scan(n)) \/ EndExpansion \/ CompareTopK \/ Finish

Next == Search \/ \E n \in Nodes : Mark(n)

(* The search is the calling thread's own loop, which waits for nothing.   *)
Spec == Init /\ [][Next]_vars /\ WF_vars(Search)

-----------------------------------------------------------------------------

TypeOK ==
  /\ mode \in Modes /\ links \in Graphs /\ entry \in Nodes /\ bare \in BOOLEAN
  /\ hidden \subseteq Nodes
  /\ ef \in 1..Unlimited
  /\ collecting \in BOOLEAN /\ evals \in Nat
  /\ {top, cand, visited, rest, prev, seen, everHidden, everShown} \subseteq SUBSET Nodes
  /\ bound \in 1..Infinity
  /\ stable \in 0..Patience
  /\ pc \in {"start", "loop", "scan", "done"}
  /\ marks \in 0..MaxMarks

\* The results are at every time the ef nearest of the admissible elements
\* visited, and at the end the k nearest: trimming the heap, whether to a
\* standing ef or to one chosen in the middle of a scan, never drops an
\* element that belongs to the answer, nor does the test that leaves an
\* element out unconsidered (hnswalg.h:407-440, 1564-1620).
Wanted == IF pc = "done" /\ mode # "epsilon" THEN Min({K, ef}) ELSE ef
InScope == IF pc = "done" /\ mode = "epsilon" THEN Nodes \cap 1..Epsilon ELSE Nodes
BestSeen == top = Nearest(seen, Wanted) \cap InScope

\* A search that was not cut short by patience returns a local optimum: an
\* element that a result links to, and that was admissible all along, is a
\* result too, or farther than every one of enough results, or outside
\* epsilon.  The bare loop relies here on every candidate having been a
\* result: it stops without asking for ef results (hnswalg.h:362-372).
LocallyBest ==
  pc = "done" /\ mode # "patience" =>
    \A r \in top : \A n \in links[r] \ everHidden :
      \/ n \in top
      \/ n \notin InScope
      \/ Cardinality(top) = Wanted /\ \A x \in top : x < n

\* An element that was deleted, or rejected by the filter, from the start of
\* the search to its end is never a result (hnswalg.h:346, 1318).
NeverDeleted == pc = "done" => bare \/ top \subseteq everShown

\* The elements that can be reached from the entry point, deleted or not.
Reachable ==
  {n \in Nodes : \A S \in SUBSET Nodes :
      entry \in S /\ (\A x \in S : links[x] \subseteq S) => n \in S}

\* Deleted elements are still ways: a search returns k results, or as many as
\* the sketch's ef allows, whenever so many elements that were never hidden
\* can be reached at all, even if the stop by patience cut it short.
EnoughResults ==
  pc = "done" /\ mode # "epsilon" =>
    Cardinality(top) >= Min({K, ef, Cardinality(Reachable \ everHidden)})

\* Every search ends, whatever marks change meanwhile: no element becomes a
\* candidate twice (hnswalg.h:405-406).
Terminates == <>(pc = "done")
=============================================================================
