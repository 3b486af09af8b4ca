-------------------------- MODULE SemanticClusters --------------------------
(***************************************************************************)
(* src/graph/semantic_clustering.py, and the part of a duty cycle that     *)
(* uses it (_group_pending_by_cluster, _begin_cluster_context): the pages  *)
(* of the catalog are partitioned by Louvain moves, oversized clusters are *)
(* bisected, undersized ones packed; the map is kept in a file under the   *)
(* catalog's updated_at.  The cycle groups its pages by the map and, as it *)
(* comes to each group, asks for the map again to put the group's          *)
(* neighborhood into the client's history, which the first request for a   *)
(* page empties.  Commits change the catalog in between, and the cluster   *)
(* command writes the file for a size of its own.                          *)
(*                                                                         *)
(* What is abstracted: titles are numbers in sorted order; a similarity is *)
(* a small integer, and any pair of similar pages may pass the filters of  *)
(* _build_similarity_graph (block, shared terms, floor).  Sums are exact.  *)
(* Neighbors are met in the order of a set of strings, which differs from  *)
(* process to process: ties are broken either way.                         *)
(***************************************************************************)
EXTENDS Naturals, Sequences, FiniteSets, FiniteSetsExt, SequencesExt

CONSTANTS
    N,                  \* pages of the catalog
    MaxSimilarity,      \* similarities are 0..MaxSimilarity
    KNeighbors,         \* links a page keeps (20 in the code)
    MinSize, MaxSize,   \* cluster bounds (5 and 35)
    MaxIterations,      \* LOUVAIN_MAX_ITERATIONS (20)
    MaxChanges,         \* bound: commits and runs of the cluster command
    NoMap

ASSUME SemanticClustersAssumption ==
    /\ N \in Nat \ {0, 1} /\ MaxSimilarity \in Nat /\ KNeighbors \in Nat \ {0}
    /\ MinSize \in Nat \ {0} /\ MaxSize \in Nat \ {0, 1}
    /\ MaxIterations \in Nat \ {0} /\ MaxChanges \in Nat
    /\ NoMap \notin [at : Nat, size : Nat, clusters : Seq(Seq(1..N))]

Titles == 1..N
Pairs == {{a, b} : a \in Titles, b \in Titles} \ {{a} : a \in Titles}
Passes == 3
effective_min == LET m == Min({MinSize, MaxSize}) IN IF N < m THEN 1 ELSE m

VARIABLES
    sim,        \* _combined_similarity of the pairs of pages
    linked,     \* the pairs that pass the filters
    adjacency,  \* adjacency[t][u]: the weight of u for t, 0 when u is no neighbor
    degree,     \* the weights a page has
    community,  \* the Louvain assignment
    node,       \* the next page to move
    improved, iteration,
    stack,      \* clusters to bisect, the next one last
    kept,       \* clusters
    pool,       \* the pages of undersized ones, a sorted list in the code
    pass,       \* passes of _finalize_cluster_balance
    phase,
    file,       \* semantic_clusters.json
    at,         \* the catalog's updated_at
    clusters,   \* the map the cycle has grouped its pages by
    group,      \* the group it has come to, 0 before the first
    focus,      \* the neighborhood in the client's _execution_history
    changes     \* commits and cluster commands so far

graph == <<sim, linked>>
louvain == <<adjacency, degree, community, node, improved, iteration>>
balance == <<stack, kept, pool, pass>>
cycle == <<at, clusters, group, focus, changes>>
clustersVars == <<sim, linked, adjacency, degree, community, node, improved, iteration,
          stack, kept, pool, pass, phase, file, at, clusters, group, focus, changes>>

Ascending(S) == CHOOSE c \in [1..Cardinality(S) -> S] : \A i, j \in DOMAIN c : i < j => c[i] < c[j]
Members(c) == {c[i] : i \in DOMAIN c}
NoLinks == [t \in Titles |-> [u \in Titles |-> 0]]
Forgotten == /\ adjacency' = NoLinks /\ degree' = [t \in Titles |-> 0]
             /\ community' = [t \in Titles |-> t]
             /\ node' = 1 /\ improved' = FALSE /\ iteration' = 0

ClustersInit ==
    /\ sim \in [Pairs -> 0..MaxSimilarity]
    /\ linked \in SUBSET {p \in Pairs : sim[p] > 0}
    /\ adjacency = NoLinks /\ degree = [t \in Titles |-> 0] /\ community = [t \in Titles |-> t]
    /\ node = 1 /\ improved = FALSE /\ iteration = 0
    /\ stack = <<>> /\ kept = <<>> /\ pool = {} /\ pass = 0
    /\ phase = "load" /\ file = NoMap /\ at = 0
    /\ clusters = NoMap /\ group = 0 /\ focus = {} /\ changes = 0

Phases == {"load", "reload", "link", "move", "split", "keep", "place", "save", "focus", "work", "end"}

Goes(from, to) == phase = from /\ phase' = to

-----------------------------------------------------------------------------
(* The similarity graph and its communities *)

SumOver(S, w(_)) == MapThenSumSet(w, S)

\* _build_similarity_graph: a page keeps its KNeighbors strongest links.
Strongest(t) ==
    LET near == {u \in Titles \ {t} : {t, u} \in linked} IN
    IF Cardinality(near) <= KNeighbors THEN {near}
    ELSE {S \in kSubset(KNeighbors, near) :
            \A u \in S, v \in near \ S : sim[{t, u}] >= sim[{t, v}]}

Weights(t, near) == [u \in Titles |-> IF u \in near THEN sim[{t, u}] ELSE 0]

Link ==
    /\ phase = "link" /\ node <= N
    /\ \E near \in Strongest(node) :
        adjacency' = [adjacency EXCEPT ![node] = Weights(node, near)]
    /\ node' = node + 1
    /\ UNCHANGED <<graph, degree, community, improved, iteration, balance, phase, file, cycle>>

\* _louvain_communities starts from a community for every page.
Linked ==
    /\ node > N /\ Goes("link", "move")
    /\ degree' = [t \in Titles |-> SumOver(Titles, LAMBDA u : adjacency[t][u])]
    /\ node' = 1 /\ iteration' = 1
    /\ UNCHANGED <<graph, adjacency, community, improved, balance, file, cycle>>

total_weight == SumOver(Titles, LAMBDA t : degree[t])
Of(c) == {t \in Titles : community[t] = c}

\* The gain of moving t to community c, times total_weight.
Gain(t, c) == <<total_weight * SumOver(Of(c), LAMBDA u : adjacency[t][u]),
                degree[t] * SumOver(Of(c), LAMBDA u : degree[u])>>
Exceeds(g, h) == g[1] + h[2] > h[1] + g[2]

\* The communities of neighbors of t with the greatest gain above none; the
\* gain of staying is not among them.
BestMoves(t) ==
    LET near == {community[u] : u \in {v \in Titles : adjacency[t][v] > 0}} \ {community[t]}
        gains == {c \in near : Exceeds(Gain(t, c), <<0, 0>>)}
    IN  {c \in gains : \A d \in gains : ~Exceeds(Gain(t, d), Gain(t, c))}

Move ==
    /\ phase = "move" /\ node <= N /\ total_weight > 0
    /\ node' = node + 1
    /\ IF BestMoves(node) = {} THEN UNCHANGED <<community, improved>>
       ELSE /\ \E c \in BestMoves(node) : community' = [community EXCEPT ![node] = c]
            /\ improved' = TRUE
    /\ UNCHANGED <<graph, adjacency, degree, iteration, balance, phase, file, cycle>>

\* Mutant: the iterations are not counted.
NextIterationUncounted ==
    /\ phase = "move" /\ node > N /\ improved /\ iteration < MaxIterations
    /\ node' = 1 /\ improved' = FALSE
    /\ UNCHANGED <<graph, adjacency, degree, community, iteration, balance, phase, file, cycle>>

NextIteration ==
    /\ phase = "move" /\ node > N /\ improved /\ iteration < MaxIterations
    /\ node' = 1 /\ improved' = FALSE /\ iteration' = iteration + 1
    /\ UNCHANGED <<graph, adjacency, degree, community, balance, phase, file, cycle>>

\* _communities_to_clusters: communities in the order of their first page.
Grouped ==
    LET firsts == Ascending({t \in Titles : \A u \in Of(community[t]) : t <= u})
    IN  [i \in DOMAIN firsts |-> Ascending(Of(community[firsts[i]]))]

Group ==
    /\ \/ total_weight = 0
       \/ node > N /\ (improved => iteration = MaxIterations)
    /\ Goes("move", "split")
    /\ stack' = Reverse(Grouped) /\ kept' = <<>> /\ pool' = {} /\ pass' = 0
    /\ Forgotten
    /\ UNCHANGED <<graph, file, cycle>>

-----------------------------------------------------------------------------
(* Size bounds *)

Towards(t, c) == FoldSeq(LAMBDA u, s : s + sim[{t, u}], 0, c)

\* _bisect_cluster: the first least similar pair seeds two halves, and every
\* other page joins the half it is more similar to.
Seeds(c) ==
    LET ij == {p \in (DOMAIN c) \X (DOMAIN c) : p[1] < p[2]}
        s(p) == sim[{c[p[1]], c[p[2]]}]
        first(p, q) == p[1] < q[1] \/ (p[1] = q[1] /\ p[2] <= q[2])
    IN  CHOOSE p \in ij : \A q \in ij : s(p) < s(q) \/ (s(p) = s(q) /\ first(p, q))

Joins(t, halves) ==
    IF Towards(t, halves[1]) >= Towards(t, halves[2])
    THEN <<Append(halves[1], t), halves[2]>>
    ELSE <<halves[1], Append(halves[2], t)>>

Bisected(c) ==
    LET a == c[Seeds(c)[1]]
        b == c[Seeds(c)[2]]
        halves[i \in 0..Len(c)] ==
            IF i = 0 THEN <<<<a>>, <<b>>>>
            ELSE IF c[i] \in {a, b} THEN halves[i - 1] ELSE Joins(c[i], halves[i - 1])
    IN  halves[Len(c)]

\* _split_oversized_clusters, one cluster of its stack.
Split ==
    LET c == Last(stack) IN
    /\ phase = "split" /\ stack # <<>>
    /\ IF Len(c) <= MaxSize
       THEN stack' = Front(stack) /\ kept' = Append(kept, c)
       ELSE stack' = Front(stack) \o Bisected(c) /\ UNCHANGED kept
    /\ UNCHANGED <<graph, louvain, pool, pass, phase, file, cycle>>

Undersized(c) == Len(c) < effective_min

\* compute_semantic_clusters: three passes at most, fewer when every cluster
\* is large enough after one.
Splitted ==
    /\ stack = <<>>
    /\ Goes("split", IF effective_min > 1 /\ pass < Passes
                        /\ (pass > 0 => \E i \in DOMAIN kept : Undersized(kept[i]))
                     THEN "keep" ELSE "save")
    /\ UNCHANGED <<graph, louvain, balance, file, cycle>>

\* _finalize_cluster_balance: the pages of undersized clusters are pooled.
Keep ==
    /\ Goes("keep", "place")
    /\ LET small == {i \in DOMAIN kept : Undersized(kept[i])}
           large == Ascending(DOMAIN kept \ small)
       IN  /\ kept' = [i \in DOMAIN large |-> Ascending(Members(kept[large[i]]))]
           /\ pool' = UNION {Members(kept[i]) : i \in small}
    /\ pass' = pass + 1
    /\ UNCHANGED <<graph, louvain, stack, file, cycle>>

\* The page whose turn it is.
page == Min(pool)

\* The first kept cluster with room whose average similarity to it is greatest.
Better(i, j) ==
    LET si == Towards(page, kept[i]) * Len(kept[j])
        sj == Towards(page, kept[j]) * Len(kept[i])
    IN  si > sj \/ (si = sj /\ i <= j)
Roomy == {i \in DOMAIN kept : Len(kept[i]) < MaxSize}
BestKept ==
    LET fits == {i \in Roomy : Towards(page, kept[i]) > 0}
    IN  {i \in fits : \A j \in fits : Better(i, j)}

\* _greedy_semantic_bin: the page, and those of the pool most similar to it.
target_size ==
    LET remaining == Cardinality(pool)
        t == Min({MaxSize, Max({effective_min, remaining})})
    IN  IF remaining > MaxSize /\ remaining < t + effective_min
        THEN remaining - effective_min ELSE t
Nearer(a, b) == \/ sim[{page, a}] > sim[{page, b}]
                \/ sim[{page, a}] = sim[{page, b}] /\ a < b
_greedy_semantic_bin ==
    LET candidates == pool \ {page} IN
    {page} \cup {t \in candidates :
                    Cardinality({u \in candidates : Nearer(u, t)}) < target_size - 1}

\* Mutant: the pages of a new bin stay in the pool.
PlaceOnly ==
    /\ phase = "place" /\ pool # {}
    /\ IF BestKept # {}
       THEN \E i \in BestKept : kept' = [kept EXCEPT ![i] = Ascending(Members(@) \cup {page})]
       ELSE kept' = Append(kept, Ascending(_greedy_semantic_bin))
    /\ pool' = pool \ {page}
    /\ UNCHANGED <<graph, louvain, stack, pass, phase, file, cycle>>

Place ==
    /\ phase = "place" /\ pool # {}
    /\ IF BestKept # {}
       THEN /\ \E i \in BestKept : kept' = [kept EXCEPT ![i] = Ascending(Members(@) \cup {page})]
            /\ pool' = pool \ {page}
       ELSE /\ kept' = Append(kept, Ascending(_greedy_semantic_bin))
            /\ pool' = pool \ _greedy_semantic_bin
    /\ UNCHANGED <<graph, louvain, stack, pass, phase, file, cycle>>

Placed ==
    /\ pool = {} /\ Goes("place", "split")
    /\ stack' = Reverse(kept) /\ kept' = <<>>
    /\ UNCHANGED <<graph, louvain, pool, pass, file, cycle>>

-----------------------------------------------------------------------------
(* The file, and the cycle that uses the map *)

Own(map) == [at |-> at, size |-> MaxSize, clusters |-> map]

\* _begin_cluster_context: the pages of the group's cluster, those the cycle has
\* for it when the map has no such cluster, none for the pages of no cluster.
Neighborhood(map) ==
    IF group > Len(clusters) THEN {}
    ELSE IF group > Len(map) THEN Members(clusters[group]) ELSE Members(map[group])

\* The history is emptied, then begins with the neighborhood.
inject_cluster_focus_context(pages) == focus' = pages

\* The cycle has a map: it groups its pages by it, pages that are in no cluster
\* last, or begins the group it has come to.
Uses(map) ==
    IF group = 0
    THEN /\ phase' = "load" /\ clusters' = map /\ group' = 1
         /\ UNCHANGED <<at, focus, changes>>
    ELSE /\ phase' = "work" /\ inject_cluster_focus_context(Neighborhood(map))
         /\ UNCHANGED <<at, clusters, group, changes>>

\* load_or_compute_semantic_clusters: the key is checked on one read of the
\* file, and the map is taken from another.
Load ==
    /\ Goes("load", IF file # NoMap /\ file.at = at /\ file.size = MaxSize THEN "reload" ELSE "link")
    /\ UNCHANGED <<graph, louvain, balance, file, cycle>>

TakeMap ==
    /\ phase = "reload" /\ Uses(file.clusters)
    /\ UNCHANGED <<graph, louvain, balance, file>>

\* The clusters are put in order by the page each begins with, which need not be
\* its first by title; then the pages of each.
InOrder(map) ==
    LET heads == Ascending({Head(c) : c \in Members(map)})
        Beginning(t) == CHOOSE c \in Members(map) : Head(c) = t
    IN  [i \in DOMAIN heads |-> Ascending(Members(Beginning(heads[i])))]

\* Mutant: the map is filed without the catalog it was computed from.
SaveUnkeyed ==
    /\ phase = "save" /\ Uses(InOrder(kept))
    /\ file' = [Own(InOrder(kept)) EXCEPT !.at = NoMap]
    /\ kept' = <<>> /\ pass' = 0 /\ UNCHANGED <<graph, louvain, stack, pool>>

\* save_semantic_clusters: an atomic write.
Save ==
    /\ phase = "save" /\ Uses(InOrder(kept))
    /\ file' = Own(InOrder(kept))
    /\ kept' = <<>> /\ pass' = 0 /\ UNCHANGED <<graph, louvain, stack, pool>>

\* _completion_messages: every request of the daemon is stateless, which empties
\* the history before the messages are put together.
Ask ==
    /\ phase = "work" /\ focus # {} /\ focus' = {}
    /\ UNCHANGED <<graph, louvain, balance, phase, file, at, clusters, group, changes>>

\* The next group, unless this was the last or the turns of the cycle are spent.
\* It empties the history when it begins, and nobody looks before.
NextGroup ==
    /\ \/ Goes("work", "end")
       \/ Goes("work", "load") /\ group <= Len(clusters)
    /\ group' = group + 1 /\ focus' = {}
    /\ UNCHANGED <<graph, louvain, balance, file, at, clusters, changes>>

\* A page of the group is committed, and its row saved in the catalog.
CommitPage ==
    /\ phase = "work"
    /\ changes < MaxChanges /\ changes' = changes + 1 /\ at' = at + 1
    /\ UNCHANGED <<graph, louvain, balance, phase, file, clusters, group, focus>>

\* run_plumber_cluster, in a process of its own, with another maximum size.
Command ==
    /\ changes < MaxChanges /\ changes' = changes + 1
    /\ file' = [at |-> at, size |-> N + MaxSize, clusters |-> <<Ascending(Titles)>>]
    /\ UNCHANGED <<graph, louvain, balance, phase, at, clusters, group, focus>>

Compute == Link \/ Linked \/ Move \/ NextIteration \/ Group \/ Split \/ Splitted \/ Keep \/ Place \/ Placed
Step == Compute \/ Load \/ TakeMap \/ Save \/ NextGroup
ClustersNext == Step \/ Ask \/ CommitPage \/ Command

ClustersSpec == ClustersInit /\ [][ClustersNext]_clustersVars
\* One thread computes, without waiting for anyone.
FairClustersSpec == ClustersSpec /\ WF_clustersVars(Step)

-----------------------------------------------------------------------------
(* Properties *)

\* compute_semantic_clusters: through moves, bisections, pooling and packing
\* every page of the catalog is in exactly one place, and the clusters that
\* come out are not larger than the maximum.
PagesPartitioned ==
    /\ phase \in {"split", "keep", "place", "save"} =>
        LET places == stack \o kept IN
        \A t \in Titles :
            Cardinality({ij \in (DOMAIN places) \X Titles :
                            ij[2] \in DOMAIN places[ij[1]] /\ places[ij[1]][ij[2]] = t})
            = IF t \in pool THEN 0 ELSE 1
    /\ phase = "save" => \A i \in DOMAIN kept : kept[i] # <<>> /\ Len(kept[i]) <= MaxSize

\* _group_pending_by_cluster, _begin_cluster_context: the cycle asks for the
\* map once to group its pages and again for each group; while the catalog and
\* the file are left alone, the neighborhood a group begins with is the group's.
NeighborhoodIsTheGroups ==
    [][phase # "work" /\ phase' = "work" /\ changes = 0 /\ group <= Len(clusters)
        => focus' = Members(clusters[group])]_clustersVars

\* The loops of compute_semantic_clusters end, and the cycle gets through its
\* groups: Louvain moves that go back and forth are cut off.
CycleEnds == <>(phase = "end")
=============================================================================
