---------------------------- MODULE MonitorZoom ----------------------------
(***************************************************************************)
(* The semantic zoom of a Workflow's dependency graph in the Monitor's     *)
(* browser client (app.js: deriveSemanticZoom, workflowGraph): a window of *)
(* waves becomes a few clusters, what lies before it one boundary, what    *)
(* lies after it one overflow, and every exact edge part of one aggregate  *)
(* arc (priv/presenter/semantic-zoom-v1.md).                               *)
(*                                                                         *)
(* A graph is [waves, edges]: waves[i] is the sequence of unit ids of the  *)
(* i-th wave and an edge is [from, to, state].  Ids are numbers in the     *)
(* order of localeCompare.  start counts the waves before the window.      *)
(***************************************************************************)
EXTENDS Integers, SequencesExt

CONSTANTS
    MaxClusters,        \* SEMANTIC_ZOOM_MAX_CLUSTERS
    MemberPageSize,     \* SEMANTIC_ZOOM_MEMBER_PAGE_SIZE
    EdgePageSize,       \* SEMANTIC_ZOOM_EDGE_PAGE_SIZE
    NoKey               \* no entity, no arc

ASSUME ZoomAssumption ==
    MaxClusters \in Nat \ {0} /\ MemberPageSize \in Nat \ {0} /\ EdgePageSize \in Nat \ {0}

EdgeStates == {"ready", "blocked", "unknown"}
Lower(a, b) == IF a < b THEN a ELSE b
Members(waves) == FlattenSeq(waves)

(***************************************************************************)
(* semanticZoomBuckets: which waves of the window get how many clusters.   *)
(***************************************************************************)
SafeStart(waves, start) == IF start \in 0..Len(waves) - 1 THEN start ELSE 0
VisibleEnd(waves, start) == Lower(start + MaxClusters, Len(waves))
Populated(waves, start) == {i \in start + 1..VisibleEnd(waves, start) : waves[i] # <<>>}

\* Mutant: the wave with the most units is split, however split it is.
LargestWave(waves, buckets) ==
    LET open == {i \in DOMAIN buckets : buckets[i] < Len(waves[i])} IN
    {i \in open : \A j \in open : Len(waves[i]) >= Len(waves[j]) /\ (j < i => Len(waves[i]) > Len(waves[j]))}

(* The first wave of those with the most units to a bucket that has a unit *)
(* for one bucket more; ratios are compared by cross-multiplication.       *)
Candidate(waves, buckets) ==
    LET open == {i \in DOMAIN buckets : buckets[i] < Len(waves[i])}
        fuller(i, j) == Len(waves[i]) * buckets[j] > Len(waves[j]) * buckets[i]
    IN  {i \in open : \A j \in open : ~fuller(j, i) /\ (j < i => fuller(i, j))}

SemanticZoomBuckets(waves, start) ==
    LET spare == MaxClusters - Lower(MaxClusters, Len(waves) - start)
        split(buckets) == [i \in DOMAIN buckets |->
                             IF i \in Candidate(waves, buckets) THEN buckets[i] + 1 ELSE buckets[i]]
        after[slot \in 0..spare] ==
            IF slot = 0 THEN [i \in Populated(waves, start) |-> 1] ELSE split(after[slot - 1])
    IN  after[spare]

(* Contiguous chunks in projected order, the longer ones first.            *)
SemanticZoomChunks(ids, bucketCount) ==
    LET quotient == Len(ids) \div bucketCount
        remainder == Len(ids) % bucketCount
        offset(ordinal) == ordinal * quotient + Lower(ordinal, remainder)
    IN  [n \in 1..bucketCount |-> SubSeq(ids, offset(n - 1) + 1, offset(n))]

(***************************************************************************)
(* deriveSemanticZoom: the entities of a window, in their order.           *)
(***************************************************************************)
Boundary(waves, start) ==
    IF start = 0 THEN <<>>
    ELSE <<[key |-> <<"boundary", 1, start>>, members |-> Members(SubSeq(waves, 1, start))]>>

Clusters(waves, start, i) ==
    IF i \notin Populated(waves, start) THEN <<>>
    ELSE LET chunks == SemanticZoomChunks(waves[i], SemanticZoomBuckets(waves, start)[i]) IN
         [n \in DOMAIN chunks |-> [key |-> <<"cluster", i, n>>, members |-> chunks[n]]]

\* Mutant: the overflow begins one wave late.
OverflowLate(waves, start) ==
    LET end == VisibleEnd(waves, start)
        members == Members(SubSeq(waves, end + 2, Len(waves)))
    IN  IF members = <<>> THEN <<>>
        ELSE <<[key |-> <<"overflow", end + 1, Len(waves)>>, members |-> members]>>

Overflow(waves, start) ==
    LET end == VisibleEnd(waves, start)
        members == Members(SubSeq(waves, end + 1, Len(waves)))
    IN  IF members = <<>> THEN <<>>
        ELSE <<[key |-> <<"overflow", end + 1, Len(waves)>>, members |-> members]>>

Entities(waves, start) ==
    Boundary(waves, start)
      \o FlattenSeq([n \in 1..VisibleEnd(waves, start) - start |-> Clusters(waves, start, start + n)])
      \o Overflow(waves, start)

(* A unit in two entities would count for the later one.                   *)
Assignment(entities, id) ==
    LET holders == {i \in DOMAIN entities : id \in ToSet(entities[i].members)} IN
    IF holders = {} THEN 0 ELSE CHOOSE i \in holders : \A j \in holders : j <= i

(* The one order of units: wave, bucket, id; a stranger comes last.        *)
UnitOrder(waves, entities, id) ==
    LET homes == {i \in DOMAIN waves : id \in ToSet(waves[i])}
        holder == Assignment(entities, id)
        wave == CHOOSE i \in homes : \A j \in homes : j <= i
    IN  IF homes = {} THEN <<Len(waves) + 1, 0, id>>
        ELSE <<wave, IF entities[holder].key[1] = "cluster" THEN entities[holder].key[3] ELSE 1, id>>
Precedes(a, b) ==
    \/ a[1] < b[1]
    \/ a[1] = b[1] /\ (a[2] < b[2] \/ (a[2] = b[2] /\ a[3] < b[3]))
CompareUnit(waves, entities, left, right) ==
    Precedes(UnitOrder(waves, entities, left), UnitOrder(waves, entities, right))

(* An edge joins the entities of its ends, unless an end is outside the    *)
(* waves or its state is none of the three.                                *)
Counted(entities, edge) ==
    /\ Assignment(entities, edge.from) # 0 /\ Assignment(entities, edge.to) # 0
    /\ edge.state \in EdgeStates
ArcOf(entities, edge) == <<Assignment(entities, edge.from), Assignment(entities, edge.to)>>

Arcs(graph, entities) ==
    LET counted == SelectSeq(graph.edges, LAMBDA edge : Counted(entities, edge))
        pairs == {ArcOf(entities, counted[i]) : i \in DOMAIN counted}
        width == Len(entities)
        order == SelectSeq([n \in 1..width * width |-> <<((n - 1) \div width) + 1, ((n - 1) % width) + 1>>],
                           LAMBDA pair : pair \in pairs)
        less(a, b) == \/ CompareUnit(graph.waves, entities, a.from, b.from)
                      \/ a.from = b.from /\ CompareUnit(graph.waves, entities, a.to, b.to)
        of(pair) == SortSeq(SelectSeq(counted, LAMBDA edge : ArcOf(entities, edge) = pair), less)
    IN  [n \in DOMAIN order |->
           [key |-> order[n], edges |-> of(order[n]),
            counts |-> [state \in EdgeStates |->
                          Len(SelectSeq(of(order[n]), LAMBDA edge : edge.state = state))]]]

DeriveSemanticZoom(graph, start) ==
    LET from == SafeStart(graph.waves, start)
        entities == Entities(graph.waves, from)
    IN  [start |-> from, entities |-> entities, arcs |-> Arcs(graph, entities),
         droppedEdges |-> SelectSeq(graph.edges, LAMBDA edge : ~Counted(entities, edge))]

(***************************************************************************)
(* workflowGraph: the selection that the derivation knows, its pages, and  *)
(* the links to the next and the previous window.                          *)
(***************************************************************************)
Pages(length, size) == IF length = 0 THEN 1 ELSE (length + size - 1) \div size
Clamped(page, pages) == Lower(IF page < 1 THEN 1 ELSE page, pages)

Selected(zoom, key) ==
    {i \in DOMAIN zoom.entities : zoom.entities[i].key = key /\ key[1] = "cluster"}

MemberInspector(graph, zoom, key, page) ==
    LET members == FlattenSeq([i \in DOMAIN zoom.entities |->
                                 IF i \in Selected(zoom, key) THEN zoom.entities[i].members ELSE <<>>])
        sorted == SortSeq(members, LAMBDA a, b : CompareUnit(graph.waves, zoom.entities, a, b))
        last == Clamped(page, Pages(Len(sorted), MemberPageSize))
    IN  SubSeq(sorted, 1, Lower(last * MemberPageSize, Len(sorted)))

EdgeLedger(zoom, arc, page) ==
    LET last == Clamped(page, Pages(Len(zoom.arcs[arc].edges), EdgePageSize))
    IN  SubSeq(zoom.arcs[arc].edges, 1, Lower(last * EdgePageSize, Len(zoom.arcs[arc].edges)))

NextWindow(zoom) ==
    {zoom.entities[i].key[2] - 1 : i \in {j \in DOMAIN zoom.entities : zoom.entities[j].key[1] = "overflow"}}
PreviousWindow(zoom) == IF zoom.start < MaxClusters THEN 0 ELSE zoom.start - MaxClusters

(***************************************************************************)
(* semanticZoomSummary: what a card says of its members.  lookup maps the  *)
(* projected units to their records; a member without one is not counted.  *)
(***************************************************************************)
Observed(entity, lookup) == SelectSeq(entity.members, LAMBDA id : id \in DOMAIN lookup)

SemanticZoomLimitations(limitations, entity, lookup) ==
    limitations \cup (IF Len(Observed(entity, lookup)) < Len(entity.members)
                      THEN {"unit_evidence_absent"} ELSE {})

(* Absence of a record is no value: it is not counted as the negative one. *)
UnitAttentionBucket(unit) ==
    IF unit.attention = "absent" THEN NoKey ELSE IF unit.attention = "required" THEN "yes" ELSE "no"
SemanticZoomDistribution(entity, reading) ==
    LET values == [i \in DOMAIN Observed(entity, reading) |-> reading[Observed(entity, reading)[i]]]
    IN  [value \in ToSet(values) \ {NoKey} |-> Cardinality({i \in DOMAIN values : values[i] = value})]

(***************************************************************************)
(* Properties, for a graph and a start.                                    *)
(***************************************************************************)
IsCluster(entity) == entity.key[1] = "cluster"

(* Each unit of the waves is a member of one entity and of one place in    *)
(* it, and a level shows no more than MaxClusters clusters.                *)
EveryUnitInOneEntity(graph, zoom) ==
    LET places == {place \in (DOMAIN zoom.entities) \X (1..Len(Members(graph.waves))) :
                     place[2] <= Len(zoom.entities[place[1]].members)}
        at(place) == zoom.entities[place[1]].members[place[2]]
    IN  /\ \A id \in ToSet(Members(graph.waves)) : Cardinality({p \in places : at(p) = id}) = 1
        /\ Len(SelectSeq(zoom.entities, IsCluster)) <= MaxClusters
        /\ \A i \in DOMAIN zoom.entities :
             zoom.entities[i].members = <<>> => zoom.entities[i].key[1] = "boundary"

(* The ledgers of the arcs and the excluded edges are the exact edges of   *)
(* the graph, each once, and an arc's counts are those of its ledger.      *)
EveryEdgeInOneLedger(graph, zoom) ==
    LET ledger(n) == EdgeLedger(zoom, n, Len(graph.edges) + 1)
        all == FlattenSeq([n \in DOMAIN zoom.arcs |-> ledger(n)]) \o zoom.droppedEdges
        times(edge, edges) == Len(SelectSeq(edges, LAMBDA e : e = edge))
    IN  /\ Len(all) = Len(graph.edges)
        /\ \A i \in DOMAIN graph.edges : times(graph.edges[i], all) = times(graph.edges[i], graph.edges)
        /\ \A n \in DOMAIN zoom.arcs :
             zoom.arcs[n].counts["ready"] + zoom.arcs[n].counts["blocked"]
               + zoom.arcs[n].counts["unknown"] = Len(zoom.arcs[n].edges)

(* The slots go where they help most: no other way to give out the same    *)
(* clusters leaves the fullest cluster of the window less full.            *)
SlotsSplitTheFullest(graph, zoom) ==
    LET waves == graph.waves
        given == SemanticZoomBuckets(waves, zoom.start)
        total(b) == FoldFunction(+, 0, b)
        others == {b \in [DOMAIN given -> 1..MaxClusters] :
                     total(b) = total(given) /\ \A i \in DOMAIN b : b[i] <= Len(waves[i])}
    IN  \A b \in others : \A i \in DOMAIN given :
          \E j \in DOMAIN given : Len(waves[i]) * b[j] <= Len(waves[j]) * given[i]

(* From the first level, opening the overflow again and again, at most     *)
(* once for MaxClusters waves, finds every unit in the inspector of a      *)
(* cluster, however many pages it has; going back ends at the first level. *)
EveryUnitIsReachable(graph) ==
    LET level[n \in 0..Pages(Len(graph.waves), MaxClusters)] ==
            IF n = 0 THEN {0}
            ELSE UNION {NextWindow(DeriveSemanticZoom(graph, start)) : start \in level[n - 1]}
        windows == UNION {level[n] : n \in DOMAIN level}
        inspected(start) ==
            LET zoom == DeriveSemanticZoom(graph, start) IN
            UNION {ToSet(MemberInspector(graph, zoom, zoom.entities[i].key, Len(Members(graph.waves)) + 1))
                     : i \in {j \in DOMAIN zoom.entities : IsCluster(zoom.entities[j])}}
    IN  /\ UNION {inspected(start) : start \in windows} = ToSet(Members(graph.waves))
        /\ \A start \in windows \ {0} : PreviousWindow(DeriveSemanticZoom(graph, start)) \in windows

(* A card conceals no member: a value some observed member has is in its   *)
(* distribution, and a member without a record leaves a limitation on it.  *)
CardsConcealNothing(graph, zoom, lookup) ==
    LET reading == [id \in DOMAIN lookup |-> UnitAttentionBucket(lookup[id])]
        of(i) == SemanticZoomDistribution(zoom.entities[i], reading)
    IN  \A id \in ToSet(Members(graph.waves)) :
          LET i == Assignment(zoom.entities, id) IN
          IF id \in DOMAIN lookup
          THEN reading[id] \in DOMAIN of(i) \cup {NoKey}
          ELSE "unit_evidence_absent" \in SemanticZoomLimitations({}, zoom.entities[i], lookup)

(* No aggregate hides anything: units, edges, slots, levels and values.    *)
ZoomCoversTheGraph(graph, start, lookup) ==
    LET zoom == DeriveSemanticZoom(graph, start) IN
    /\ EveryUnitInOneEntity(graph, zoom)
    /\ EveryEdgeInOneLedger(graph, zoom)
    /\ SlotsSplitTheFullest(graph, zoom)
    /\ CardsConcealNothing(graph, zoom, lookup)
    /\ EveryUnitIsReachable(graph)
=============================================================================
