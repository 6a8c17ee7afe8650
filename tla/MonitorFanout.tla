--------------------------- MODULE MonitorFanout ---------------------------
(***************************************************************************)
(* The sibling fan-out of a run without a graph in the Monitor's browser   *)
(* client (app.js: fanoutGrouping, fanoutGroup): units that need no        *)
(* attention are grouped by execution state, the others by the family of   *)
(* each of their reasons, and what no family claims is kept apart.         *)
(*                                                                         *)
(* A unit is [id, required, reasons, execution, limitations]: required is  *)
(* "yes", "no" or "absent", reasons a sequence that may repeat itself.     *)
(* FamilyOf is the exact map of the reasons that have a family and, for    *)
(* those that are not in it, what their prefix says.                       *)
(***************************************************************************)
EXTENDS Integers, SequencesExt

CONSTANTS
    Families,           \* FANOUT_ATTENTION_FAMILY_ORDER, as a sequence
    ExecutionStates,    \* FANOUT_EXECUTION_STATE_ORDER, as a sequence
    FamilyOf,           \* fanoutReasonFamily: reason -> family, or NoFamily
    NoFamily,
    GroupPageSize       \* FANOUT_GROUP_MEMBER_PAGE_SIZE

ASSUME FanoutAssumption ==
    /\ \A reason \in DOMAIN FamilyOf : FamilyOf[reason] \in ToSet(Families) \cup {NoFamily}
    /\ NoFamily \notin ToSet(Families)
    /\ "unknown" \in ToSet(ExecutionStates)
    /\ GroupPageSize \in Nat \ {0}

ReasonsOf(unit) == ToSet(unit.reasons)
FamiliesOf(unit) == {FamilyOf[reason] : reason \in ReasonsOf(unit)} \ {NoFamily}
UnmappedReasons(unit) == {reason \in ReasonsOf(unit) : FamilyOf[reason] = NoFamily}

(* A state the client does not know is filed under unknown.                *)
ExecutionGroupOf(unit) ==
    IF unit.execution \in ToSet(ExecutionStates) THEN unit.execution ELSE "unknown"

(***************************************************************************)
(* fanoutGrouping.                                                         *)
(***************************************************************************)
(* Only a record that says so excuses a unit from attention.               *)
NeedsNoAttention(unit) == unit.required = "no"
RequirementKnown(unit) == unit.required # "absent"

(* How many of the units give each reason of a family.                     *)
OccurrencesIn(units, family) ==
    LET given == UNION {ReasonsOf(units[i]) : i \in DOMAIN units}
    IN  [reason \in {r \in given : FamilyOf[r] = family} |->
           Cardinality({i \in DOMAIN units : reason \in ReasonsOf(units[i])})]
TotalOf(counts) == FoldFunction(+, 0, counts)

\* Mutant: a unit is filed under the first of its families only.
FamilyGroupFirst(units, family) ==
    LET required == SelectSeq(units, LAMBDA unit : unit.required = "yes")
        first(unit) == SelectSeq(Families, LAMBDA f : f \in FamiliesOf(unit))[1]
    IN  [members |-> SelectSeq(required, LAMBDA unit : FamiliesOf(unit) # {} /\ first(unit) = family),
         reasons |-> OccurrencesIn(required, family)]

(* A family's group: each unit with a reason of it, and every such reason. *)
FamilyGroup(units, family) ==
    LET required == SelectSeq(units, LAMBDA unit : unit.required = "yes") IN
    [members |-> SelectSeq(required, LAMBDA unit : family \in FamiliesOf(unit)),
     reasons |-> OccurrencesIn(required, family)]

(* Units of no family at all: no reason maps, none is given, or nobody     *)
(* knows whether they need attention.                                      *)
UnmappedGroup(units) ==
    LET homeless(unit) == unit.required = "yes" /\ FamiliesOf(unit) = {}
        strangers == SelectSeq(units, homeless)
    IN  [members |-> SelectSeq(units, LAMBDA unit : homeless(unit) \/ ~RequirementKnown(unit)),
         reasons |-> OccurrencesIn(strangers, NoFamily)]

ExecutionGroup(units, execution) ==
    SelectSeq(units, LAMBDA unit : NeedsNoAttention(unit) /\ ExecutionGroupOf(unit) = execution)

(* The line of unmapped reasons, mixed-family units included.              *)
Unmapped(units) ==
    [i \in DOMAIN units |->
       IF NeedsNoAttention(units[i]) THEN {}
       ELSE IF ~RequirementKnown(units[i]) THEN {"attention_requirement_unavailable"}
       ELSE UnmappedReasons(units[i])]

FanoutGrouping(units) ==
    [attentionSiblingCount |-> Len(SelectSeq(units, LAMBDA unit : ~NeedsNoAttention(unit))),
     attentionOccurrences |->
        TotalOf([i \in DOMAIN units |->
                   IF units[i].required = "yes" THEN Cardinality(ReasonsOf(units[i])) ELSE 0]),
     attention |-> [family \in {f \in ToSet(Families) : FamilyGroup(units, f).members # <<>>} |->
                      FamilyGroup(units, family)],
     unmappedGroup |-> UnmappedGroup(units),
     execution |-> [state \in {s \in ToSet(ExecutionStates) : ExecutionGroup(units, s) # <<>>} |->
                      ExecutionGroup(units, state)],
     unmapped |-> Unmapped(units)]

(***************************************************************************)
(* fanoutTree: what the reader sees of the grouping.                       *)
(***************************************************************************)
\* Mutant: the count of a group is qualified by the run's limitations only.
LimitationsOfRun(run, members, family) == run.limitations

(* What qualifies the count of a group: the limitations of the run, those  *)
(* of its members, and under evidence a member whose child Log is missing. *)
FanoutGroupLimitations(run, members, family) ==
    LET lost(unit) == family = "evidence" /\ "child_log_missing" \in ReasonsOf(unit)
    IN  run.limitations
          \cup UNION {members[i].limitations : i \in DOMAIN members}
          \cup {"child_log_missing" : i \in {j \in DOMAIN members : lost(members[j])}}

(* How many of a list a page shows, and what its button says it reveals.   *)
Page(total, page) ==
    LET shown == IF page * GroupPageSize < total THEN page * GroupPageSize ELSE total
    IN  [shown |-> shown,
         reveal |-> IF total - shown < GroupPageSize THEN total - shown ELSE GroupPageSize]

(* Reasons and members of a group are paged each for itself.               *)
FanoutGroup(run, group, family, page, reasonPage) ==
    [siblings |-> Len(group.members),
     occurrences |-> TotalOf(group.reasons),
     limitations |-> FanoutGroupLimitations(run, group.members, family),
     reasons |-> Page(Cardinality(DOMAIN group.reasons), reasonPage),
     members |-> Page(Len(group.members), page)]

(* The heading, its line of unmapped reasons, and the groups, closed.      *)
FanoutTree(run) ==
    LET grouping == FanoutGrouping(run.units)
        unmapped == grouping.unmapped
        givenBy(reason) == {i \in DOMAIN unmapped : reason \in unmapped[i]}
        closed(group, family) == FanoutGroup(run, group, family, 1, 1)
    IN  [siblings |-> grouping.attentionSiblingCount,
         occurrences |-> grouping.attentionOccurrences,
         limitations |-> FanoutGroupLimitations(run, <<>>, "none"),
         unmapped |-> [reason \in UNION {unmapped[i] : i \in DOMAIN unmapped} |->
                         Cardinality(givenBy(reason))],
         attention |-> [family \in DOMAIN grouping.attention |->
                          closed(grouping.attention[family], family)],
         unmappedGroup |-> closed(grouping.unmappedGroup, "unmapped"),
         execution |-> [state \in DOMAIN grouping.execution |->
                          closed([members |-> grouping.execution[state], reasons |-> <<>>], "none")]]

(***************************************************************************)
(* Property, for a run.                                                    *)
(***************************************************************************)
(* No sibling falls between the groups and no reason between the counts:   *)
(* a unit that needs no attention is in one execution group and nowhere    *)
(* else, every other is in each of its families or in the unmapped group;  *)
(* the occurrences of the groups and the reasons of mixed-family units     *)
(* that no family claims add up to the number in the heading; the line of  *)
(* unmapped reasons names all of them; a count that rests on a limited or  *)
(* missing record says so; and the pages of a group show all of it, each   *)
(* revealing what its button says.                                         *)
FanoutCountsEveryUnit(run) ==
    LET units == run.units
        grouping == FanoutGrouping(units)
        tree == FanoutTree(run)
        in(unit, members) == Len(SelectSeq(members, LAMBDA u : u = unit))
        families(unit) == {f \in DOMAIN grouping.attention : in(unit, grouping.attention[f].members) = 1}
        states(unit) == {s \in DOMAIN grouping.execution : in(unit, grouping.execution[s]) = 1}
        required == {i \in DOMAIN units : units[i].required = "yes"}
        mixed == {i \in required : FamiliesOf(units[i]) # {}}
        qualified(unit, group) == unit.limitations \cup run.limitations \subseteq group.limitations
        paged(group, family) == \A page \in 1..Len(units) + 1 :
            LET now == FanoutGroup(run, group, family, page, page)
                next == FanoutGroup(run, group, family, page + 1, page + 1)
            IN  /\ next.members.shown = now.members.shown + now.members.reveal
                /\ next.reasons.shown = now.reasons.shown + now.reasons.reveal
    IN  /\ \A i \in DOMAIN units :
             IF NeedsNoAttention(units[i])
             THEN /\ Cardinality(states(units[i])) = 1 /\ families(units[i]) = {}
                  /\ in(units[i], grouping.unmappedGroup.members) = 0
                  /\ \A s \in states(units[i]) : qualified(units[i], tree.execution[s])
             ELSE /\ states(units[i]) = {}
                  /\ units[i].required = "yes" => families(units[i]) = FamiliesOf(units[i])
                  /\ in(units[i], grouping.unmappedGroup.members)
                       = IF families(units[i]) = {} THEN 1 ELSE 0
                  /\ \A f \in families(units[i]) : qualified(units[i], tree.attention[f])
                  /\ families(units[i]) = {} => qualified(units[i], tree.unmappedGroup)
        /\ TotalOf([f \in DOMAIN tree.attention |-> tree.attention[f].occurrences])
             + tree.unmappedGroup.occurrences
             + TotalOf([i \in mixed |-> Cardinality(grouping.unmapped[i])])
           = tree.occurrences
        /\ UNION {UnmappedReasons(units[i]) : i \in required} \subseteq DOMAIN tree.unmapped
        /\ "child_log_missing" \in UNION {ReasonsOf(units[i]) : i \in required}
             => "child_log_missing" \in tree.attention["evidence"].limitations
        /\ paged(grouping.unmappedGroup, "unmapped")
        /\ \A f \in DOMAIN grouping.attention : paged(grouping.attention[f], f)
=============================================================================
