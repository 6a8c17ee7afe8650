-------------------------- MODULE MCMonitorClient --------------------------
(* Instances of MonitorClient for TLC. *)
EXTENDS MonitorClient, TLC

CONSTANTS w1, w2, r1, r2

Visit(view, w, run) ==
    [view |-> view, ws |-> w, run |-> run, follow |-> FALSE, raw |-> FALSE, manual |-> FALSE]
Pane(v) == [v EXCEPT !.manual = TRUE]
Follow(v) == [v EXCEPT !.follow = TRUE]

\* The list, a run with and without following it, an address of another
\* run's unit typed by hand, and an address that does not decode.
SingleVisits ==
    {Visit("runs", None, None), Pane(Visit("runs", None, None)), Visit("invalid", None, None),
     Visit("detail", None, r1), Follow(Visit("detail", None, r1)),
     Visit("unit", None, r2),
     [Follow(Visit("detail", None, r2)) EXCEPT !.raw = TRUE]}

\* The overview, the list and a run of one source, and a run of the other.
SetVisits ==
    {Visit("workspaces", None, None), Pane(Visit("workspaces", None, None)),
     Visit("runs", w1, None),
     Visit("detail", w1, r2), Follow(Visit("detail", w2, r1))}

MCVisits == SingleVisits \cup SetVisits
MCTrouble == [single |-> 4, set |-> 3]
=============================================================================
