---------------------------- MODULE SessionLedger ----------------------------
(***************************************************************************)
(* Session implements CallLedger.  Where a call stands is read from the    *)
(* Log as any later reader folds it, and from what the Session holds.      *)
(***************************************************************************)
EXTENDS Session

\* An event of the Log the ledger has no step for, unless a killed Turn had
\* sent it: a second event for a call that begins with a tool_call, and a
\* tool_result with nothing open to answer.
Repeats(j) ==
  /\ log[j].type = "tool_call" /\ log[j].via # "late"
  /\ \E i \in 1..j-1 : /\ log[i].type \in {"tool_call", "tool_result"}
                       /\ log[i].call = log[j].call

AnswersNothing(j) ==
  /\ log[j].type = "tool_result" /\ log[j].via # "late"
  /\ ~\E i \in 1..j-1 :
        /\ log[i].type = "tool_call" /\ log[i].call = log[j].call
        /\ \A n \in i+1..j-1 : ~(log[n].type = "tool_result" /\ log[n].call = log[j].call)

Corrupt == {log[j].call : j \in {i \in 1..Len(log) : Repeats(i) \/ AnswersNothing(i)}}

\* "corrupt" is no standing of the ledger: no step leads there.
Standings ==
  LET corrupt == Corrupt
      open    == Pending(log)
      known   == Known(log)
      held    == ToSet(committed_calls)
  IN [c \in Calls |-> IF c \in corrupt THEN "corrupt"
                      ELSE IF c \in open THEN "open"
                      ELSE IF c \in known THEN "closed"
                      ELSE IF c \in held THEN "held"
                      ELSE "unknown"]

LateEvents == {i \in 1..Len(log) : log[i].via = "late"}

Ledger == INSTANCE CallLedger
  WITH standing <- Standings,
       running  <- turn # NoTurn,
       strays   <- Cardinality(LateEvents)

\* The Session implements the call ledger: no interleaving of Turns, stream
\* runners, interrupts, failed appends and restarts records a call twice,
\* answers one that is not open, keeps one held past its Turn, or lets a Turn
\* begin over an open one.
ImplementsLedger == Ledger!Spec
=============================================================================
