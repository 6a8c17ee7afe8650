----------------------------- MODULE CallLedger -----------------------------
(***************************************************************************)
(* What a Session promises about every tool call a Provider commits, with  *)
(* the Log, the mailbox and the processes left out.                        *)
(*                                                                         *)
(* A call is unknown, then held by the Turn that committed it, then open   *)
(* (its tool_call is in the Log), then closed (so is its tool_result), and *)
(* it never moves back while the Session is the only one that writes.  A   *)
(* held call is forgotten only by the end of its Turn, and a Turn begins   *)
(* only when no call is open.                                              *)
(*                                                                         *)
(* One exception is admitted, by name: the record a killed Turn had        *)
(* already sent is written although nothing runs that could have sent it.  *)
(***************************************************************************)
EXTENDS Naturals

CONSTANT Calls     \* Provider function-call ids

VARIABLES
  standing,  \* where every call stands
  running,   \* a Turn runs
  strays     \* records of killed Turns that were written

vars == <<standing, running, strays>>

Standing == {"unknown", "held", "open", "closed"}

Init ==
  /\ standing = [c \in Calls |-> "unknown"]
  /\ running = FALSE
  /\ strays = 0

\* Every call moves along one of the given steps or stays where it is.
AllMove(steps) ==
  /\ standing' \in [Calls -> Standing]
  /\ \A c \in Calls : <<standing[c], standing'[c]>> \in steps \cup {<<s, s>> : s \in Standing}

\* What one call may do: the running Turn's Provider commits it, the Turn
\* records it, and then its result.  A call declared for a Turn that no longer
\* runs is written at once.
CallSteps ==
  IF running THEN {<<"unknown", "held">>, <<"held", "open">>, <<"open", "closed">>,
                   <<"unknown", "open">>}
             ELSE {<<"unknown", "open">>}

OneCallMoves ==
  \E c \in Calls, step \in CallSteps :
    /\ standing[c] = step[1]
    /\ standing' = [standing EXCEPT ![c] = step[2]]
    /\ UNCHANGED <<running, strays>>

\* With no Turn running, open calls are closed.
Reconcile ==
  /\ ~running
  /\ AllMove({<<"open", "closed">>})
  /\ UNCHANGED <<running, strays>>

\* A Turn begins: every open call is closed first, and none is held.
BeginTurn ==
  /\ ~running /\ running'
  /\ AllMove({<<"open", "closed">>})
  /\ \A c \in Calls : standing'[c] \in {"unknown", "closed"}
  /\ UNCHANGED strays

\* The Turn ends.  Nothing stays held: a held call is written, and perhaps
\* closed, or it is forgotten.
EndTurn ==
  /\ running /\ ~running'
  /\ AllMove({<<"held", "unknown">>, <<"held", "open">>, <<"held", "closed">>,
              <<"open", "closed">>})
  /\ \A c \in Calls : standing'[c] # "held"
  /\ UNCHANGED strays

\* The record of a killed Turn is written.
Stray ==
  /\ strays' = strays + 1
  /\ \/ UNCHANGED standing
     \/ \E c \in Calls, s \in {"open", "closed"} : standing' = [standing EXCEPT ![c] = s]
  /\ UNCHANGED running

Next == OneCallMoves \/ Reconcile \/ BeginTurn \/ EndTurn \/ Stray

Spec == Init /\ [][Next]_vars
=============================================================================
