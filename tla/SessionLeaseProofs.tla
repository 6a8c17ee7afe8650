------------------------- MODULE SessionLeaseProofs -------------------------
(***************************************************************************)
(* Theorems about the writer lease, for any number of writers, pauses of   *)
(* any length and Logs of any size.                                        *)
(*                                                                         *)
(* With at most one operator forcing, and only the lease of a process that *)
(* is gone, the lease is a lock (SoleHolderCorrect), the Log numbers its   *)
(* events without a gap or a repetition (SeqIsPlaceCorrect), and no active *)
(* lease is ever removed by force (ActiveLeaseRefusedCorrect).  Whatever   *)
(* the operators do, a Session that lost its lease appends at most one     *)
(* event more (OneStrayAppendCorrect).                                     *)
(***************************************************************************)
EXTENDS SessionLease, TLAPS

(* What the lock rests on: the file that a forcing writer is about to      *)
(* remove belongs to a process that is gone, and nobody else removes it.   *)
Orderly == Careful /\ \A f, g \in Forcers : f = g

RemovesTheDead ==
  \A w \in Writers : pc[w] = "releasing" =>
    w \in Forcers /\ lease.holder \in Writers /\ pc[lease.holder] = "gone"

(* The Session that holds the lease knows how long the Log is.             *)
KnowsTheLog ==
  \A w \in Writers : pc[w] \in {"held", "authorized", "beating"} => seq[w] = Len(log)

(* A file not yet written belongs to the writer that is about to write it  *)
(* or died before it could.                                                *)
TornIsNew ==
  \A w \in Writers :
    (lease.holder = w /\ ~lease.whole) => pc[w] \in {"creating", "gone"}

(* After its stray append a writer does not own the file, and cannot again.*)
StrayIsLast ==
  \A w \in Writers :
    stray[w] # 0 => stray[w] = 1 /\ pc[w] \in {"held", "gone"} /\ lease.holder # w

(* Log.fold/2 of a Log that is not empty ends with a number.               *)
LEMMA LastIsNat == ASSUME TypeOK, log # <<>> PROVE Last(log) \in Nat
  BY DEF TypeOK, Last

(* Every value keeps its type: positions, the file, the Log and clocks.    *)
THEOREM TypeCorrect == Spec => []TypeOK
<1>1. Init => TypeOK
  <2>1. <<>> \in Seq(Nat)
    OBVIOUS
  <2>2. NoFile \in [holder : Writers \cup {Nobody}, beat : Nat, whole : BOOLEAN]
    BY DEF NoFile
  <2>3. Init => log \in Seq(Nat) /\ broken \in BOOLEAN
    BY <2>1 DEF Init
  <2>. QED
    BY <2>2, <2>3 DEF Init, TypeOK, Positions
<1>2. TypeOK /\ [Next]_vars => TypeOK'
  <2> SUFFICES ASSUME TypeOK, [Next]_vars PROVE TypeOK'
    OBVIOUS
  <2> USE DEF TypeOK, Moves, Positions
  <2>1. CASE Tick
    <3>1. now' \in Nat
      BY <2>1 DEF Tick
    <3>. QED
      BY <2>1, <3>1 DEF Tick
  <2>2. ASSUME NEW w \in Writers, WriterStep(w) PROVE TypeOK'
    <3>1. CASE Open(w)
      BY <3>1 DEF Open
    <3>2. CASE ForceReads(w)
      BY <3>2 DEF ForceReads
    <3>3. CASE ForceRemoves(w)
      BY <3>3 DEF ForceRemoves, NoFile
    <3>4. CASE Creates(w)
      BY <3>4 DEF Creates
    <3>5. CASE CreateRefused(w)
      BY <3>5 DEF CreateRefused
    <3>6. CASE WritesLease(w)
      BY <3>6 DEF WritesLease
    <3>7. CASE Folds(w)
      <4>1. IF log = <<>> THEN 0 \in Nat ELSE Last(log) + 1 \in Nat
        BY LastIsNat
      <4>2. seq' \in [Writers -> Nat]
        BY <3>7, <4>1 DEF Folds
      <4>. QED
        BY <3>7, <4>2 DEF Folds
    <3>8. CASE FoldFails(w)
      BY <3>8 DEF FoldFails, ReadsToRelease
    <3>9. CASE Authorizes(w)
      BY <3>9 DEF Authorizes
    <3>10. CASE Appends(w)
      <4>1. log' \in Seq(Nat)
        BY <3>10 DEF Appends
      <4>2. seq' \in [Writers -> Nat] /\ stray' \in [Writers -> Nat]
        BY <3>10 DEF Appends
      <4>. QED
        BY <3>10, <4>1, <4>2 DEF Appends
    <3>11. CASE ReadsHeartbeat(w)
      BY <3>11 DEF ReadsHeartbeat
    <3>12. CASE WritesHeartbeat(w)
      BY <3>12 DEF WritesHeartbeat
    <3>13. CASE Closes(w)
      BY <3>13 DEF Closes, ReadsToRelease
    <3>14. CASE RemovesLease(w)
      BY <3>14 DEF RemovesLease, NoFile
    <3>15. CASE Crashes(w)
      BY <3>15 DEF Crashes
    <3>. QED
      BY <2>2, <3>1, <3>2, <3>3, <3>4, <3>5, <3>6, <3>7, <3>8, <3>9, <3>10,
         <3>11, <3>12, <3>13, <3>14, <3>15 DEF WriterStep, Works
  <2>3. CASE UNCHANGED vars
    BY <2>3 DEF vars
  <2>. QED
    BY <2>1, <2>2, <2>3 DEF Next
<1>. QED
  BY <1>1, <1>2, PTL DEF Spec

(* Used with one orderly operator, the lease is a lock: the inductive step *)
(* of SoleHolder together with what force_release/2 is about to remove.    *)
LEMMA LockStep ==
  ASSUME Orderly, TypeOK, SoleHolder, RemovesTheDead, [Next]_vars
  PROVE  SoleHolder' /\ RemovesTheDead'
<1> USE DEF SoleHolder, RemovesTheDead, TypeOK, Moves, Positions, Holding
<1>1. CASE Tick
  BY <1>1 DEF Tick
<1>2. ASSUME NEW w \in Writers, WriterStep(w) PROVE SoleHolder' /\ RemovesTheDead'
  <2>1. CASE Open(w)
    BY <2>1 DEF Open
  <2>2. CASE ForceReads(w)
    BY <2>2, LeaseAssumption DEF ForceReads, Present, Orderly
  <2>3. CASE ForceRemoves(w)
    BY <2>3, LeaseAssumption DEF ForceRemoves, NoFile, Orderly
  <2>4. CASE Creates(w)
    BY <2>4, LeaseAssumption DEF Creates, Present
  <2>5. CASE CreateRefused(w)
    BY <2>5 DEF CreateRefused
  <2>6. CASE WritesLease(w)
    BY <2>6 DEF WritesLease
  <2>7. CASE Folds(w)
    BY <2>7 DEF Folds
  <2>8. CASE FoldFails(w)
    BY <2>8 DEF FoldFails, ReadsToRelease, Owns
  <2>9. CASE Authorizes(w)
    BY <2>9 DEF Authorizes
  <2>10. CASE Appends(w)
    BY <2>10 DEF Appends
  <2>11. CASE ReadsHeartbeat(w)
    BY <2>11 DEF ReadsHeartbeat, Owns
  <2>12. CASE WritesHeartbeat(w)
    BY <2>12 DEF WritesHeartbeat
  <2>13. CASE Closes(w)
    BY <2>13 DEF Closes, ReadsToRelease, Owns
  <2>14. CASE RemovesLease(w)
    BY <2>14 DEF RemovesLease, NoFile
  <2>15. CASE Crashes(w)
    BY <2>15 DEF Crashes
  <2>. QED
    BY <1>2, <2>1, <2>2, <2>3, <2>4, <2>5, <2>6, <2>7, <2>8, <2>9, <2>10,
       <2>11, <2>12, <2>13, <2>14, <2>15 DEF WriterStep, Works
<1>3. CASE UNCHANGED vars
  BY <1>3 DEF vars
<1>. QED
  BY <1>1, <1>2, <1>3 DEF Next

(* At most one process ever believes that the lease is its own, and the    *)
(* file agrees, when operators force only the lease of a dead process and  *)
(* one at a time.                                                          *)
THEOREM SoleHolderCorrect == Orderly /\ Spec => []SoleHolder
<1> SUFFICES ASSUME Orderly PROVE Spec => []SoleHolder
  OBVIOUS
<1>1. Init => SoleHolder /\ RemovesTheDead
  BY DEF Init, SoleHolder, RemovesTheDead, Holding
<1>2. TypeOK /\ SoleHolder /\ RemovesTheDead /\ [Next]_vars
      => SoleHolder' /\ RemovesTheDead'
  BY LockStep
<1>. QED
  BY <1>1, <1>2, TypeCorrect, PTL DEF Spec

(* The Log numbers its events by their place whoever writes them: the Log  *)
(* changes only through the one holder, which folded it when it opened.    *)
THEOREM SeqIsPlaceCorrect == Orderly /\ Spec => []SeqIsPlace
<1> SUFFICES ASSUME Orderly PROVE Spec => []SeqIsPlace
  OBVIOUS
<1>1. Init => SeqIsPlace /\ KnowsTheLog
  BY DEF Init, SeqIsPlace, KnowsTheLog
<1>2. TypeOK /\ SoleHolder /\ SeqIsPlace /\ KnowsTheLog /\ [Next]_vars
      => SeqIsPlace' /\ KnowsTheLog'
  <2> SUFFICES ASSUME TypeOK, SoleHolder, SeqIsPlace, KnowsTheLog, [Next]_vars
               PROVE  SeqIsPlace' /\ KnowsTheLog'
    OBVIOUS
  <2>1. ASSUME NEW w \in Writers, Folds(w) PROVE SeqIsPlace' /\ KnowsTheLog'
    <3>1. (IF log = <<>> THEN 0 ELSE Last(log) + 1) = Len(log)
      BY DEF TypeOK, SeqIsPlace, Last
    <3>. QED
      BY <2>1, <3>1 DEF Folds, Moves, TypeOK, SeqIsPlace, KnowsTheLog
  <2>2. ASSUME NEW w \in Writers, Appends(w) PROVE SeqIsPlace' /\ KnowsTheLog'
    <3>1. pc[w] = "authorized" /\ seq[w] = Len(log)
      BY <2>2 DEF Appends, Moves, KnowsTheLog
    <3>2. Len(log') = Len(log) + 1 /\ log'[Len(log) + 1] = Len(log)
      BY <2>2, <3>1 DEF Appends, TypeOK
    <3>3. \A i \in 1 .. Len(log) : log'[i] = log[i]
      BY <2>2 DEF Appends, TypeOK
    <3>4. SeqIsPlace'
      <4>1. DOMAIN log' = 1 .. Len(log) + 1 /\ DOMAIN log = 1 .. Len(log)
        BY <2>2, <3>2 DEF Appends, TypeOK
      <4>. QED
        <5> SUFFICES ASSUME NEW i \in 1 .. Len(log) + 1 PROVE log'[i] = i - 1
          BY <4>1 DEF SeqIsPlace
        <5>1. Len(log) \in Nat
          BY DEF TypeOK
        <5>2. CASE i \in 1 .. Len(log)
          BY <3>3, <4>1, <5>2 DEF SeqIsPlace
        <5>3. CASE i = Len(log) + 1
          BY <3>2, <5>1, <5>3
        <5>. QED
          BY <5>1, <5>2, <5>3
    <3>5. \A u \in Writers : u # w => pc'[u] \notin {"held", "authorized", "beating"}
      BY <2>2, <3>1 DEF Appends, Moves, SoleHolder, Holding, TypeOK
    <3>6. seq'[w] = Len(log')
      BY <2>2, <3>1, <3>2 DEF Appends, TypeOK
    <3>. QED
      BY <3>4, <3>5, <3>6 DEF KnowsTheLog
  <2>3. CASE log' = log /\ seq' = seq
             /\ \A u \in Writers : pc'[u] \in {"held", "authorized", "beating"}
                                 => pc[u] \in {"held", "authorized", "beating"}
    BY <2>3 DEF SeqIsPlace, KnowsTheLog
  <2>4. ASSUME NEW w \in Writers, WriterStep(w), ~Folds(w), ~Appends(w)
        PROVE  SeqIsPlace' /\ KnowsTheLog'
    <3> USE DEF Moves, TypeOK, Positions
    <3>1. log' = log /\ seq' = seq
      BY <2>4 DEF WriterStep, Works, Open, ForceReads, ForceRemoves, Creates,
         CreateRefused, WritesLease, FoldFails, ReadsToRelease, Authorizes,
         ReadsHeartbeat, WritesHeartbeat, Closes, RemovesLease, Crashes
    <3>2. \A u \in Writers : pc'[u] \in {"held", "authorized", "beating"}
                          => pc[u] \in {"held", "authorized", "beating"}
      BY <2>4 DEF WriterStep, Works, Open, ForceReads, ForceRemoves, Creates,
         CreateRefused, WritesLease, FoldFails, ReadsToRelease, Authorizes,
         ReadsHeartbeat, WritesHeartbeat, Closes, RemovesLease, Crashes
    <3>. QED
      BY <2>3, <3>1, <3>2
  <2>5. CASE Tick \/ UNCHANGED vars
    BY <2>3, <2>5 DEF Tick, vars
  <2>. QED
    BY <2>1, <2>2, <2>4, <2>5 DEF Next
<1>. QED
  BY <1>1, <1>2, TypeCorrect, SoleHolderCorrect, PTL DEF Spec

(* What force_release/2 read still stands when it removes the file: it was *)
(* stale or torn, and nobody is left to refresh or to finish it.           *)
RemovesWhatIsStale ==
  \A w \in Writers : pc[w] = "releasing" => Present /\ LeaseState # "active"

(* "Active leases are refused" also at the removal, which is a later step  *)
(* than the status it is based on (session_lease.ex:175): a process that   *)
(* is gone writes no heartbeat, so a stale file stays stale, and no other  *)
(* operator removes it to let a new holder in.                             *)
THEOREM ActiveLeaseRefusedCorrect == Orderly /\ Spec => []ActiveLeaseRefused
<1> SUFFICES ASSUME Orderly PROVE Spec => []ActiveLeaseRefused
  OBVIOUS
<1>1. Init => SoleHolder /\ RemovesTheDead /\ RemovesWhatIsStale /\ ActiveLeaseRefused
  BY DEF Init, SoleHolder, RemovesTheDead, Holding, RemovesWhatIsStale, ActiveLeaseRefused
<1>2. TypeOK /\ SoleHolder /\ RemovesTheDead /\ [Next]_vars
      => SoleHolder' /\ RemovesTheDead'
  BY LockStep
<1>3. TypeOK /\ SoleHolder /\ RemovesTheDead /\ RemovesWhatIsStale /\ ActiveLeaseRefused
        /\ [Next]_vars
      => RemovesWhatIsStale' /\ ActiveLeaseRefused'
  <2> SUFFICES ASSUME TypeOK, SoleHolder, RemovesTheDead, RemovesWhatIsStale,
                      ActiveLeaseRefused, [Next]_vars
               PROVE  RemovesWhatIsStale' /\ ActiveLeaseRefused'
    OBVIOUS
  <2> USE DEF TypeOK, RemovesWhatIsStale, ActiveLeaseRefused, Moves, Positions
  <2>1. CASE Tick
    <3>1. LeaseState # "active" => LeaseState' # "active"
      BY <2>1, LeaseAssumption DEF Tick, LeaseState
    <3>. QED
      BY <2>1, <3>1 DEF Tick, Present
  <2>2. ASSUME NEW w \in Writers, WriterStep(w)
        PROVE  RemovesWhatIsStale' /\ ActiveLeaseRefused'
    <3>1. ASSUME NEW u \in Writers, pc[u] = "releasing", pc[w] \in Holding PROVE FALSE
      BY <3>1 DEF SoleHolder, RemovesTheDead, Holding
    <3>2. ASSUME NEW u \in Writers, pc[u] = "releasing", pc[w] = "releasing" PROVE u = w
      BY <3>2 DEF RemovesTheDead, Orderly
    <3>3. ASSUME lease' = lease, now' = now, broken' = broken,
                 \A u \in Writers : pc'[u] = "releasing" => pc[u] = "releasing"
          PROVE  RemovesWhatIsStale' /\ ActiveLeaseRefused'
      BY <3>3 DEF Present, LeaseState
    <3>4. ASSUME broken' = broken,
                 \A u \in Writers : pc'[u] # "releasing"
          PROVE  RemovesWhatIsStale' /\ ActiveLeaseRefused'
      BY <3>4
    <3>5. CASE ForceReads(w)
      BY <3>5, LeaseAssumption DEF ForceReads, Present, LeaseState
    <3>6. CASE ForceRemoves(w)
      <4>1. \A u \in Writers : pc'[u] # "releasing"
        BY <3>2, <3>6 DEF ForceRemoves
      <4>2. broken' = broken
        BY <3>6 DEF ForceRemoves
      <4>. QED
        BY <3>4, <4>1, <4>2
    <3>7. CASE Creates(w)
      BY <3>7 DEF Creates
    <3>8. CASE WritesLease(w) \/ WritesHeartbeat(w) \/ RemovesLease(w)
      <4>1. \A u \in Writers : pc'[u] # "releasing"
        BY <3>1, <3>8 DEF WritesLease, WritesHeartbeat, RemovesLease, Holding
      <4>. QED
        BY <3>4, <3>8, <4>1 DEF WritesLease, WritesHeartbeat, RemovesLease
    <3>9. CASE Open(w) \/ CreateRefused(w) \/ FoldFails(w) \/ Authorizes(w)
               \/ Closes(w) \/ Crashes(w) \/ Folds(w) \/ Appends(w) \/ ReadsHeartbeat(w)
      <4>1. /\ lease' = lease /\ now' = now /\ broken' = broken
            /\ \A u \in Writers : pc'[u] = "releasing" => pc[u] = "releasing"
        BY <3>9 DEF Open, CreateRefused, FoldFails, Closes, ReadsToRelease, Authorizes,
           Crashes, Folds, Appends, ReadsHeartbeat
      <4>. QED
        BY <3>3, <4>1
    <3>. QED
      BY <2>2, <3>5, <3>6, <3>7, <3>8, <3>9 DEF WriterStep, Works
  <2>3. CASE UNCHANGED vars
    BY <2>3 DEF vars, Present, LeaseState
  <2>. QED
    BY <2>1, <2>2, <2>3 DEF Next
<1>. QED
  BY <1>1, <1>2, <1>3, TypeCorrect, PTL DEF Spec

(* Whatever is forced, a Session that lost its lease adds one event at     *)
(* most: it had been authorized before the loss, and the next look at the  *)
(* file tells it to stop.                                                  *)
THEOREM OneStrayAppendCorrect == Spec => []OneStrayAppend
<1>1. Init => TornIsNew /\ StrayIsLast
  BY LeaseAssumption DEF Init, NoFile, TornIsNew, StrayIsLast
<1>2. TypeOK /\ TornIsNew /\ StrayIsLast /\ [Next]_vars
      => TornIsNew' /\ StrayIsLast'
  <2> SUFFICES ASSUME TypeOK, TornIsNew, StrayIsLast, [Next]_vars
               PROVE  TornIsNew' /\ StrayIsLast'
    OBVIOUS
  <2> USE DEF TypeOK, TornIsNew, StrayIsLast, Moves, Positions
  <2>1. CASE Tick
    BY <2>1 DEF Tick
  <2>2. ASSUME NEW w \in Writers, WriterStep(w) PROVE TornIsNew' /\ StrayIsLast'
    <3>1. CASE Open(w)
      BY <3>1 DEF Open
    <3>2. CASE ForceReads(w)
      BY <3>2 DEF ForceReads
    <3>3. CASE ForceRemoves(w)
      BY <3>3, LeaseAssumption DEF ForceRemoves, NoFile
    <3>4. CASE Creates(w)
      BY <3>4, LeaseAssumption DEF Creates, Present
    <3>5. CASE CreateRefused(w)
      BY <3>5 DEF CreateRefused
    <3>6. CASE WritesLease(w)
      BY <3>6 DEF WritesLease
    <3>7. CASE Folds(w)
      BY <3>7 DEF Folds
    <3>8. CASE FoldFails(w)
      BY <3>8 DEF FoldFails, ReadsToRelease, Owns
    <3>9. CASE Authorizes(w)
      BY <3>9 DEF Authorizes, Owns
    <3>10. CASE Appends(w)
      BY <3>10 DEF Appends, Owns
    <3>11. CASE ReadsHeartbeat(w)
      BY <3>11 DEF ReadsHeartbeat, Owns
    <3>12. CASE WritesHeartbeat(w)
      BY <3>12 DEF WritesHeartbeat
    <3>13. CASE Closes(w)
      BY <3>13 DEF Closes, ReadsToRelease, Owns
    <3>14. CASE RemovesLease(w)
      BY <3>14, LeaseAssumption DEF RemovesLease, NoFile
    <3>15. CASE Crashes(w)
      BY <3>15 DEF Crashes
    <3>. QED
      BY <2>2, <3>1, <3>2, <3>3, <3>4, <3>5, <3>6, <3>7, <3>8, <3>9, <3>10,
         <3>11, <3>12, <3>13, <3>14, <3>15 DEF WriterStep, Works
  <2>3. CASE UNCHANGED vars
    BY <2>3 DEF vars
  <2>. QED
    BY <2>1, <2>2, <2>3 DEF Next
<1>3. StrayIsLast => OneStrayAppend
  BY DEF StrayIsLast, OneStrayAppend
<1>. QED
  BY <1>1, <1>2, <1>3, TypeCorrect, PTL DEF Spec

=============================================================================
