---------------------------- MODULE SessionLease ----------------------------
(***************************************************************************)
(* Pixir.SessionLease: the file that keeps two operating-system processes  *)
(* from writing the Log of one Session, with the Session process that      *)
(* acquires it, refreshes it, asks it before every append and removes it.  *)
(*                                                                         *)
(* Each writer is one Session process of some BEAM; a restarted Session is *)
(* another writer.  Every call to the file system is a step of its own,    *)
(* and a writer may pause for any time between two of them.                *)
(***************************************************************************)
EXTENDS Integers, FiniteSets, SequencesExt

CONSTANTS
  Writers,     \* Session processes: each acquires the lease at most once
  Forcers,     \* those started with --force-release-writer-lease
  Nobody,      \* the holder when there is no lease file
  Careful,     \* operators force only a lease whose process is gone
  StaleAfter,  \* stale_after_ms, in units of the clock
  MaxTime,     \* bound: the clock
  MaxEvents    \* bound: events in the Log

ASSUME LeaseAssumption ==
  /\ Forcers \subseteq Writers
  /\ Nobody \notin Writers
  /\ Careful \in BOOLEAN
  /\ StaleAfter \in Nat \ {0}
  /\ MaxTime \in Nat
  /\ MaxEvents \in Nat

VARIABLES
  lease,  \* the lease file
  log,    \* the Log file: the seq of each event
  pc,     \* where each writer stands between two calls to the file system
  seq,    \* the seq each Session will stamp next
  stamp,  \* the heartbeat_at_ms a writer is about to write; 0 at rest
  now,    \* the clock of the machine
  stray,  \* history: appends of each writer while the lease was not its own
  broken  \* history: an active lease was removed by force

vars == <<lease, log, pc, seq, stamp, now, stray, broken>>

Positions == {"closed", "releasing", "opening", "creating", "folding", "held",
              "authorized", "beating", "closing", "gone"}

(* Between these the Session process believes that the lease is its own.   *)
Holding == {"creating", "folding", "held", "authorized", "beating", "closing"}

(* A file created but not yet written is not JSON: whole is FALSE.         *)
NoFile == [holder |-> Nobody, beat |-> 0, whole |-> FALSE]
Present == lease.holder # Nobody
Owns(w) == lease.holder = w /\ lease.whole

(* classify_lease/5 of a file that is there.                               *)
LeaseState ==
  IF ~lease.whole THEN "ambiguous"
  ELSE IF now - lease.beat <= StaleAfter THEN "active" ELSE "stale"

Init ==
  /\ lease = NoFile
  /\ log = <<>>
  /\ pc = [w \in Writers |-> "closed"]
  /\ seq = [w \in Writers |-> 0]
  /\ stamp = [w \in Writers |-> 0]
  /\ now = 0
  /\ stray = [w \in Writers |-> 0]
  /\ broken = FALSE

Moves(w, from, to) == pc[w] = from /\ pc' = [pc EXCEPT ![w] = to]

(***************************************************************************)
(* Opening a Session: init/1, acquire/2, force_release/2, fold/2.          *)
(***************************************************************************)
(* acquire/2 without force_release?: straight to the exclusive create.     *)
Open(w) ==
  /\ w \notin Forcers
  /\ Moves(w, "closed", "opening")
  /\ UNCHANGED <<lease, log, seq, stamp, now, stray, broken>>

\* Mutant: an active lease is removed like any other.
ForceReadsAny(w) ==
  /\ w \in Forcers
  /\ Present /\ Careful => pc[lease.holder] = "gone"
  /\ Moves(w, "closed", IF Present THEN "releasing" ELSE "opening")
  /\ UNCHANGED <<lease, log, seq, stamp, now, stray, broken>>

(* The status that force_release/2 reads.  An active lease is refused,     *)
(* which leaves the writer where it was.                                   *)
ForceReads(w) ==
  /\ w \in Forcers
  /\ \/ ~Present /\ Moves(w, "closed", "opening")
     \/ /\ Present /\ LeaseState \in {"stale", "ambiguous"}
        /\ Careful => pc[lease.holder] = "gone"
        /\ Moves(w, "closed", "releasing")
  /\ UNCHANGED <<lease, log, seq, stamp, now, stray, broken>>

(* remove_lease/2 after the release record was written: whatever file is   *)
(* at the path by then.                                                    *)
ForceRemoves(w) ==
  /\ Moves(w, "releasing", "opening")
  /\ lease' = NoFile
  /\ broken' = (broken \/ (Present /\ LeaseState = "active"))
  /\ UNCHANGED <<log, seq, stamp, now, stray>>

\* Mutant: File.open without :exclusive.
CreatesOverAnything(w) ==
  /\ Moves(w, "opening", "creating")
  /\ lease' = [holder |-> w, beat |-> now, whole |-> FALSE]
  /\ UNCHANGED <<log, seq, stamp, now, stray, broken>>

(* File.open with :exclusive.  The lease map, and its heartbeat, is older. *)
Creates(w) ==
  /\ ~Present
  /\ Moves(w, "opening", "creating")
  /\ lease' = [holder |-> w, beat |-> now, whole |-> FALSE]
  /\ UNCHANGED <<log, seq, stamp, now, stray, broken>>

CreateRefused(w) ==
  /\ Present
  /\ Moves(w, "opening", "closed")
  /\ UNCHANGED <<lease, log, seq, stamp, now, stray, broken>>

(* IO.write into the file just opened, which may be unlinked by now.       *)
WritesLease(w) ==
  /\ Moves(w, "creating", "folding")
  /\ lease' = IF lease.holder = w THEN [lease EXCEPT !.whole = TRUE] ELSE lease
  /\ UNCHANGED <<log, seq, stamp, now, stray, broken>>

\* Mutants: the Session starts at zero; next_seq/1 is off by one.
FoldsNothing(w) ==
  /\ Moves(w, "folding", "held")
  /\ UNCHANGED <<lease, log, seq, stamp, now, stray, broken>>

FoldsLastSeq(w) ==
  /\ Moves(w, "folding", "held")
  /\ seq' = [seq EXCEPT ![w] = Len(log) - 1]
  /\ UNCHANGED <<lease, log, stamp, now, stray, broken>>

Folds(w) ==
  /\ Moves(w, "folding", "held")
  /\ seq' = [seq EXCEPT ![w] = IF log = <<>> THEN 0 ELSE Last(log) + 1]
  /\ UNCHANGED <<lease, log, stamp, now, stray, broken>>

(* release/1 first reads the holder and leaves another's file alone.       *)
ReadsToRelease(w, from) ==
  /\ Moves(w, from, IF Owns(w) THEN "closing" ELSE "gone")
  /\ UNCHANGED <<lease, log, seq, stamp, now, stray, broken>>

FoldFails(w) == ReadsToRelease(w, "folding")

(***************************************************************************)
(* The Session at work.                                                    *)
(***************************************************************************)
\* Mutant: no authorize_append/2 before the write.
AuthorizesAll(w) ==
  /\ Len(log) < MaxEvents
  /\ Moves(w, "held", "authorized")
  /\ UNCHANGED <<lease, log, seq, stamp, now, stray, broken>>

(* Log.append/2 asks authorize_append/2; a refusal changes nothing.        *)
Authorizes(w) ==
  /\ Len(log) < MaxEvents
  /\ Owns(w)
  /\ Moves(w, "held", "authorized")
  /\ UNCHANGED <<lease, log, seq, stamp, now, stray, broken>>

Appends(w) ==
  /\ Moves(w, "authorized", "held")
  /\ log' = Append(log, seq[w])
  /\ seq' = [seq EXCEPT ![w] = @ + 1]
  /\ stray' = [stray EXCEPT ![w] = IF Owns(w) THEN @ ELSE @ + 1]
  /\ UNCHANGED <<lease, stamp, now, broken>>

\* Mutant: the heartbeat does not compare the holder.
BeatsUnread(w) ==
  /\ Moves(w, "held", "beating")
  /\ stamp' = [stamp EXCEPT ![w] = now]
  /\ UNCHANGED <<lease, log, seq, now, stray, broken>>

(* heartbeat/1 reads the holder.  Anything but its own lease stops the     *)
(* Session, whose terminate/2 finds nothing of its own to release.         *)
ReadsHeartbeat(w) ==
  /\ Moves(w, "held", IF Owns(w) THEN "beating" ELSE "gone")
  /\ stamp' = IF Owns(w) THEN [stamp EXCEPT ![w] = now] ELSE stamp
  /\ UNCHANGED <<lease, log, seq, now, stray, broken>>

(* The rename of write_json_atomic/4 replaces whatever file is there.      *)
WritesHeartbeat(w) ==
  /\ Moves(w, "beating", "held")
  /\ lease' = [holder |-> w, beat |-> stamp[w], whole |-> TRUE]
  /\ stamp' = [stamp EXCEPT ![w] = 0]
  /\ UNCHANGED <<log, seq, now, stray, broken>>

(* terminate/2 of an orderly stop.                                         *)
Closes(w) == ReadsToRelease(w, "held")

RemovesLease(w) ==
  /\ Moves(w, "closing", "gone")
  /\ lease' = NoFile
  /\ UNCHANGED <<log, seq, stamp, now, stray, broken>>

(* The OS process is killed, or halts without terminate/2.                 *)
Crashes(w) ==
  /\ pc[w] \in Holding
  /\ pc' = [pc EXCEPT ![w] = "gone"]
  /\ UNCHANGED <<lease, log, seq, stamp, now, stray, broken>>

Tick ==
  /\ now < MaxTime
  /\ now' = now + 1
  /\ UNCHANGED <<lease, log, pc, seq, stamp, stray, broken>>

(* What an opened Session does by itself once it is scheduled.             *)
Works(w) ==
  \/ WritesLease(w) \/ Folds(w) \/ Appends(w)
  \/ ReadsHeartbeat(w) \/ WritesHeartbeat(w) \/ RemovesLease(w)

WriterStep(w) ==
  \/ Open(w) \/ ForceReads(w) \/ ForceRemoves(w)
  \/ Creates(w) \/ CreateRefused(w) \/ FoldFails(w)
  \/ Authorizes(w) \/ Closes(w) \/ Crashes(w)
  \/ Works(w)

Next == Tick \/ \E w \in Writers : WriterStep(w)

Spec == Init /\ [][Next]_vars

(* A process that is not killed goes on, and its heartbeat timer fires.    *)
FairSpec == Spec /\ \A w \in Writers : WF_vars(Works(w))

(***************************************************************************)
(* Properties.                                                             *)
(***************************************************************************)
TypeOK ==
  /\ lease \in [holder : Writers \cup {Nobody}, beat : Nat, whole : BOOLEAN]
  /\ log \in Seq(Nat)
  /\ pc \in [Writers -> Positions]
  /\ seq \in [Writers -> Nat]
  /\ stamp \in [Writers -> Nat]
  /\ now \in Nat
  /\ stray \in [Writers -> Nat]
  /\ broken \in BOOLEAN

(* "Exactly one writer holder" (session_lease.ex:7): at most one process   *)
(* believes that the lease is its own, and the file says the same.         *)
SoleHolder == \A w \in Writers : pc[w] \in Holding => lease.holder = w

(* The lines of the Log carry the seq of their place: no two Sessions ever *)
(* stamp the same one, and none is skipped (session.ex:30).                *)
SeqIsPlace == \A i \in DOMAIN log : log[i] = i - 1

(* Whatever operators force: a writer that lost its lease gets at most one *)
(* event into the Log, the one authorized before, and then finds out       *)
(* (log.ex:125, session.ex:536).                                           *)
OneStrayAppend == \A w \in Writers : stray[w] <= 1

(* "Active leases are refused" by force_release/2 (session_lease.ex:175).  *)
ActiveLeaseRefused == ~broken

(* A Session whose lease was taken stops by itself (session.ex:543).       *)
LossStopsTheSession ==
  \A w \in Writers : (pc[w] = "held" /\ ~Owns(w)) ~> pc[w] = "gone"

=============================================================================
