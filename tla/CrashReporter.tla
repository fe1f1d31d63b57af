----------------------------- MODULE CrashReporter -----------------------------
(***************************************************************************)
(* What crash reporting promises, without threads, handlers or exchanges:  *)
(* one report at a time, no more than the budget, and no fault filed again *)
(* right after itself.  A report lost to a fault inside it is the last.    *)
(***************************************************************************)
EXTENDS Naturals, Sequences

CONSTANTS
  Budget,   \* reports a process may file
  Faults    \* whatever may be reported

VARIABLES
  running,  \* the process exists
  phase,    \* of the one report: "free", "open", "filed", "lost"
  filed     \* the faults reported, in order

reporterVars == <<running, phase, filed>>

ReporterInit == running = TRUE /\ phase = "free" /\ filed = <<>>

\* Nobody opens a report that the budget does not cover.
OpenReport ==
  /\ running /\ phase = "free" /\ Len(filed) < Budget
  /\ phase' = "open"
  /\ UNCHANGED <<running, filed>>

File(fault) ==
  /\ running /\ phase = "open"
  /\ filed = <<>> \/ filed[Len(filed)] # fault
  /\ filed' = Append(filed, fault)
  /\ phase' = "filed"
  /\ UNCHANGED running

\* A report that cannot be written is closed as well.
CloseReport ==
  /\ running /\ phase \in {"open", "filed"}
  /\ phase' = "free"
  /\ UNCHANGED <<running, filed>>

LoseReport ==
  /\ running /\ phase = "open"
  /\ phase' = "lost"
  /\ UNCHANGED <<running, filed>>

\* The process may end at any moment, whatever the report has come to.
End ==
  /\ running /\ running' = FALSE
  /\ UNCHANGED <<phase, filed>>

ReporterNext ==
  \/ OpenReport \/ CloseReport \/ LoseReport \/ End
  \/ \E fault \in Faults : File(fault)

ReporterSpec == ReporterInit /\ [][ReporterNext]_reporterVars
=============================================================================
