---------------------------- MODULE CrashHandler ----------------------------
(***************************************************************************)
(* Crash reporting (CrashHandler.cpp).  A fault first runs the vectored    *)
(* handler, then the thread's own handlers, then the unhandled filter; a   *)
(* CRT failure reports and terminates.  All of them share one report       *)
(* routine, its flag, its budget and the remembered last exception, every  *)
(* one a separate interlocked variable.                                    *)
(***************************************************************************)
EXTENDS Naturals, Sequences

CONSTANTS
  Threads,       \* threads that may fault
  MaxFaults,     \* bound: faults are numbered as they are raised
  Codes,         \* exception codes, code 0 excluded
  FatalCodes,    \* those IsFatalCode accepts
  FatalAppExit,  \* kStatusFatalAppExit
  Addresses,     \* faulting addresses
  MaxCrashLogs,  \* kMaxCrashLogs (8 in the code)
  Nested         \* the report itself may fault

ASSUME CrashConstants ==
  /\ MaxFaults \in Nat
  /\ 0 \notin Codes /\ FatalCodes \subseteq Codes /\ FatalAppExit \in FatalCodes
  /\ MaxCrashLogs \in Nat
  /\ Nested \in BOOLEAN

VARIABLES
  alive,       \* the process exists
  crashCount,  \* g_crashCount
  inHandler,   \* g_inHandler
  last,        \* g_lastLoggedCode, g_lastLoggedAddress, g_lastLoggedThreadId
  handling,    \* per thread: the fault being dispatched and how far it got
  raised,      \* history: faults raised so far
  reports,     \* history: the faults of the completed reports, in order
  abandoned    \* history: a fault inside a report was caught outside of it

vars == <<alive, crashCount, inHandler, last, handling, raised, reports, abandoned>>

\* Where the report returns to: the vectored handler, the unhandled filter, or
\* a CRT failure that terminates the process.
Origins == {"vectored", "unhandled", "runtime"}

NoFault == [pc |-> "running", id |-> 0, code |-> 0, address |-> 0, origin |-> "vectored"]

NobodyLogged == [code |-> 0, address |-> 0, thread |-> 0]

At(t, pc) == alive /\ handling[t].pc = pc
Goto(t, pc) == handling' = [handling EXCEPT ![t].pc = pc]

-----------------------------------------------------------------------------
(***************************************************************************)
(* Faults.                                                                 *)
(***************************************************************************)
NextFault == raised + 1
Faults == 1 .. MaxFaults

\* IsFatalCode: the vectored handler ignores other exceptions; the unhandled
\* filter does not.
IsFatalCode(code) == code \in FatalCodes

Raise(t, code, address) ==
  /\ At(t, "running") /\ NextFault \in Faults
  /\ raised' = NextFault
  /\ handling' = [handling EXCEPT ![t] =
       [pc |-> IF IsFatalCode(code) THEN "count" ELSE "search", id |-> NextFault,
        code |-> code, address |-> address, origin |-> "vectored"]]
  /\ UNCHANGED <<alive, crashCount, inHandler, last, reports, abandoned>>

\* TerminateAfterRuntimeFailure: abort, terminate, pure call, invalid parameter.
RuntimeFailure(t, address) ==
  /\ At(t, "running") /\ NextFault \in Faults
  /\ raised' = NextFault
  /\ handling' = [handling EXCEPT ![t] =
       [pc |-> "count", id |-> NextFault, code |-> FatalAppExit,
        address |-> address, origin |-> "runtime"]]
  /\ UNCHANGED <<alive, crashCount, inHandler, last, reports, abandoned>>

-----------------------------------------------------------------------------
(***************************************************************************)
(* WriteCrashReport.                                                       *)
(***************************************************************************)
\* What the caller does next, whether or not a report was written.
AfterReport(origin) ==
  CASE origin = "vectored"  -> "search"
    [] origin = "unhandled" -> "chain"
    [] origin = "runtime"   -> "terminate"

GiveUp(t) == Goto(t, AfterReport(handling[t].origin))

\* Deliberate fault, used by no specification: the budget counts from zero.
CountOneMore(t) ==
  /\ At(t, "count")
  /\ crashCount' = crashCount + 1
  /\ IF crashCount > MaxCrashLogs THEN GiveUp(t) ELSE Goto(t, "enter")
  /\ UNCHANGED <<alive, inHandler, last, raised, reports, abandoned>>

CountCrash(t) ==
  /\ At(t, "count")
  /\ crashCount' = crashCount + 1
  /\ IF crashCount' > MaxCrashLogs THEN GiveUp(t) ELSE Goto(t, "enter")
  /\ UNCHANGED <<alive, inHandler, last, raised, reports, abandoned>>

\* Deliberate fault, used by no specification: the flag is tested, then set.
EnterAnyway(t) ==
  /\ At(t, "enter")
  /\ inHandler' = TRUE
  /\ Goto(t, "open")
  /\ UNCHANGED <<alive, crashCount, last, raised, reports, abandoned>>

EnterReport(t) ==
  /\ At(t, "enter")
  /\ inHandler' = TRUE
  /\ IF inHandler THEN GiveUp(t) ELSE Goto(t, "open")
  /\ UNCHANGED <<alive, crashCount, last, raised, reports, abandoned>>

\* Deliberate fault, used by no specification: a failed open keeps the flag.
OpenFailsHolding(t) ==
  /\ At(t, "open")
  /\ Goto(t, "write") \/ GiveUp(t)
  /\ UNCHANGED <<alive, crashCount, inHandler, last, raised, reports, abandoned>>

\* OpenCrashLog: a unique file, else the shared one, else no report.
OpenCrashLog(t) ==
  /\ At(t, "open")
  /\ \/ Goto(t, "write") /\ UNCHANGED inHandler
     \/ GiveUp(t) /\ inHandler' = FALSE
  /\ UNCHANGED <<alive, crashCount, last, raised, reports, abandoned>>

WriteAndClose(t) ==
  /\ At(t, "write")
  /\ reports' = Append(reports, handling[t].id)
  /\ Goto(t, "remember_code")
  /\ UNCHANGED <<alive, crashCount, inHandler, last, raised, abandoned>>

\* A fault inside the report runs the handlers again: the vectored one counts
\* it, finds the flag set and declines; an outer handler of the interrupted
\* code catches it and abandons the report, or the process ends.
FaultInReport(t) ==
  /\ Nested
  /\ At(t, "write")
  /\ crashCount' = crashCount + 1
  /\ \/ /\ handling' = [handling EXCEPT ![t] = NoFault]
        /\ abandoned' = TRUE
        /\ UNCHANGED alive
     \/ alive' = FALSE /\ UNCHANGED <<handling, abandoned>>
  /\ UNCHANGED <<inHandler, last, raised, reports>>

\* Deliberate fault, used by no specification: the thread is not remembered.
RememberCodeOnly(t) ==
  /\ At(t, "remember_code")
  /\ last' = [last EXCEPT !.code = handling[t].code]
  /\ Goto(t, "leave")
  /\ UNCHANGED <<alive, crashCount, inHandler, raised, reports, abandoned>>

\* RememberLoggedException: three separate exchanges.
RememberLoggedException(t) ==
  /\ \/ /\ At(t, "remember_code")
        /\ last' = [last EXCEPT !.code = handling[t].code]
        /\ Goto(t, "remember_address")
     \/ /\ At(t, "remember_address")
        /\ last' = [last EXCEPT !.address = handling[t].address]
        /\ Goto(t, "remember_thread")
     \/ /\ At(t, "remember_thread")
        /\ last' = [last EXCEPT !.thread = t]
        /\ Goto(t, "leave")
  /\ UNCHANGED <<alive, crashCount, inHandler, raised, reports, abandoned>>

LeaveReport(t) ==
  /\ At(t, "leave")
  /\ inHandler' = FALSE
  /\ GiveUp(t)
  /\ UNCHANGED <<alive, crashCount, last, raised, reports, abandoned>>

-----------------------------------------------------------------------------
(***************************************************************************)
(* After the report.                                                       *)
(***************************************************************************)
\* A handler of the faulting code ends the dispatch, or nobody does.
HandledByCode(t) ==
  /\ At(t, "search")
  /\ handling' = [handling EXCEPT ![t] = NoFault]
  /\ UNCHANGED <<alive, crashCount, inHandler, last, raised, reports, abandoned>>

NobodyHandles(t) ==
  /\ At(t, "search")
  /\ Goto(t, "match_code")
  /\ UNCHANGED <<alive, crashCount, inHandler, last, raised, reports, abandoned>>

\* MatchesLastLoggedException: three loads; the first difference decides.
Compare(t, pc, equal, next) ==
  /\ At(t, pc)
  /\ IF equal THEN Goto(t, next)
              ELSE handling' = [handling EXCEPT ![t].pc = "count", ![t].origin = "unhandled"]
  /\ UNCHANGED <<alive, crashCount, inHandler, last, raised, reports, abandoned>>

MatchesLastLoggedException(t) ==
  \/ Compare(t, "match_code", last.code = handling[t].code, "match_address")
  \/ Compare(t, "match_address", last.address = handling[t].address, "match_thread")
  \/ Compare(t, "match_thread", last.thread = t, "chain")

\* UnhandledHandler returns what the previous filter says: to go on.
PreviousFilterResumes(t) ==
  /\ At(t, "chain")
  /\ handling' = [handling EXCEPT ![t] = NoFault]
  /\ UNCHANGED <<alive, crashCount, inHandler, last, raised, reports, abandoned>>

\* The previous filter, the system's own termination, or TerminateProcess:
\* the other threads stop wherever they are.
ProcessEnds(t) ==
  /\ At(t, "chain") \/ At(t, "terminate")
  /\ alive' = FALSE
  /\ UNCHANGED <<crashCount, inHandler, last, handling, raised, reports, abandoned>>

Init ==
  /\ alive = TRUE
  /\ crashCount = 0
  /\ inHandler = FALSE
  /\ last = NobodyLogged
  /\ handling = [t \in Threads |-> NoFault]
  /\ raised = 0
  /\ reports = <<>>
  /\ abandoned = FALSE

Next ==
  \E t \in Threads :
    \/ \E code \in Codes, address \in Addresses : Raise(t, code, address)
    \/ \E address \in Addresses : RuntimeFailure(t, address)
    \/ CountCrash(t) \/ EnterReport(t) \/ OpenCrashLog(t) \/ WriteAndClose(t)
    \/ FaultInReport(t) \/ RememberLoggedException(t) \/ LeaveReport(t)
    \/ HandledByCode(t) \/ NobodyHandles(t) \/ MatchesLastLoggedException(t)
    \/ PreviousFilterResumes(t) \/ ProcessEnds(t)

Spec == Init /\ [][Next]_vars

-----------------------------------------------------------------------------
(***************************************************************************)
(* Properties.                                                             *)
(***************************************************************************)
ReportPcs == {"open", "write", "remember_code", "remember_address", "remember_thread", "leave"}

\* The handler's variables and the dispatches in progress have their types.
CrashTypeOK ==
  /\ alive \in BOOLEAN /\ inHandler \in BOOLEAN /\ abandoned \in BOOLEAN
  /\ crashCount \in Nat /\ raised \in Faults \cup {0}
  /\ last \in [code : Codes \cup {0}, address : Addresses \cup {0}, thread : Threads \cup {0}]
  /\ handling \in [Threads ->
       [pc : ReportPcs \cup {"running", "count", "enter", "search", "match_code",
                             "match_address", "match_thread", "chain", "terminate"},
        id : Faults \cup {0}, code : Codes \cup {0}, address : Addresses \cup {0},
        origin : Origins]]
  /\ reports \in Seq(Faults)

\* At most one thread is inside the report, and the flag is set exactly while
\* one is: no early return (budget, busy, no file) keeps it, so that a later
\* crash can still be reported.  A report abandoned by a fault inside it is
\* the one exception.
FlagHasOneOwner ==
  LET inside == {t \in Threads : handling[t].pc \in ReportPcs} IN
  /\ \A t, u \in inside : t = u
  /\ inHandler <=> inside # {} \/ abandoned

\* The process never writes more than kMaxCrashLogs reports, whatever the
\* threads, the duplicates and the failed attempts.
BudgetHolds == Len(reports) <= MaxCrashLogs

\* The unhandled filter does not report again what the vectored handler has
\* just reported: a fault is reported twice only when another report came in
\* between and replaced the remembered exception.
NoBackToBackDuplicate ==
  \A k \in 1 .. Len(reports) - 1 : reports[k] # reports[k + 1]

-----------------------------------------------------------------------------
(***************************************************************************)
(* The reporter the handlers implement: its report is whatever the thread  *)
(* that set the flag has come to.                                          *)
(***************************************************************************)
Opening == \E t \in Threads : handling[t].pc \in {"open", "write"}

ReportPhase ==
  CASE ~inHandler -> "free"
    [] inHandler /\ abandoned -> "lost"
    [] inHandler /\ ~abandoned /\ Opening -> "open"
    [] OTHER -> "filed"

Reporter == INSTANCE CrashReporter WITH
              Budget <- MaxCrashLogs, Faults <- Faults,
              running <- alive, phase <- ReportPhase, filed <- reports

\* The handlers of all threads together are one reporter: a report is opened
\* only while none is and the budget covers it, it ends filed, closed or lost
\* whatever the thread runs into, and no fault is filed again right after itself.
ImplementsReporter == Reporter!ReporterSpec
=============================================================================
