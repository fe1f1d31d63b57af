---------------------------- MODULE MCDiagnostics ----------------------------
(***************************************************************************)
(* One run for the three parts of the diagnostics: the log directories,    *)
(* the crash rings and the crash handler.  They share no variable, so each *)
(* initial state picks the part that runs and the other two stay at rest:  *)
(* the run explores the sum of the three state spaces and not their        *)
(* product.                                                                *)
(*                                                                         *)
(* Directories: two logging threads and one crash reporter, and storage    *)
(* that runs out before the instances do.  Rings: three threads, three     *)
(* channels for two rings, and enough lines for every ring to wrap.        *)
(* Handler: two threads whose faults may share code and address, and more  *)
(* faults than the budget allows.                                          *)
(***************************************************************************)
EXTENDS LogDirectory, CrashRings, CrashHandler, TLC

CONSTANTS l1, l2, r1, t1, t2, t3, patch, morph, audio

MCLoggers == {l1, l2}
MCReporters == {r1}
MCLogThreads == {t1, t2, t3}
MCChannels == {patch, morph, audio}
MCSymmetry == Permutations(MCLogThreads)

MCFaulting == {1, 2}
MCCodes == {5, 6}
MCFatalCodes == {5}
MCAddresses == {7, 8}

VARIABLE part

diagnosticsVars == <<directoryVars, ringVars, vars, part>>

DiagnosticsInit ==
  /\ DirectoryInit /\ RingsInit /\ Init
  /\ part \in {"directories", "rings", "handler"}

DiagnosticsNext ==
  \/ part = "directories" /\ DirectoryNext /\ UNCHANGED <<ringVars, vars, part>>
  \/ part = "rings" /\ RingsNext /\ UNCHANGED <<directoryVars, vars, part>>
  \/ part = "handler" /\ Next /\ UNCHANGED <<directoryVars, ringVars, part>>

DiagnosticsSpec == DiagnosticsInit /\ [][DiagnosticsNext]_diagnosticsVars
=============================================================================
