---------------------------- MODULE MCLeanCheck ----------------------------
(* Small instances of LeanCheck: a tool-use trace t1 and another trace t2,  *)
(* three certificate modes, pairs of commands that get in each other's way. *)
EXTENDS LeanCheck

CONSTANTS silent, plain, worded  \* commands

RaceChecks == {silent, plain}
AuditChecks == {worded}
MCTraces == {"t1", "t2"}
MCDirs == {"d1", "d2"}
MCModes == {"TraceSafe", "TraceSafeR", "Compositional"}
MCToolUse == {"t1"}

Command(t, m, d) ==
    [trace |-> t, mode |-> m, releaseGrade |-> FALSE, nonPublic |-> FALSE,
     skipBuild |-> FALSE, skipProof |-> FALSE, dir |-> d, hasOut |-> TRUE]

MCDeclaredMode == [t \in MCTraces |-> IF t = "t1" THEN "TraceSafeR" ELSE NoMode]
MCModeStatus == [m \in MCModes |->
    CASE m = "TraceSafe" -> "legacy" [] m = "TraceSafeR" -> "release_candidate"
      [] m = "Compositional" -> "experimental"]

BaseNames == {"trace_safe", "witness"}
MCGenerated == [m \in MCModes |->
    CASE m = "TraceSafe" -> BaseNames [] m = "TraceSafeR" -> BaseNames \cup {"trace_safe_r"}
      [] m = "Compositional" -> BaseNames \cup {"extension"}]
MCReleaseTheorems == {"trace_safe_r"}
MCAll == MCTraces \X MCModes

-----------------------------------------------------------------------------
(* The commands of each run. *)

ReleaseCommand == [Command("t1", NoMode, "d1") EXCEPT !.releaseGrade = TRUE]

(* A release-grade check that skips the build and names no certificate      *)
(* file, and a full check of the same trace in the base mode that saves to  *)
(* the same directory.                                                      *)
RaceRequest == [c \in RaceChecks |->
    IF c = silent THEN [ReleaseCommand EXCEPT !.skipBuild = TRUE, !.hasOut = FALSE]
    ELSE Command("t1", "TraceSafe", "d1")]

(* A check of a trace that has a forbidden word in one of its strings. *)
AuditRequest == [c \in AuditChecks |-> Command("t2", NoMode, "d1")]

=============================================================================
