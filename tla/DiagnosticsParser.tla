-------------------------- MODULE DiagnosticsParser --------------------------
(***************************************************************************)
(* The parser of build logs in src/src/diagnostics.cpp.  A line of the log *)
(* is [type, severity, line]: type says whether it has the form of a       *)
(* problem, line stands for the line and the column the driver wrote,      *)
(* which count from one and may be too large for a long.                   *)
(***************************************************************************)
EXTENDS Integers, SequencesExt

CONSTANTS MaxLong  \* the largest long

ASSUME MaxLongAssumption == MaxLong \in Nat

Severities == {"warning", "error", "fatal error", "note"}
LogLines == [type : {"problem"}, severity : Severities, line : Nat]
              \cup [type : {"text"}, severity : {""}, line : Nat]

ParseSeverity(severity) ==
    CASE severity = "warning" -> "warning"
      [] severity \in {"error", "fatal error"} -> "error"
      [] severity = "note" -> "information"

\* std::stol throws for numbers that are too large.
Converts(l) == l.line <= MaxLong

CreateDiagnostic(l) == [line |-> l.line - 1, severity |-> ParseSeverity(l.severity)]

\* Fault: a problem that cannot be converted is not counted.
ParseLineCountingReported(parsed, l, problemsLimit) ==
    IF l.type = "problem" /\ parsed.count < problemsLimit /\ Converts(l)
    THEN [count |-> parsed.count + 1, diagnostics |-> Append(parsed.diagnostics, CreateDiagnostic(l))]
    ELSE parsed

\* One round of the loop.  Once the limit is reached the loop ends: the count is
\* not looked at again.
ParseLine(parsed, l, problemsLimit) ==
    IF l.type = "problem" /\ parsed.count < problemsLimit
    THEN [count |-> parsed.count + 1,
          diagnostics |-> IF Converts(l) THEN Append(parsed.diagnostics, CreateDiagnostic(l))
                          ELSE parsed.diagnostics]
    ELSE parsed

ParseDiagnostics(buildLog, problemsLimit) ==
    FoldLeft(LAMBDA parsed, l : ParseLine(parsed, l, problemsLimit),
             [count |-> 0, diagnostics |-> <<>>], buildLog).diagnostics
=============================================================================
