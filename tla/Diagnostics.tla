---------------------------- MODULE Diagnostics ----------------------------
(***************************************************************************)
(* The diagnostics of a kernel context and the scopes that turn them into  *)
(* operation results (core/diagnostic.cpp, core/diagnostic_scope.cpp,      *)
(* core/operation_result.h, core/occt_try.h).                              *)
(*                                                                         *)
(* Every operation of the kernel opens a scope, works, reports and closes  *)
(* it; operations nest.  A scope is a view: it remembers how long the      *)
(* collector's vector was, and which generation of it, when it opened.     *)
(* `reported` and the scopes' `from` are history variables: they remember  *)
(* what was reported whether the collector kept it or not.                 *)
(***************************************************************************)
EXTENDS Integers, Sequences, FiniteSets

CONSTANTS
    Reportable,    \* the diagnostics operations report
    Caps,          \* caps a context is created with, or given later; 0: none
    CapChanges,    \* whether setMaxDiagnostics is called after construction
    Unlimited,     \* SIZE_MAX
    OutOfMemory,   \* whether push_back may throw
    DebugBuild,    \* whether ~DiagnosticScope checks for unobserved errors
    MaxDepth,      \* bound on the nesting of operations
    MaxReports,    \* bound on the reports since the last clear
    MaxGeneration  \* bound on the number of clears

Severities  == {"Info", "Warning", "Error", "Fatal"}
Codes       == {"REPORTED", "DIAG_TRUNCATED"}
Diagnostic  == [severity : Severities, code : Codes,
                geometryDegraded : BOOLEAN, namingDegraded : BOOLEAN]

Entry(severity, code) ==
    [severity |-> severity, code |-> code, geometryDegraded |-> FALSE, namingDegraded |-> FALSE]

ASSUME DiagnosticsAssumption ==
    /\ Reportable \subseteq Diagnostic
    /\ \A d \in Reportable : d.code = "REPORTED"
    /\ Caps \subseteq Nat
    /\ Unlimited \in Nat \ {0}
    /\ CapChanges \in BOOLEAN /\ OutOfMemory \in BOOLEAN /\ DebugBuild \in BOOLEAN
    /\ MaxDepth \in Nat /\ MaxReports \in Nat /\ MaxGeneration \in Nat

VARIABLES
    collector,  \* the DiagnosticCollector
    scopes,     \* the live DiagnosticScopes, innermost last
    result,     \* the OperationResult the last step made, or NoResult
    reported    \* history: everything reported since the last clear

dgVars == <<collector, scopes, result, reported>>

NoResult == [kind |-> "none", ok |-> TRUE, hasErrors |-> FALSE, erred |-> FALSE, lost |-> FALSE]

-----------------------------------------------------------------------------
(* The collector *)

IsError(d) == d.severity \in {"Error", "Fatal"}

CountOf(list, severity) == Cardinality({i \in DOMAIN list : list[i].severity = severity})

(* recomputeCounters_ *)
Recounted(c) ==
    [c EXCEPT
        !.errorCount       = CountOf(c.diagnostics, "Error"),
        !.warningCount     = CountOf(c.diagnostics, "Warning"),
        !.fatalCount       = CountOf(c.diagnostics, "Fatal"),
        !.geometryDegraded = \E i \in DOMAIN c.diagnostics : c.diagnostics[i].geometryDegraded,
        !.namingDegraded   = \E i \in DOMAIN c.diagnostics : c.diagnostics[i].namingDegraded]

(* bumpCounters_ *)
Bumped(c, d) ==
    [c EXCEPT
        !.errorCount       = IF d.severity = "Error" THEN @ + 1 ELSE @,
        !.warningCount     = IF d.severity = "Warning" THEN @ + 1 ELSE @,
        !.fatalCount       = IF d.severity = "Fatal" THEN @ + 1 ELSE @,
        !.geometryDegraded = @ \/ d.geometryDegraded,
        !.namingDegraded   = @ \/ d.namingDegraded]

Marker == Entry("Warning", "DIAG_TRUNCATED")

(* Mutant of Marked: the counters are not recomputed. *)
MarkedUncounted(c) ==
    IF c.diagnostics = <<>> THEN c
    ELSE [c EXCEPT !.diagnostics[Len(c.diagnostics)] = Marker]

(* The last kept diagnostic gives way to the marker. *)
Marked(c) ==
    IF c.diagnostics = <<>> THEN c
    ELSE Recounted([c EXCEPT !.diagnostics[Len(c.diagnostics)] = Marker])

Overflowed(c) ==
    LET counted == [c EXCEPT !.overflowCount = @ + 1]
    IN  IF c.truncated THEN counted ELSE Marked([counted EXCEPT !.truncated = TRUE])

(* Mutant of Reported: at the cap the oldest diagnostic is dropped. *)
ReportedDroppingOldest(c, d) ==
    IF Len(c.diagnostics) >= c.maxDiagnostics
    THEN Recounted([c EXCEPT !.diagnostics = Append(Tail(@), d), !.overflowCount = @ + 1])
    ELSE Bumped([c EXCEPT !.diagnostics = Append(@, d)], d)

(* report(), when memory suffices *)
Reported(c, d) ==
    IF Len(c.diagnostics) >= c.maxDiagnostics THEN Overflowed(c)
    ELSE Bumped([c EXCEPT !.diagnostics = Append(@, d)], d)

(* report(), when push_back throws: the diagnostic goes to a thread-local  *)
(* ring nothing reads.                                                     *)
ReportedWithoutMemory(c, d) ==
    IF Len(c.diagnostics) >= c.maxDiagnostics THEN Overflowed(c)
    ELSE [c EXCEPT !.overflowCount = @ + 1]

(* clear(): overflowCount_ and the cap stay. *)
Cleared(c) ==
    [c EXCEPT !.diagnostics = <<>>, !.errorCount = 0, !.warningCount = 0, !.fatalCount = 0,
              !.geometryDegraded = FALSE, !.namingDegraded = FALSE, !.truncated = FALSE,
              !.generation = @ + 1]

(* setMaxDiagnostics: 0 means no cap. *)
EffectiveCap(cap) == IF cap = 0 THEN Unlimited ELSE cap

NewCollector(cap) ==
    [diagnostics |-> <<>>, generation |-> 0, errorCount |-> 0, warningCount |-> 0,
     fatalCount |-> 0, geometryDegraded |-> FALSE, namingDegraded |-> FALSE,
     maxDiagnostics |-> EffectiveCap(cap), truncated |-> FALSE, overflowCount |-> 0]

-----------------------------------------------------------------------------
(* Scopes *)

Live == scopes # <<>>
Top  == scopes[Len(scopes)]

Stale(scope, c) == scope.generation # c.generation

(* extractDiagnostics: empty when a clear made startIndex_ meaningless. *)
Extracted(scope, c) ==
    IF Stale(scope, c) THEN <<>>
    ELSE SubSeq(c.diagnostics, scope.startIndex + 1, Len(c.diagnostics))

HasErrors(list) == \E i \in DOMAIN list : IsError(list[i])

(* Whether an error was reported while the scope was open. *)
Erred(scope, history) ==
    \/ scope.erred
    \/ \E i \in DOMAIN history : i > scope.from /\ IsError(history[i])

(* What a scope cannot see: diagnostics dropped, or cleared away. *)
LostTo(scope, c) == Stale(scope, c) \/ c.overflowCount > scope.overflowCount

ResultOf(kind, ok, scope, c, history) ==
    [kind |-> kind, ok |-> ok, hasErrors |-> HasErrors(Extracted(scope, c)),
     erred |-> Erred(scope, history), lost |-> LostTo(scope, c)]

WithTop(scope) == [scopes EXCEPT ![Len(scopes)] = scope]

Observed(scope, c) == [scope EXCEPT !.extracted = TRUE, !.poisoned = @ \/ Stale(scope, c)]

-----------------------------------------------------------------------------
DGInit ==
    /\ \E cap \in Caps : collector = NewCollector(cap)
    /\ scopes = <<>>
    /\ result = NoResult
    /\ reported = <<>>

MayReport == Len(reported) < MaxReports

Report(d) ==
    /\ MayReport
    /\ collector' = Reported(collector, d)
    /\ reported' = Append(reported, d)
    /\ result' = NoResult
    /\ UNCHANGED scopes

ReportOutOfMemory(d) ==
    /\ OutOfMemory
    /\ MayReport
    /\ collector' = ReportedWithoutMemory(collector, d)
    /\ reported' = Append(reported, d)
    /\ result' = NoResult
    /\ UNCHANGED scopes

(* clear(): by the caller, by FeatureTree::replay or by safeReset, whatever *)
(* scopes are open.  The history moves into them.                          *)
Clear ==
    /\ collector.generation < MaxGeneration
    /\ collector' = Cleared(collector)
    /\ scopes' = [i \in DOMAIN scopes |->
                    [scopes[i] EXCEPT !.erred = Erred(scopes[i], reported), !.from = 0]]
    /\ reported' = <<>>
    /\ result' = NoResult

SetMaxDiagnostics(cap) ==
    /\ CapChanges
    /\ collector' = [collector EXCEPT !.maxDiagnostics = EffectiveCap(cap)]
    /\ result' = NoResult
    /\ UNCHANGED <<scopes, reported>>

OpenScope ==
    /\ Len(scopes) < MaxDepth
    /\ scopes' = Append(scopes,
           [startIndex |-> Len(collector.diagnostics), generation |-> collector.generation,
            extracted |-> FALSE, poisoned |-> FALSE, erred |-> FALSE,
            from |-> Len(reported), overflowCount |-> collector.overflowCount])
    /\ result' = NoResult
    /\ UNCHANGED <<collector, reported>>

(* Mutant of MakeResult: only the collector's last diagnostic is looked at.*)
MakeResultFromLast ==
    /\ Live
    /\ LET seen == Extracted(Top, collector)
       IN  result' = ResultOf("makeResult", seen = <<>> \/ ~IsError(seen[Len(seen)]),
                              Top, collector, reported)
    /\ scopes' = WithTop(Observed(Top, collector))
    /\ UNCHANGED <<collector, reported>>

MakeResult ==
    /\ Live
    /\ result' = ResultOf("makeResult", ~HasErrors(Extracted(Top, collector)),
                          Top, collector, reported)
    /\ scopes' = WithTop(Observed(Top, collector))
    /\ UNCHANGED <<collector, reported>>

(* An operation that refuses its input, or the catch clauses of            *)
(* occtSafeCall: an error is reported, then makeFailure.                   *)
MakeFailure(d) ==
    /\ Live /\ MayReport
    /\ IsError(d)
    /\ collector' = Reported(collector, d)
    /\ reported' = Append(reported, d)
    /\ result' = ResultOf("makeFailure", FALSE, Top, collector', reported')
    /\ scopes' = WithTop(Observed(Top, collector'))

(* The innermost operation returns.  A debug build reports a scope that    *)
(* saw errors and was never extracted.                                     *)
UnobservedErrors(scope, c) ==
    ~scope.extracted /\ ~Stale(scope, c) /\ HasErrors(Extracted(scope, c))

CloseScope ==
    /\ Live
    /\ scopes' = SubSeq(scopes, 1, Len(scopes) - 1)
    /\ IF DebugBuild /\ UnobservedErrors(Top, collector)
       THEN /\ collector' = Reported(collector, Entry("Warning", "REPORTED"))
            /\ reported' = Append(reported, Entry("Warning", "REPORTED"))
       ELSE UNCHANGED <<collector, reported>>
    /\ result' = NoResult

DGNext ==
    \/ \E d \in Reportable : Report(d) \/ ReportOutOfMemory(d) \/ MakeFailure(d)
    \/ Clear
    \/ \E cap \in Caps : SetMaxDiagnostics(cap)
    \/ OpenScope
    \/ MakeResult
    \/ CloseScope

DGSpec == DGInit /\ [][DGNext]_dgVars

=============================================================================
