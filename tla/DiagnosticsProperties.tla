----------------------- MODULE DiagnosticsProperties -----------------------
(***************************************************************************)
(* What the collector and its scopes must keep.                            *)
(***************************************************************************)
EXTENDS Diagnostics

Collectors ==
    [diagnostics : Seq(Diagnostic), generation : Nat, errorCount : Nat, warningCount : Nat,
     fatalCount : Nat, geometryDegraded : BOOLEAN, namingDegraded : BOOLEAN,
     maxDiagnostics : Nat \ {0}, truncated : BOOLEAN, overflowCount : Nat]

Scopes ==
    [startIndex : Nat, generation : Nat, extracted : BOOLEAN, poisoned : BOOLEAN,
     erred : BOOLEAN, from : Nat, overflowCount : Nat]

(* The type invariant. *)
DGTypeOK ==
    /\ collector \in Collectors
    /\ scopes \in Seq(Scopes)
    /\ result \in [kind : {"none", "makeResult", "makeFailure"}, ok : BOOLEAN,
                   hasErrors : BOOLEAN, erred : BOOLEAN, lost : BOOLEAN]
    /\ reported \in Seq(Diagnostic)

-----------------------------------------------------------------------------
(* The counters behind hasErrors(), errorCount() and the degraded flags,   *)
(* kept up incrementally, say what a recount of the vector says.           *)
CountersMatch == collector = Recounted(collector)

(* The vector never grows beyond the cap of the moment, however the cap    *)
(* moves and whatever report() runs into.                                  *)
WithinCap(before, after) ==
    Len(after.diagnostics) > Len(before.diagnostics) =>
        Len(after.diagnostics) <= after.maxDiagnostics

CapRespected == [][WithinCap(collector, collector')]_dgVars

(* Root causes survive: until a clear, what was kept stays where it is, but *)
(* for the last one, which gives way once to the marker.                   *)
Keeps(before, after) ==
    after.generation = before.generation =>
        /\ Len(after.diagnostics) >= Len(before.diagnostics)
        /\ \A i \in DOMAIN before.diagnostics :
            \/ after.diagnostics[i] = before.diagnostics[i]
            \/ i = Len(before.diagnostics) /\ after.truncated /\ ~before.truncated

FirstReportedKept == [][Keeps(collector, collector')]_dgVars

(* The collector keeps the first that were reported, up to its cap.        *)
KeptUpToCap == CapRespected /\ FirstReportedKept

(* A loss at the cap shows: there is a marker exactly when the collector   *)
(* is truncated, and never a second one, however the cap moves.            *)
TruncationMarked ==
    Cardinality({i \in DOMAIN collector.diagnostics :
                    collector.diagnostics[i].code = "DIAG_TRUNCATED"})
        = IF collector.truncated THEN 1 ELSE 0

(* A scope that was not invalidated starts inside the vector, and an inner *)
(* one not before an outer one: an outer operation sees all of an inner's. *)
ScopesNest ==
    \A i, j \in DOMAIN scopes :
        i <= j /\ ~Stale(scopes[i], collector) /\ ~Stale(scopes[j], collector) =>
            /\ scopes[i].startIndex <= scopes[j].startIndex
            /\ scopes[j].startIndex <= Len(collector.diagnostics)

(* The collector and the scopes that index it are well formed.             *)
CollectorConsistent == DGTypeOK /\ CountersMatch /\ ScopesNest

(* makeResult succeeds exactly when no error was reported by the operation *)
(* or the operations it called, unless diagnostics were lost meanwhile.    *)
ResultsTellErrors ==
    result.kind = "makeResult" /\ ~result.lost => (result.ok <=> ~result.erred)

(* A failed result says why, unless diagnostics were lost. *)
FailuresExplained ==
    result.kind # "none" /\ ~result.ok /\ ~result.lost => result.hasErrors

(* Results tell what happened, and what was lost is marked.                *)
ResultsTruthful == ResultsTellErrors /\ FailuresExplained /\ TruncationMarked

=============================================================================
