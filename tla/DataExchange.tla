---------------------------- MODULE DataExchange ----------------------------
(***************************************************************************)
(* io/: the STEP, IGES, STL and 3MF imports and exports of several worker  *)
(* threads, each with a context of its own.  A call checks its arguments,  *)
(* stages a buffer in a temporary file, opens the guard on OCCT's settings *)
(* (STEP and IGES), tries the reader or writer that keeps metadata and     *)
(* then the basic one, names what it imported, and on its way out restores *)
(* the settings, reads a written buffer back and removes the file.         *)
(***************************************************************************)
EXTENDS OcctGuard, XcafDocument, FiniteSetsExt

CONSTANTS Nullptr,       \* the key of a guard opened without a context
          TempNames,     \* names TempFile may come up with
          Stale,         \* of these, files another process left behind
          MaxAttempts,   \* TempFile's kMaxAttempts (32)
          StepLimit,     \* maxStepBytes of the contexts, 0 for none
          BufferLimit,   \* maxSerializeBytes
          MeshLimit,     \* maxMeshTriangles and maxMeshVertices
          Sizes,         \* sizes of files and buffers
          Unknown,       \* the size of a file that cannot be asked for it
          Documents,     \* the root labels a file may have
          Exports,       \* lists of shapes with their metadata
          ThreadOps      \* the operations each thread calls

VARIABLES calls,   \* the call each thread is in
          files    \* the temporary files that exist

callVars == <<calls, files>>
exchangeVars == <<guardVars, callVars>>

StepOps == {"importStep", "importStepFile", "exportStep", "exportStepFile"}
IgesOps == {"importIges", "importIgesFile", "exportIges", "exportIgesFile"}
StlOps == {"importStl", "importStlFile", "exportStl", "exportStlFile"}
ThreeMfOps == {"exportThreeMf", "exportThreeMfFile"}
Ops == StepOps \cup IgesOps \cup StlOps \cup ThreeMfOps

\* What AddShape does with a shape that a list names again is OCCT's affair:
\* the lists here name a shape once.
ShapesDiffer(shapes) ==
    \A i, j \in DOMAIN shapes : shapes[i] = shapes[j] => i = j \/ shapes[i] = None

ASSUME ExchangeAssumption ==
    /\ Nullptr \in Keys
    /\ Stale \subseteq TempNames /\ Nobody \notin TempNames
    /\ ThreadOps \in [Threads -> SUBSET Ops]
    /\ Sizes \subseteq Nat /\ BufferLimit \in Nat
    /\ \A x \in Exports : x.shapes \in Seq(Range(x.shapes)) /\ ShapesDiffer(x.shapes)

ImportOps == {"importStep", "importStepFile", "importIges", "importIgesFile", "importStl", "importStlFile"}
\* The calls that go through a temporary file.
StagedOps == {"importStep", "importIges", "importStl", "exportStep", "exportIges", "exportStl"}
\* The calls with a path of the caller's.
WithPath == Ops \ (StagedOps \cup {"exportThreeMf"})
GuardedOps == StepOps \cup IgesOps

\* What a call's guard sets, in order.
Sets(op) ==
    CASE op \in {"importStep", "importStepFile"} -> <<"xstep.cascade.unit">>
      [] op \in {"exportStep", "exportStepFile"} ->
             <<"write.step.schema", "write.step.unit", "xstep.cascade.unit">>
      [] op \in {"importIges", "importIgesFile"} -> <<"read.iges.bspline.continuity", "xstep.cascade.unit">>
      [] op \in {"exportIges", "exportIgesFile"} ->
             <<"write.iges.unit", "write.iges.brep.mode", "xstep.cascade.unit">>

Wanted(s) == CASE s = "write.step.schema" -> "AP214"
               [] s = "read.iges.bspline.continuity" -> "2"
               [] s = "write.iges.brep.mode" -> "1"
               [] OTHER -> "MM"

\* Mutant of GuardKey: the key is the caller's context.
GuardKeyOfContext(t) == t

\* All four users open it without a key.
GuardKey(t) == Nullptr

ASSUME SettingsAssumption ==
    /\ \A op \in GuardedOps : Range(Sets(op)) \subseteq Settings
    /\ \A s \in Settings : Wanted(s) \in Texts

NoCall == [op |-> Nobody, phase |-> "idle", bytes |-> 0, shapes |-> <<>>, metas |-> <<>>,
           temp |-> Nobody, tried |-> 0, todo |-> <<>>, roots |-> <<>>, shape |-> None,
           meta |-> NoMetadata, drawn |-> <<>>, warned |-> FALSE, result |-> "none"]

ExchangeInit == /\ GuardInit
                /\ calls = [t \in Threads |-> NoCall]
                /\ files = Stale

In(t, phase) == calls[t].phase = phase

\* Where a call goes when its file function returns: the guard is destroyed
\* first, then what was staged.
Unwound(c) ==
    IF c.phase \in {"setting", "converting", "fallback", "adopting"} /\ c.op \in GuardedOps THEN "closing"
    ELSE IF c.op \in StagedOps /\ c.temp # Nobody THEN "returned"
    ELSE "idle"

\* What is left of a call that has returned: its result, and of an export
\* the size of what it wrote.
Returned(c) == [NoCall EXCEPT !.op = c.op, !.result = c.result, !.bytes = IF c.op \in ImportOps THEN 0 ELSE c.bytes]

Ended(c, result) ==
    LET e == [c EXCEPT !.phase = Unwound(c), !.result = result]
    IN  IF e.phase = "idle" THEN Returned(e) ELSE e

Step(t, call) == calls' = [calls EXCEPT ![t] = call]

\* An entry point is called: imports with a buffer or file of some size,
\* exports with a list of shapes; 0 stands for no buffer and no path.
Call(t) ==
    /\ In(t, "idle")
    /\ \E op \in ThreadOps[t] :
         \/ /\ op \in ImportOps
            /\ \E bytes \in IF op \in StagedOps THEN Sizes \cup {0} ELSE Sizes \cup {0, Unknown} :
                 Step(t, [NoCall EXCEPT !.op = op, !.phase = "called", !.bytes = bytes])
         \/ /\ op \notin ImportOps
            /\ \E x \in Exports, bytes \in {0, Unknown} :
                 Step(t, [NoCall EXCEPT !.op = op, !.phase = "called",
                                        !.bytes = IF op \in WithPath THEN bytes ELSE Unknown,
                                        !.shapes = x.shapes, !.metas = x.metas])
    /\ UNCHANGED files /\ UNCHANGED guardVars

\* The size check of an import; a file whose size is unknown passes.
OverQuota(c) == StepLimit > 0 /\ c.bytes # Unknown /\ c.bytes > StepLimit

\* The checks before a buffer is staged.  STL buffers are only measured
\* once they are a file; a list of shapes is looked at by exportStep only.
BufferRefused(c) ==
    \/ c.op \in ImportOps /\ c.bytes = 0
    \/ c.op \in {"importStep", "importIges"} /\ OverQuota(c)
    \/ c.op = "exportStep" /\ c.shapes = <<>>

CheckBuffer(t) ==
    LET c == calls[t] IN
    /\ In(t, "called")
    /\ Step(t, IF c.op \notin StagedOps THEN [c EXCEPT !.phase = "checking"]
               ELSE IF BufferRefused(c) THEN Ended(c, "failed")
               ELSE [c EXCEPT !.phase = "staging"])
    /\ UNCHANGED files /\ UNCHANGED guardVars

\* Mutant of TryExclusiveCreate: a file that exists is taken.
AnyName(name) == TRUE

\* fopen with "x" creates the file or fails.
TryExclusiveCreate(name) == name \notin files

\* TempFile's constructor: another candidate each time, and an exception
\* after the last attempt.  The buffer of an import is written to the file,
\* which may fail.
Stage(t) ==
    LET c == calls[t] IN
    /\ In(t, "staging")
    /\ \E name \in TempNames :
         IF TryExclusiveCreate(name)
         THEN /\ files' = files \cup {name}
              /\ \/ Step(t, [c EXCEPT !.temp = name, !.phase = "checking"])
                 \/ c.op \in ImportOps /\ Step(t, Ended([c EXCEPT !.temp = name], "failed"))
         ELSE /\ IF c.tried + 1 < MaxAttempts
                 THEN Step(t, [c EXCEPT !.tried = @ + 1])
                 ELSE Step(t, Ended(c, "thrown"))
              /\ UNCHANGED files
    /\ UNCHANGED guardVars

\* Mutant of FileRefused: the size of the file is not asked.
FileRefusedUnmeasured(c, cancelled) ==
    \/ c.bytes = 0
    \/ c.op \in ImportOps /\ cancelled
    \/ c.op \in (StepOps \cup IgesOps) \ ImportOps /\ c.shapes = <<>>
    \/ c.op \in (StlOps \cup ThreeMfOps) \ ImportOps /\ (c.shapes = <<>> \/ Head(c.shapes) = None)

\* The checks of the file functions: the path, the token, the size of the
\* file.  Exports look at their shapes and do not poll.  The host may cancel
\* the context's token at any moment, so the poll may go either way.
FileRefused(c, cancelled) ==
    \/ c.bytes = 0
    \/ c.op \in ImportOps /\ (cancelled \/ OverQuota(c))
    \/ c.op \in (StepOps \cup IgesOps) \ ImportOps /\ c.shapes = <<>>
    \/ c.op \in (StlOps \cup ThreeMfOps) \ ImportOps /\ (c.shapes = <<>> \/ Head(c.shapes) = None)

\* A parent directory that cannot be made refuses a mesh export too.
CheckFile(t) ==
    LET c == calls[t] IN
    /\ In(t, "checking")
    /\ \/ \E cancelled \in BOOLEAN :
            Step(t, IF FileRefused(c, cancelled) THEN Ended(c, "failed")
                    ELSE [c EXCEPT !.phase = IF c.op \in GuardedOps THEN "locking" ELSE "converting"])
       \/ c.op \in {"exportStl", "exportStlFile", "exportThreeMfFile"} /\ Step(t, Ended(c, "failed"))
    /\ UNCHANGED files /\ UNCHANGED guardVars

\* The guard's constructor returns.
Acquire(t) ==
    /\ In(t, "locking")
    /\ OpenGuard(t, GuardKey(t))
    /\ Step(t, [calls[t] EXCEPT !.phase = "setting", !.todo = Sets(calls[t].op)])
    /\ UNCHANGED files

\* Mutant of AfterSettings: exportWithXcaf opens a guard of its own.
AfterSettingsLocking(op) == IF op \in ImportOps THEN "converting" ELSE "locking"

\* The reader or writer runs under the guard that is already open.
AfterSettings(op) == "converting"

\* The next setting of the call's guard.
SetNext(t) ==
    LET c == calls[t] IN
    /\ In(t, "setting")
    /\ SetStatic(t, Head(c.todo), Wanted(Head(c.todo)))
    /\ Step(t, [c EXCEPT !.todo = Tail(@),
                         !.phase = IF Len(c.todo) = 1 THEN AfterSettings(c.op) ELSE "setting"])
    /\ UNCHANGED files

\* An exception out of OCCT: the IGES and mesh functions turn it into an
\* error, the STEP functions let it through to their caller.
Thrown(c) == Ended(c, IF c.op \in StepOps THEN "thrown" ELSE "failed")

\* Mutant of WithMetadataReset: the first attempt's metadata stays.
WithoutReset(c) == c

\* The second attempt keeps nothing of the first one's metadata.
WithMetadataReset(c) == [c EXCEPT !.meta = NoMetadata]

\* importWithXcaf.  IGES keeps no metadata, and reads a file of several
\* roots once more with the basic reader, which may refuse it.
ReadWithMetadata(t) ==
    LET c == calls[t] IN
    /\ In(t, "converting") /\ c.op \in GuardedOps \cap ImportOps
    /\ \/ \E roots \in Documents :
            LET r == ImportWithXcaf(roots)
                read == [c EXCEPT !.shape = r.shape, !.meta = IF c.op \in StepOps THEN r.meta ELSE @]
            IN  \/ r.ok /\ Step(t, [read EXCEPT !.phase = "adopting", !.roots = roots])
                \/ (~r.ok \/ (c.op \in IgesOps /\ Len(roots) > 1)) /\ Step(t, [read EXCEPT !.phase = "fallback"])
       \/ Step(t, [c EXCEPT !.phase = "fallback"])
       \/ Step(t, Thrown(c))
    /\ UNCHANGED files /\ UNCHANGED guardVars

\* importBasicFallback: the shape without its metadata, and a warning.
ReadBasic(t) ==
    LET c == calls[t] IN
    /\ In(t, "fallback") /\ c.op \in ImportOps
    /\ \/ Step(t, [WithMetadataReset(c) EXCEPT !.phase = "adopting", !.shape = "Compound", !.warned = TRUE])
       \/ Step(t, Ended(c, "failed"))
       \/ Step(t, Thrown(c))
    /\ UNCHANGED files /\ UNCHANGED guardVars

\* importStlFile: the facets, sewn when sewing gives anything.
ReadStl(t) ==
    LET c == calls[t] IN
    /\ In(t, "converting") /\ c.op \in StlOps \cap ImportOps
    /\ \/ \E shape \in {"Sewn", "Compound"} : Step(t, [c EXCEPT !.phase = "adopting", !.shape = shape])
       \/ Step(t, Ended(c, "failed"))
    /\ UNCHANGED files /\ UNCHANGED guardVars

\* Identities are drawn for every face, edge and vertex, and one for the
\* shape: the first by STEP, the last by IGES and STL.
SubShapes == <<"Face1", "Edge1", "Vertex1">>
Drawn(op) == IF op \in StepOps THEN <<"Shape">> \o SubShapes ELSE SubShapes \o <<"Shape">>

\* fixShape runs on a shape that is not valid, and whether it succeeds is
\* not looked at; the shape is named and returned.
Adopt(t) ==
    LET c == calls[t] IN
    /\ In(t, "adopting")
    /\ Step(t, IF c.shape = None THEN Ended(c, "failed")
               ELSE Ended([c EXCEPT !.drawn = Drawn(c.op)], "ok"))
    /\ UNCHANGED files /\ UNCHANGED guardVars

\* exportWithXcaf: the labels of the shapes with their metadata (IGES: none).
WriteWithMetadata(t) ==
    LET c == calls[t] IN
    /\ In(t, "converting") /\ c.op \in GuardedOps \ ImportOps
    /\ \/ Step(t, Ended([c EXCEPT !.roots = ExportWithXcaf(c.shapes, IF c.op \in StepOps THEN c.metas ELSE <<>>)], "ok"))
       \/ Step(t, [c EXCEPT !.phase = "fallback"])
       \/ Step(t, Thrown(c))
    /\ UNCHANGED files /\ UNCHANGED guardVars

\* exportBasicFallback: the shapes alone, and a warning.
WriteBasic(t) ==
    LET c == calls[t] IN
    /\ In(t, "fallback") /\ c.op \notin ImportOps
    /\ \/ Step(t, Ended([c EXCEPT !.roots = ExportWithXcaf(c.shapes, <<>>), !.warned = TRUE], "ok"))
       \/ Step(t, Ended(c, "failed"))
       \/ Step(t, Thrown(c))
    /\ UNCHANGED files /\ UNCHANGED guardVars

\* exportStlFile: an optional fix, a mesh, and the writer.
WriteStl(t) ==
    LET c == calls[t] IN
    /\ In(t, "converting") /\ c.op \in StlOps \ ImportOps
    /\ \/ \E bytes \in Sizes \cup {0} : Step(t, Ended([c EXCEPT !.bytes = bytes], "ok"))
       \/ Step(t, Ended(c, "failed"))
    /\ UNCHANGED files /\ UNCHANGED guardVars

Over(limit, n) == limit > 0 /\ n > limit

\* exportThreeMf: the mesh is measured face by face and must have a
\* triangle; the package is measured when it is complete.
WriteThreeMf(t) ==
    LET c == calls[t] IN
    /\ In(t, "converting") /\ c.op \in ThreeMfOps
    /\ \/ \E triangles, vertices \in Sizes \cup {0} :
            Step(t, IF Over(MeshLimit, triangles) \/ Over(MeshLimit, vertices) \/ triangles = 0
                    THEN Ended(c, "failed")
                    ELSE [c EXCEPT !.phase = "packing", !.bytes = Max({triangles, vertices})])
       \/ Step(t, Ended(c, "thrown"))
    /\ UNCHANGED files /\ UNCHANGED guardVars

Pack(t) ==
    LET c == calls[t] IN
    /\ In(t, "packing")
    /\ \/ Step(t, Ended(c, IF Over(BufferLimit, c.bytes) THEN "failed" ELSE "ok"))
       \/ c.op = "exportThreeMfFile" /\ Step(t, Ended(c, "failed"))
    /\ UNCHANGED files /\ UNCHANGED guardVars

\* The destructor of the guard: one saved setting after the other.
StartClosing(t) ==
    /\ In(t, "closing") /\ ~guards[t].closing
    /\ BeginClose(t)
    /\ UNCHANGED callVars

RestoreNext(t) ==
    /\ In(t, "closing")
    /\ \E s \in DOMAIN guards[t].saved : RestoreStatic(t, s)
    /\ UNCHANGED callVars

Release(t) ==
    /\ In(t, "closing")
    /\ CloseGuard(t)
    /\ Step(t, IF calls[t].temp # Nobody THEN [calls[t] EXCEPT !.phase = "returned"] ELSE Returned(calls[t]))
    /\ UNCHANGED files

\* exportStep, exportIges and exportStl read the written file back: it may
\* not open, STEP refuses an empty one, STL one over the limit.
ReadBack(t) ==
    LET c == calls[t] IN
    /\ In(t, "returned")
    /\ \/ Step(t, [c EXCEPT !.phase = "unstaging",
                            !.result = IF c.op = "exportStl" /\ @ = "ok" /\ Over(BufferLimit, c.bytes)
                                       THEN "failed" ELSE @])
       \/ /\ c.op \notin ImportOps /\ c.result = "ok"
          /\ Step(t, [c EXCEPT !.phase = "unstaging", !.result = "failed"])
    /\ UNCHANGED files /\ UNCHANGED guardVars

\* TempFile's destructor.
Unstage(t) ==
    /\ In(t, "unstaging")
    /\ files' = files \ {calls[t].temp}
    /\ Step(t, Returned(calls[t]))
    /\ UNCHANGED guardVars

\* A thread that is in a call goes on with it.
Proceed(t) ==
    \/ CheckBuffer(t) \/ Stage(t) \/ CheckFile(t) \/ Acquire(t) \/ SetNext(t)
    \/ ReadWithMetadata(t) \/ ReadBasic(t) \/ ReadStl(t) \/ Adopt(t)
    \/ WriteWithMetadata(t) \/ WriteBasic(t) \/ WriteStl(t) \/ WriteThreeMf(t) \/ Pack(t)
    \/ StartClosing(t) \/ RestoreNext(t) \/ Release(t) \/ ReadBack(t) \/ Unstage(t)

ExchangeNext == \E t \in Threads : Call(t) \/ Proceed(t)

\* A thread inside a call runs on; hosts need not call.
ExchangeSpec == /\ ExchangeInit /\ [][ExchangeNext]_exchangeVars
                /\ \A t \in Threads : WF_exchangeVars(Proceed(t))

-----------------------------------------------------------------------------
(* What the imports and exports of io/ promise to each other's threads.    *)
Phases == {"idle", "called", "staging", "checking", "locking", "setting", "converting",
           "fallback", "adopting", "packing", "closing", "returned", "unstaging"}

\* Types, and who holds which mutex: a guard and its mutex name each other.
XTypeOK ==
    /\ statics \in [Settings -> Texts \cup {Unset}]
    /\ owner \in [Keys -> Threads \cup {Nobody}]
    /\ \A t \in Threads :
         /\ guards[t].key \in Keys \cup {Nobody}
         /\ DOMAIN guards[t].saved \subseteq Settings
         /\ calls[t].phase \in Phases
         /\ calls[t].result \in {"none", "ok", "failed", "thrown"}
         /\ \A k \in Keys : owner[k] = t <=> guards[t].key = k
    /\ files \subseteq TempNames

\* occt_scope_guard.h: while a STEP or IGES reader or writer runs, every
\* setting its call wrote still has the value the call wrote, whatever the
\* imports and exports of the other threads set and restore.
SettingsHeld ==
    \A t \in Threads :
        (calls[t].op \in GuardedOps /\ calls[t].phase \in {"converting", "fallback", "adopting"})
            => \A s \in Range(Sets(calls[t].op)) : statics[s] = Wanted(s)

\* When no guard is open the table is as the process found it, but for
\* settings that were never registered, which stay registered and empty.
SettingsRestored == (\A t \in Threads : ~Holds(t)) => \A s \in Settings : AsFound(s)

\* A call's settings are its own from the guard's opening to its closing.
SettingsScoped == XTypeOK /\ SettingsHeld /\ SettingsRestored

\* temp_file.h: every temporary file belongs to exactly one call and goes
\* with it; the files other processes left are never taken over.
TempFilesOwned ==
    LET owners == {t \in Threads : calls[t].temp # Nobody}
    IN  /\ files = Stale \cup {calls[t].temp : t \in owners}
        /\ \A t \in owners : calls[t].temp \notin Stale
        /\ \A t, u \in owners : t # u => calls[t].temp # calls[u].temp

\* maxStepBytes: a file known to be larger than the limit never reaches a
\* reader, whether it came by path or through a buffer.
QuotaBeforeReader ==
    \A t \in Threads :
        calls[t].phase \in {"locking", "setting", "converting", "fallback", "adopting"}
        /\ calls[t].op \in ImportOps => ~OverQuota(calls[t])

\* A buffer exportStl or exportThreeMf returns is within maxSerializeBytes.
BuffersBounded ==
    \A t \in Threads :
        (calls[t].phase = "idle" /\ calls[t].result = "ok" /\ calls[t].op \in {"exportStl", "exportThreeMf"})
            => BufferLimit = 0 \/ calls[t].bytes <= BufferLimit

\* Limits are asked before work starts or results are handed out.
QuotasEnforced == QuotaBeforeReader /\ BuffersBounded

\* A STEP import that succeeds returns the metadata of the root it read, or
\* warned and returns none: the metadata of a failed attempt is never
\* attached to the shape the basic reader found.
MetadataOfItsShape ==
    \A t \in Threads :
        LET c == calls[t] IN
        (c.phase # "idle" /\ c.result = "ok" /\ c.op \in StepOps \cap ImportOps)
            => c.meta = IF c.warned THEN NoMetadata ELSE ExtractMetadata(Head(c.roots))

\* The labels are those of the shapes that are not null, in their order, each
\* with what was given at the shape's own place of the list.
LabelsTheShapes(labels, shapes, metas) ==
    LET given == {p \in DOMAIN shapes : shapes[p] # None}
    IN  \E place \in [DOMAIN labels -> given] :
            /\ \A i, j \in DOMAIN labels : i < j => place[i] < place[j]
            /\ \A i \in DOMAIN labels : labels[i] = LabelAt(shapes, metas, place[i])
            /\ \A p \in given : \E i \in DOMAIN labels : place[i] = p

\* exportStep: every shape of the list is written once and in order, with the
\* metadata given at its own place though null shapes are left out, or, after
\* a warning, with none.
ExportedMetadata ==
    \A t \in Threads :
        LET c == calls[t] IN
        (c.phase # "idle" /\ c.result = "ok" /\ c.op \in StepOps \ ImportOps)
            => LabelsTheShapes(c.roots, c.shapes, IF c.warned THEN <<>> ELSE c.metas)

\* Metadata goes with the shape it was given or read with.
MetadataKept == MetadataOfItsShape /\ ExportedMetadata

\* oreo_step.cpp ("Do NOT acquire guard here"): a thread that has the guard
\* gets on and releases it; it never waits for the mutex it holds.
GuardsReleased == \A t \in Threads : Holds(t) ~> ~Holds(t)

=============================================================================
