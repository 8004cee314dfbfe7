---------------------------- MODULE MCServices ----------------------------
(* Instances of the services of a kernel context for TLC: contexts and     *)
(* their tokens, the tag allocators, the diagnostics, and the handles of   *)
(* the C interface.                                                        *)
EXTENDS Session, CApi, TagAllocatorProperties, DiagnosticsProperties

(* They share no state and are checked side by side: a behaviour is one of *)
(* the part it started with.                                               *)
VARIABLE part

(* Small widths: with Int32Max = 3 a uint32_t is 0..7 and an int64_t is    *)
(* -32..31.  Of the document ids 1 and 9 share their low half, the low     *)
(* half of 8 is empty, and that of 5 has the sign bit of a tag set.        *)
NoneRead == {}

(* Identities of a shape of another process, in and out of a document *)
FromElsewhere == {Identity(0, 1), Identity(2, 1), Identity(2, 2)}

(* One diagnostic of each severity that is counted; two of them degrade    *)
(* the result.                                                             *)
MCReportable ==
    {[Entry("Warning", "REPORTED") EXCEPT !.namingDegraded = TRUE],
     Entry("Error", "REPORTED"),
     [Entry("Fatal", "REPORTED") EXCEPT !.geometryDegraded = TRUE]}

-----------------------------------------------------------------------------
(* For the C interface, two features of which the second refers to the     *)
(* first, and one that is refused for its empty id.                        *)
MCFeature(id, params) == [id |-> id, type |-> <<"box">>, suppressed |-> FALSE, params |-> params]
First  == MCFeature(<<"a">>, [p |-> <<"double", 1>>])
Second == MCFeature(<<"a", "b">>, [p |-> <<"ref", <<"a">>>>])
MCAdditions == {First, Second, MCFeature(<<>>, <<>>)}

MCParamNames  == {"p"}
MCParamValues == {<<"double", 1>>, <<"double", 2>>, <<"dir", 0>>, <<"refs", <<>>>>}

MCInput(type, legal) == [name |-> "w", type |-> type, default |-> <<type, 0>>, legal |-> legal]
MCInputSpecs  == {MCInput("double", TRUE), MCInput("int", TRUE), MCInput("int", FALSE)}
MCInputValues == {<<"double", 1>>, <<"int", 1>>}

Ctx(n) == Handle("context", n, NothingHeld)
LentBy(lender) == [Handle("tree", 1, NothingHeld) EXCEPT !.lender = lender]
Lending(handle, t) == [handle EXCEPT !.lent = t]
Held(list, base) == Handle("workspace", 1, WorkspaceHeld(list, base))

(* Nothing; a tree; a studio with a configuration, a studio without inputs and a    *)
(* workspace, of two contexts; a workspace with two forks, two of the      *)
(* three lending their trees.                                              *)
MCScenes ==
    {<<>>,
     <<Ctx(1), Handle("tree", 1, TreeHeld(<<First, Second>>))>>,
     <<Ctx(1), Ctx(2),
       Handle("studio", 1, StudioHeld(<<>>, <<MCInput("double", TRUE)>>)),
       Handle("config", 1, ConfigHeld(<<MCInput("double", TRUE)>>, Defaults(<<MCInput("double", TRUE)>>))),
       Handle("studio", 1, StudioHeld(<<>>, <<>>)),
       Handle("workspace", 2, WorkspaceHeld(<<>>, <<>>))>>,
     <<Ctx(1), Lending(Held(<<First>>, <<>>), 3), LentBy(2),
       Lending(Held(<<First>>, <<First>>), 5), LentBy(4), Held(<<First>>, <<First>>)>>}

-----------------------------------------------------------------------------
SessionAlone     == part = "session" /\ UNCHANGED <<part, caVars, taVars, dgVars>>
CApiAlone        == part = "c_abi" /\ UNCHANGED <<part, sessionVars, taVars, dgVars>>
AllocatorAlone   == part = "tags" /\ UNCHANGED <<part, sessionVars, caVars, dgVars>>
DiagnosticsAlone == part = "diagnostics" /\ UNCHANGED <<part, sessionVars, caVars, taVars>>

ServicesInit ==
    /\ part \in {"session", "c_abi", "tags", "diagnostics"}
    /\ SessionInit /\ CAInit /\ TAInit /\ DGInit
    /\ part # "c_abi" => handles = <<>>
    /\ part # "diagnostics" => collector = NewCollector(0)

ServicesNext ==
    \/ SessionAlone /\ \E c \in Contexts : CreateContext(c)
    \/ SessionAlone /\ \E c, d \in Contexts : CloneContext(c, d)
    \/ SessionAlone /\ \E c, d \in Contexts : MergeContext(c, d)
    \/ SessionAlone /\ \E c \in Contexts : SafeReset(c)
    \/ SessionAlone /\ \E c \in Contexts : TakeToken(c)
    \/ SessionAlone /\ \E c \in Contexts : SetCancellationToken(c)
    \/ SessionAlone /\ \E t \in Tokens : CancelToken(t)
    \/ SessionAlone /\ \E c \in Contexts : CheckCancellation(c)
    \/ SessionAlone /\ \E c \in Contexts : ReportProgress(c)
    \/ SessionAlone /\ \E c \in Contexts : NextIdentity(c)
    \/ SessionAlone /\ \E c \in Contexts : MutableSchemas(c)
    \/ SessionAlone /\ \E c \in Contexts : FreezeSchemas(c)
    \/ CApiAlone /\ OpenContext
    \/ CApiAlone /\ \E h \in DOMAIN handles : FreeContext(h)
    \/ CApiAlone /\ \E h \in DOMAIN handles : CreateTree(h)
    \/ CApiAlone /\ \E h \in DOMAIN handles : FreeTree(h)
    \/ CApiAlone /\ \E h \in DOMAIN handles : \E f \in Additions : AddFeature(h, f)
    \/ CApiAlone /\ \E h \in DOMAIN handles : \E f \in Additions : RemoveFeature(h, f.id)
    \/ CApiAlone /\ \E h \in DOMAIN handles : \E i \in 1..3 : SuppressFeature(h, i)
    \/ CApiAlone /\ \E h \in DOMAIN handles : \E i, to \in 1..3 : MoveFeature(h, i, to)
    \/ CApiAlone /\ \E h \in DOMAIN handles :
           \E i \in 1..3, n \in ParamNames, v \in ParamValues : SetParam(h, i, n, v)
    \/ CApiAlone /\ \E h \in DOMAIN handles :
           \E i \in 1..3, n \in ParamNames, f \in Additions : AddParamRef(h, i, n, f.id)
    \/ CApiAlone /\ \E h \in DOMAIN handles :
           \E f, g \in Additions : ReplaceReference(h, f.id, g.id)
    \/ CApiAlone /\ \E h \in DOMAIN handles :
           \E i \in 1..3, n \in ParamNames : UnsetParam(h, i, n)
    \/ CApiAlone /\ \E h \in DOMAIN handles :
           \E i \in 1..3, given \in BOOLEAN, size \in 0..3 : ReadId(h, i, given, size)
    \/ CApiAlone /\ \E h \in DOMAIN handles : CreateStudio(h)
    \/ CApiAlone /\ \E h, p \in DOMAIN handles : StudioFromJson(h, p)
    \/ CApiAlone /\ \E h \in DOMAIN handles : StudioTree(h)
    \/ CApiAlone /\ \E h \in DOMAIN handles : FreeStudio(h)
    \/ CApiAlone /\ \E h \in DOMAIN handles : \E spec \in InputSpecs : AddInput(h, spec)
    \/ CApiAlone /\ \E h \in DOMAIN handles : CreateConfig(h)
    \/ CApiAlone /\ \E h \in DOMAIN handles : FreeConfig(h)
    \/ CApiAlone /\ \E h \in DOMAIN handles :
           \E spec \in InputSpecs, v \in InputValues : ConfigSet(h, spec.name, v)
    \/ CApiAlone /\ \E h \in DOMAIN handles : \E g \in DOMAIN handles \cup {0} : Execute(h, g)
    \/ CApiAlone /\ \E h \in DOMAIN handles : CreateWorkspace(h)
    \/ CApiAlone /\ \E h, w \in DOMAIN handles : WorkspaceFromJson(h, w)
    \/ CApiAlone /\ \E h \in DOMAIN handles : Fork(h)
    \/ CApiAlone /\ \E h \in DOMAIN handles : WorkspaceTree(h)
    \/ CApiAlone /\ \E h \in DOMAIN handles : FreeWorkspace(h)
    \/ CApiAlone /\ \E h, o \in DOMAIN handles :
           \E t \in DOMAIN handles \ {h, o} : MergeWorkspaces(h, o, t)
    \/ CApiAlone /\ \E h \in DOMAIN handles : ResultTree(h)
    \/ CApiAlone /\ \E h \in DOMAIN handles : FreeResult(h)
    \/ CApiAlone /\ \E h \in DOMAIN handles :
           \E choice \in {"Ours", "Theirs", "Base"} : ApplyResolutions(h, choice)
    \/ AllocatorAlone /\ CreateAllocator
    \/ AllocatorAlone /\ CloneAllocator
    \/ AllocatorAlone /\ DestroyContext
    \/ AllocatorAlone /\ NextShapeIdentity
    \/ AllocatorAlone /\ AllocateRangeV2
    \/ AllocatorAlone /\ AllocateRange
    \/ AllocatorAlone /\ NextTag
    \/ AllocatorAlone /\ Reset
    \/ AllocatorAlone /\ ResetCounterOnly
    \/ AllocatorAlone /\ Seed
    \/ AllocatorAlone /\ SetDocumentId
    \/ AllocatorAlone /\ SnapshotV2
    \/ AllocatorAlone /\ RestoreV2
    \/ AllocatorAlone /\ ToOcctTag
    \/ DiagnosticsAlone /\ \E d \in Reportable : Report(d)
    \/ DiagnosticsAlone /\ \E d \in Reportable : ReportOutOfMemory(d)
    \/ DiagnosticsAlone /\ \E d \in Reportable : MakeFailure(d)
    \/ DiagnosticsAlone /\ Clear
    \/ DiagnosticsAlone /\ \E cap \in Caps : SetMaxDiagnostics(cap)
    \/ DiagnosticsAlone /\ OpenScope
    \/ DiagnosticsAlone /\ MakeResult
    \/ DiagnosticsAlone /\ CloseScope

ServicesSpec ==
    ServicesInit /\ [][ServicesNext]_<<part, sessionVars, caVars, taVars, dgVars>>
=============================================================================
