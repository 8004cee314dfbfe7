-------------------------------- MODULE CApi --------------------------------
(***************************************************************************)
(* The handles of the C interface (src/src/capi/oreo_capi.cpp): contexts,   *)
(* feature trees, part studios, configs, workspaces and merge results, who  *)
(* owns what, and the calls that read and write through them.               *)
(*                                                                         *)
(* A handle is named by its place in the table, which is never used again:  *)
(* a client that calls with a live handle is all this interface promises    *)
(* anything to.  Texts are sequences of characters, values of parameters    *)
(* are tagged with their type.  What a replay or a merge computes is the    *)
(* subject of FeatureTree and of Merge, which is used here.                 *)
(***************************************************************************)
EXTENDS Integers, SequencesExt

CONSTANTS Scenes,        \* tables of handles a client may have got to
          Additions,     \* the features a builder may hold
          ParamNames, ParamValues,
          InputSpecs,    \* configuration inputs: name, type, default and whether it is legal
          InputValues,
          MaxHandles,    \* bound on the handles of a behaviour
          MaxApiCalls    \* bound on its calls

VARIABLES handles,       \* the handles handed out so far
          contexts,      \* the KernelContexts that are alive
          answer,        \* what the last call returned
          lastRead,      \* the text the last call read into a client's buffer
          lastRun,       \* the inputs the last call executed a studio with
          apiCalls

caVars == <<handles, contexts, answer, lastRead, lastRun, apiCalls>>

EmptyText   == <<"string", <<>>>>
NoDirection == <<"dir", 0>>

\* What features and their parameters may be.  A builder takes a reference to
\* a feature by its id, and no direction without length.
FeatureIds   == {f.id : f \in Additions}
FeatureTypes == {f.type : f \in Additions} \cup {<<"custom">>}

GivenValues == ParamValues \cup UNION {{f.params[n] : n \in DOMAIN f.params} : f \in Additions}
ApiValues ==
    (GivenValues \ {NoDirection}) \cup {EmptyText}
      \cup ({"ref"} \X FeatureIds) \cup ({"refs"} \X Seq(FeatureIds))

M == INSTANCE Merge WITH
        Ids <- FeatureIds, Types <- FeatureTypes, Names <- ParamNames, Values <- ApiValues,
        Empty <- EmptyText, Unset <- <<"unset">>, NoName <- "",
        CustomValue <- EmptyText, CustomType <- <<"custom">>

Kinds == {"context", "tree", "studio", "config", "workspace", "result"}

\* The inputs of a configuration schema.
SpecOf(schema, name) == schema[CHOOSE k \in DOMAIN schema : schema[k].name = name]
InputsOf(schema)     == {schema[k].name : k \in DOMAIN schema}

\* What each kind of handle holds besides its context.
Handle(kind, ctx, data) ==
    [kind |-> kind, live |-> TRUE, ctx |-> ctx, lender |-> 0, lent |-> 0, data |-> data]

NothingHeld          == [list |-> <<>>]
TreeHeld(list)       == [list |-> list]
StudioHeld(list, schema)    == [list |-> list, schema |-> schema]
ConfigHeld(schema, values)  == [schema |-> schema, values |-> values]
WorkspaceHeld(list, base)   == [list |-> list, base |-> base]

NotRead == [given |-> FALSE, text |-> <<>>, size |-> 0, code |-> "OK", buffer |-> <<>>]
NotRun  == [schema |-> <<>>, values |-> <<>>]

Usable(kind) == {h \in DOMAIN handles : handles[h].live /\ handles[h].kind = kind}

\* A tree handle that was lent shows the tree of its lender.
HolderOf(t) == IF handles[t].lender = 0 THEN t ELSE handles[t].lender
ListOf(h)   == handles[HolderOf(h)].data.list

\* Configs hold their context weakly.
HeldBy(table) == {table[h].ctx : h \in {k \in DOMAIN table : table[k].live /\ table[k].kind # "config"}}

-----------------------------------------------------------------------------
(* What a client may have got to *)

FeatureFits(f, types) ==
    /\ f \in [id : FeatureIds, type : types, suppressed : BOOLEAN,
              params : [DOMAIN f.params -> ApiValues]]
    /\ DOMAIN f.params \subseteq ParamNames

ListFits(list, types) ==
    /\ list \in Seq({list[i] : i \in DOMAIN list})
    /\ \A i \in DOMAIN list : FeatureFits(list[i], types)
    /\ M!Distinct(list)

\* Inputs have names of their own and defaults of their type.
SchemaFits(schema) ==
    /\ schema \in Seq(InputSpecs)
    /\ \A k, l \in DOMAIN schema : schema[k].name = schema[l].name => k = l

ValuesFit(schema, values) ==
    /\ DOMAIN values = InputsOf(schema)
    /\ \A name \in DOMAIN values : values[name][1] = SpecOf(schema, name).type

DataFits(kind, data) ==
    \/ kind = "context" /\ data = NothingHeld
    \/ /\ kind = "tree" /\ data = TreeHeld(data.list)
       /\ ListFits(data.list, FeatureTypes \cup {EmptyText})
    \/ /\ kind = "studio" /\ data = StudioHeld(data.list, data.schema)
       /\ ListFits(data.list, FeatureTypes) /\ SchemaFits(data.schema)
    \/ /\ kind = "config" /\ data = ConfigHeld(data.schema, data.values)
       /\ SchemaFits(data.schema) /\ ValuesFit(data.schema, data.values)
    \/ /\ kind = "workspace" /\ data = WorkspaceHeld(data.list, data.base)
       /\ ListFits(data.list, FeatureTypes) /\ ListFits(data.base, FeatureTypes)

\* A handle is lent by the one that it was made from, and lives as long.
Linked(table) ==
    \A h \in DOMAIN table :
        /\ table[h].lender # 0 =>
             /\ table[h].kind = "tree"
             /\ table[table[h].lender].lent = h
             /\ table[h].live <=> table[table[h].lender].live
        /\ table[h].lent # 0 =>
             /\ table[h].kind \in {"studio", "workspace", "result"}
             /\ table[table[h].lent].lender = h

SceneFits(table) ==
    /\ table \in Seq({table[h] : h \in DOMAIN table})
    /\ \A h \in DOMAIN table :
        /\ table[h] \in [kind : Kinds, live : BOOLEAN, ctx : DOMAIN table,
                         lender : {0} \cup DOMAIN table, lent : {0} \cup DOMAIN table,
                         data : {table[h].data}]
        /\ DataFits(table[h].kind, table[h].data)
    /\ Linked(table)

ASSUME CApiAssumption ==
    /\ \A f \in Additions :
        /\ FeatureFits(f, FeatureTypes) /\ f.type # EmptyText
        /\ f.id \in Seq({f.id[k] : k \in DOMAIN f.id})
    /\ \A v \in GivenValues :
        /\ v = <<v[1], v[2]>>
        /\ v[1] = "ref" => v[2] \in FeatureIds
        /\ v[1] = "refs" => v[2] \in Seq(FeatureIds)
    /\ "" \notin ParamNames /\ MaxHandles \in Nat /\ MaxApiCalls \in Nat
    /\ \A spec \in InputSpecs : spec.default[1] = spec.type
    /\ \A table \in Scenes : SceneFits(table)

CAInit ==
    /\ handles \in Scenes
    /\ contexts = HeldBy(handles)
    /\ answer = "OK"
    /\ lastRead = NotRead
    /\ lastRun = NotRun
    /\ apiCalls = 0

Called(code) ==
    /\ apiCalls < MaxApiCalls
    /\ apiCalls' = apiCalls + 1
    /\ answer' = code

\* Reads and runs are remembered until the next call.
Unread == lastRead' = NotRead /\ lastRun' = NotRun

Refused(code) == Called(code) /\ Unread /\ UNCHANGED <<handles, contexts>>

\* A new handle is handed out.
HandOut(handle) ==
    /\ Len(handles) < MaxHandles
    /\ Called("OK")
    /\ handles' = Append(handles, handle)
    /\ Unread

\* delete: the handles go, and the contexts nobody holds any more with them.
Delete(dead) ==
    /\ Called("OK")
    /\ handles' = [h \in DOMAIN handles |-> [handles[h] EXCEPT !.live = @ /\ h \notin dead]]
    /\ contexts' = contexts \cap HeldBy(handles')
    /\ Unread

-----------------------------------------------------------------------------
(* Contexts and trees *)

OpenContext ==
    /\ HandOut(Handle("context", Len(handles) + 1, NothingHeld))
    /\ contexts' = contexts \cup {Len(handles) + 1}

FreeContext(c) == c \in Usable("context") /\ Delete({c})

CreateTree(c) ==
    /\ c \in Usable("context")
    /\ HandOut(Handle("tree", handles[c].ctx, TreeHeld(<<>>)))
    /\ UNCHANGED contexts

\* Mutant of FreeTree: a borrowed handle is freed like any other.
FreeTreeEvenLent(t) == t \in Usable("tree") /\ Delete({t})

\* Freeing a handle that was lent is ignored, with a warning on the default
\* context.
FreeTree(t) ==
    /\ t \in Usable("tree")
    /\ IF handles[t].lender = 0 THEN Delete({t}) ELSE Refused("ignored")

\* The tree that handle h holds or shows becomes `list`.
WithList(h, list) ==
    /\ Called("OK")
    /\ handles' = [handles EXCEPT ![HolderOf(h)].data.list = list]
    /\ Unread /\ UNCHANGED contexts

AddFeature(t, f) ==
    /\ t \in Usable("tree")
    /\ IF f.id = <<>> \/ f.type = <<>> THEN Refused("INVALID_INPUT")
       ELSE IF M!Has(ListOf(t), f.id) THEN Refused("INVALID_STATE")
       ELSE WithList(t, Append(ListOf(t), f))

RemoveFeature(t, id) ==
    /\ t \in Usable("tree")
    /\ IF M!Has(ListOf(t), id) THEN WithList(t, M!Without(ListOf(t), id)) ELSE Refused("INVALID_INPUT")

SuppressFeature(t, i) ==
    /\ t \in Usable("tree") /\ i \in DOMAIN ListOf(t)
    /\ WithList(t, [ListOf(t) EXCEPT ![i].suppressed = ~@])

MoveFeature(t, i, to) ==
    /\ t \in Usable("tree") /\ i \in DOMAIN ListOf(t) /\ to \in DOMAIN ListOf(t)
    /\ WithList(t, InsertAt(RemoveAt(ListOf(t), i), to, ListOf(t)[i]))

\* A direction without length is refused before gp_Dir could throw.
SetParam(t, i, n, v) ==
    /\ t \in Usable("tree") /\ i \in DOMAIN ListOf(t)
    /\ IF v = NoDirection THEN Refused("INVALID_INPUT")
       ELSE WithList(t, [ListOf(t) EXCEPT ![i] = M!WithParam(@, n, v)])

\* add_param_ref_list: a list grows, a single reference refuses, a value of any
\* other type gives way to a new list.
AddParamRef(t, i, n, r) ==
    /\ t \in Usable("tree") /\ i \in DOMAIN ListOf(t)
    /\ LET held == M!Param(ListOf(t)[i], n)
           refs == IF held[1] = "refs" THEN held[2] ELSE <<>>
       IN  /\ Len(refs) < 2
           /\ IF held[1] = "ref" THEN Refused("INVALID_STATE")
              ELSE WithList(t, [ListOf(t) EXCEPT ![i] = M!WithParam(@, n, <<"refs", Append(refs, r)>>)])

\* replace_reference: every reference to one feature, single or in a list.
Renamed(v, old, new) ==
    CASE v[1] = "ref"  -> <<"ref", IF v[2] = old THEN new ELSE v[2]>>
      [] v[1] = "refs" -> <<"refs", [k \in DOMAIN v[2] |-> IF v[2][k] = old THEN new ELSE v[2][k]]>>
      [] OTHER         -> v

ReplaceReference(t, old, new) ==
    /\ t \in Usable("tree")
    /\ WithList(t, [i \in DOMAIN ListOf(t) |->
            [ListOf(t)[i] EXCEPT !.params = [n \in DOMAIN @ |-> Renamed(@[n], old, new)]]])

\* unset_param: the feature is removed and put back at its place without the
\* parameter.
UnsetParam(t, i, n) ==
    /\ t \in Usable("tree") /\ i \in DOMAIN ListOf(t)
    /\ LET f    == ListOf(t)[i]
           rest == [m \in DOMAIN f.params \ {n} |-> f.params[m]]
       IN  IF n \notin DOMAIN f.params THEN Refused("OK")
           ELSE WithList(t, InsertAt(RemoveAt(ListOf(t), i), i, [f EXCEPT !.params = rest]))

-----------------------------------------------------------------------------
(* Reading *)

\* The types of the getters; param_type is the variant's index.
ValueTypes == {"double", "string", "dir", "ref", "refs", "config"}

ParamType(list, i, n) ==
    IF i \in DOMAIN list /\ n \in DOMAIN list[i].params THEN list[i].params[n][1] ELSE "none"

\* lookupParam() and the getter's get_if.
GetParam(list, i, n, type) ==
    IF i \notin DOMAIN list THEN "OUT_OF_RANGE"
    ELSE IF n \notin DOMAIN list[i].params THEN "INVALID_INPUT"
    ELSE IF list[i].params[n][1] # type THEN "INVALID_STATE" ELSE "OK"

\* writeSizeProbe(): what lands in a buffer of `size` characters, if there is one.
WriteSizeProbe(text, given, size) ==
    LET Answer(code, buffer) ==
            [given |-> given, text |-> text, size |-> size, code |-> code, buffer |-> buffer]
    IN  IF ~given THEN Answer(IF size = 0 THEN "OK" ELSE "INVALID_INPUT", <<>>)
        ELSE IF size < Len(text) + 1
        THEN Answer("BUFFER_TOO_SMALL",
                    IF size = 0 THEN <<>> ELSE Append(SubSeq(text, 1, size - 1), "NUL"))
        ELSE Answer("OK", Append(text, "NUL"))

\* A feature's id into a buffer, whatever size an earlier probe asked for.
ReadId(t, i, given, size) ==
    /\ t \in Usable("tree")
    /\ IF i \notin DOMAIN ListOf(t) THEN Refused("OUT_OF_RANGE")
       ELSE LET read == WriteSizeProbe(ListOf(t)[i].id, given, size)
            IN  /\ Called(read.code)
                /\ lastRead' = read
                /\ lastRun' = NotRun
                /\ UNCHANGED <<handles, contexts>>

-----------------------------------------------------------------------------
(* Part studios and configs *)

CreateStudio(c) ==
    /\ c \in Usable("context")
    /\ HandOut(Handle("studio", handles[c].ctx, StudioHeld(<<>>, <<>>)))
    /\ UNCHANGED contexts

StudioFromJson(c, p) ==
    /\ c \in Usable("context") /\ p \in Usable("studio")
    /\ HandOut(Handle("studio", handles[c].ctx, handles[p].data))
    /\ UNCHANGED contexts

\* The handle of an aggregate's tree is made at the first call and kept.
Lend(h) ==
    /\ handles[h].lent = 0
    /\ Len(handles) < MaxHandles
    /\ Called("OK")
    /\ handles' = Append([handles EXCEPT ![h].lent = Len(handles) + 1],
                         [Handle("tree", handles[h].ctx, NothingHeld) EXCEPT !.lender = h])
    /\ Unread /\ UNCHANGED contexts

FreeLender(h) == Delete({h, handles[h].lent})

StudioTree(p) == p \in Usable("studio") /\ Lend(p)
FreeStudio(p) == p \in Usable("studio") /\ FreeLender(p)

\* ConfigSchema::addInput(); a default is legal when it is finite and within the
\* input's bounds.
AddInput(p, spec) ==
    /\ p \in Usable("studio")
    /\ LET schema == handles[p].data.schema
       IN  IF \/ \E k \in DOMAIN schema : schema[k].name = spec.name
              \/ ~spec.legal
           THEN Refused("INVALID_INPUT")
           ELSE /\ Called("OK")
                /\ handles' = [handles EXCEPT ![p].data.schema = Append(@, spec)]
                /\ Unread /\ UNCHANGED contexts

Defaults(schema)     == [name \in InputsOf(schema) |-> SpecOf(schema, name).default]

\* The config keeps a copy of the schema, and its context weakly.
CreateConfig(p) ==
    /\ p \in Usable("studio")
    /\ HandOut(Handle("config", handles[p].ctx,
                      ConfigHeld(handles[p].data.schema, Defaults(handles[p].data.schema))))
    /\ UNCHANGED contexts

FreeConfig(g) == g \in Usable("config") /\ Delete({g})

ConfigSet(g, name, v) ==
    /\ g \in Usable("config")
    /\ LET schema == handles[g].data.schema
       IN  IF handles[g].ctx \notin contexts THEN Refused("INVALID_STATE")
           ELSE IF name \notin InputsOf(schema) THEN Refused("INVALID_INPUT")
           ELSE IF SpecOf(schema, name).type # v[1] THEN Refused("INVALID_INPUT")
           ELSE /\ Called("OK")
                /\ handles' = [handles EXCEPT ![g].data.values[name] = v]
                /\ Unread /\ UNCHANGED contexts

\* Mutant of Fingerprint: it covers the names only.
FingerprintOfNames(schema) == [k \in DOMAIN schema |-> schema[k].name]

\* The fingerprint covers every input's name, type, default and bounds.
Fingerprint(schema) == schema

\* Without a config (g = 0) the defaults are used.
Execute(p, g) ==
    /\ p \in Usable("studio") /\ g \in Usable("config") \cup {0}
    /\ LET schema == handles[p].data.schema
       IN  IF g # 0 /\ Fingerprint(handles[g].data.schema) # Fingerprint(schema)
           THEN Refused("INVALID_INPUT")
           ELSE /\ Called("OK")
                /\ lastRun' = [schema |-> schema,
                               values |-> IF g = 0 THEN Defaults(schema) ELSE handles[g].data.values]
                /\ lastRead' = NotRead
                /\ UNCHANGED <<handles, contexts>>

-----------------------------------------------------------------------------
(* Workspaces and merge results *)

CreateWorkspace(c) ==
    /\ c \in Usable("context")
    /\ HandOut(Handle("workspace", handles[c].ctx, WorkspaceHeld(<<>>, <<>>)))
    /\ UNCHANGED contexts

WorkspaceFromJson(c, w) ==
    /\ c \in Usable("context") /\ w \in Usable("workspace")
    /\ HandOut(Handle("workspace", handles[c].ctx, handles[w].data))
    /\ UNCHANGED contexts

\* The fork copies the tree, and records it as its base.
Fork(w) ==
    /\ w \in Usable("workspace")
    /\ HandOut(Handle("workspace", handles[w].ctx, WorkspaceHeld(ListOf(w), ListOf(w))))
    /\ UNCHANGED contexts

WorkspaceTree(w) == w \in Usable("workspace") /\ Lend(w)
FreeWorkspace(w) == w \in Usable("workspace") /\ FreeLender(w)

\* What a merge result holds; `of` is what it was made of.
Merged(b, o, t) ==
    [list |-> M!MergedTree(ListOf(b), ListOf(o), ListOf(t)),
     conflicts |-> M!Conflicts(ListOf(b), ListOf(o), ListOf(t)),
     of |-> <<ListOf(b), ListOf(o), ListOf(t)>>,
     bases |-> {handles[o].data.base, handles[t].data.base}]

\* The base is the present tree of the workspace given as base.
MergeWorkspaces(b, o, t) ==
    /\ {b, o, t} \subseteq Usable("workspace")
    /\ IF Cardinality({handles[h].ctx : h \in {b, o, t}}) > 1 THEN Refused("INVALID_INPUT")
       ELSE /\ HandOut(Handle("result", handles[b].ctx, Merged(b, o, t)))
            /\ UNCHANGED contexts

ResultTree(r) == r \in Usable("result") /\ Lend(r)
FreeResult(r) == r \in Usable("result") /\ FreeLender(r)

\* A tree of the client's own, from what the result's tree holds now.
ApplyResolutions(r, choice) ==
    /\ r \in Usable("result")
    /\ LET conflicts == handles[r].data.conflicts
           chosen    == [key \in M!Keys(conflicts) |-> choice]
       IN  HandOut(Handle("tree", handles[r].ctx,
                          TreeHeld(M!ApplyResolutions(ListOf(r), conflicts, chosen))))
    /\ UNCHANGED contexts

-----------------------------------------------------------------------------
CANext ==
    \/ OpenContext
    \/ \E h \in DOMAIN handles :
        \/ FreeContext(h)
        \/ CreateTree(h)
        \/ FreeTree(h)
        \/ \E f \in Additions : AddFeature(h, f)
        \/ \E f \in Additions : RemoveFeature(h, f.id)
        \/ \E i \in 1..3 : SuppressFeature(h, i)
        \/ \E i, to \in 1..3 : MoveFeature(h, i, to)
        \/ \E i \in 1..3, n \in ParamNames, v \in ParamValues : SetParam(h, i, n, v)
        \/ \E i \in 1..3, n \in ParamNames, f \in Additions : AddParamRef(h, i, n, f.id)
        \/ \E f, g \in Additions : ReplaceReference(h, f.id, g.id)
        \/ \E i \in 1..3, n \in ParamNames : UnsetParam(h, i, n)
        \/ \E i \in 1..3, given \in BOOLEAN, size \in 0..3 : ReadId(h, i, given, size)
        \/ CreateStudio(h)
        \/ \E p \in DOMAIN handles : StudioFromJson(h, p)
        \/ StudioTree(h)
        \/ FreeStudio(h)
        \/ \E spec \in InputSpecs : AddInput(h, spec)
        \/ CreateConfig(h)
        \/ FreeConfig(h)
        \/ \E spec \in InputSpecs, v \in InputValues : ConfigSet(h, spec.name, v)
        \/ \E g \in DOMAIN handles \cup {0} : Execute(h, g)
        \/ CreateWorkspace(h)
        \/ \E w \in DOMAIN handles : WorkspaceFromJson(h, w)
        \/ Fork(h)
        \/ WorkspaceTree(h)
        \/ FreeWorkspace(h)
        \/ \E o \in DOMAIN handles : \E t \in DOMAIN handles \ {h, o} : MergeWorkspaces(h, o, t)
        \/ ResultTree(h)
        \/ FreeResult(h)
        \/ \E choice \in {"Ours", "Theirs", "Base"} : ApplyResolutions(h, choice)

CASpec == CAInit /\ [][CANext]_caVars

-----------------------------------------------------------------------------
(* Properties *)

\* Handles are well formed: what a handle lends was lent by it, trees have
\* distinct ids, and no parameter is a direction without length.
CATypeOK ==
    /\ \A h \in DOMAIN handles :
        /\ handles[h].kind \in Kinds /\ handles[h].live \in BOOLEAN
        /\ handles[h].lent # 0 => handles[handles[h].lent].lender = h
        /\ "list" \in DOMAIN handles[h].data =>
            LET list == handles[h].data.list
            IN  /\ Cardinality(M!IdsOf(list)) = Len(list)
                /\ \A i \in DOMAIN list : \A n \in DOMAIN list[i].params : list[i].params[n] # NoDirection
    /\ contexts \subseteq DOMAIN handles
    /\ apiCalls \in 0..MaxApiCalls

\* A tree handle that an aggregate lent can be used exactly as long as the
\* aggregate lives: freeing the handle itself does nothing, and freeing the
\* aggregate frees it.
LentTreesLive ==
    \A t \in DOMAIN handles :
        handles[t].lender # 0 => (handles[t].live <=> handles[handles[t].lender].live)

\* A KernelContext lives as long as any handle but a config was made in it,
\* in whatever order the client frees them, and no longer.
ContextsOutliveHandles == contexts = HeldBy(handles)

\* Handles live and die with what they depend on, in whatever order they are freed.
HandlesSound == CATypeOK /\ LentTreesLive /\ ContextsOutliveHandles

\* A studio is executed with exactly the inputs it has at that moment, each
\* with a value of its type, whatever was added to it since the config was
\* created and whichever studio that was.
ConfigsFitStudio ==
    /\ DOMAIN lastRun.values = InputsOf(lastRun.schema)
    /\ \A name \in DOMAIN lastRun.values : lastRun.values[name][1] = SpecOf(lastRun.schema, name).type

\* A read that answers OK into a buffer has given the whole text; one that
\* answers BUFFER_TOO_SMALL has given a terminated beginning of it; and neither
\* has written beyond the buffer, also when the text grew since the probe.
ReadsAreWhole ==
    LET read == lastRead
    IN  /\ Len(read.buffer) <= read.size
        /\ read.given /\ read.code = "OK" => read.buffer = Append(read.text, "NUL")
        /\ read.code = "BUFFER_TOO_SMALL" =>
             /\ read.size <= Len(read.text)
             /\ read.size > 0 => /\ Last(read.buffer) = "NUL"
                                 /\ IsPrefix(Front(read.buffer), read.text)

\* What param_type says of a parameter is what its getters say: the getter of
\* that type, and no other, gives its value.
OneGetterAnswers ==
    \A t \in Usable("tree") : \A i \in 1..3, n \in ParamNames, type \in ValueTypes :
        GetParam(ListOf(t), i, n, type) = "OK" <=> ParamType(ListOf(t), i, n) = type

\* When the workspace given as base still is what both sides were forked from,
\* a clean merge drops a feature of one side only if the other side removed it.
DroppedMeansRemoved ==
    \A r \in Usable("result") :
        LET result == handles[r].data
            Drops(side, other) ==
                M!IdsOf(side) \ M!IdsOf(result.list) \subseteq
                    M!IdsOf(result.of[1]) \ M!IdsOf(other)
        IN  result.bases = {result.of[1]} /\ M!Clean(result.conflicts) /\ handles[r].lent = 0 =>
                /\ Drops(result.of[2], result.of[3])
                /\ Drops(result.of[3], result.of[2])

\* What a call answers fits the handles it was given: a run the inputs of its studio,
\* a read the text, a getter the parameter's type, a merge its three workspaces.
AnswersFitHandles ==
    ConfigsFitStudio /\ ReadsAreWhole /\ OneGetterAnswers /\ DroppedMeansRemoved

=============================================================================
