-------------------------------- MODULE Mesh --------------------------------
(***************************************************************************)
(* Tessellation (src/src/mesh): meshing a shape whole or with a cache that  *)
(* is passed from call to call, the buffers of a mesh, finding the face of a *)
(* triangle, and the GLB document written from a mesh.                      *)
(*                                                                         *)
(* A face is its outline (its surface, bounds, tolerance and orientation),  *)
(* its inner wires, and the deflection of the triangulation OCCT attached   *)
(* to it, 0 when there is none; smaller is finer.                          *)
(***************************************************************************)
EXTENDS Integers, SequencesExt

CONSTANTS IndexSpace,          \* 2^32 in the code: what a uint32_t counts to
          MaxMeshTriangles,    \* quotas().maxMeshTriangles, 0 for none
          MaxMeshVertices,     \* quotas().maxMeshVertices, 0 for none
          MaxGlbWords,         \* quotas().maxGlbBytes in words of four bytes
          MaxFaces,            \* bound: faces of a body
          MaxMeshCalls         \* bound: edits and calls in a behaviour

ASSUME MeshAssumption == MaxFaces \in Nat /\ IndexSpace \in Nat \ {0}

VARIABLES
    body,          \* the shape that is meshed, as the features leave it
    meshCache,     \* MeshCache::cache_: cached faces by their index
    cacheParams,   \* MeshCache::params_
    meshed,        \* the last result, and what it was asked of
    kinds,         \* history: deflection modes used since the cache was last emptied
    meshCalls      \* edits and calls so far

meshVars == <<body, meshCache, cacheParams, meshed, kinds, meshCalls>>

Largest(numbers) == IF numbers = {} THEN 0 ELSE Max(numbers)

Total(numbers) ==
    LET sum[n \in 0..Len(numbers)] == IF n = 0 THEN 0 ELSE sum[n - 1] + numbers[n]
    IN  sum[Len(numbers)]

\* The elements at some of a sequence's positions, in their order.
Chosen(elements, positions) ==
    LET chosen[n \in 0..Len(elements)] ==
          IF n = 0 THEN <<>>
          ELSE IF n \in positions THEN Append(chosen[n - 1], elements[n]) ELSE chosen[n - 1]
    IN  chosen[Len(elements)]

Outlines     == {1, 2}
FreshFaces   == [outline : Outlines, holes : {0, 1}, fine : {0}]
ParamChoices == [mode : {"absolute"}, linear : {0, 1, 2}, normals : {TRUE}] \cup
                [mode : {"absolute", "relative", "auto"}, linear : {1}, normals : {FALSE}]
DefaultParams == [mode |-> "absolute", linear |-> 1, normals |-> TRUE]
NotMeshed    == [ok |-> FALSE, cached |-> FALSE, params |-> DefaultParams, faces |-> <<>>]

MeshInit ==
    /\ body = [null |-> FALSE, faces |-> <<>>]
    /\ meshCache = <<>>
    /\ cacheParams = DefaultParams
    /\ meshed = NotMeshed
    /\ kinds = {}
    /\ meshCalls = 0

\* resolveLinearDeflection(), with the floor of 0.001 and Auto's fraction as 1.
Diagonal(faces) == Largest({faces[i].outline : i \in DOMAIN faces})

Deflection(faces, params) ==
    IF params.mode = "absolute" THEN params.linear
    ELSE IF Diagonal(faces) = 0 THEN Largest({params.linear, 1})
    ELSE Largest({1, Diagonal(faces) * (IF params.mode = "auto" THEN 1 ELSE params.linear)})

\* BRepMesh_IncrementalMesh keeps a triangulation that is fine enough.
Triangulated(faces, deflection) ==
    {[i \in DOMAIN faces |->
        IF faces[i].fine \in 1..deflection THEN faces[i]
        ELSE [faces[i] EXCEPT !.fine = IF i \in done THEN deflection ELSE 0]] :
     done \in SUBSET DOMAIN faces}

\* computeFaceFingerprint(): inner wires change neither the bounding box nor
\* the surface's bounds.
Fingerprint(face) == face.outline

\* tessellateSingleFace(): what a face's triangulation gives; a face that has
\* none is recorded as failed.
TessellateSingleFace(face, params) ==
    [print |-> Fingerprint(face), of |-> face, failed |-> face.fine = 0,
     normals |-> params.normals, triangles |-> IF face.fine = 1 THEN 2 ELSE 1]

-----------------------------------------------------------------------------
\* assembleMeshFromFaces(): a vertex is its face and number, a triangle three
\* offsets into the vertices, a group a range of the indices.  Offsets are
\* uint32_t.
NoBuffers == [positions |-> <<>>, indices |-> <<>>, groups |-> <<>>, failed |-> 0, normals |-> FALSE]

VerticesOf(i, cached)  == [k \in 1..(cached.triangles + 2) |-> <<"vertex", i, k>>]
IndicesOf(offset, cached) ==
    [n \in 1..(3 * cached.triangles) |-> (offset + ((n - 1) \div 3) + ((n - 1) % 3)) % IndexSpace]

GroupOf(mesh, i, cached) ==
    [face |-> i, start |-> Len(mesh.indices) % IndexSpace,
     count |-> (3 * cached.triangles) % IndexSpace]

\* Mutant of WithFace: indices are not shifted by the vertices before.
WithFaceUnshifted(mesh, i, cached) ==
    IF cached.failed THEN [mesh EXCEPT !.failed = @ + 1]
    ELSE [mesh EXCEPT
            !.positions = @ \o VerticesOf(i, cached),
            !.indices   = @ \o IndicesOf(0, cached),
            !.groups    = Append(@, GroupOf(mesh, i, cached)),
            !.normals   = @ \/ cached.normals]

WithFace(mesh, i, cached) ==
    IF cached.failed THEN [mesh EXCEPT !.failed = @ + 1]
    ELSE [mesh EXCEPT
            !.positions = @ \o VerticesOf(i, cached),
            !.indices   = @ \o IndicesOf(Len(mesh.positions), cached),
            !.groups    = Append(@, GroupOf(mesh, i, cached)),
            !.normals   = @ \/ cached.normals]

AssembleMesh(cached) ==
    LET assembled[i \in 0..Len(cached)] ==
          IF i = 0 THEN NoBuffers ELSE WithFace(assembled[i - 1], i, cached[i])
    IN  assembled[Len(cached)]

\* extractEdges(): one edge per face here, along the face's present
\* triangulation; without one it has no polyline.
ExtractEdges(faces) ==
    Chosen([i \in DOMAIN faces |->
              [edge |-> i, vertices |-> [k \in 1..(4 - faces[i].fine) |-> <<"point", i, k>>]]],
           {i \in DOMAIN faces : faces[i].fine # 0})

FaceIdForTriangle(mesh, t) ==
    LET at    == (3 * t) % IndexSpace
        upTo  == {g \in DOMAIN mesh.groups : mesh.groups[g].start <= at}
        group == mesh.groups[Max(upTo)]
    IN  IF at >= Len(mesh.indices) \/ upTo = {} THEN -1
        ELSE IF at < (group.start + group.count) % IndexSpace THEN group.face ELSE -1

-----------------------------------------------------------------------------
\* exportGLB(): the binary chunk as a sequence of words, and the document's
\* views, accessors, primitives and materials.  Every element is a whole
\* number of words, so that padding to four bytes adds nothing.
Words(vertices)     == [w \in 1..(3 * Len(vertices)) |-> vertices[(w - 1) \div 3 + 1]]
IndexWords(indices) == [n \in DOMAIN indices |-> <<"index", indices[n]>>]

\* The edges' region, and where each strip begins in it; a strip of fewer than
\* two points is left out.
NoStrips == [words |-> <<>>, slots |-> <<>>]

WithStrip(region, e) ==
    IF Len(e.vertices) < 2 THEN region
    ELSE [words |-> region.words \o Words(e.vertices),
          slots |-> Append(region.slots, [start |-> Len(region.words),
                                          count |-> Len(e.vertices), edge |-> e.edge])]

EdgeRegion(edges) ==
    LET packed[n \in 0..Len(edges)] ==
          IF n = 0 THEN NoStrips ELSE WithStrip(packed[n - 1], edges[n])
    IN  packed[Len(edges)]

\* Positions and index buffers of no whole elements are not made here.  That a
\* chunk of 2^32 bytes is always refused is why no offset in it wraps.
GlbRefused(mesh, edges) ==
    \/ mesh.positions = <<>>
    \/ /\ MaxGlbWords > 0
       /\ (IF mesh.normals THEN 6 ELSE 3) * Len(mesh.positions) + Len(mesh.indices) + 16
            + 3 * Total([n \in DOMAIN edges |-> Len(edges[n].vertices)]) > MaxGlbWords

\* The accessors of the primitives, each to a region of the chunk.
Accessor(view, offset, count, width) ==
    [from |-> view.offset + offset, count |-> count, width |-> width]

ShownGroups(mesh) ==
    Chosen(mesh.groups, {g \in DOMAIN mesh.groups : mesh.groups[g].count > 0})

GroupPrimitives(mesh, view) ==
    [n \in DOMAIN ShownGroups(mesh) |->
        LET g == ShownGroups(mesh)[n]
        IN  [indices |-> Accessor(view, g.start, g.count, 1), face |-> g.face, material |-> n]]

WholePrimitive(mesh, view) ==
    <<[indices |-> Accessor(view, 0, Len(mesh.indices), 1), face |-> -1, material |-> -1]>>

Strips(slots, view) ==
    [n \in DOMAIN slots |->
        [points |-> Accessor(view, slots[n].start, slots[n].count, 3), edge |-> slots[n].edge]]

ExportGlb(mesh, edges, perFace, includeEdges) ==
    LET positions == Words(mesh.positions)
        normals   == IF mesh.normals THEN Words([v \in DOMAIN mesh.positions |-> <<"normal", v>>]) ELSE <<>>
        indices   == IndexWords(mesh.indices)
        region    == IF includeEdges THEN EdgeRegion(edges) ELSE NoStrips
        View(offset, words) == [offset |-> offset, length |-> Len(words)]
        iView     == View(Len(positions) + Len(normals), indices)
        eView     == View(iView.offset + iView.length, region.words)
    IN  [bin        |-> positions \o normals \o indices \o region.words,
         positions  |-> Accessor(View(0, positions), 0, Len(mesh.positions), 3),
         primitives |-> IF perFace /\ mesh.groups # <<>>
                        THEN GroupPrimitives(mesh, iView) ELSE WholePrimitive(mesh, iView),
         materials  |-> IF perFace /\ mesh.groups # <<>>
                        THEN [n \in DOMAIN ShownGroups(mesh) |-> ShownGroups(mesh)[n].face] ELSE <<>>,
         strips     |-> Strips(region.slots, eView)]

-----------------------------------------------------------------------------
Counted == meshCalls < MaxMeshCalls /\ meshCalls' = meshCalls + 1

\* Features leave another shape: faces that are new have no triangulation, those
\* that were kept have the one they had.
EditBody ==
    /\ Counted
    /\ \E null \in BOOLEAN, n \in 0..MaxFaces :
         \E faces \in [1..n -> FreshFaces \cup {body.faces[i] : i \in DOMAIN body.faces}] :
            body' = [null |-> null, faces |-> IF null THEN <<>> ELSE faces]
    /\ meshed' = NotMeshed
    /\ UNCHANGED <<meshCache, cacheParams, kinds>>

ParamsRefused(params) == params.mode # "auto" /\ params.linear = 0

Succeeded(cached, faces, params, mesh) ==
    [ok |-> TRUE, cached |-> cached, params |-> params, faces |-> faces,
     mesh |-> AssembleMesh(mesh), from |-> mesh, edges |-> ExtractEdges(faces)]

OverQuota(mesh) ==
    \/ Len(mesh.positions) >= IndexSpace
    \/ MaxMeshTriangles > 0 /\ Len(mesh.indices) > 3 * MaxMeshTriangles
    \/ MaxMeshVertices > 0 /\ Len(mesh.positions) > MaxMeshVertices

\* tessellate() fails on a null shape, on parameters it cannot use, when its
\* context's token is cancelled, when OCCT's mesher is not done, and over quota.
TessellateFails ==
    /\ Counted
    /\ meshed' = NotMeshed
    /\ UNCHANGED <<body, meshCache, cacheParams, kinds>>

Tessellate(params) ==
    /\ ~body.null /\ ~ParamsRefused(params)
    /\ Counted
    /\ \E faces \in Triangulated(body.faces, Deflection(body.faces, params)) :
         LET result == Succeeded(FALSE, faces, params,
                                 [i \in DOMAIN faces |-> TessellateSingleFace(faces[i], params)])
         IN  /\ body' = [body EXCEPT !.faces = faces]
             /\ meshed' = IF OverQuota(result.mesh) THEN NotMeshed ELSE result
    /\ UNCHANGED <<meshCache, cacheParams, kinds>>

\* paramsMatch() compares the numbers and the normals, not the mode.
ParamsMatch(params) ==
    cacheParams.linear = params.linear /\ cacheParams.normals = params.normals

\* The cache a call of tessellateIncremental() works with, and the mesh of face i.
KeptCache(params) == IF ParamsMatch(params) THEN meshCache ELSE <<>>

\* Mutant of FaceMesh: a cached face is known by its number.
FaceMeshByNumber(cache, faces, i, params) ==
    IF i \in DOMAIN cache THEN cache[i] ELSE TessellateSingleFace(faces[i], params)

FaceMesh(cache, faces, i, params) ==
    IF i \in DOMAIN cache /\ cache[i].print = Fingerprint(faces[i])
    THEN cache[i] ELSE TessellateSingleFace(faces[i], params)

\* tessellateIncremental() neither polls for cancellation nor checks the quotas.
TessellateIncremental(params) ==
    /\ ~body.null /\ ~ParamsRefused(params)
    /\ Counted
    /\ cacheParams' = IF ParamsMatch(params) THEN cacheParams ELSE params
    /\ kinds' = (IF ParamsMatch(params) THEN kinds ELSE {}) \cup {params.mode}
    /\ \E faces \in Triangulated(body.faces, Deflection(body.faces, params)) :
         LET cache == KeptCache(params)
             mesh  == [i \in DOMAIN faces |-> FaceMesh(cache, faces, i, params)]
         IN  /\ body' = [body EXCEPT !.faces = faces]
             /\ meshCache' = [i \in DOMAIN faces \cup DOMAIN cache |->
                                IF i \in DOMAIN faces THEN mesh[i] ELSE cache[i]]
             /\ meshed' = Succeeded(TRUE, faces, params, mesh)

\* When the mesher is not done, the cache has been emptied already.
TessellateIncrementalFails(params) ==
    /\ ~body.null /\ ~ParamsRefused(params)
    /\ Counted
    /\ cacheParams' = IF ParamsMatch(params) THEN cacheParams ELSE params
    /\ kinds' = IF ParamsMatch(params) THEN kinds ELSE {}
    /\ meshCache' = KeptCache(params)
    /\ meshed' = NotMeshed
    /\ UNCHANGED body

InvalidateFace ==
    /\ Counted
    /\ \E i \in DOMAIN meshCache :
         meshCache' = [k \in DOMAIN meshCache \ {i} |-> meshCache[k]]
    /\ UNCHANGED <<body, cacheParams, meshed, kinds>>

InvalidateAll ==
    /\ Counted
    /\ meshCache' = <<>>
    /\ kinds' = {}
    /\ UNCHANGED <<body, cacheParams, meshed>>

MeshNext ==
    \/ EditBody
    \/ TessellateFails
    \/ \E params \in ParamChoices : Tessellate(params)
    \/ \E params \in ParamChoices : TessellateIncremental(params)
    \/ \E params \in ParamChoices : TessellateIncrementalFails(params)
    \/ InvalidateFace
    \/ InvalidateAll

MeshSpec == MeshInit /\ [][MeshNext]_meshVars

-----------------------------------------------------------------------------
(* What meshes promise: about their buffers, and about the shape they show. *)
Vertex(mesh, n)  == mesh.positions[mesh.indices[n] + 1]
MeshTriangles(mesh) == 0..((Len(mesh.indices) \div 3) - 1)

\* Cached faces carry the fingerprint they were stored under, and no face of the
\* last mesh is missing from it without being counted as failed.
MeshTypeOK ==
    /\ \A i \in DOMAIN meshCache : meshCache[i].print = Fingerprint(meshCache[i].of)
    /\ meshed.ok =>
          meshed.mesh.failed + Len(meshed.mesh.groups) = Len(meshed.faces)

\* Vertices and indices can be counted in a uint32_t: tessellate() sees to the
\* vertices, nothing else is checked.
Counts(mesh) == Len(mesh.positions) < IndexSpace /\ Len(mesh.indices) < IndexSpace

\* The face of a picked triangle is the face its three vertices were made from,
\* with failed faces skipped and vertex offsets shifted; past the last triangle
\* there is no face, as long as three times the index does not wrap
\* (MeshResult::faceIdForTriangle).
PicksTheFace ==
    meshed.ok /\ Counts(meshed.mesh) =>
        /\ \A t \in MeshTriangles(meshed.mesh) : \A k \in 1..3 :
              Vertex(meshed.mesh, 3 * t + k)[2] = FaceIdForTriangle(meshed.mesh, t)
        /\ \A t \in 0..((IndexSpace - 1) \div 3) \ MeshTriangles(meshed.mesh) :
              FaceIdForTriangle(meshed.mesh, t) = -1

\* A mesh is at least as fine as its parameters ask, and has normals when they
\* do: whole, or from a cache that has known one absolute mode only since it was
\* last emptied.  With the relative modes, or after a change of mode, cached
\* faces may be coarser (MeshCache::paramsMatch).
AsFineAsAsked ==
    meshed.ok /\ (meshed.cached => kinds = {"absolute"}) =>
        \A i \in DOMAIN meshed.from :
            /\ meshed.from[i].of.fine <= Deflection(meshed.faces, meshed.params)
            /\ meshed.from[i].normals = meshed.params.normals

\* Features renumber and replace faces between calls: no face is ever shown with
\* the mesh of a face of another outline that had its number before.
RenumberedFacesTold ==
    meshed.ok =>
        \A i \in DOMAIN meshed.from : meshed.from[i].of.outline = meshed.faces[i].outline

\* What is cached fits the body it is shown for.
CachedFacesFit == MeshTypeOK /\ AsFineAsAsked /\ RenumberedFacesTold

\* The words an accessor reads.
Read(doc, accessor) ==
    SubSeq(doc.bin, accessor.from + 1, accessor.from + accessor.count * accessor.width)

\* A reader of the GLB document that follows its offsets finds, for each face
\* that has triangles, one primitive with that face's id, material and vertices,
\* and for each edge its points, whatever regions come before them.
GlbShowsMesh ==
    meshed.ok /\ Counts(meshed.mesh) /\ ~GlbRefused(meshed.mesh, meshed.edges) =>
        \A perFace, includeEdges \in BOOLEAN :
            LET doc == ExportGlb(meshed.mesh, meshed.edges, perFace, includeEdges)
                vertices == Read(doc, doc.positions)
            IN  /\ \A p \in DOMAIN doc.primitives :
                      LET prim == doc.primitives[p]
                          read == Read(doc, prim.indices)
                      IN  \A n \in DOMAIN read :
                             LET v == vertices[3 * read[n][2] + 1]
                             IN  prim.face # -1 =>
                                   v[2] = prim.face /\ doc.materials[prim.material] = prim.face
                /\ Total([p \in DOMAIN doc.primitives |-> doc.primitives[p].indices.count])
                      = Len(meshed.mesh.indices)
                /\ includeEdges =>
                      \A n \in DOMAIN doc.strips :
                          \A k \in 1..(3 * doc.strips[n].points.count) :
                              Read(doc, doc.strips[n].points)[k][2] = doc.strips[n].edge

\* Through every index and offset, a triangle belongs to the face it shows.
BuffersShowTheFaces == PicksTheFace /\ GlbShowsMesh

\* "Incremental tessellation (uses cache, remeshes only changed/invalidated
\* faces)" (oreo_mesh.h:221): what has changed is meshed anew.
ChangedFacesRemeshed ==
    meshed.ok =>
        \A i \in DOMAIN meshed.from : meshed.from[i].of.holes = meshed.faces[i].holes

=============================================================================
