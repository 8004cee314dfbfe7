------------------------------ MODULE MCNaming -----------------------------
(* Instances of the element map, of the naming of results and of the       *)
(* schema registry for TLC. *)
EXTENDS ShapeFile, ShapeNaming, Schema

MCNames == {<<>>, <<<<"b", "x">>>>, <<<<"b", "x">>, <<"D", 1>>>>,
            <<<<"b", "x">>, <<"Q", 5>>, <<"H", 6>>, <<"M">>>>}
MCChildIds == {Identity(1, 1), Identity(5, 2)}

MCTexts == {<<<<"text", 1>>>>, <<<<"text", 2>>, <<"text", 1>>>>}

F(i) == <<Face, i>>
E(i) == <<Edge, i>>
V(i) == <<Vertex, i>>

MCResultElements == {F(1), F(2), E(1), E(2), V(1), V(2)}

(* A disc inside a face with a seam, and two faces along two edges. *)
MCTopologies ==
    {[subs  |-> (F(1) :> <<E(1)>>) @@ (F(2) :> <<E(2), E(1)>>)
                @@ (E(1) :> <<V(1)>>) @@ (E(2) :> <<V(1), V(2)>>)
                @@ (V(1) :> <<>>) @@ (V(2) :> <<>>),
      outer |-> (F(1) :> <<E(1)>>) @@ (F(2) :> <<E(2)>>)]}

(* A primitive; an input whose edge has a name of format v1; and two       *)
(* inputs with one identity, as when a shape is united with itself.        *)
MCBox == [elements |-> {F(1), E(1)}, id |-> Identity(1, 1),
          names |-> (F(1) :> <<<<Base, 2>>, <<Hop, 101>>>>)
                    @@ (E(1) :> <<<<Base, 3>>, <<Legacy, 7>>>>)]
MCSheet == [elements |-> {F(1)}, id |-> Identity(1, 1),
            names |-> (F(1) :> <<<<Base, 2>>, <<Hop, 101>>>>)]
MCInputs == {<<>>, <<MCBox>>, <<MCSheet, MCSheet>>}
MCOpId == Identity(1, 2)

Single(e) == [larger |-> FALSE, parts |-> <<e>>, parallel |-> 0, coplanar |-> 0]
MCShapes ==
    {Single(F(1)), Single(E(2)), Single(V(1)), Single(F(9)),
     [larger |-> TRUE, parts |-> <<F(2), F(1)>>, parallel |-> 1, coplanar |-> 0],
     [larger |-> TRUE, parts |-> <<E(1), E(2)>>, parallel |-> 0, coplanar |-> 0]}

MCCurrent  == <<2, 1>>
MCVersions == {<<1, 0>>, <<1, 1>>, <<2, 1>>, <<3, 0>>}

-----------------------------------------------------------------------------
(* The three share no state and are checked side by side: a behaviour is   *)
(* one of the part it started with.                                        *)
VARIABLE part

MapAlone    == part = "map" /\ UNCHANGED <<part, snVars, schemas>>
NamingAlone == part = "naming" /\ UNCHANGED <<part, emVars, schemas>>
SchemaAlone == part = "schema" /\ UNCHANGED <<part, emVars, snVars>>

NamingInit ==
    /\ part \in {"map", "naming", "schema"}
    /\ EMInit /\ SNInit /\ SchemaInit
    /\ part # "naming" => Inputs = <<>>

NamingNext ==
    \/ MapAlone /\ \E i \in Elements, name \in GivenNames, overwrite \in BOOLEAN :
           SetElementName(i, name, overwrite)
    \/ MapAlone /\ \E i \in Elements : RemoveElement(i)
    \/ MapAlone /\ Clear
    \/ MapAlone /\ \E id \in ChildIds, postfix \in {"C", "Plin"} : AddChildToResult(id, postfix)
    \/ MapAlone /\ \E id \in ChildIds : AddEmptyChild(id)
    \/ MapAlone /\ \E c \in DOMAIN map.children : ImportChildNames(c)
    \/ NamingAlone /\ \E ix \in InputElements, e \in ResultElements : Keep(ix, e)
    \/ NamingAlone /\ \E ix \in InputElements, e \in ResultElements : Modify(ix, e)
    \/ NamingAlone /\ \E ix \in InputElements, shape \in Shapes : Generate(ix, shape)
    \/ NamingAlone /\ NameElements(1)
    \/ SchemaAlone /\ RegisterMigration
    \/ SchemaAlone /\ UnregisterMigration
    \/ SchemaAlone /\ SetMaxMigrationSteps
    \/ SchemaAlone /\ FreezeRegistry

NamingSpec == NamingInit /\ [][NamingNext]_<<part, emVars, snVars, schemas>>

=============================================================================
