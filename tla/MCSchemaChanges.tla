-------------------------- MODULE MCSchemaChanges --------------------------
\* Instances of SchemaChanges for TLC.
EXTENDS SchemaChanges

\* Two vertex types, an edge type between them, a vertex of each and an edge.
Triple == <<"A", "B", "e">>
MCBaseLog == << <<"CreateVertexType", "A", -5>>, <<"CreateVertexType", "B", -4>>,
                <<"CreateEdgeType", Triple>>,
                <<"InsertVertex", 1, -3>>, <<"InsertVertex", 2, -2>>,
                <<"InsertEdge", [type |-> <<1, 2, 1>>, src |-> -3, dst |-> -2]>> >>

\* The edge types join two types ...
MCBetween == {Triple}

\* ... or a type with itself.
Loop == <<"A", "A", "e">>
MCLoops == {Loop}
MCLoopLog == << <<"CreateVertexType", "A", -5>>, <<"CreateEdgeType", Loop>>,
                <<"InsertVertex", 1, -3>>,
                <<"InsertEdge", [type |-> <<1, 1, 1>>, src |-> -3, dst |-> -3]>> >>
=============================================================================
