-------------------------- MODULE MCGraphProcedures --------------------------
(* Instances of GraphProcedures for TLC. *)
EXTENDS GraphProcedures

\* Stored graphs: labels by size, or Tomb for a dropped one; two edge types; edges
\* <<src, dst, type>>, the last of them deleted with its source.  Parallel edges, a
\* self-loop and an edge back are among them.
Tomb == -1

StoredGraph(sizes, types, edges) ==
  LET gone == IF edges = <<>> THEN <<0, 0>>
              ELSE <<types[edges[Len(edges)][3]][1], edges[Len(edges)][1]>>
  IN  [labels |-> [l \in 0..(Len(sizes) - 1) |->
         [size |-> IF sizes[l + 1] = Tomb THEN 0 ELSE sizes[l + 1],
          dropped |-> sizes[l + 1] = Tomb,
          removed |-> IF gone[1] = l THEN {gone[2]} ELSE {}]],
       types |-> types,
       edges |-> {[id |-> i - 1, src |-> edges[i][1], dst |-> edges[i][2],
                   label |-> edges[i][3], deleted |-> i = Len(edges)] : i \in DOMAIN edges}]

Within == << <<0, 0>>, <<0, 0>> >>
Between == << <<0, 1>>, <<1, 0>> >>

\* No vertex; one label; two labels with edges both ways and a dropped one behind
\* them; a label dropped below two others, with a type of its own that stayed.
MCStored == {
  StoredGraph(<<0>>, Within, <<>>),
  StoredGraph(<<4>>, Within,
              << <<0, 1, 1>>, <<0, 1, 1>>, <<1, 1, 2>>, <<2, 0, 2>>, <<2, 3, 1>> >>),
  StoredGraph(<<2, 2, Tomb>>, Between,
              << <<0, 1, 1>>, <<1, 1, 1>>, <<0, 0, 2>>, <<0, 1, 2>>, <<1, 0, 2>> >>),
  StoredGraph(<<Tomb, 2, 1>>, << <<1, 1>>, <<0, 0>> >>,
              << <<0, 1, 1>>, <<0, 1, 1>>, <<1, 0, 1>> >>) }

\* A bibliography with one publication per set of organizations.  Without
\* shared countries its coauthor projection is the graph of those sets.
Bibliography(orgs, country, hosts) ==
  [orgs |-> [p \in 0..(Len(orgs) - 1) |-> orgs[p + 1]],
   year |-> [p \in 0..(Len(orgs) - 1) |-> IF p = 3 THEN 2001 ELSE 2000],
   country |-> country, hosts |-> hosts]

Distinct(n) == [o \in 0..(n - 1) |-> o + 100]
Hosted(k) == [d \in 0..2 |-> CASE d = 0 -> 0..(k - 1)
                               [] d = 1 -> {p \in 0..(k - 1) : p % 2 = 0}
                               [] d = 2 -> {p \in 0..(k - 1) : p > 1}]

OfGraph(n, edges) == Bibliography(edges, Distinct(n), Hosted(Len(edges)))

Pairs4 == <<{0,1}, {0,2}, {0,3}, {1,2}, {1,3}, {2,3}>>

\* Every graph on four countries, two triangles joined by an edge, a wheel,
\* and bibliographies with shared, missing and crowded entries.
MCBibliographies ==
  {OfGraph(4, [i \in 1..6 |-> IF i \in E THEN Pairs4[i] ELSE {}]) : E \in SUBSET (1..6)} \cup
  { OfGraph(6, <<{0,1}, {1,2}, {0,2}, {2,3}, {3,4}, {4,5}, {3,5}>>),
    OfGraph(5, <<{0,1}, {1,2}, {2,3}, {3,0}, {0,4}, {1,4}, {2,4}, {3,4}>>),
    Bibliography(<<{0,1,2}, {0,1}, {2,3}, {1,3}>>,
                 [o \in 0..3 |-> IF o = 0 THEN NoCountry ELSE o + 100], Hosted(4)),
    Bibliography(<<{0,1}, {0,1}, {1,2,3}, {1,2}>>,
                 [o \in 0..3 |-> <<100, 101, 100, NoCountry>>[o + 1]], Hosted(4)) }

MCConfigs == {
  [year_min |-> 1, year_max |-> 0, max_coauthors |-> 0, min_edge_weight |-> 1,
   max_author_orgs |-> 0, min_hosts |-> 0, min_pubs |-> 1,
   min_org_projects |-> 1, max_project_size |-> 0],
  [year_min |-> 2000, year_max |-> 2000, max_coauthors |-> 2, min_edge_weight |-> 2,
   max_author_orgs |-> 2, min_hosts |-> 2, min_pubs |-> 2,
   min_org_projects |-> 2, max_project_size |-> 2] }
=============================================================================
