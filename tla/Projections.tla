----------------------------- MODULE Projections -----------------------------
(***************************************************************************)
(* The weighted graphs on which the LOUVAIN_* and KCORE_* procedures of    *)
(* the extensions run: instead of the stored graph they take a projection  *)
(* of it, folded out of publications, organizations, datasources and       *)
(* projects (extension/louvain/include/louvain_functions.h and             *)
(* extension/kcore/include/kcore_functions.h).                             *)
(*                                                                         *)
(* A bibliography b is the part of the stored graph a projection reads:    *)
(*   year[p]     the year of publication or project p (NoYear when the     *)
(*               start date of a project has no leading year)              *)
(*   orgs[p]     the organizations of p, duplicate edges collapsed         *)
(*   country[o]  the country code of organization o, or NoCountry          *)
(*   hosts[d]    the publications of datasource d                          *)
(* Publications, organizations and datasources are the vids 0..n-1.  A     *)
(* projection is a symmetric function weight[i][j] on the ids 0..n-1 that  *)
(* the code gives the vertices of the projected graph; adj_ holds an entry *)
(* (j, w) in the list of i exactly when the weight w is positive.          *)
(***************************************************************************)
EXTENDS Integers, FiniteSets, FiniteSetsExt

CONSTANTS NoYear, NoCountry

\* Dense ids in the order in which the keys of f are first met.
DenseIds(f) ==
  LET First(i) == Min({j \in DOMAIN f : f[j] = f[i]})
  IN  [i \in DOMAIN f |->
         Cardinality({First(j) : j \in {k \in DOMAIN f : First(k) < First(i)}})]

\* org_to_cidx: the dense id of an organization's country, -1 without one.
org_to_cidx(b) ==
  LET known == {o \in DOMAIN b.country : b.country[o] # NoCountry}
      ids   == DenseIds([o \in known |-> b.country[o]])
  IN  [o \in DOMAIN b.country |-> IF o \in known THEN ids[o] ELSE -1]

NumCountries(b) ==
  Cardinality({b.country[o] : o \in DOMAIN b.country} \ {NoCountry})

\* A window with year_max < year_min admits every year, NoYear included.
InWindow(b, p, cfg) ==
  cfg.year_min <= cfg.year_max =>
    /\ b.year[p] # NoYear
    /\ b.year[p] \in cfg.year_min..cfg.year_max

\* cvec: the countries of an accepted publication; a publication outside the
\* window, or of too many organizations, has none.
cvec(b, p, cfg, max_orgs) ==
  IF InWindow(b, p, cfg) /\ (max_orgs > 0 => Cardinality(b.orgs[p]) <= max_orgs)
  THEN {org_to_cidx(b)[o] : o \in b.orgs[p]} \ {-1}
  ELSE {}

\* adj_ after the entries (a, b) with a < b have been written both ways.
Symmetric(n, agg(_, _)) ==
  [i \in 0..(n - 1) |-> [j \in 0..(n - 1) |->
     IF i = j THEN 0 ELSE IF i < j THEN agg(i, j) ELSE agg(j, i)]]

\* BuildCountryCoauthorProjection: one unit per publication for every pair of
\* its countries.  LOUVAIN_COAUTHOR keeps every weight (threshold 1),
\* KCORE_COAUTHOR drops those below min_edge_weight.
CoauthorProjection(b, cfg, threshold) ==
  LET agg(i, j) == Cardinality({p \in DOMAIN b.year :
                                  {i, j} \subseteq cvec(b, p, cfg, cfg.max_coauthors)})
  IN  Symmetric(NumCountries(b),
                LAMBDA i, j : IF agg(i, j) >= threshold THEN agg(i, j) ELSE 0)

\* ds_country_host: how many accepted publications a datasource hosts, by country.
HostCount(b, d, c, cfg) ==
  Cardinality({p \in b.hosts[d] : c \in cvec(b, p, cfg, cfg.max_author_orgs)})

\* BuildInfraCountryProjection: the sum, over the datasources that host enough
\* accepted publications, of the smaller of the two host counts.
InfraCountryProjection(b, cfg) ==
  LET accepted(d) == {p \in b.hosts[d] : cvec(b, p, cfg, cfg.max_author_orgs) # {}}
      kept == {d \in DOMAIN b.hosts :
                 cfg.min_hosts > 0 => Cardinality(accepted(d)) >= cfg.min_hosts}
      coupling(d, i, j) == Min({HostCount(b, d, i, cfg), HostCount(b, d, j, cfg)})
  IN  Symmetric(NumCountries(b),
                LAMBDA i, j : Cardinality(UNION {{d} \X (1..coupling(d, i, j)) : d \in kept}))

\* The ids of the members of keep, in ascending order (ds_keep, org_keep).
Kept(keep, s) == CHOOSE v \in keep : Cardinality({w \in keep : w < v}) = s

\* BuildDatasourceProjection: the datasources that host at least min_pubs
\* in-window publications; the weight is the number they host in common.
\* A publication on more than cap datasources (kPubDsCap) is skipped.
DatasourceProjection(b, cfg, cap) ==
  LET pubs(d) == {p \in b.hosts[d] : InWindow(b, p, cfg)}
      keep    == {d \in DOMAIN b.hosts :
                    pubs(d) # {} /\ Cardinality(pubs(d)) >= cfg.min_pubs}
      hosting(p) == {d \in keep : p \in pubs(d)}
  IN  Symmetric(Cardinality(keep),
        LAMBDA i, j : Cardinality({p \in pubs(Kept(keep, i)) \cap pubs(Kept(keep, j)) :
                                     Cardinality(hosting(p)) <= cap}))

\* BuildOrgProjectProjection: the organizations with enough in-window
\* projects; the weight is the number of projects they share.  The size of a
\* project counts its dropped participants too.
OrgProjectProjection(b, cfg) ==
  LET window   == {p \in DOMAIN b.year : InWindow(b, p, cfg)}
      of(o)    == {p \in window : o \in b.orgs[p]}
      keep     == {o \in DOMAIN b.country :
                     of(o) # {} /\ Cardinality(of(o)) >= cfg.min_org_projects}
      small(p) == cfg.max_project_size > 0 =>
                    Cardinality(b.orgs[p]) <= cfg.max_project_size
      agg(i, j) == Cardinality({p \in of(Kept(keep, i)) \cap of(Kept(keep, j)) : small(p)})
  IN  Symmetric(Cardinality(keep),
                LAMBDA i, j : IF agg(i, j) >= cfg.min_edge_weight THEN agg(i, j) ELSE 0)
=============================================================================
