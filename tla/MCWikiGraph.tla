---------------------------- MODULE MCWikiGraph ----------------------------
(* Instances of WikiGraph for TLC. *)
EXTENDS WikiGraph

MCPages == <<<<"d", "x">>, <<"d", "y">>>>

Changed == {f \in Pages : md[f] # 0 \/ head[f] # 0}

\* Bounds: of a mishap, a second page and a graph that is doubted, one comes at a
\* time.
OneMore ==
    LET used(b) == IF b THEN 1 ELSE 0 IN
    used(mishaps > 0) + used(Cardinality(Changed) > 1)
        + used(\E d \in WikiDomains : graph[d].doubted) <= 1
=============================================================================
