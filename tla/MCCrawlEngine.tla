----------------------------- MODULE MCCrawlEngine -----------------------------
(***************************************************************************)
(* Constants for the model checking of CrawlEngine: small sites.     *)
(***************************************************************************)
EXTENDS CrawlEngine, TLC

CONSTANTS home, list, item, form, done, out, a1, a2

Site == {home, list, item}

\* Every page leads to every other, two actions each; a link leaves the domain,
\* and one leads to a page that depends on the server.
Web ==
  home :> (a1 :> {list} @@ a2 :> {item})
  @@ list :> (a1 :> {item, out} @@ a2 :> {home})
  @@ item :> (a1 :> {item, list})

\* A chain with a way back to the index.
Chain ==
  home :> (a1 :> {list} @@ a2 :> {out})
  @@ list :> (a1 :> {item})
  @@ item :> (a1 :> {home} @@ a2 :> {item})

\* Five pages: the way to form visits the index twice and leaves the domain.
DeepSite == {home, list, item, form, done}

Deep ==
  home :> (a1 :> {list} @@ a2 :> {item})
  @@ list :> (a1 :> {home})
  @@ item :> (a1 :> {out} @@ a2 :> {form})
  @@ form :> (a1 :> {done})
  @@ done :> (a1 :> {home})

Symmetry == Permutations(Consumers)

\* Locals that the next steps of a consumer overwrite before they read them.
View ==
  <<control, pending, flow, pc, flag, running, hand, past, cur,
    [c \in Consumers |->
      <<IF pc[c] \in {"reset", "resetBack", "follow", "followBack"} THEN task[c] ELSE Index,
        IF pc[c] \in {"switch", "edge"} THEN dom[c] ELSE Index,
        pc[c] = "edge" /\ isNew[c],
        IF pc[c] \in {"resetBack", "followBack", "fire", "switch", "edge", "parse", "poll", "check"}
          THEN <<depth[c], path[c]>> ELSE <<>>>>]>>
=============================================================================
