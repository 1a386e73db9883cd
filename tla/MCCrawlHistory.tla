---------------------------- MODULE MCCrawlHistory ----------------------------
(***************************************************************************)
(* Constants for the model checking of CrawlHistory.                       *)
(***************************************************************************)
EXTENDS CrawlHistory

Symmetry == Permutations(Posts) \cup Permutations(Workers)

\* The locals of an idle thread are dead: states that differ only there are
\* the same state.
View ==
  <<store, records, disk, confs, kb, history, hpc, queue, wpc,
    [t \in HttpThreads |-> IF hpc[t] = "idle" THEN <<>> ELSE <<hpost[t], seen[t], copy[t]>>],
    [w \in Workers |-> IF wpc[w] = "idle" THEN <<>> ELSE <<wpost[w], modCount[w], held[w]>>]>>
=============================================================================
