------------------------------ MODULE CrawlActions ------------------------------
(***************************************************************************)
(* What a crawl promises of the actions it finds on the pages of a site:   *)
(* an action is found once, waits until somebody takes it, and is over for *)
(* good once it was tried or given up.  Whoever has taken an action may    *)
(* give it back unused, but only when the crawl is being stopped.          *)
(***************************************************************************)
CONSTANT Acts  \* the candidate actions of all pages

VARIABLES
  waiting,  \* actions that were found and may be taken
  taken,    \* actions that somebody has in hand
  over,     \* actions that were tried or given up
  stopping  \* was the crawl told to stop?

actionVars == <<waiting, taken, over, stopping>>

Unknown == Acts \ (waiting \cup taken \cup over)

\* The candidates of a new page.
Find(new) ==
  /\ new \subseteq Unknown
  /\ waiting' = waiting \cup new
  /\ UNCHANGED <<taken, over, stopping>>

Take(x) ==
  /\ x \in waiting
  /\ waiting' = waiting \ {x}
  /\ taken' = taken \cup {x}
  /\ UNCHANGED <<over, stopping>>

GiveBack(x) ==
  /\ stopping
  /\ x \in taken
  /\ taken' = taken \ {x}
  /\ waiting' = waiting \cup {x}
  /\ UNCHANGED <<over, stopping>>

\* The action was tried, or dropped.
Finish(x) ==
  /\ x \in taken
  /\ taken' = taken \ {x}
  /\ over' = over \cup {x}
  /\ UNCHANGED <<waiting, stopping>>

\* Their page cannot be reached any more.
GiveUp(gone) ==
  /\ gone \subseteq waiting
  /\ waiting' = waiting \ gone
  /\ over' = over \cup gone
  /\ UNCHANGED <<taken, stopping>>

Stop ==
  /\ stopping' = TRUE
  /\ UNCHANGED <<waiting, taken, over>>

Init == waiting = {} /\ taken = {} /\ over = {} /\ stopping = FALSE

Next ==
  \/ \E x \in Acts : Take(x) \/ GiveBack(x) \/ Finish(x)
  \/ \E A \in SUBSET Acts : Find(A) \/ GiveUp(A)
  \/ Stop

Spec == Init /\ [][Next]_actionVars
=============================================================================
