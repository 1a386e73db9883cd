------------------------------- MODULE CrawlJobs -------------------------------
(***************************************************************************)
(* What the crawl history promises to the user who posts crawls: they are  *)
(* taken in the order in which they were accepted, at most Capacity of     *)
(* them execute at a time, and each is executed at most once, even when    *)
(* the server dies and is started again.                                   *)
(***************************************************************************)
EXTENDS Naturals, FiniteSets, SequencesExt

CONSTANTS
  Jobs,     \* the crawls users may post
  Capacity  \* how many crawls may execute at a time

VARIABLES
  waiting,    \* accepted jobs, in order of acceptance
  executing,  \* jobs a worker executes
  over        \* jobs that ended, failed, or were lost

jobVars == <<waiting, executing, over>>

Unborn == Jobs \ (ToSet(waiting) \cup executing \cup over)

Accept(j) ==
  /\ j \in Unborn
  /\ waiting' = Append(waiting, j)
  /\ UNCHANGED <<executing, over>>

\* The request failed before its job was submitted.
Refuse(j) ==
  /\ j \in Unborn
  /\ over' = over \cup {j}
  /\ UNCHANGED <<waiting, executing>>

Begin ==
  /\ waiting # <<>>
  /\ Cardinality(executing) < Capacity
  /\ executing' = executing \cup {Head(waiting)}
  /\ waiting' = Tail(waiting)
  /\ UNCHANGED over

End(j) ==
  /\ j \in executing
  /\ executing' = executing \ {j}
  /\ over' = over \cup {j}
  /\ UNCHANGED waiting

\* The server dies with the jobs it has, and with some it was about to accept.
Die(lost) ==
  /\ lost \subseteq Unborn
  /\ over' = over \cup ToSet(waiting) \cup executing \cup lost
  /\ waiting' = <<>>
  /\ executing' = {}

Init == waiting = <<>> /\ executing = {} /\ over = {}

Next ==
  \/ \E j \in Jobs : Accept(j) \/ Refuse(j) \/ End(j)
  \/ Begin
  \/ \E lost \in SUBSET Jobs : Die(lost)

Spec == Init /\ [][Next]_jobVars
=============================================================================
