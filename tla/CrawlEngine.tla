------------------------------ MODULE CrawlEngine ------------------------------
(***************************************************************************)
(* One crawl: the controller that starts and stops it (CrawlController),   *)
(* the consumers that take states with unfired candidate actions           *)
(* (CrawlTaskConsumer), and the crawler each of them drives through the    *)
(* web site (Crawler, StateMachine).                                       *)
(*                                                                         *)
(* The site is the constant App.  The state-flow graph, the cache of       *)
(* unfired actions and the exit notifier belong to the crawljax library    *)
(* and are modelled from the way this code uses them.                      *)
(***************************************************************************)
EXTENDS Integers, FiniteSets

CONSTANTS
  Consumers,  \* one per browser
  Pages,      \* the states (DOMs) of the site
  Index,      \* the page at the configured URL
  Offsite,    \* a page of another domain
  App,        \* App[s][a]: the pages that firing candidate a in s may lead to
  NoAction,   \* "null" where an action is expected
  MaxDepth,   \* maximum crawl depth, 0 if unlimited
  MaxStates,  \* maximum number of states, 0 if unlimited
  Timed,      \* is there a maximum crawl time?
  Faults      \* what may go wrong, a subset of FaultKinds

FaultKinds ==
  { "unreachable",  \* a recorded path cannot be followed any more
    "unfired",      \* an element is gone, hidden, or fails its conditions
    "escape",       \* the browser leaves the domain on its own
    "exception",    \* a RuntimeException of the browser or of an extraction
    "error",        \* an Error, which no consumer catches
    "login",        \* the login plugin sleeps whenever the index is loaded
    "slow" }        \* a consumer needs more than 15 seconds to stop

Candidates(s) == DOMAIN App[s]

Actions == UNION {Candidates(s) : s \in Pages}

ASSUME EngineAssumption ==
  /\ Index \in Pages
  /\ Offsite \notin Pages
  /\ \A s \in Pages : /\ NoAction \notin Candidates(s)
                      /\ \A a \in Candidates(s) : App[s][a] \subseteq Pages \cup {Offsite}
  /\ MaxDepth \in Nat
  /\ MaxStates \in Nat
  /\ Timed \in BOOLEAN
  /\ Faults \subseteq FaultKinds

VARIABLES
  ctl,         \* the controller: "start", "await", "stopping", "done", "failed"
  signal,      \* ExitNotifier: the last reason signalled, or "none"
  exitReason,  \* CrawlController.exitReason, "none" until the crawl stops
  pending,     \* UnfiredCandidateActions: page -> actions not yet polled
  graph,       \* states of the state-flow graph
  edges,       \* edges of the state-flow graph
  pc,          \* where each consumer is
  flag,        \* the interrupt flag of each consumer's thread
  running,     \* CrawlTaskConsumer.runningConsumers, one counter each
  task,        \* the state each consumer was sent to
  cur,         \* StateMachine.currentState of each consumer
  dom,         \* the page its browser shows after an event
  isNew,       \* is that page a new state?
  hand,        \* the action each consumer has polled
  depth,       \* Crawler.crawlDepth
  path,        \* length of Crawler.crawlpath
  parsed,      \* history: pages whose candidates were put into the cache
  tried,       \* history: actions (with their page) a consumer tried to fire
  lost         \* history: actions purged, or dropped when leaving the domain

control  == <<ctl, signal, exitReason>>
flow     == <<graph, edges>>
local    == <<task, cur, dom, isNew, depth, path>>
past     == <<parsed, tried, lost>>
vars     == <<control, pending, flow, pc, flag, running, local, hand, past>>

\* Pages reachable from the index in at most n edges of the state-flow graph.
Within[n \in Nat] ==
  IF n = 0 THEN {Index}
  ELSE Within[n-1] \cup {s \in graph : \E r \in Within[n-1] : <<r, s>> \in edges}

Reachable == Within[Cardinality(Pages)]

\* Length of the shortest path from the index.
Distance(s) ==
  CHOOSE n \in 0 .. Cardinality(Pages) :
    s \in Within[n] /\ \A m \in 0 .. n-1 : s \notin Within[m]

CacheIsEmpty == \A s \in Pages : pending[s] = {}

Ended(c) == pc[c] \in {"closed", "dead"}

Goto(c, label) == pc' = [pc EXCEPT ![c] = label]

-----------------------------------------------------------------------------
(***************************************************************************)
(* Faulty variants of definitions below: what the code would do with a     *)
(* plausible mistake in it.  They are no part of Spec.                     *)
(***************************************************************************)
\* The counter is not decremented.
EndTask_NotCounted(c) == Goto(c, "loop") /\ UNCHANGED running

\* An interrupted crawler drops its action.
PutBack_Dropped(c) == UNCHANGED pending

\* The edge points the wrong way.
NewEdge_Swapped(c) == <<dom[c], cur[c]>>

\* crawlDepth.set(0) is missing.
StartOver_AtDepth(c) == cur' = [cur EXCEPT ![c] = Index] /\ UNCHANGED depth

\* The interrupt is swallowed.
RaiseFlagAgain_Forgotten(c) == flag' = [flag EXCEPT ![c] = FALSE]

\* The cache is not asked.
NothingLeft_Idle(c) == running[c] = 0

\* >= instead of ==, although 0 stands for no limit.
AtMaxDepth_OrBeyond(c) == depth[c] + 1 >= MaxDepth

\* shutdown instead of shutdownNow.
ShutDown_NoInterrupt ==
  /\ ctl = "await"
  /\ signal # "none"
  /\ ctl' = "stopping"
  /\ exitReason' = signal
  /\ UNCHANGED <<signal, pending, flow, pc, flag, running, local, hand, past>>

\* The consumers are not waited for.
Finish_AtOnce ==
  /\ ctl = "stopping"
  /\ ctl' = "done"
  /\ UNCHANGED <<signal, exitReason, pending, flow, pc, flag, running, local, hand, past>>

-----------------------------------------------------------------------------
(***************************************************************************)
(* CrawlController                                                         *)
(***************************************************************************)
\* The first consumer loads the index and extracts its candidates, whatever
\* MaxDepth is.
CrawlIndex ==
  /\ pending' = [pending EXCEPT ![Index] = Candidates(Index)]
  /\ parsed' = {Index}

\* call: the graph is set up with the index, then every consumer is submitted.
\* Nothing is shut down if that fails.
Start ==
  /\ ctl = "start"
  /\ \/ /\ ctl' = "await"
        /\ CrawlIndex
        /\ graph' = {Index}
        /\ pc' = [c \in Consumers |-> "loop"]
     \/ /\ "exception" \in Faults
        /\ ctl' = "failed"
        /\ UNCHANGED <<pending, parsed, graph, pc>>
  /\ UNCHANGED <<signal, exitReason, edges, flag, running, local, hand, tried, lost>>

\* The timer task, and CrawljaxRunner.stop.
SignalFromOutside ==
  /\ ctl \in {"start", "await"}
  /\ \/ Timed /\ signal' = "time"
     \/ signal' = "stopped"
  /\ UNCHANGED <<ctl, exitReason, pending, flow, pc, flag, running, local, hand, past>>

\* awaitTermination returns; shutdownNow interrupts every consumer.
ShutDown ==
  /\ ctl = "await"
  /\ signal # "none"
  /\ ctl' = "stopping"
  /\ exitReason' = signal
  /\ flag' = [c \in Consumers |-> flag[c] \/ ~Ended(c)]
  /\ UNCHANGED <<signal, pending, flow, pc, running, local, hand, past>>

\* The executor terminated or the 15 seconds are over: the post-crawling
\* plugins run and call returns.
Finish ==
  /\ ctl = "stopping"
  /\ (\A c \in Consumers : Ended(c)) \/ "slow" \in Faults
  /\ ctl' = "done"
  /\ UNCHANGED <<signal, exitReason, pending, flow, pc, flag, running, local, hand, past>>

-----------------------------------------------------------------------------
(***************************************************************************)
(* CrawlTaskConsumer.call                                                  *)
(***************************************************************************)
\* Each consumer compares its own counter and the shared cache.
NothingLeft(c) == running[c] = 0 /\ CacheIsEmpty

\* The head of the loop; Thread.interrupted() clears the flag.
Loop(c) ==
  /\ pc[c] = "loop"
  /\ IF flag[c]
       THEN Goto(c, "close") /\ flag' = [flag EXCEPT ![c] = FALSE] /\ UNCHANGED signal
       ELSE /\ UNCHANGED flag
            /\ IF NothingLeft(c)
                 THEN Goto(c, "close") /\ signal' = "exhausted"
                 ELSE Goto(c, "await") /\ UNCHANGED signal
  /\ UNCHANGED <<ctl, exitReason, pending, flow, running, local, hand, past>>

\* awaitNewTask blocks until some state has unfired actions, or throws an
\* InterruptedException.  The state stays in the cache.
Await(c) ==
  /\ pc[c] = "await"
  /\ \/ /\ flag[c]
        /\ flag' = [flag EXCEPT ![c] = FALSE]
        /\ Goto(c, "close")
        /\ UNCHANGED <<running, task>>
     \/ /\ ~flag[c]
        /\ \E s \in Pages : pending[s] # {} /\ task' = [task EXCEPT ![c] = s]
        /\ running' = [running EXCEPT ![c] = @ + 1]
        /\ Goto(c, "reset")
        /\ UNCHANGED flag
  /\ UNCHANGED <<control, pending, flow, cur, dom, isNew, depth, path, hand, past>>

\* handleTask returned, normally or with a RuntimeException.
EndTask(c) ==
  /\ running' = [running EXCEPT ![c] = @ - 1]
  /\ Goto(c, "loop")

\* An Error ends the consumer without closing its browser.
Die(c) ==
  /\ "error" \in Faults
  /\ Goto(c, "dead")
  /\ UNCHANGED running

Close(c) ==
  /\ pc[c] = "close"
  /\ Goto(c, "closed")
  /\ UNCHANGED <<control, pending, flow, flag, running, local, hand, past>>

-----------------------------------------------------------------------------
(***************************************************************************)
(* Crawler.execute                                                         *)
(***************************************************************************)
\* StateUnreachableException: the actions of the target are given up.
Purge(c, s) ==
  /\ pending' = [pending EXCEPT ![s] = {}]
  /\ lost' = lost \cup ({s} \X pending[s])
  /\ EndTask(c)

\* A new state machine, in the index, and a depth of 0.
StartOver(c) ==
  /\ cur' = [cur EXCEPT ![c] = Index]
  /\ depth' = [depth EXCEPT ![c] = 0]

\* reset: the index is loaded and the state machine starts over.  The login
\* plugin sleeps there and keeps an InterruptedException to itself.
Reset(c) ==
  /\ pc[c] \in {"reset", "resetBack"}
  /\ StartOver(c)
  /\ \/ /\ Goto(c, IF pc[c] = "reset" THEN "follow" ELSE "followBack")
        /\ \/ UNCHANGED flag
           \/ "login" \in Faults /\ flag[c] /\ flag' = [flag EXCEPT ![c] = FALSE]
        /\ UNCHANGED running
     \/ "exception" \in Faults /\ EndTask(c) /\ UNCHANGED flag
     \/ Die(c) /\ UNCHANGED flag
  /\ UNCHANGED <<control, pending, flow, task, dom, isNew, path, hand, past>>

\* follow: the shortest path to a new task, or the crawl path back to the state
\* whose action left the domain.  Every event of it counts for the depth.  An
\* event fired by an interrupted thread is reported as not fired.
Follow(c) ==
  LET back   == pc[c] = "followBack"
      length == IF back THEN path[c] ELSE Distance(task[c])
  IN
  /\ pc[c] \in {"follow", "followBack"}
  /\ \/ /\ ~flag[c] \/ length = 0
        /\ cur' = [cur EXCEPT ![c] = task[c]]
        /\ depth' = [depth EXCEPT ![c] = @ + length]
        /\ path' = [path EXCEPT ![c] = length]
        /\ Goto(c, IF back THEN "poll" ELSE "begin")
        /\ UNCHANGED <<pending, lost, running>>
     \/ /\ \/ /\ length > 0
              /\ flag[c] \/ "unreachable" \in Faults
              /\ Purge(c, task[c])
           \/ "exception" \in Faults /\ EndTask(c) /\ UNCHANGED <<pending, lost>>
           \/ Die(c) /\ UNCHANGED <<pending, lost>>
        /\ UNCHANGED <<cur, depth, path>>
  /\ UNCHANGED <<control, flow, flag, task, dom, isNew, hand, parsed, tried>>

\* crawlThroughActions, up to its loop.  An action polled by an interrupted
\* crawler goes back at once.
BeginActions(c) ==
  LET s == cur[c] IN
  /\ pc[c] = "begin"
  /\ IF flag[c] \/ pending[s] = {}
       THEN EndTask(c) /\ UNCHANGED <<pending, hand>>
       ELSE /\ \E a \in pending[s] :
                 /\ hand' = [hand EXCEPT ![c] = a]
                 /\ pending' = [pending EXCEPT ![s] = @ \ {a}]
            /\ Goto(c, "fire")
            /\ UNCHANGED running
  /\ UNCHANGED <<control, flow, flag, local, past>>

\* fireEvent returns false for an element that is not there or not visible, and
\* when the interrupt wakes it from waiting for the page.
MayNotFire(c) == "unfired" \in Faults \/ flag[c]

\* inspectNewState: what follows an event fired in s that led to t.
AfterEvent(s, t) ==
  CASE t = Offsite -> "resetBack"
    [] t = s       -> "poll"
    [] OTHER       -> "switch"

\* One iteration fires the action in hand, if it can, and looks at the page the
\* browser shows then.  Outside the domain it has to go back to this state.
Fire(c) ==
  LET s == cur[c]
      a == hand[c]
  IN
  /\ pc[c] = "fire"
  /\ tried' = tried \cup {<<s, a>>}
  /\ hand' = [hand EXCEPT ![c] = NoAction]
  /\ \/ /\ ~flag[c]
        /\ \E t \in App[s][a] :
             /\ dom' = [dom EXCEPT ![c] = t]
             /\ task' = [task EXCEPT ![c] = IF t = Offsite THEN s ELSE @]
             /\ Goto(c, AfterEvent(s, t))
        /\ UNCHANGED running
     \/ /\ \/ /\ MayNotFire(c)
              /\ Goto(c, "poll")
              /\ UNCHANGED running
           \/ "exception" \in Faults /\ EndTask(c)
           \/ Die(c)
        /\ UNCHANGED <<dom, task>>
  /\ UNCHANGED <<control, pending, flow, flag, cur, isNew, depth, path, parsed, lost>>

\* inspectNewDom: putIfAbsent tells a new state from a clone.  The graph
\* counts its states and signals the maximum.
AddState(c) ==
  LET t == dom[c] IN
  /\ pc[c] = "switch"
  /\ isNew' = [isNew EXCEPT ![c] = t \notin graph]
  /\ graph' = graph \cup {t}
  /\ signal' = IF t \notin graph /\ Cardinality(graph) + 1 = MaxStates
                 THEN "states" ELSE signal
  /\ Goto(c, "edge")
  /\ UNCHANGED <<ctl, exitReason, pending, edges, flag, running, task, cur, dom,
                 depth, path, hand, past>>

\* Only the state at exactly this depth is not crawled any further.
AtMaxDepth(c) == depth[c] + 1 = MaxDepth

NewEdge(c) == <<cur[c], dom[c]>>

\* The edge is added, the invariants are checked in the browser, and the state
\* machine moves.  Only a new state counts for the depth, and is parsed.
AddEdge(c) ==
  LET t == dom[c] IN
  /\ pc[c] = "edge"
  /\ edges' = edges \cup {NewEdge(c)}
  /\ path' = [path EXCEPT ![c] = @ + 1]
  /\ \/ /\ cur' = [cur EXCEPT ![c] = t]
        /\ depth' = [depth EXCEPT ![c] = IF isNew[c] THEN @ + 1 ELSE @]
        /\ Goto(c, IF isNew[c] /\ ~AtMaxDepth(c) THEN "parse" ELSE "poll")
        /\ UNCHANGED running
     \/ /\ \/ "exception" \in Faults /\ EndTask(c)
           \/ Die(c)
        /\ UNCHANGED <<cur, depth>>
  /\ UNCHANGED <<control, pending, graph, flag, task, dom, isNew, hand, past>>

\* The candidates of the new state are extracted and cached.
Parse(c) ==
  LET s == cur[c] IN
  /\ pc[c] = "parse"
  /\ \/ /\ pending' = [pending EXCEPT ![s] = @ \cup Candidates(s)]
        /\ parsed' = parsed \cup {s}
        /\ Goto(c, "poll")
        /\ UNCHANGED running
     \/ /\ \/ "exception" \in Faults /\ EndTask(c)
           \/ Die(c)
        /\ UNCHANGED <<pending, parsed>>
  /\ UNCHANGED <<control, flow, flag, local, hand, tried, lost>>

\* The end of an iteration: the next action of the current state is polled.
Poll(c) ==
  LET s == cur[c] IN
  /\ pc[c] = "poll"
  /\ \/ /\ pending[s] = {}
        /\ UNCHANGED <<pending, hand>>
     \/ \E a \in pending[s] :
          /\ hand' = [hand EXCEPT ![c] = a]
          /\ pending' = [pending EXCEPT ![s] = @ \ {a}]
  /\ Goto(c, "check")
  /\ UNCHANGED <<control, flow, flag, running, local, past>>

InHand(c) == IF hand[c] = NoAction THEN {} ELSE {hand[c]}

PutBack(c) == pending' = [pending EXCEPT ![cur[c]] = @ \cup InHand(c)]

\* Thread.interrupted() has cleared the flag.
RaiseFlagAgain(c) == flag' = [flag EXCEPT ![c] = TRUE]

\* Then the interrupt flag is looked at, and the domain.  An interrupted
\* crawler puts the action back and raises its flag again; a crawler outside
\* the domain drops it.
Check(c) ==
  LET s == cur[c] IN
  /\ pc[c] = "check"
  /\ \/ /\ flag[c]
        /\ PutBack(c)
        /\ RaiseFlagAgain(c)
        /\ hand' = [hand EXCEPT ![c] = NoAction]
        /\ EndTask(c)
        /\ UNCHANGED lost
     \/ /\ ~flag[c]
        /\ "escape" \in Faults
        /\ lost' = lost \cup ({s} \X InHand(c))
        /\ hand' = [hand EXCEPT ![c] = NoAction]
        /\ EndTask(c)
        /\ UNCHANGED <<pending, flag>>
     \/ /\ ~flag[c]
        /\ IF hand[c] = NoAction THEN EndTask(c) ELSE Goto(c, "fire") /\ UNCHANGED running
        /\ UNCHANGED <<pending, flag, hand, lost>>
  /\ UNCHANGED <<control, flow, local, parsed, tried>>

-----------------------------------------------------------------------------
Init ==
  /\ ctl = "start"
  /\ signal = "none"
  /\ exitReason = "none"
  /\ pending = [s \in Pages |-> {}]
  /\ graph = {}
  /\ edges = {}
  /\ pc = [c \in Consumers |-> "idle"]
  /\ flag = [c \in Consumers |-> FALSE]
  /\ running = [c \in Consumers |-> 0]
  /\ task = [c \in Consumers |-> Index]
  /\ cur = [c \in Consumers |-> Index]
  /\ dom = [c \in Consumers |-> Index]
  /\ isNew = [c \in Consumers |-> FALSE]
  /\ hand = [c \in Consumers |-> NoAction]
  /\ depth = [c \in Consumers |-> 0]
  /\ path = [c \in Consumers |-> 0]
  /\ parsed = {}
  /\ tried = {}
  /\ lost = {}

Controller == Start \/ ShutDown \/ Finish

Consumer(c) ==
  \/ Loop(c) \/ Await(c) \/ Close(c) \/ Reset(c) \/ Follow(c) \/ BeginActions(c)
  \/ Fire(c) \/ AddState(c) \/ AddEdge(c) \/ Parse(c) \/ Poll(c)
  \/ Check(c)

Next == Controller \/ SignalFromOutside \/ \E c \in Consumers : Consumer(c)

Spec == Init /\ [][Next]_vars

FairSpec == /\ Spec
            /\ WF_vars(Controller)
            /\ \A c \in Consumers : WF_vars(Consumer(c))

-----------------------------------------------------------------------------
(***************************************************************************)
(* Properties.                                                             *)
(***************************************************************************)
Labels ==
  {"idle", "loop", "await", "reset", "resetBack", "follow", "followBack",
   "begin", "fire", "switch", "edge", "parse", "poll", "check", "close",
   "closed", "dead"}

TypeOK ==
  /\ ctl \in {"start", "await", "stopping", "done", "failed"}
  /\ signal \in {"none", "time", "stopped", "exhausted", "states"}
  /\ exitReason \in {"none", "time", "stopped", "exhausted", "states"}
  /\ pending \in [Pages -> SUBSET Actions]
  /\ \A s \in Pages : pending[s] \subseteq Candidates(s)
  /\ graph \subseteq Pages
  /\ edges \subseteq graph \X graph
  /\ pc \in [Consumers -> Labels]
  /\ flag \in [Consumers -> BOOLEAN]
  /\ running \in [Consumers -> {0, 1}]
  /\ task \in [Consumers -> Pages]
  /\ cur \in [Consumers -> Pages]
  /\ dom \in [Consumers -> Pages \cup {Offsite}]
  /\ isNew \in [Consumers -> BOOLEAN]
  /\ hand \in [Consumers -> Actions \cup {NoAction}]
  /\ \A c \in Consumers : hand[c] \in Candidates(cur[c]) \cup {NoAction}
  /\ parsed \subseteq graph
  /\ tried \cup lost \subseteq {x \in Pages \X Actions : x[2] \in Candidates(x[1])}

Waits(s, a)    == a \in pending[s]
Holds(c, s, a) == cur[c] = s /\ hand[c] = a
IsHeld(s, a)   == \E c \in Consumers : Holds(c, s, a)
IsOver(s, a)   == <<s, a>> \in tried \cup lost

\* No action gets lost or is fired twice: a candidate of a parsed page waits in
\* the cache, is held by one consumer that is in that page, was tried, or was
\* knowingly given up -- and only one of these (Crawler.crawlThroughActions
\* polls, fires and puts back while other consumers do the same).
EveryActionAccounted ==
  \A s \in Pages : \A a \in Candidates(s) :
    /\ s \in parsed => Waits(s, a) \/ IsHeld(s, a) \/ IsOver(s, a)
    /\ ~(Waits(s, a) /\ IsHeld(s, a))
    /\ ~(Waits(s, a) /\ IsOver(s, a))
    /\ ~(IsHeld(s, a) /\ IsOver(s, a))
    /\ \A c, d \in Consumers : Holds(c, s, a) /\ Holds(d, s, a) => c = d

\* Every state with actions to fire can be reached again by a consumer that
\* starts at the index: execute asks for the shortest path to it.
TasksAreReachable ==
  \A s \in Pages : pending[s] # {} => s \in Reachable

\* The depth a crawler counts never exceeds the number of events that brought
\* it where it is, and the state it is in is not farther away than that.
DepthIsJustified ==
  \A c \in Consumers :
    pc[c] \in {"fire", "switch", "edge", "poll", "check"} =>
      /\ depth[c] \in 0 .. path[c]
      /\ cur[c] \in Within[path[c]]

\* Once the crawl was told to stop no consumer sets out for another state,
\* reloads the index or gets an event through to a new DOM: the interrupt
\* survives every place that looks at the flag or clears it.
NothingBegunAfterShutDown ==
  [][\A c \in Consumers :
       /\ ctl \in {"stopping", "done"}
       /\ pc'[c] \in {"reset", "resetBack", "switch"}
       => pc'[c] = pc[c]]_vars

\* When the crawl reports that the site is exhausted no action is left, and
\* none is being worked on.
ExhaustedMeansDone ==
  exitReason = "exhausted" =>
    /\ CacheIsEmpty
    /\ \A c \in Consumers : pc[c] \in {"loop", "await", "close", "closed"}

\* An exhausted crawl without a depth limit has explored the site: every
\* action of every state in the graph led nowhere new, or along an edge.
ExhaustedMeansExplored ==
  exitReason = "exhausted" /\ MaxDepth = 0 =>
    \A s \in graph : \A a \in Candidates(s) :
      <<s, a>> \in lost \/ \E t \in App[s][a] : t \in {s, Offsite} \/ <<s, t>> \in edges

\* Candidates are extracted only from states that are less than MaxDepth events
\* away from the index, by the shortest path known (Crawler.inspectNewDom).
DepthIsBounded ==
  MaxDepth # 0 => \A s \in parsed \ {Index} : Distance(s) < MaxDepth

\* The state-flow graph handed to the post-crawling plugins does not change any
\* more (CrawlController.shutDown waits for the consumers).
ResultIsFinal == [][(ctl \in {"done", "failed"}) => UNCHANGED flow]_vars

\* Unless an Error has killed a consumer, a crawl that nobody has told to stop has
\* a consumer that can go on: they never all wait for actions that nobody is going
\* to find, nor leave without telling the controller (CrawlTaskConsumer.call).
NobodyIsStuck ==
  ctl = "await" /\ signal = "none" /\ (\A c \in Consumers : pc[c] # "dead") =>
    \E c \in Consumers :
      /\ pc[c] \notin {"close", "closed"}
      /\ pc[c] = "await" => ~CacheIsEmpty

\* Every crawl ends by itself, however the consumers interleave.
CrawlEnds == <>(ctl \in {"done", "failed"})

\* A crawl that is told to stop ends with every browser closed.
BrowsersAreClosed ==
  ctl = "stopping" ~> \A c \in Consumers : pc[c] = "closed"

-----------------------------------------------------------------------------
(***************************************************************************)
(* The engine implements CrawlActions: an action waits in the cache of     *)
(* unfired actions, and is taken while a consumer has it in hand.          *)
(***************************************************************************)
PageActions == UNION {{s} \X Candidates(s) : s \in Pages}

ActionsWaiting == {x \in PageActions : x[2] \in pending[x[1]]}

ActionsTaken == {x \in PageActions : IsHeld(x[1], x[2])}

ActionsOver == tried \cup lost

Told == ctl \in {"stopping", "done"}

Pool == INSTANCE CrawlActions WITH
  Acts     <- PageActions,
  waiting  <- ActionsWaiting,
  taken    <- ActionsTaken,
  over     <- ActionsOver,
  stopping <- Told

\* No action comes twice, gets lost on its way or comes back once it is over,
\* whatever fails and whoever else takes actions of the same page (the cache
\* of unfired actions as Crawler and CrawlTaskConsumer use it).
ImplementsCrawlActions == Pool!Spec
=============================================================================
