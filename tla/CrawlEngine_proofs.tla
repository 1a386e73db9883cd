-------------------------- MODULE CrawlEngine_proofs --------------------------
(***************************************************************************)
(* Theorems about CrawlEngine, for every site, every number of consumers   *)
(* and every combination of faults, unless a theorem excludes one.         *)
(***************************************************************************)
EXTENDS CrawlEngine, TLAPS

-----------------------------------------------------------------------------
(***************************************************************************)
(* The inductive invariant.                                                *)
(***************************************************************************)
\* Nothing happens before the controller has submitted the consumers.
NotStarted ==
  ctl \in {"start", "failed"} =>
    /\ graph = {} /\ parsed = {}
    /\ \A c \in Consumers : pc[c] = "idle"

\* Consumers stay on the state-flow graph, which has the index.
OnGraph ==
  /\ ctl \notin {"start", "failed"} => Index \in graph
  /\ \A c \in Consumers :
       /\ cur[c] \in graph \cup {Index}
       /\ task[c] \in graph \cup {Index}
       /\ pc[c] \in {"switch", "edge"} => dom[c] \in Pages
       /\ pc[c] = "edge" => dom[c] \in graph

\* A consumer has an action in hand from polling it to firing it.
HandInUse ==
  \A c \in Consumers :
    /\ pc[c] = "fire" => hand[c] # NoAction
    /\ hand[c] # NoAction => pc[c] \in {"fire", "check"}

\* The counter of a consumer is 1 while it handles a task.
Counted ==
  \A c \in Consumers :
    /\ pc[c] \in {"idle", "loop", "await", "close", "closed"} => running[c] = 0
    /\ pc[c] \notin {"idle", "loop", "await", "close", "closed"} => running[c] = 1

\* Actions come from parsed pages only.
OnlyParsed ==
  /\ \A s \in Pages : pending[s] # {} => s \in parsed
  /\ \A c \in Consumers : hand[c] # NoAction => cur[c] \in parsed
  /\ \A x \in tried \cup lost : x[1] \in parsed

\* The consumer has added the page to the graph and is going to parse it.
Adding(c, s) ==
  \/ pc[c] = "edge" /\ isNew[c] /\ dom[c] = s
  \/ pc[c] = "parse" /\ cur[c] = s

\* Each new page is parsed by the consumer that added it, and by no other.
ParsedOnce ==
  /\ \A c \in Consumers, s \in Pages : Adding(c, s) => s \in graph \ parsed
  /\ \A c, d \in Consumers, s \in Pages : Adding(c, s) /\ Adding(d, s) => c = d

TypeInv == TypeOK /\ NotStarted /\ OnGraph /\ HandInUse /\ Counted /\ OnlyParsed /\ ParsedOnce

Inv == TypeInv /\ EveryActionAccounted

\* Once the crawl was told to stop, every consumer knows or is on its way out.
InterruptIsKept ==
  ctl \in {"stopping", "done"} =>
    \A c \in Consumers : flag[c] \/ pc[c] \in {"close", "closed", "dead"}

USE DEF control, flow, local, past

-----------------------------------------------------------------------------
(***************************************************************************)
(* Each action of a consumer preserves TypeInv.                            *)
(***************************************************************************)
\* The loop of CrawlTaskConsumer.call.
LEMMA LoopType ==
  ASSUME NEW c \in Consumers, TypeInv, Loop(c)
  PROVE  TypeInv'
<1> USE DEF Loop, Goto, TypeInv
<1>1. TypeOK'
  <2>1. pc' \in [Consumers -> Labels] /\ flag' \in [Consumers -> BOOLEAN]
    BY DEF TypeOK, Labels
  <2>2. signal' \in {"none", "time", "stopped", "exhausted", "states"}
    BY DEF TypeOK
  <2> QED
    BY <2>1, <2>2 DEF TypeOK
<1>2. NotStarted'
  BY DEF TypeOK, Labels, NotStarted
<1>3. OnGraph'
  BY DEF TypeOK, Labels, NotStarted, OnGraph, OnlyParsed
<1>4. HandInUse'
  BY DEF TypeOK, Labels, HandInUse
<1>5. Counted'
  <2>1. pc'[c] \in {"close", "await"} /\ \A d \in Consumers \ {c} : pc'[d] = pc[d]
    BY DEF TypeOK
  <2> QED
    BY <2>1 DEF TypeOK, Counted
<1>6. OnlyParsed'
  BY DEF TypeOK, OnlyParsed, HandInUse
<1>7. ParsedOnce'
  BY DEF TypeOK, Labels, ParsedOnce, OnGraph, Adding
<1> QED
  BY <1>1, <1>2, <1>3, <1>4, <1>5, <1>6, <1>7

\* A consumer takes a state: its counter was 0.
LEMMA AwaitType ==
  ASSUME NEW c \in Consumers, TypeInv, Await(c)
  PROVE  TypeInv'
<1> USE DEF Await, Goto, TypeInv
<1>1. TypeOK'
  <2>1. CASE flag[c]
    <3>1. pc' \in [Consumers -> Labels] /\ flag' \in [Consumers -> BOOLEAN]
      BY <2>1 DEF TypeOK, Labels
    <3>2. UNCHANGED <<running, task>>
      BY <2>1
    <3> QED
      BY <3>1, <3>2 DEF TypeOK
  <2>2. CASE ~flag[c]
    <3>1. PICK s \in Pages : task' = [task EXCEPT ![c] = s]
      BY <2>2
    <3>2. running' \in [Consumers -> {0, 1}] /\ pc' \in [Consumers -> Labels]
      BY <2>2 DEF TypeOK, Labels, Counted
    <3> QED
      BY <2>2, <3>1, <3>2 DEF TypeOK
  <2> QED
    BY <2>1, <2>2
<1>2. NotStarted'
  BY DEF TypeOK, Labels, NotStarted
<1>3. OnGraph'
  BY DEF TypeOK, Labels, NotStarted, OnGraph, OnlyParsed
<1>4. HandInUse'
  BY DEF TypeOK, Labels, HandInUse
<1>5. Counted'
  BY DEF TypeOK, Labels, Counted
<1>6. OnlyParsed'
  BY DEF TypeOK, OnlyParsed, HandInUse
<1>7. ParsedOnce'
  <2>1. pc'[c] \notin {"edge", "parse"} /\ \A d \in Consumers \ {c} : pc'[d] = pc[d]
    BY DEF TypeOK
  <2>2. \A d \in Consumers, s \in Pages : Adding(d, s)' => Adding(d, s)
    BY <2>1 DEF Adding
  <2> QED
    BY <2>2 DEF ParsedOnce
<1> QED
  BY <1>1, <1>2, <1>3, <1>4, <1>5, <1>6, <1>7

\* A consumer closes its browser.
LEMMA CloseType ==
  ASSUME NEW c \in Consumers, TypeInv, Close(c)
  PROVE  TypeInv'
<1> USE DEF Close, Goto, TypeInv
<1>1. TypeOK'
  BY DEF TypeOK, Labels, OnGraph, HandInUse, Counted
<1>2. NotStarted'
  BY DEF TypeOK, Labels, NotStarted
<1>3. OnGraph'
  BY DEF TypeOK, Labels, NotStarted, OnGraph, OnlyParsed
<1>4. HandInUse'
  BY DEF TypeOK, Labels, HandInUse
<1>5. Counted'
  BY DEF TypeOK, Labels, Counted
<1>6. OnlyParsed'
  BY DEF TypeOK, OnlyParsed, HandInUse
<1>7. ParsedOnce'
  BY DEF TypeOK, Labels, ParsedOnce, OnGraph, Adding
<1> QED
  BY <1>1, <1>2, <1>3, <1>4, <1>5, <1>6, <1>7

\* The index is loaded; the consumer holds no action then.
LEMMA ResetType ==
  ASSUME NEW c \in Consumers, TypeInv, Reset(c)
  PROVE  TypeInv'
<1> USE EngineAssumption DEF Reset, Goto, StartOver, EndTask, Die, TypeInv
<1>1. TypeOK'
  <2>1. pc' \in [Consumers -> Labels] /\ running' \in [Consumers -> {0, 1}]
    BY DEF TypeOK, Labels, Counted
  <2>2. flag' \in [Consumers -> BOOLEAN] /\ cur' \in [Consumers -> Pages]
    BY DEF TypeOK
  <2>3. \A d \in Consumers : hand'[d] \in Candidates(cur'[d]) \cup {NoAction}
    BY DEF TypeOK, HandInUse
  <2> QED
    BY <2>1, <2>2, <2>3 DEF TypeOK
<1>2. NotStarted'
  BY DEF TypeOK, Labels, NotStarted
<1>3. OnGraph'
  BY DEF TypeOK, Labels, NotStarted, OnGraph, OnlyParsed
<1>4. HandInUse'
  BY DEF TypeOK, Labels, HandInUse
<1>5. Counted'
  BY DEF TypeOK, Labels, Counted
<1>6. OnlyParsed'
  BY DEF TypeOK, OnlyParsed, HandInUse
<1>7. ParsedOnce'
  BY DEF TypeOK, Labels, ParsedOnce, OnGraph, Adding
<1> QED
  BY <1>1, <1>2, <1>3, <1>4, <1>5, <1>6, <1>7

\* A path is followed, or the actions of its end are purged.
LEMMA FollowType ==
  ASSUME NEW c \in Consumers, TypeInv, Follow(c)
  PROVE  TypeInv'
<1> USE EngineAssumption DEF Follow, Goto, Purge, EndTask, Die, TypeInv
<1>1. TypeOK'
  <2>1. pc' \in [Consumers -> Labels] /\ running' \in [Consumers -> {0, 1}]
    BY DEF TypeOK, Labels, Counted
  <2>2. cur' \in [Consumers -> Pages]
    BY DEF TypeOK
  <2>3. \A d \in Consumers : hand'[d] \in Candidates(cur'[d]) \cup {NoAction}
    BY DEF TypeOK, HandInUse
  <2>4. /\ pending' \in [Pages -> SUBSET Actions]
        /\ \A s \in Pages : pending'[s] \subseteq Candidates(s)
    BY DEF TypeOK
  <2>5. tried' \cup lost' \subseteq {x \in Pages \X Actions : x[2] \in Candidates(x[1])}
    <3>1. {task[c]} \X pending[task[c]] \subseteq {x \in Pages \X Actions : x[2] \in Candidates(x[1])}
      BY DEF TypeOK
    <3> QED
      BY <3>1 DEF TypeOK
  <2> QED
    BY <2>1, <2>2, <2>3, <2>4, <2>5 DEF TypeOK
<1>2. NotStarted'
  BY DEF TypeOK, Labels, NotStarted
<1>3. OnGraph'
  BY DEF TypeOK, Labels, NotStarted, OnGraph, OnlyParsed
<1>4. HandInUse'
  BY DEF TypeOK, Labels, HandInUse
<1>5. Counted'
  BY DEF TypeOK, Labels, Counted
<1>6. OnlyParsed'
  BY DEF TypeOK, OnlyParsed, HandInUse
<1>7. ParsedOnce'
  <2>1. pc'[c] \notin {"edge", "parse"} /\ \A d \in Consumers \ {c} : pc'[d] = pc[d]
    BY DEF TypeOK
  <2>2. \A d \in Consumers \ {c} : cur'[d] = cur[d]
    BY DEF TypeOK
  <2>3. \A d \in Consumers, s \in Pages : Adding(d, s)' => Adding(d, s)
    BY <2>1, <2>2 DEF Adding
  <2> QED
    BY <2>3 DEF ParsedOnce
<1> QED
  BY <1>1, <1>2, <1>3, <1>4, <1>5, <1>6, <1>7

\* The first action of the state is polled.
LEMMA BeginActionsType ==
  ASSUME NEW c \in Consumers, TypeInv, BeginActions(c)
  PROVE  TypeInv'
<1> USE DEF BeginActions, Goto, EndTask, TypeInv
<1>1. TypeOK'
  <2>1. pc' \in [Consumers -> Labels] /\ running' \in [Consumers -> {0, 1}]
    BY DEF TypeOK, Labels, Counted
  <2>2. CASE flag[c] \/ pending[cur[c]] = {}
    BY <2>1, <2>2 DEF TypeOK
  <2>3. CASE ~(flag[c] \/ pending[cur[c]] = {})
    <3>1. PICK a \in pending[cur[c]] :
            /\ hand' = [hand EXCEPT ![c] = a]
            /\ pending' = [pending EXCEPT ![cur[c]] = @ \ {a}]
      BY <2>3
    <3>2. a \in Actions /\ a \in Candidates(cur[c])
      BY DEF TypeOK
    <3> QED
      BY <2>1, <2>3, <3>1, <3>2 DEF TypeOK
  <2> QED
    BY <2>2, <2>3
<1>2. NotStarted'
  BY DEF TypeOK, Labels, NotStarted
<1>3. OnGraph'
  BY DEF TypeOK, Labels, NotStarted, OnGraph, OnlyParsed
<1>4. HandInUse'
  <2>1. \/ UNCHANGED hand /\ pc'[c] = "loop"
        \/ hand'[c] # NoAction /\ pc'[c] = "fire"
    BY EngineAssumption DEF TypeOK
  <2>2. \A d \in Consumers \ {c} : pc'[d] = pc[d] /\ hand'[d] = hand[d]
    BY DEF TypeOK
  <2> QED
    BY <2>1, <2>2 DEF HandInUse
<1>5. Counted'
  BY DEF TypeOK, Labels, Counted
<1>6. OnlyParsed'
  BY DEF TypeOK, OnlyParsed, HandInUse
<1>7. ParsedOnce'
  BY DEF TypeOK, Labels, ParsedOnce, OnGraph, Adding
<1> QED
  BY <1>1, <1>2, <1>3, <1>4, <1>5, <1>6, <1>7

\* The action in hand is fired; a page outside the domain is not kept.
LEMMA FireType ==
  ASSUME NEW c \in Consumers, TypeInv, Fire(c)
  PROVE  TypeInv'
<1> USE EngineAssumption DEF Fire, Goto, MayNotFire, AfterEvent, EndTask, Die, TypeInv
<1>1. TypeOK'
  BY DEF TypeOK, Labels, OnGraph, HandInUse, Counted
<1>2. NotStarted'
  BY DEF TypeOK, Labels, NotStarted
<1>3. OnGraph'
  <2>1. \/ \E t \in App[cur[c]][hand[c]] :
             /\ dom' = [dom EXCEPT ![c] = t]
             /\ task' = [task EXCEPT ![c] = IF t = Offsite THEN cur[c] ELSE @]
             /\ pc'[c] # "edge" /\ (pc'[c] = "switch" => t # Offsite)
        \/ UNCHANGED <<dom, task>> /\ pc'[c] \notin {"switch", "edge"}
    BY DEF TypeOK
  <2>2. App[cur[c]][hand[c]] \subseteq Pages \cup {Offsite}
    BY DEF TypeOK, HandInUse
  <2>3. \A d \in Consumers \ {c} : pc'[d] = pc[d] /\ dom'[d] = dom[d]
    BY DEF TypeOK
  <2>4. pc'[c] # "edge" /\ (pc'[c] = "switch" => dom'[c] \in Pages)
    BY <2>1, <2>2 DEF TypeOK
  <2>5. \A d \in Consumers : task'[d] \in graph \cup {Index}
    BY <2>1 DEF TypeOK, OnGraph
  <2> QED
    BY <2>3, <2>4, <2>5 DEF TypeOK, OnGraph
<1>4. HandInUse'
  BY DEF TypeOK, Labels, HandInUse
<1>5. Counted'
  BY DEF TypeOK, Labels, Counted
<1>6. OnlyParsed'
  BY DEF TypeOK, OnlyParsed, HandInUse
<1>7. ParsedOnce'
  <2>1. pc'[c] \notin {"edge", "parse"} /\ \A d \in Consumers \ {c} : pc'[d] = pc[d]
    BY DEF TypeOK
  <2>2. \A d \in Consumers \ {c} : dom'[d] = dom[d]
    BY DEF TypeOK
  <2>3. \A d \in Consumers, s \in Pages : Adding(d, s)' => Adding(d, s)
    BY <2>1, <2>2 DEF Adding
  <2> QED
    BY <2>3 DEF ParsedOnce
<1> QED
  BY <1>1, <1>2, <1>3, <1>4, <1>5, <1>6, <1>7

\* A page is put into the graph: isNew holds for one consumer only.
LEMMA AddStateType ==
  ASSUME NEW c \in Consumers, TypeInv, AddState(c)
  PROVE  TypeInv'
<1> USE DEF AddState, Goto, TypeInv
<1>1. TypeOK'
  BY DEF TypeOK, Labels, OnGraph, HandInUse, Counted
<1>2. NotStarted'
  BY DEF TypeOK, Labels, NotStarted
<1>3. OnGraph'
  BY DEF TypeOK, Labels, NotStarted, OnGraph, OnlyParsed
<1>4. HandInUse'
  BY DEF TypeOK, Labels, HandInUse
<1>5. Counted'
  BY DEF TypeOK, Labels, Counted
<1>6. OnlyParsed'
  BY DEF TypeOK, OnlyParsed, HandInUse
<1>7. ParsedOnce'
  <2>1. pc'[c] = "edge" /\ isNew'[c] = (dom[c] \notin graph)
    BY DEF TypeOK
  <2>2. \A d \in Consumers \ {c}, s \in Pages : Adding(d, s)' => Adding(d, s)
    <3>1. \A d \in Consumers \ {c} : pc'[d] = pc[d] /\ isNew'[d] = isNew[d]
      BY DEF TypeOK
    <3>2. UNCHANGED <<dom, cur>>
      OBVIOUS
    <3> QED
      BY <3>1, <3>2 DEF Adding
  <2>3. \A s \in Pages : Adding(c, s)' => s = dom[c] /\ s \notin graph
    BY <2>1 DEF Adding
  <2>4. graph' = graph \cup {dom[c]} /\ parsed' = parsed /\ parsed \subseteq graph
    BY DEF TypeOK
  <2>5. \A d \in Consumers, s \in Pages : Adding(d, s)' => s \in graph' \ parsed'
    BY <2>2, <2>3, <2>4 DEF ParsedOnce
  <2>6. \A d, e \in Consumers, s \in Pages : Adding(d, s)' /\ Adding(e, s)' => d = e
    BY <2>2, <2>3 DEF ParsedOnce
  <2> QED
    BY <2>5, <2>6 DEF ParsedOnce
<1> QED
  BY <1>1, <1>2, <1>3, <1>4, <1>5, <1>6, <1>7

\* Both ends of a new edge are in the graph.
LEMMA AddEdgeType ==
  ASSUME NEW c \in Consumers, TypeInv, AddEdge(c)
  PROVE  TypeInv'
<1> USE EngineAssumption DEF AddEdge, Goto, NewEdge, EndTask, Die, TypeInv
<1>1. TypeOK'
  <2>1. pc' \in [Consumers -> Labels] /\ running' \in [Consumers -> {0, 1}]
    BY DEF TypeOK, Labels, Counted
  <2>2. dom[c] \in graph /\ cur[c] \in graph
    BY DEF OnGraph, NotStarted, TypeOK
  <2>3. edges' \subseteq graph' \X graph'
    BY <2>2 DEF TypeOK
  <2>4. cur' \in [Consumers -> Pages]
    BY <2>2 DEF TypeOK
  <2>5. \A d \in Consumers : hand'[d] \in Candidates(cur'[d]) \cup {NoAction}
    BY DEF TypeOK, HandInUse
  <2> QED
    BY <2>1, <2>3, <2>4, <2>5 DEF TypeOK
<1>2. NotStarted'
  BY DEF TypeOK, Labels, NotStarted
<1>3. OnGraph'
  BY DEF TypeOK, Labels, NotStarted, OnGraph, OnlyParsed
<1>4. HandInUse'
  BY DEF TypeOK, Labels, HandInUse
<1>5. Counted'
  BY DEF TypeOK, Labels, Counted
<1>6. OnlyParsed'
  BY DEF TypeOK, OnlyParsed, HandInUse
<1>7. ParsedOnce'
  BY DEF TypeOK, Labels, ParsedOnce, OnGraph, Adding
<1> QED
  BY <1>1, <1>2, <1>3, <1>4, <1>5, <1>6, <1>7

\* The candidates of a new state are cached.
LEMMA ParseType ==
  ASSUME NEW c \in Consumers, TypeInv, Parse(c)
  PROVE  TypeInv'
<1> USE EngineAssumption DEF Parse, Goto, EndTask, Die, TypeInv
<1>1. TypeOK'
  <2>1. pc' \in [Consumers -> Labels] /\ running' \in [Consumers -> {0, 1}]
    BY DEF TypeOK, Labels, Counted
  <2>2. cur[c] \in graph
    BY DEF OnGraph, NotStarted, TypeOK
  <2>3. Candidates(cur[c]) \subseteq Actions
    BY DEF TypeOK, Actions
  <2>4. /\ pending' \in [Pages -> SUBSET Actions]
        /\ \A s \in Pages : pending'[s] \subseteq Candidates(s)
    BY <2>3 DEF TypeOK
  <2>5. parsed' \subseteq graph'
    BY <2>2 DEF TypeOK
  <2> QED
    BY <2>1, <2>4, <2>5 DEF TypeOK
<1>2. NotStarted'
  BY DEF TypeOK, Labels, NotStarted
<1>3. OnGraph'
  BY DEF TypeOK, Labels, NotStarted, OnGraph, OnlyParsed
<1>4. HandInUse'
  BY DEF TypeOK, Labels, HandInUse
<1>5. Counted'
  BY DEF TypeOK, Labels, Counted
<1>6. OnlyParsed'
  BY DEF TypeOK, OnlyParsed, HandInUse
<1>7. ParsedOnce'
  BY DEF TypeOK, Labels, ParsedOnce, OnGraph, Adding
<1> QED
  BY <1>1, <1>2, <1>3, <1>4, <1>5, <1>6, <1>7

\* The next action of the state is polled.
LEMMA PollType ==
  ASSUME NEW c \in Consumers, TypeInv, Poll(c)
  PROVE  TypeInv'
<1> USE DEF Poll, Goto, TypeInv
<1>1. TypeOK'
  BY DEF TypeOK, Labels, OnGraph, HandInUse, Counted
<1>2. NotStarted'
  BY DEF TypeOK, Labels, NotStarted
<1>3. OnGraph'
  BY DEF TypeOK, Labels, NotStarted, OnGraph, OnlyParsed
<1>4. HandInUse'
  BY DEF TypeOK, Labels, HandInUse
<1>5. Counted'
  BY DEF TypeOK, Labels, Counted
<1>6. OnlyParsed'
  BY DEF TypeOK, OnlyParsed, HandInUse
<1>7. ParsedOnce'
  BY DEF TypeOK, Labels, ParsedOnce, OnGraph, Adding
<1> QED
  BY <1>1, <1>2, <1>3, <1>4, <1>5, <1>6, <1>7

\* An action is put back, given up, or kept for the next iteration.
LEMMA CheckType ==
  ASSUME NEW c \in Consumers, TypeInv, Check(c)
  PROVE  TypeInv'
<1> USE EngineAssumption DEF Check, Goto, PutBack, RaiseFlagAgain, InHand, EndTask, TypeInv
<1>1. TypeOK'
  <2>1. pc' \in [Consumers -> Labels] /\ running' \in [Consumers -> {0, 1}]
    BY DEF TypeOK, Labels, Counted
  <2>2. /\ hand' \in [Consumers -> Actions \cup {NoAction}]
        /\ \A d \in Consumers : hand'[d] \in Candidates(cur'[d]) \cup {NoAction}
    <3>1. hand' = hand \/ hand' = [hand EXCEPT ![c] = NoAction]
      OBVIOUS
    <3> QED
      BY <3>1 DEF TypeOK
  <2>3. InHand(c) \subseteq Candidates(cur[c]) \cap Actions
    BY DEF TypeOK
  <2>4. /\ pending' \in [Pages -> SUBSET Actions]
        /\ \A s \in Pages : pending'[s] \subseteq Candidates(s)
    BY <2>3 DEF TypeOK
  <2>5. tried' \cup lost' \subseteq {x \in Pages \X Actions : x[2] \in Candidates(x[1])}
    <3>1. {cur[c]} \X InHand(c) \subseteq {x \in Pages \X Actions : x[2] \in Candidates(x[1])}
      BY <2>3 DEF TypeOK
    <3> QED
      BY <3>1 DEF TypeOK
  <2>6. flag' \in [Consumers -> BOOLEAN]
    BY DEF TypeOK
  <2> QED
    BY <2>1, <2>2, <2>4, <2>5, <2>6 DEF TypeOK
<1>2. NotStarted'
  BY DEF TypeOK, Labels, NotStarted
<1>3. OnGraph'
  BY DEF TypeOK, Labels, NotStarted, OnGraph, OnlyParsed
<1>4. HandInUse'
  BY DEF TypeOK, Labels, HandInUse
<1>5. Counted'
  BY DEF TypeOK, Labels, Counted
<1>6. OnlyParsed'
  BY DEF TypeOK, OnlyParsed, HandInUse
<1>7. ParsedOnce'
  <2>1. pc'[c] \notin {"edge", "parse"} /\ \A d \in Consumers \ {c} : pc'[d] = pc[d]
    BY DEF TypeOK
  <2>2. \A d \in Consumers, s \in Pages : Adding(d, s)' => Adding(d, s)
    BY <2>1 DEF Adding
  <2> QED
    BY <2>2 DEF ParsedOnce
<1> QED
  BY <1>1, <1>2, <1>3, <1>4, <1>5, <1>6, <1>7

\* The steps of the controller, and signals, preserve TypeInv.
LEMMA ControlType ==
  ASSUME TypeInv, Controller \/ SignalFromOutside
  PROVE  TypeInv'
<1> USE EngineAssumption DEF TypeInv
<1>1. CASE Start
  <2>1. TypeOK'
    <3>1. Candidates(Index) \subseteq Actions
      BY DEF Actions
    <3>2. edges = {}
      BY <1>1 DEF Start, CrawlIndex, NotStarted, TypeOK
    <3> QED
      BY <1>1, <3>1, <3>2 DEF Start, CrawlIndex, TypeOK, Labels
  <2>2. NotStarted' /\ OnGraph'
    BY <1>1 DEF Start, CrawlIndex, NotStarted, OnGraph, TypeOK
  <2>3. HandInUse' /\ Counted'
    BY <1>1 DEF Start, CrawlIndex, NotStarted, HandInUse, Counted, TypeOK
  <2>4. OnlyParsed'
    BY <1>1 DEF Start, CrawlIndex, NotStarted, OnlyParsed, TypeOK, HandInUse
  <2>5. ParsedOnce'
    <3>1. \A d \in Consumers : pc'[d] \in {"idle", "loop"}
      BY <1>1 DEF Start, NotStarted
    <3> QED
      BY <3>1 DEF ParsedOnce, Adding
  <2> QED
    BY <2>1, <2>2, <2>3, <2>4, <2>5
<1>2. CASE SignalFromOutside \/ ShutDown \/ Finish
  <2> USE <1>2 DEF SignalFromOutside, ShutDown, Finish
  <2>1. TypeOK'
    <3>1. ctl' \in {"start", "await", "stopping", "done", "failed"}
      BY DEF TypeOK
    <3>2. /\ signal' \in {"none", "time", "stopped", "exhausted", "states"}
          /\ exitReason' \in {"none", "time", "stopped", "exhausted", "states"}
      BY DEF TypeOK
    <3>3. flag' \in [Consumers -> BOOLEAN]
      BY DEF TypeOK
    <3> QED
      BY <3>1, <3>2, <3>3 DEF TypeOK
  <2>2. NotStarted' /\ OnGraph'
    BY DEF NotStarted, OnGraph
  <2>3. HandInUse' /\ Counted'
    BY DEF HandInUse, Counted
  <2>4. OnlyParsed' /\ ParsedOnce'
    BY DEF OnlyParsed, ParsedOnce, Adding
  <2> QED
    BY <2>1, <2>2, <2>3, <2>4
<1> QED
  BY <1>1, <1>2 DEF Controller

\* TypeInv holds at first.
LEMMA InitType == Init => TypeInv
<1> SUFFICES ASSUME Init PROVE TypeInv
  OBVIOUS
<1> USE EngineAssumption DEF Init
<1>1. TypeOK
  BY DEF TypeOK, Labels
<1>2. NotStarted /\ OnGraph /\ HandInUse /\ Counted
  BY DEF NotStarted, OnGraph, HandInUse, Counted
<1>3. OnlyParsed /\ ParsedOnce
  BY DEF OnlyParsed, ParsedOnce, Adding
<1> QED
  BY <1>1, <1>2, <1>3 DEF TypeInv

\* TypeInv is inductive.
LEMMA NextType == TypeInv /\ [Next]_vars => TypeInv'
<1> SUFFICES ASSUME TypeInv, [Next]_vars PROVE TypeInv'
  OBVIOUS
<1>1. CASE UNCHANGED vars
  BY <1>1 DEF vars, TypeInv, TypeOK, NotStarted, OnGraph, HandInUse, Counted, OnlyParsed,
     ParsedOnce, Adding
<1>2. ASSUME NEW c \in Consumers, Consumer(c) PROVE TypeInv'
  BY <1>2, LoopType, AwaitType, CloseType, ResetType, FollowType, BeginActionsType,
     FireType, AddStateType, AddEdgeType, ParseType, PollType, CheckType DEF Consumer
<1> QED
  BY <1>1, <1>2, ControlType DEF Next

\* TypeOK holds of every crawl of every site.
THEOREM TypeCorrect == Spec => []TypeOK
<1>1. TypeInv => TypeOK
  BY DEF TypeInv
<1> QED
  BY <1>1, InitType, NextType, PTL DEF Spec

-----------------------------------------------------------------------------
(***************************************************************************)
(* EveryActionAccounted, one lemma for each way in which an action moves.  *)
(***************************************************************************)
\* Steps that leave the actions where they are.
LEMMA NothingMoves ==
  ASSUME EveryActionAccounted,
         UNCHANGED <<pending, parsed, tried, lost>>,
         \A d \in Consumers, s \in Pages : \A a \in Candidates(s) :
           Holds(d, s, a)' <=> Holds(d, s, a)
  PROVE  EveryActionAccounted'
<1>1. \A s \in Pages : \A a \in Candidates(s) :
        (Waits(s, a)' <=> Waits(s, a)) /\ (IsOver(s, a)' <=> IsOver(s, a))
  BY DEF Waits, IsOver
<1> QED
  BY <1>1 DEF EveryActionAccounted, IsHeld

\* Only the consumer of the step may move, and only with empty hands.
LEMMA EmptyHanded ==
  ASSUME TypeInv, NEW c \in Consumers, EveryActionAccounted,
         UNCHANGED <<pending, parsed, tried, lost, hand>>,
         \A d \in Consumers : cur'[d] # cur[d] => hand[d] = NoAction
  PROVE  EveryActionAccounted'
<1>1. \A d \in Consumers, s \in Pages : \A a \in Candidates(s) :
        Holds(d, s, a)' <=> Holds(d, s, a)
  BY EngineAssumption DEF Holds
<1> QED
  BY <1>1, NothingMoves

\* A consumer polls an action of the page it is in.
LEMMA TakesOne ==
  ASSUME TypeInv, EveryActionAccounted, NEW c \in Consumers, NEW b \in pending[cur[c]],
         hand[c] = NoAction,
         hand' = [hand EXCEPT ![c] = b],
         pending' = [pending EXCEPT ![cur[c]] = @ \ {b}],
         UNCHANGED <<parsed, tried, lost, cur>>
  PROVE  EveryActionAccounted'
<1>1. cur[c] \in Pages /\ b \in Candidates(cur[c])
  BY DEF TypeInv, TypeOK
<1>2. \A s \in Pages : \A a \in Candidates(s) :
        Waits(s, a)' <=> Waits(s, a) /\ ~(s = cur[c] /\ a = b)
  BY <1>1 DEF Waits, TypeInv, TypeOK
<1>3. \A d \in Consumers, s \in Pages : \A a \in Candidates(s) :
        Holds(d, s, a)' <=> Holds(d, s, a) \/ (d = c /\ s = cur[c] /\ a = b)
  BY EngineAssumption DEF Holds, TypeInv, TypeOK
<1>4. \A s \in Pages : \A a \in Candidates(s) : IsOver(s, a)' <=> IsOver(s, a)
  BY DEF IsOver
<1>5. Waits(cur[c], b)
  BY DEF Waits
<1> QED
  BY <1>1, <1>2, <1>3, <1>4, <1>5 DEF EveryActionAccounted, IsHeld

\* A consumer lets an action go that it has tried, or gives it up.
LEMMA LetsGo ==
  ASSUME TypeInv, EveryActionAccounted, NEW c \in Consumers,
         hand' = [hand EXCEPT ![c] = NoAction],
         (tried \cup lost)' = (tried \cup lost) \cup {<<cur[c], hand[c]>>},
         UNCHANGED <<pending, parsed, cur>>
  PROVE  EveryActionAccounted'
<1>1. \A s \in Pages : \A a \in Candidates(s) :
        IsOver(s, a)' <=> IsOver(s, a) \/ Holds(c, s, a)
  BY DEF IsOver, Holds
<1>2. \A d \in Consumers, s \in Pages : \A a \in Candidates(s) :
        Holds(d, s, a)' <=> Holds(d, s, a) /\ d # c
  BY EngineAssumption DEF Holds, TypeInv, TypeOK
<1>3. \A s \in Pages : \A a \in Candidates(s) : Waits(s, a)' <=> Waits(s, a)
  BY DEF Waits
<1> QED
  BY <1>1, <1>2, <1>3 DEF EveryActionAccounted, IsHeld

\* crawlThroughActions polls its first action.
LEMMA BeginAccounted ==
  ASSUME NEW c \in Consumers, TypeInv, EveryActionAccounted, BeginActions(c)
  PROVE  EveryActionAccounted'
<1> USE DEF BeginActions, Goto, EndTask
<1>1. CASE flag[c] \/ pending[cur[c]] = {}
  BY <1>1, EmptyHanded
<1>2. CASE ~(flag[c] \/ pending[cur[c]] = {})
  <2>1. PICK b \in pending[cur[c]] :
          /\ hand' = [hand EXCEPT ![c] = b]
          /\ pending' = [pending EXCEPT ![cur[c]] = @ \ {b}]
    BY <1>2
  <2>2. hand[c] = NoAction
    BY DEF TypeInv, HandInUse
  <2>3. UNCHANGED <<parsed, tried, lost, cur>>
    OBVIOUS
  <2> QED
    BY <2>1, <2>2, <2>3, TakesOne
<1> QED
  BY <1>1, <1>2

\* crawlThroughActions polls another action.
LEMMA PollAccounted ==
  ASSUME NEW c \in Consumers, TypeInv, EveryActionAccounted, Poll(c)
  PROVE  EveryActionAccounted'
<1> USE DEF Poll, Goto
<1>1. CASE UNCHANGED <<pending, hand>>
  BY <1>1, EmptyHanded
<1>2. CASE ~UNCHANGED <<pending, hand>>
  BY <1>2, TakesOne DEF TypeInv, HandInUse
<1> QED
  BY <1>1, <1>2

\* An action that was fired, or could not be, is over.
LEMMA FireAccounted ==
  ASSUME NEW c \in Consumers, TypeInv, EveryActionAccounted, Fire(c)
  PROVE  EveryActionAccounted'
<1>1. /\ hand' = [hand EXCEPT ![c] = NoAction]
      /\ tried' = tried \cup {<<cur[c], hand[c]>>}
      /\ UNCHANGED <<pending, parsed, lost, cur>>
  BY DEF Fire
<1> QED
  BY <1>1, LetsGo

\* An unreachable state: what waited is given up.
LEMMA FollowAccounted ==
  ASSUME NEW c \in Consumers, TypeInv, EveryActionAccounted, Follow(c)
  PROVE  EveryActionAccounted'
<1> USE DEF Follow, Purge, EndTask, Goto, Die
<1>1. hand[c] = NoAction
  BY DEF TypeInv, HandInUse
<1>2. CASE UNCHANGED <<pending, lost>>
  <2>1. \A d \in Consumers : cur'[d] # cur[d] => d = c
    BY DEF TypeInv, TypeOK
  <2> QED
    BY <1>1, <1>2, <2>1, EmptyHanded
<1>3. CASE Purge(c, task[c]) /\ UNCHANGED cur
  <2>1. task[c] \in Pages
    BY DEF TypeInv, TypeOK
  <2>2. \A s \in Pages : \A a \in Candidates(s) :
          \/ s # task[c] /\ (Waits(s, a)' <=> Waits(s, a)) /\ (IsOver(s, a)' <=> IsOver(s, a))
          \/ s = task[c] /\ ~Waits(s, a)' /\ (IsOver(s, a)' <=> IsOver(s, a) \/ Waits(s, a))
    BY <1>3, <2>1 DEF Waits, IsOver, TypeInv, TypeOK
  <2>3. \A d \in Consumers, s \in Pages : \A a \in Candidates(s) :
          Holds(d, s, a)' <=> Holds(d, s, a)
    BY <1>3 DEF Holds
  <2> QED
    BY <2>2, <2>3 DEF EveryActionAccounted, IsHeld
<1> QED
  BY <1>2, <1>3

\* The actions of a new page are known to nobody before they are cached.
LEMMA ParseAccounted ==
  ASSUME NEW c \in Consumers, TypeInv, EveryActionAccounted, Parse(c)
  PROVE  EveryActionAccounted'
<1> USE DEF Parse, EndTask, Goto, Die
<1>1. CASE UNCHANGED <<pending, parsed>>
  BY <1>1, EmptyHanded
<1>2. CASE /\ pending' = [pending EXCEPT ![cur[c]] = @ \cup Candidates(cur[c])]
           /\ parsed' = parsed \cup {cur[c]}
  <2>1. cur[c] \in Pages /\ cur[c] \notin parsed
    BY DEF TypeInv, TypeOK, ParsedOnce, Adding
  <2>2. \A a \in Candidates(cur[c]) : ~IsHeld(cur[c], a) /\ ~IsOver(cur[c], a)
    BY <2>1, EngineAssumption DEF IsHeld, Holds, IsOver, TypeInv, OnlyParsed
  <2>3. \A s \in Pages : \A a \in Candidates(s) :
          /\ IsHeld(s, a)' <=> IsHeld(s, a)
          /\ IsOver(s, a)' <=> IsOver(s, a)
          /\ \A d \in Consumers : Holds(d, s, a)' <=> Holds(d, s, a)
    BY DEF IsHeld, Holds, IsOver
  <2>4. \A s \in Pages : \A a \in Candidates(s) :
          Waits(s, a)' <=> Waits(s, a) \/ s = cur[c]
    BY <1>2, <2>1 DEF Waits, TypeInv, TypeOK
  <2> QED
    BY <1>2, <2>2, <2>3, <2>4 DEF EveryActionAccounted
<1> QED
  BY <1>1, <1>2

\* An interrupted consumer puts its action back; one outside the domain drops it.
LEMMA CheckAccounted ==
  ASSUME NEW c \in Consumers, TypeInv, EveryActionAccounted, Check(c)
  PROVE  EveryActionAccounted'
<1> USE DEF Check, EndTask, Goto
<1>1. CASE UNCHANGED <<pending, lost, hand>>
  BY <1>1, EmptyHanded
<1>2. CASE PutBack(c) /\ hand' = [hand EXCEPT ![c] = NoAction] /\ UNCHANGED lost
  <2>1. \A s \in Pages : \A a \in Candidates(s) :
          Waits(s, a)' <=> Waits(s, a) \/ Holds(c, s, a)
    BY <1>2, EngineAssumption DEF PutBack, InHand, Waits, Holds, TypeInv, TypeOK
  <2>2. \A s \in Pages : \A a \in Candidates(s) : IsOver(s, a)' <=> IsOver(s, a)
    BY <1>2 DEF IsOver
  <2>3. \A d \in Consumers, s \in Pages : \A a \in Candidates(s) :
          Holds(d, s, a)' <=> Holds(d, s, a) /\ d # c
    BY <1>2, EngineAssumption DEF Holds, TypeInv, TypeOK
  <2>4. UNCHANGED parsed
    OBVIOUS
  <2> QED
    BY <2>1, <2>2, <2>3, <2>4 DEF EveryActionAccounted, IsHeld
<1>3. CASE /\ lost' = lost \cup ({cur[c]} \X InHand(c))
           /\ hand' = [hand EXCEPT ![c] = NoAction]
           /\ UNCHANGED pending
  <2>1. CASE hand[c] = NoAction
    BY <1>3, <2>1, EmptyHanded DEF InHand, TypeInv, TypeOK
  <2>2. CASE hand[c] # NoAction
    <3>1. (tried \cup lost)' = (tried \cup lost) \cup {<<cur[c], hand[c]>>}
      <4>1. lost' = lost \cup {<<cur[c], hand[c]>>}
        BY <1>3, <2>2 DEF InHand
      <4>2. UNCHANGED tried
        OBVIOUS
      <4> QED
        BY <4>1, <4>2
    <3>2. UNCHANGED <<pending, parsed, cur>>
      BY <1>3
    <3> QED
      BY <1>3, <3>1, <3>2, LetsGo
  <2> QED
    BY <2>1, <2>2
<1> QED
  BY <1>1, <1>2, <1>3

\* The other steps of a consumer move no action.
LEMMA QuietAccounted ==
  ASSUME NEW c \in Consumers, TypeInv, EveryActionAccounted,
         \/ Loop(c) \/ Await(c) \/ Close(c) \/ Reset(c) \/ AddState(c) \/ AddEdge(c)
  PROVE  EveryActionAccounted'
<1>1. UNCHANGED <<pending, parsed, tried, lost, hand>>
  BY DEF Loop, Await, Close, Reset, AddState, AddEdge
<1>2. \A d \in Consumers : cur'[d] # cur[d] => hand[d] = NoAction
  <2>1. CASE UNCHANGED cur
    BY <2>1
  <2>2. CASE pc[c] \in {"reset", "resetBack", "edge"}
             /\ \E s \in Pages \cup {Offsite} : cur' = [cur EXCEPT ![c] = s]
    BY <2>2 DEF TypeInv, TypeOK, HandInUse
  <2>3. CASE Reset(c)
    BY <2>3, <2>2, EngineAssumption DEF Reset, StartOver
  <2>4. CASE AddEdge(c)
    BY <2>4, <2>1, <2>2 DEF AddEdge, TypeInv, TypeOK
  <2> QED
    BY <2>1, <2>3, <2>4 DEF Loop, Await, Close, AddState
<1> QED
  BY <1>1, <1>2, EmptyHanded

\* The controller caches the actions of the index, and moves no others.
LEMMA ControlAccounted ==
  ASSUME TypeInv, EveryActionAccounted, Controller \/ SignalFromOutside
  PROVE  EveryActionAccounted'
<1>1. CASE UNCHANGED <<pending, parsed, tried, lost, hand, cur>>
  <2>1. \A d \in Consumers, s \in Pages : \A a \in Candidates(s) :
          Holds(d, s, a)' <=> Holds(d, s, a)
    BY <1>1 DEF Holds
  <2> QED
    BY <1>1, <2>1, NothingMoves
<1>2. CASE ctl = "start" /\ pending' = [pending EXCEPT ![Index] = Candidates(Index)]
           /\ parsed' = {Index} /\ UNCHANGED <<tried, lost, hand, cur>>
  <2>1. \A s \in Pages : \A a \in Candidates(s) : Waits(s, a)' <=> s = Index
    <3>1. \A s \in Pages : pending[s] = {}
      BY <1>2 DEF TypeInv, NotStarted, OnlyParsed
    <3> QED
      BY <1>2, <3>1, EngineAssumption DEF Waits, TypeInv, TypeOK
  <2>2. \A s \in Pages : \A a \in Candidates(s) :
          ~IsOver(s, a)' /\ \A d \in Consumers : ~Holds(d, s, a)'
    BY <1>2, EngineAssumption
       DEF IsOver, Holds, TypeInv, NotStarted, HandInUse, OnlyParsed
  <2> QED
    BY <1>2, <2>1, <2>2 DEF EveryActionAccounted, IsHeld
<1> QED
  BY <1>1, <1>2 DEF Controller, Start, CrawlIndex, SignalFromOutside, ShutDown, Finish

\* With TypeInv, EveryActionAccounted is inductive.
LEMMA NextAccounted ==
  TypeInv /\ EveryActionAccounted /\ [Next]_vars => EveryActionAccounted'
<1> SUFFICES ASSUME TypeInv, EveryActionAccounted, [Next]_vars
             PROVE  EveryActionAccounted'
  OBVIOUS
<1>1. CASE UNCHANGED vars
  BY <1>1, NothingMoves DEF vars, Holds
<1>2. ASSUME NEW c \in Consumers, Consumer(c) PROVE EveryActionAccounted'
  BY <1>2, QuietAccounted, FollowAccounted, BeginAccounted, FireAccounted,
     ParseAccounted, PollAccounted, CheckAccounted DEF Consumer
<1> QED
  BY <1>1, <1>2, ControlAccounted DEF Next

\* No page is parsed at first.
LEMMA InitAccounted == Init => EveryActionAccounted
BY EngineAssumption DEF Init, EveryActionAccounted, Waits, IsHeld, Holds, IsOver

\* Through every interleaving of polls, shots, interrupts, purges and faults
\* no action is lost, and none is in two places or with two consumers.
THEOREM ActionsAccounted == Spec => []EveryActionAccounted
<1>1. Init => TypeInv /\ EveryActionAccounted
  BY InitType, InitAccounted
<1>2. TypeInv /\ EveryActionAccounted /\ [Next]_vars => (TypeInv /\ EveryActionAccounted)'
  BY NextType, NextAccounted
<1> QED
  BY <1>1, <1>2, PTL DEF Spec

-----------------------------------------------------------------------------
(***************************************************************************)
(* The engine implements CrawlActions, step by step.                       *)
(***************************************************************************)
\* No interrupt is pending before the crawl is told to stop.
FlagsAreDown == ctl \in {"start", "await", "failed"} => \A c \in Consumers : ~flag[c]

\* Only ShutDown raises a flag that is not raised already.
LEMMA FlagsStep ==
  TypeInv /\ FlagsAreDown /\ [Next]_vars => FlagsAreDown'
<1> SUFFICES ASSUME TypeInv, FlagsAreDown, [Next]_vars PROVE FlagsAreDown'
  OBVIOUS
<1> USE DEF FlagsAreDown
<1>1. CASE UNCHANGED vars
  BY <1>1 DEF vars
<1>2. CASE Controller \/ SignalFromOutside
  BY <1>2 DEF Controller, Start, ShutDown, Finish, SignalFromOutside
<1>3. ASSUME NEW c \in Consumers, Consumer(c) PROVE FlagsAreDown'
  <2>1. CASE UNCHANGED <<ctl, flag>>
    BY <2>1
  <2>2. CASE UNCHANGED ctl /\ flag' = [flag EXCEPT ![c] = FALSE]
    BY <2>2 DEF TypeInv, TypeOK
  <2>3. CASE UNCHANGED ctl /\ flag[c]
    BY <2>3
  <2> QED
    BY <1>3, <2>1, <2>2, <2>3
    DEF Consumer, Loop, Await, Close, Reset, Follow, BeginActions, Fire, AddState, AddEdge,
        Parse, Poll, Check
<1> QED
  BY <1>1, <1>2, <1>3 DEF Next

\* Sets of actions with the same members on every page are equal.
LEMMA SameActions ==
  \A A, B \in SUBSET PageActions :
    (\A s \in Pages : \A a \in Candidates(s) : <<s, a>> \in A <=> <<s, a>> \in B) => A = B
BY DEF PageActions

\* What the refinement mapping says of an action, now and after a step.
LEMMA MappedActions ==
  /\ \A s \in Pages : \A a \in Candidates(s) :
       /\ <<s, a>> \in PageActions
       /\ <<s, a>> \in ActionsWaiting <=> Waits(s, a)
       /\ <<s, a>> \in ActionsTaken <=> IsHeld(s, a)
       /\ <<s, a>> \in ActionsOver <=> IsOver(s, a)
       /\ <<s, a>> \in ActionsWaiting' <=> Waits(s, a)'
       /\ <<s, a>> \in ActionsTaken' <=> IsHeld(s, a)'
       /\ <<s, a>> \in ActionsOver' <=> IsOver(s, a)'
  /\ ActionsWaiting \subseteq PageActions /\ ActionsWaiting' \subseteq PageActions
  /\ ActionsTaken \subseteq PageActions /\ ActionsTaken' \subseteq PageActions
BY DEF PageActions, ActionsWaiting, ActionsTaken, ActionsOver, Waits, IsOver, IsHeld

\* Actions that are over are actions of some page.
LEMMA OverAreActions == TypeOK => ActionsOver \subseteq PageActions
BY DEF TypeOK, ActionsOver, PageActions

\* A step that moves no action is no step of CrawlActions.
LEMMA Stutters ==
  ASSUME \A s \in Pages : \A a \in Candidates(s) :
           (Waits(s, a)' <=> Waits(s, a)) /\ (IsHeld(s, a)' <=> IsHeld(s, a)),
         UNCHANGED <<tried, lost, Told>>
  PROVE  UNCHANGED Pool!actionVars
<1>1. ActionsWaiting' = ActionsWaiting
  <2>1. \A s \in Pages : \A a \in Candidates(s) :
          <<s, a>> \in ActionsWaiting' <=> <<s, a>> \in ActionsWaiting
    BY MappedActions
  <2>2. ActionsWaiting' \in SUBSET PageActions /\ (ActionsWaiting) \in SUBSET PageActions
    BY MappedActions
  <2> QED
    BY <2>1, <2>2, SameActions
<1>2. ActionsTaken' = ActionsTaken
  <2>1. \A s \in Pages : \A a \in Candidates(s) :
          <<s, a>> \in ActionsTaken' <=> <<s, a>> \in ActionsTaken
    BY MappedActions
  <2>2. ActionsTaken' \in SUBSET PageActions /\ (ActionsTaken) \in SUBSET PageActions
    BY MappedActions
  <2> QED
    BY <2>1, <2>2, SameActions
<1>3. ActionsOver' = ActionsOver
  BY DEF ActionsOver
<1> QED
  BY <1>1, <1>2, <1>3 DEF Pool!actionVars

\* A consumer polls an action of the page it is in.
LEMMA PollIsTake ==
  ASSUME Inv, NEW c \in Consumers, NEW b \in pending[cur[c]],
         hand[c] = NoAction,
         hand' = [hand EXCEPT ![c] = b],
         pending' = [pending EXCEPT ![cur[c]] = @ \ {b}],
         UNCHANGED <<tried, lost, cur, ctl>>
  PROVE  Pool!Next
<1>1. cur[c] \in Pages /\ b \in Candidates(cur[c])
  BY DEF Inv, TypeInv, TypeOK
<1>2. \A s \in Pages : \A a \in Candidates(s) :
        Waits(s, a)' <=> Waits(s, a) /\ ~(s = cur[c] /\ a = b)
  BY <1>1 DEF Waits, Inv, TypeInv, TypeOK
<1>3. \A d \in Consumers, s \in Pages : \A a \in Candidates(s) :
        Holds(d, s, a)' <=> Holds(d, s, a) \/ (d = c /\ s = cur[c] /\ a = b)
  BY EngineAssumption DEF Holds, Inv, TypeInv, TypeOK
<1>4. \A s \in Pages : \A a \in Candidates(s) :
        IsHeld(s, a)' <=> IsHeld(s, a) \/ (s = cur[c] /\ a = b)
  BY <1>3 DEF IsHeld
<1>5. <<cur[c], b>> \in PageActions /\ <<cur[c], b>> \in ActionsWaiting
  <2>1. Waits(cur[c], b)
    BY DEF Waits
  <2> QED
    BY <1>1, <2>1, MappedActions
<1>6. ActionsWaiting' = ActionsWaiting \ {<<cur[c], b>>}
  <2>1. \A s \in Pages : \A a \in Candidates(s) :
          <<s, a>> \in ActionsWaiting' <=> <<s, a>> \in ActionsWaiting \ {<<cur[c], b>>}
    BY <1>2, MappedActions
  <2>2. /\ ActionsWaiting' \in SUBSET PageActions
        /\ (ActionsWaiting \ {<<cur[c], b>>}) \in SUBSET PageActions
    BY MappedActions
  <2> QED
    BY <2>1, <2>2, SameActions
<1>7. ActionsTaken' = ActionsTaken \cup {<<cur[c], b>>}
  <2>1. \A s \in Pages : \A a \in Candidates(s) :
          <<s, a>> \in ActionsTaken' <=> <<s, a>> \in ActionsTaken \cup {<<cur[c], b>>}
    BY <1>4, MappedActions
  <2>2. /\ ActionsTaken' \in SUBSET PageActions
        /\ (ActionsTaken \cup {<<cur[c], b>>}) \in SUBSET PageActions
    BY <1>5, MappedActions
  <2> QED
    BY <2>1, <2>2, SameActions
<1>8. UNCHANGED <<ActionsOver, Told>>
  BY DEF ActionsOver, Told
<1> QED
  BY <1>5, <1>6, <1>7, <1>8 DEF Pool!Next, Pool!Take

\* What a consumer lets go nobody holds any more.
LEMMA HandsAreEmptied ==
  ASSUME Inv, NEW c \in Consumers, hand[c] # NoAction,
         hand' = [hand EXCEPT ![c] = NoAction], UNCHANGED cur
  PROVE  /\ cur[c] \in Pages /\ hand[c] \in Candidates(cur[c])
         /\ <<cur[c], hand[c]>> \in PageActions
         /\ <<cur[c], hand[c]>> \in ActionsTaken
         /\ ActionsTaken' = ActionsTaken \ {<<cur[c], hand[c]>>}
<1>1. cur[c] \in Pages /\ hand[c] \in Candidates(cur[c])
  BY DEF Inv, TypeInv, TypeOK
<1>2. \A d \in Consumers, s \in Pages : \A a \in Candidates(s) :
        Holds(d, s, a)' <=> Holds(d, s, a) /\ d # c
  BY EngineAssumption DEF Holds, Inv, TypeInv, TypeOK
<1>3. \A s \in Pages : \A a \in Candidates(s) :
        IsHeld(s, a)' <=> IsHeld(s, a) /\ ~(s = cur[c] /\ a = hand[c])
  <2>1. Holds(c, cur[c], hand[c])
    BY DEF Holds
  <2>2. \A d \in Consumers : Holds(d, cur[c], hand[c]) => d = c
    BY <1>1, <2>1 DEF Inv, EveryActionAccounted
  <2>3. \A s \in Pages : \A a \in Candidates(s) :
          Holds(c, s, a) => s = cur[c] /\ a = hand[c]
    BY DEF Holds
  <2> QED
    BY <1>2, <2>1, <2>2, <2>3 DEF IsHeld
<1>4. <<cur[c], hand[c]>> \in PageActions /\ <<cur[c], hand[c]>> \in ActionsTaken
  <2>1. IsHeld(cur[c], hand[c])
    BY DEF IsHeld, Holds
  <2> QED
    BY <1>1, <2>1, MappedActions
<1>5. ActionsTaken' = ActionsTaken \ {<<cur[c], hand[c]>>}
  <2>1. \A s \in Pages : \A a \in Candidates(s) :
          <<s, a>> \in ActionsTaken' <=> <<s, a>> \in ActionsTaken \ {<<cur[c], hand[c]>>}
    BY <1>3, MappedActions
  <2>2. /\ ActionsTaken' \in SUBSET PageActions
        /\ (ActionsTaken \ {<<cur[c], hand[c]>>}) \in SUBSET PageActions
    BY MappedActions
  <2> QED
    BY <2>1, <2>2, SameActions
<1> QED
  BY <1>1, <1>4, <1>5

\* An action that was fired, could not be, or is dropped is over.
LEMMA LetGoIsFinish ==
  ASSUME Inv, NEW c \in Consumers, hand[c] # NoAction,
         hand' = [hand EXCEPT ![c] = NoAction],
         (tried \cup lost)' = (tried \cup lost) \cup {<<cur[c], hand[c]>>},
         UNCHANGED <<pending, cur, ctl>>
  PROVE  Pool!Next
<1>1. /\ <<cur[c], hand[c]>> \in PageActions
      /\ <<cur[c], hand[c]>> \in ActionsTaken
      /\ ActionsTaken' = ActionsTaken \ {<<cur[c], hand[c]>>}
  BY HandsAreEmptied
<1>2. ActionsOver' = ActionsOver \cup {<<cur[c], hand[c]>>}
  BY DEF ActionsOver
<1>3. UNCHANGED <<ActionsWaiting, Told>>
  BY DEF ActionsWaiting, Told
<1> QED
  BY <1>1, <1>2, <1>3 DEF Pool!Next, Pool!Finish

\* An interrupted consumer puts its action back.
LEMMA PutBackIsGiveBack ==
  ASSUME Inv, Told, NEW c \in Consumers, hand[c] # NoAction, PutBack(c),
         hand' = [hand EXCEPT ![c] = NoAction],
         UNCHANGED <<tried, lost, cur, ctl>>
  PROVE  Pool!Next
<1>1. /\ cur[c] \in Pages /\ hand[c] \in Candidates(cur[c])
      /\ <<cur[c], hand[c]>> \in PageActions
      /\ <<cur[c], hand[c]>> \in ActionsTaken
      /\ ActionsTaken' = ActionsTaken \ {<<cur[c], hand[c]>>}
  BY HandsAreEmptied
<1>2. \A s \in Pages : \A a \in Candidates(s) :
        Waits(s, a)' <=> Waits(s, a) \/ (s = cur[c] /\ a = hand[c])
  BY <1>1 DEF PutBack, InHand, Waits, Inv, TypeInv, TypeOK
<1>3. ActionsWaiting' = ActionsWaiting \cup {<<cur[c], hand[c]>>}
  <2>1. \A s \in Pages : \A a \in Candidates(s) :
          <<s, a>> \in ActionsWaiting' <=> <<s, a>> \in ActionsWaiting \cup {<<cur[c], hand[c]>>}
    BY <1>2, MappedActions
  <2>2. /\ ActionsWaiting' \in SUBSET PageActions
        /\ (ActionsWaiting \cup {<<cur[c], hand[c]>>}) \in SUBSET PageActions
    BY <1>1, MappedActions
  <2> QED
    BY <2>1, <2>2, SameActions
<1>4. UNCHANGED <<ActionsOver, Told>>
  BY DEF ActionsOver, Told
<1> QED
  BY <1>1, <1>3, <1>4 DEF Pool!Next, Pool!GiveBack

\* The actions of an unreachable page are given up.
LEMMA PurgeIsGiveUp ==
  ASSUME Inv, NEW c \in Consumers, Purge(c, task[c]), UNCHANGED <<hand, cur, tried, ctl>>
  PROVE  Pool!Next
<1> DEFINE gone == {task[c]} \X pending[task[c]]
<1>1. task[c] \in Pages /\ pending[task[c]] \subseteq Candidates(task[c])
  BY DEF Inv, TypeInv, TypeOK
<1>2. gone \subseteq PageActions
  BY <1>1 DEF PageActions
<1>3. \A s \in Pages : \A a \in Candidates(s) : <<s, a>> \in gone <=> s = task[c] /\ Waits(s, a)
  BY DEF Waits
<1>4. \A s \in Pages : \A a \in Candidates(s) :
        Waits(s, a)' <=> Waits(s, a) /\ s # task[c]
  BY <1>1 DEF Purge, Waits, Inv, TypeInv, TypeOK
<1>5. ActionsOver' = ActionsOver \cup gone
  BY DEF ActionsOver, Purge
<1>6. UNCHANGED <<ActionsTaken, Told>>
  BY DEF ActionsTaken, IsHeld, Holds, Told
<1> HIDE DEF gone
<1>7. gone \subseteq ActionsWaiting
  <2>1. \A s \in Pages : \A a \in Candidates(s) :
          <<s, a>> \in ActionsWaiting <=> <<s, a>> \in ActionsWaiting \cup gone
    BY <1>3, MappedActions
  <2>2. ActionsWaiting \in SUBSET PageActions /\ (ActionsWaiting \cup gone) \in SUBSET PageActions
    BY <1>2, MappedActions
  <2>3. ActionsWaiting = ActionsWaiting \cup gone
    BY <2>1, <2>2, SameActions
  <2> QED
    BY <2>3
<1>8. ActionsWaiting' = ActionsWaiting \ gone
  <2>1. \A s \in Pages : \A a \in Candidates(s) :
          <<s, a>> \in ActionsWaiting' <=> <<s, a>> \in ActionsWaiting \ gone
    BY <1>3, <1>4, MappedActions
  <2>2. ActionsWaiting' \in SUBSET PageActions /\ (ActionsWaiting \ gone) \in SUBSET PageActions
    BY MappedActions
  <2> QED
    BY <2>1, <2>2, SameActions
<1> QED
  BY <1>2, <1>5, <1>6, <1>7, <1>8 DEF Pool!Next, Pool!GiveUp

\* The candidates of a page that was not parsed before are found.
LEMMA ParsingIsFind ==
  ASSUME Inv, NEW p \in Pages, p \notin parsed,
         pending' = [pending EXCEPT ![p] = Candidates(p)],
         UNCHANGED <<hand, cur, tried, lost, Told>>
  PROVE  Pool!Next
<1> DEFINE new == {p} \X Candidates(p)
<1>1. new \subseteq PageActions
  BY DEF PageActions
<1>2. \A s \in Pages : \A a \in Candidates(s) : <<s, a>> \in new <=> s = p
  OBVIOUS
<1>3. \A s \in Pages : \A a \in Candidates(s) :
        Waits(s, a)' <=> Waits(s, a) \/ s = p
  BY DEF Waits, Inv, TypeInv, TypeOK, OnlyParsed
<1>4. \A a \in Candidates(p) : ~Waits(p, a) /\ ~IsHeld(p, a) /\ ~IsOver(p, a)
  BY EngineAssumption DEF Waits, IsHeld, Holds, IsOver, Inv, TypeInv, OnlyParsed
<1>5. UNCHANGED <<ActionsTaken, ActionsOver, Told>>
  BY DEF ActionsTaken, ActionsOver, IsHeld, Holds
<1>6. ActionsWaiting' = ActionsWaiting \cup new
  <2> HIDE DEF new
  <2>1. \A s \in Pages : \A a \in Candidates(s) :
          <<s, a>> \in ActionsWaiting' <=> <<s, a>> \in ActionsWaiting \cup new
    BY <1>2, <1>3, MappedActions
  <2>2. ActionsWaiting' \in SUBSET PageActions /\ (ActionsWaiting \cup new) \in SUBSET PageActions
    BY <1>1, MappedActions
  <2> QED
    BY <2>1, <2>2, SameActions
<1>7. new \subseteq Pool!Unknown
  <2>1. \A a \in Candidates(p) :
          <<p, a>> \notin ActionsWaiting \cup ActionsTaken \cup ActionsOver
    BY <1>4, MappedActions
  <2> QED
    BY <1>1, <2>1 DEF Pool!Unknown
<1> HIDE DEF new
<1> QED
  BY <1>1, <1>5, <1>6, <1>7 DEF Pool!Next, Pool!Find

\* The controller: Start finds the actions of the index, ShutDown is Stop.
LEMMA ControllerIsPool ==
  ASSUME Inv, Controller \/ SignalFromOutside
  PROVE  [Pool!Next]_(Pool!actionVars)
<1>1. CASE Start
  <2>1. CASE ctl' = "await" /\ CrawlIndex
    <3>1. Index \in Pages /\ Index \notin parsed
      BY <1>1, EngineAssumption DEF Start, Inv, TypeInv, NotStarted
    <3>2. UNCHANGED <<hand, cur, tried, lost, Told>>
      BY <1>1, <2>1 DEF Start, Told
    <3> QED
      BY <2>1, <3>1, <3>2, ParsingIsFind DEF CrawlIndex
  <2>2. CASE ctl' = "failed" /\ UNCHANGED pending
    BY <1>1, <2>2, Stutters DEF Start, Told, Waits, IsHeld, Holds
  <2> QED
    BY <1>1, <2>1, <2>2 DEF Start
<1>2. CASE ShutDown
  <2>1. Told' = TRUE
    BY <1>2 DEF ShutDown, Told
  <2>2. UNCHANGED <<ActionsWaiting, ActionsTaken, ActionsOver>>
    BY <1>2 DEF ShutDown, ActionsWaiting, ActionsTaken, ActionsOver, IsHeld, Holds
  <2> QED
    BY <2>1, <2>2 DEF Pool!Next, Pool!Stop
<1>3. CASE Finish \/ SignalFromOutside
  BY <1>3, Stutters DEF Finish, SignalFromOutside, Told, Waits, IsHeld, Holds
<1> QED
  BY <1>1, <1>2, <1>3 DEF Controller

\* A consumer that moves between pages with empty hands moves no action.
LEMMA EmptyHandedStutters ==
  ASSUME Inv, UNCHANGED <<ctl, pending, tried, lost, hand>>,
         \A d \in Consumers : cur'[d] # cur[d] => hand[d] = NoAction
  PROVE  UNCHANGED Pool!actionVars
<1>1. \A s \in Pages : \A a \in Candidates(s) : IsHeld(s, a)' <=> IsHeld(s, a)
  BY EngineAssumption DEF IsHeld, Holds
<1> QED
  BY <1>1, Stutters DEF Waits, Told

\* Polling takes an action, if there is one.
LEMMA PollingIsPool ==
  ASSUME Inv, NEW c \in Consumers, BeginActions(c) \/ Poll(c)
  PROVE  [Pool!Next]_(Pool!actionVars)
<1>1. UNCHANGED <<ctl, tried, lost, cur>>
  BY DEF BeginActions, Poll
<1>2. CASE UNCHANGED <<pending, hand>>
  BY <1>1, <1>2, EmptyHandedStutters
<1>3. ASSUME NEW b \in pending[cur[c]],
             hand' = [hand EXCEPT ![c] = b],
             pending' = [pending EXCEPT ![cur[c]] = @ \ {b}]
      PROVE  Pool!Next
  <2>1. hand[c] = NoAction
    BY DEF BeginActions, Poll, Inv, TypeInv, HandInUse
  <2> QED
    BY <1>1, <1>3, <2>1, PollIsTake
<1> QED
  BY <1>2, <1>3 DEF BeginActions, Poll

\* Firing an action, successfully or not, finishes it.
LEMMA FireIsPool ==
  ASSUME Inv, NEW c \in Consumers, Fire(c)
  PROVE  Pool!Next
<1>1. hand[c] # NoAction
  BY DEF Fire, Inv, TypeInv, HandInUse
<1>2. /\ hand' = [hand EXCEPT ![c] = NoAction]
      /\ (tried \cup lost)' = (tried \cup lost) \cup {<<cur[c], hand[c]>>}
      /\ UNCHANGED <<pending, cur, ctl>>
  BY DEF Fire
<1> QED
  BY <1>1, <1>2, LetGoIsFinish

\* On the way to a page its actions are given up, or nothing moves.
LEMMA FollowIsPool ==
  ASSUME Inv, NEW c \in Consumers, Follow(c)
  PROVE  [Pool!Next]_(Pool!actionVars)
<1>1. CASE UNCHANGED <<pending, lost>>
  <2>1. hand[c] = NoAction
    BY DEF Follow, Inv, TypeInv, HandInUse
  <2>2. \A d \in Consumers : cur'[d] # cur[d] => d = c
    BY DEF Follow, Inv, TypeInv, TypeOK
  <2> QED
    BY <1>1, <2>1, <2>2, EmptyHandedStutters DEF Follow
<1>2. CASE Purge(c, task[c]) /\ UNCHANGED cur
  BY <1>2, PurgeIsGiveUp DEF Follow
<1> QED
  BY <1>1, <1>2 DEF Follow

\* A new page is parsed: its actions are found.
LEMMA ParseIsPool ==
  ASSUME Inv, NEW c \in Consumers, Parse(c)
  PROVE  [Pool!Next]_(Pool!actionVars)
<1>1. CASE UNCHANGED pending
  BY <1>1, EmptyHandedStutters DEF Parse
<1>2. CASE pending' = [pending EXCEPT ![cur[c]] = @ \cup Candidates(cur[c])]
  <2>1. cur[c] \in Pages /\ cur[c] \notin parsed
    BY DEF Parse, Inv, TypeInv, TypeOK, ParsedOnce, Adding
  <2>2. pending[cur[c]] = {}
    BY <2>1 DEF Inv, TypeInv, OnlyParsed
  <2>3. pending' = [pending EXCEPT ![cur[c]] = Candidates(cur[c])]
    BY <1>2, <2>2
  <2>4. UNCHANGED <<hand, cur, tried, lost, Told>>
    BY DEF Parse, Told
  <2> QED
    BY <2>1, <2>3, <2>4, ParsingIsFind
<1> QED
  BY <1>1, <1>2 DEF Parse

\* After an action a consumer may have to put the next one back, or to drop it.
LEMMA CheckIsPool ==
  ASSUME Inv, FlagsAreDown, NEW c \in Consumers, Check(c)
  PROVE  [Pool!Next]_(Pool!actionVars)
<1>1. UNCHANGED <<ctl, tried, cur>>
  BY DEF Check
<1>2. CASE UNCHANGED <<pending, lost, hand>>
  BY <1>1, <1>2, EmptyHandedStutters
<1>3. CASE hand[c] = NoAction
  <2>1. pending' = pending
    BY <1>3 DEF Check, PutBack, InHand, Inv, TypeInv, TypeOK
  <2>2. UNCHANGED <<hand, lost>>
    BY <1>3 DEF Check, InHand, Inv, TypeInv, TypeOK
  <2> QED
    BY <1>1, <2>1, <2>2, EmptyHandedStutters
<1>4. CASE hand[c] # NoAction /\ hand' = [hand EXCEPT ![c] = NoAction]
  <2>1. CASE flag[c] /\ PutBack(c) /\ UNCHANGED lost
    <3>1. Told
      BY <2>1 DEF FlagsAreDown, Told, Inv, TypeInv, TypeOK
    <3> QED
      BY <1>1, <1>4, <2>1, <3>1, PutBackIsGiveBack
  <2>2. CASE lost' = lost \cup ({cur[c]} \X InHand(c)) /\ UNCHANGED pending
    <3>1. lost' = lost \cup {<<cur[c], hand[c]>>}
      BY <1>4, <2>2 DEF InHand
    <3>2. (tried \cup lost)' = (tried \cup lost) \cup {<<cur[c], hand[c]>>}
      BY <1>1, <3>1
    <3> QED
      BY <1>1, <1>4, <2>2, <3>2, LetGoIsFinish
  <2> QED
    BY <1>2, <2>1, <2>2 DEF Check
<1> QED
  BY <1>2, <1>3, <1>4 DEF Check

\* The other steps of a consumer move no action.
LEMMA QuietIsPool ==
  ASSUME Inv, NEW c \in Consumers,
         Loop(c) \/ Await(c) \/ Close(c) \/ Reset(c) \/ AddState(c) \/ AddEdge(c)
  PROVE  UNCHANGED Pool!actionVars
<1>1. UNCHANGED <<ctl, pending, tried, lost, hand>>
  BY DEF Loop, Await, Close, Reset, AddState, AddEdge
<1>2. \A d \in Consumers : cur'[d] # cur[d] => hand[d] = NoAction
  <2>1. CASE UNCHANGED cur
    BY <2>1
  <2>2. CASE pc[c] \in {"reset", "resetBack", "edge"}
             /\ \E s \in Pages \cup {Offsite} : cur' = [cur EXCEPT ![c] = s]
    BY <2>2 DEF Inv, TypeInv, TypeOK, HandInUse
  <2>3. CASE Reset(c)
    BY <2>3, <2>2, EngineAssumption DEF Reset, StartOver
  <2>4. CASE AddEdge(c)
    BY <2>4, <2>1, <2>2 DEF AddEdge, Inv, TypeInv, TypeOK
  <2> QED
    BY <2>1, <2>3, <2>4 DEF Loop, Await, Close, AddState
<1> QED
  BY <1>1, <1>2, EmptyHandedStutters

\* Every step of the engine is a step of CrawlActions, or moves no action.
LEMMA NextIsPool ==
  Inv /\ FlagsAreDown /\ [Next]_vars => [Pool!Next]_(Pool!actionVars)
<1> SUFFICES ASSUME Inv, FlagsAreDown, [Next]_vars
             PROVE  [Pool!Next]_(Pool!actionVars)
  OBVIOUS
<1>1. CASE UNCHANGED vars
  BY <1>1, EmptyHandedStutters DEF vars
<1>2. ASSUME NEW c \in Consumers, Consumer(c) PROVE [Pool!Next]_(Pool!actionVars)
  BY <1>2, QuietIsPool, FollowIsPool, PollingIsPool, FireIsPool, ParseIsPool, CheckIsPool
     DEF Consumer
<1> QED
  BY <1>1, <1>2, ControllerIsPool DEF Next

\* At first nothing was found.
LEMMA InitIsPool == Init => Pool!Init
<1> SUFFICES ASSUME Init PROVE Pool!Init
  OBVIOUS
<1>1. ActionsWaiting = {}
  BY DEF Init, ActionsWaiting, PageActions
<1>2. ActionsTaken = {}
  BY EngineAssumption DEF Init, ActionsTaken, PageActions, IsHeld, Holds
<1>3. ActionsOver = {} /\ Told = FALSE
  BY DEF Init, ActionsOver, Told
<1> QED
  BY <1>1, <1>2, <1>3 DEF Pool!Init

\* Consumers that poll, fire, put back and purge at the same time treat the
\* actions of every page the way CrawlActions promises, whatever fails: an
\* action comes back only from a consumer that was interrupted.
THEOREM EngineImplementsActions == Spec => ImplementsCrawlActions
<1>1. Init => Inv /\ FlagsAreDown
  BY InitType, InitAccounted DEF Inv, Init, FlagsAreDown
<1>2. Inv /\ FlagsAreDown /\ [Next]_vars => (Inv /\ FlagsAreDown)'
  BY NextType, NextAccounted, FlagsStep DEF Inv
<1> QED
  BY <1>1, <1>2, InitIsPool, NextIsPool, PTL DEF Spec, ImplementsCrawlActions, Pool!Spec

-----------------------------------------------------------------------------
(***************************************************************************)
(* Nobody waits for ever in a crawl that was not told to stop.             *)
(***************************************************************************)
\* A step of a consumer leaves that consumer able to go on, kills it, closes
\* its browser, or comes with a signal.
LEMMA StepGoesOn ==
  ASSUME TypeInv, FlagsAreDown, NEW c \in Consumers, Consumer(c), ctl = "await",
         signal' = "none", pc'[c] # "dead", ~Close(c)
  PROVE  pc'[c] \notin {"close", "closed"} /\ (pc'[c] = "await" => ~CacheIsEmpty')
<1> USE DEF Goto, EndTask, Die, TypeInv, TypeOK
<1>1. ~flag[c]
  BY DEF FlagsAreDown
<1>2. CASE Loop(c)
  <2>1. pc[c] = "loop" /\ running[c] = 0
    BY <1>2 DEF Loop, Counted
  <2>2. ~CacheIsEmpty /\ pc'[c] = "await"
    BY <1>1, <1>2, <2>1 DEF Loop, NothingLeft
  <2>3. CacheIsEmpty' <=> CacheIsEmpty
    BY <1>2 DEF Loop, CacheIsEmpty
  <2> QED
    BY <2>2, <2>3
<1>3. CASE Await(c)
  BY <1>1, <1>3 DEF Await
<1>4. CASE Reset(c) \/ Follow(c)
  BY <1>4 DEF Reset, Follow, Purge
<1>5. CASE BeginActions(c) \/ Poll(c) \/ Check(c)
  BY <1>5 DEF BeginActions, Poll, Check
<1>6. CASE Fire(c)
  BY <1>6 DEF Fire, AfterEvent
<1>7. CASE AddState(c) \/ AddEdge(c) \/ Parse(c)
  BY <1>7 DEF AddState, AddEdge, Parse
<1> QED
  BY <1>2, <1>3, <1>4, <1>5, <1>6, <1>7 DEF Consumer

\* A consumer moves no other, and revives nobody.
LEMMA OthersStay ==
  ASSUME TypeInv, NEW c \in Consumers, Consumer(c)
  PROVE  /\ \A d \in Consumers \ {c} : pc'[d] = pc[d]
         /\ pc[c] # "dead"
         /\ signal # "none" => signal' # "none"
         /\ ctl' = ctl
BY DEF Consumer, Loop, Await, Close, Reset, Follow, Purge, BeginActions, Fire, AddState,
       AddEdge, Parse, Poll, Check, EndTask, Die, Goto, TypeInv, TypeOK

\* With TypeInv and FlagsAreDown, NobodyIsStuck is inductive.
LEMMA NotStuckStep ==
  ASSUME Consumers # {}, TypeInv, FlagsAreDown, NobodyIsStuck, [Next]_vars
  PROVE  NobodyIsStuck'
<1>1. CASE UNCHANGED vars
  BY <1>1 DEF vars, NobodyIsStuck, CacheIsEmpty
<1>2. CASE Start
  BY <1>2 DEF Start, NobodyIsStuck
<1>3. CASE ShutDown \/ Finish
  BY <1>3 DEF ShutDown, Finish, NobodyIsStuck
<1>4. CASE SignalFromOutside
  BY <1>4 DEF SignalFromOutside, NobodyIsStuck
<1>5. ASSUME NEW c \in Consumers, Consumer(c) PROVE NobodyIsStuck'
  <2> SUFFICES ASSUME ctl' = "await", signal' = "none", \A d \in Consumers : pc'[d] # "dead"
               PROVE  \E d \in Consumers :
                        /\ pc'[d] \notin {"close", "closed"}
                        /\ pc'[d] = "await" => ~CacheIsEmpty'
    BY DEF NobodyIsStuck
  <2>1. ctl = "await" /\ signal = "none" /\ \A d \in Consumers : pc[d] # "dead"
    BY <1>5, OthersStay
  <2>2. CASE Close(c)
    <3>1. PICK d \in Consumers :
            /\ pc[d] \notin {"close", "closed"}
            /\ pc[d] = "await" => ~CacheIsEmpty
      BY <2>1 DEF NobodyIsStuck
    <3>2. d # c /\ (CacheIsEmpty' <=> CacheIsEmpty)
      BY <2>2, <3>1 DEF Close, CacheIsEmpty
    <3> QED
      BY <1>5, <3>1, <3>2, OthersStay
  <2>3. CASE ~Close(c)
    BY <1>5, <2>1, <2>3, StepGoesOn
  <2> QED
    BY <2>2, <2>3
<1> QED
  BY <1>1, <1>2, <1>3, <1>4, <1>5 DEF Next, Controller

\* As long as no Error kills a consumer and nobody stops the crawl there is
\* a consumer that can go on: the consumers never all wait for each other.  A
\* crawl has at least one browser (Configuration.numBrowsers).
THEOREM NeverAllWaiting ==
  ASSUME Consumers # {}
  PROVE  Spec => []NobodyIsStuck
<1>1. Init => TypeInv /\ FlagsAreDown /\ NobodyIsStuck
  BY InitType DEF Init, FlagsAreDown, NobodyIsStuck
<1>2. TypeInv /\ FlagsAreDown /\ NobodyIsStuck /\ [Next]_vars
      => (TypeInv /\ FlagsAreDown /\ NobodyIsStuck)'
  BY NextType, FlagsStep, NotStuckStep
<1> QED
  BY <1>1, <1>2, PTL DEF Spec

-----------------------------------------------------------------------------
(***************************************************************************)
(* The interrupt, as long as nobody else catches it.                       *)
(***************************************************************************)
\* Wherever the flag is cleared it is raised again, or the consumer leaves.
LEMMA InterruptStep ==
  ASSUME "login" \notin Faults, TypeInv, InterruptIsKept, [Next]_vars
  PROVE  InterruptIsKept'
<1>1. CASE UNCHANGED vars
  BY <1>1 DEF vars, InterruptIsKept
<1>2. CASE Start \/ SignalFromOutside
  BY <1>2 DEF Start, SignalFromOutside, InterruptIsKept
<1>3. CASE ShutDown
  BY <1>3 DEF ShutDown, Ended, InterruptIsKept
<1>4. CASE Finish
  BY <1>4 DEF Finish, InterruptIsKept
<1>5. ASSUME NEW c \in Consumers, Consumer(c) PROVE InterruptIsKept'
  <2> USE <1>5 DEF Goto, EndTask, Die, TypeInv, TypeOK, InterruptIsKept
  <2>1. CASE Loop(c)
    BY <2>1 DEF Loop
  <2>2. CASE Await(c)
    BY <2>2 DEF Await
  <2>3. CASE Close(c)
    BY <2>3 DEF Close
  <2>4. CASE Reset(c)
    BY <2>4 DEF Reset
  <2>5. CASE Follow(c)
    BY <2>5 DEF Follow, Purge
  <2>6. CASE BeginActions(c)
    BY <2>6 DEF BeginActions
  <2>7. CASE Fire(c)
    BY <2>7 DEF Fire, AfterEvent, MayNotFire
  <2>8. CASE AddState(c) \/ Poll(c)
    BY <2>8 DEF AddState, Poll
  <2>9. CASE AddEdge(c)
    BY <2>9 DEF AddEdge
  <2>10. CASE Parse(c)
    BY <2>10 DEF Parse
  <2>11. CASE Check(c)
    BY <2>11 DEF Check, RaiseFlagAgain
  <2> QED
    BY <2>1, <2>2, <2>3, <2>4, <2>5, <2>6, <2>7, <2>8, <2>9, <2>10, <2>11 DEF Consumer
<1> QED
  BY <1>1, <1>2, <1>3, <1>4, <1>5 DEF Next, Controller

\* A consumer that sees its flag takes no state and fires nothing.
LEMMA NothingBegunStep ==
  ASSUME TypeInv, InterruptIsKept, [Next]_vars
  PROVE  [\A c \in Consumers :
            /\ ctl \in {"stopping", "done"}
            /\ pc'[c] \in {"reset", "resetBack", "switch"}
            => pc'[c] = pc[c]]_vars
<1> SUFFICES ASSUME NEW c \in Consumers, ctl \in {"stopping", "done"},
                    pc'[c] \in {"reset", "resetBack", "switch"}, Next
             PROVE  pc'[c] = pc[c]
  OBVIOUS
<1>1. CASE Controller \/ SignalFromOutside
  BY <1>1 DEF Controller, Start, CrawlIndex, ShutDown, Finish, SignalFromOutside
<1>2. ASSUME NEW d \in Consumers, Consumer(d) PROVE pc'[c] = pc[c]
  <2>1. CASE c = d
    <3>1. pc[c] \in {"close", "closed", "dead"} \/ flag[c]
      BY DEF InterruptIsKept
    <3> QED
      BY <1>2, <2>1, <3>1
      DEF Consumer, Loop, Await, Close, Reset, Follow, Purge, BeginActions, Fire, AfterEvent, AddState,
          AddEdge, Parse, Poll, Check, EndTask, Die, Goto, TypeInv, TypeOK
  <2>2. CASE c # d
    BY <1>2, <2>2
    DEF Consumer, Loop, Await, Close, Reset, Follow, Purge, BeginActions, Fire, AfterEvent, AddState,
        AddEdge, Parse, Poll, Check, EndTask, Die, Goto, TypeInv, TypeOK
  <2> QED
    BY <2>1, <2>2
<1> QED
  BY <1>1, <1>2 DEF Next

\* Unless the login plugin swallows the interrupt, no consumer begins anything
\* in the browser after the controller has shut the crawl down.
THEOREM StopsWhenTold ==
  ASSUME "login" \notin Faults
  PROVE  Spec => NothingBegunAfterShutDown
<1>1. Init => TypeInv /\ InterruptIsKept
  BY InitType DEF Init, InterruptIsKept
<1>2. TypeInv /\ InterruptIsKept /\ [Next]_vars => (TypeInv /\ InterruptIsKept)'
  BY NextType, InterruptStep
<1>3. TypeInv /\ InterruptIsKept /\ [Next]_vars
      => [\A c \in Consumers :
            /\ ctl \in {"stopping", "done"}
            /\ pc'[c] \in {"reset", "resetBack", "switch"}
            => pc'[c] = pc[c]]_vars
  BY NothingBegunStep
<1> QED
  BY <1>1, <1>2, <1>3, PTL DEF Spec, NothingBegunAfterShutDown
=============================================================================
