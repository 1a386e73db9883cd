------------------------------ MODULE BrokenLinks ------------------------------
(***************************************************************************)
(* The broken link checker, a plugin all browsers of a crawl share         *)
(* (BrokenLinksCheckerPlugin), as StateMachine.swithToStateAndCheckIfClone *)
(* calls it.                                                               *)
(*                                                                         *)
(* A page that matches a pattern of a broken link violates an invariant.   *)
(* onInvariantViolation remembers in one field, lastBrokenLink, the state  *)
(* the browser came from; onFireEventSuccess, called next by the same      *)
(* browser, completes it with the state it leads to.  The methods are not  *)
(* synchronized and read the field again at every use, so that what        *)
(* another browser puts there is picked up in the middle.                  *)
(***************************************************************************)
EXTENDS Naturals

CONSTANTS
  Checkers,    \* crawlers, one browser each
  PageStates,  \* states of the site
  IndexState,  \* the state every browser starts from
  LeadsTo,     \* pairs of states: what the events of a state lead to
  BrokenPages, \* states whose page matches a pattern
  NoLink       \* null

ASSUME CheckerAssumption ==
  /\ IndexState \in PageStates
  /\ LeadsTo \subseteq PageStates \X PageStates
  /\ BrokenPages \subseteq PageStates

VARIABLES
  step,       \* where each crawler is in swithToStateAndCheckIfClone
  at,         \* StateMachine.currentState of each
  to,         \* the state its event leads to
  caller,     \* its local stateCaller
  edges,      \* edges of the state flow graph
  last,       \* the field lastBrokenLink
  reported,   \* stateBrokenkList: by broken state, the row or NoLink
  raced       \* history: another crawler was in between, since all were quiet

brokenVars == <<step, at, to, caller, edges, last, reported, raced>>

\* A BrokenLink; an xpath stands for the edge it is of.
Link(s) == [caller |-> s, broken |-> NoLink, xpath |-> NoLink]
Inside(c) == step[c] # "idle"

Goto(c, pc) == step' = [step EXCEPT ![c] = pc]

\* What another crawler does in between matters if one of the two pages is broken.
Meets(c, t) == \E d \in Checkers \ {c} :
                 Inside(d) /\ {t, to[d]} \cap BrokenPages # {}

-----------------------------------------------------------------------------
(***************************************************************************)
(* Faulty variants of definitions below; no part of BrokenSpec.            *)
(***************************************************************************)
\* The link stays after it was reported.
Cleared_Not == last

\* The test for null is the wrong way round.
IsFree_Inverted(c) == last # NoLink

-----------------------------------------------------------------------------
(***************************************************************************)
(* The crawler.                                                            *)
(***************************************************************************)
\* Back to the index: reset.
Restart(c) ==
  /\ step[c] = "idle"
  /\ at[c] # IndexState
  /\ at' = [at EXCEPT ![c] = IndexState]
  /\ to' = [to EXCEPT ![c] = IndexState]
  /\ UNCHANGED <<step, caller, edges, last, reported, raced>>

\* An event was fired and the DOM has changed: addStateToCurrentState.
FireInto(c, t) ==
  /\ step[c] = "idle"
  /\ <<at[c], t>> \in LeadsTo
  /\ t # at[c]
  /\ Goto(c, IF t \in BrokenPages THEN "violation" ELSE "success")
  /\ to' = [to EXCEPT ![c] = t]
  /\ edges' = edges \cup {<<at[c], t>>}
  /\ raced' = (raced \/ Meets(c, t))
  /\ UNCHANGED <<at, caller, last, reported>>

\* The plugin has returned, or its exception was caught, and the field is l:
\* changeState.
Done(c, l) ==
  /\ Goto(c, "idle")
  /\ last' = l
  /\ at' = [at EXCEPT ![c] = to[c]]
  /\ caller' = [caller EXCEPT ![c] = NoLink]
  /\ raced' = (raced /\ ~(l = NoLink /\ \A d \in Checkers \ {c} : ~Inside(d)))

-----------------------------------------------------------------------------
(***************************************************************************)
(* onInvariantViolation, once for every pattern the page matches.          *)
(***************************************************************************)
AfterViolation(c) == \E pc \in {"violation", "success"} : Goto(c, pc)

\* Is the field free for a new link?
IsFree(c) == last = NoLink

CheckFree(c) ==
  /\ step[c] = "violation"
  /\ Goto(c, IF IsFree(c) THEN "remember" ELSE "compare")
  /\ UNCHANGED <<at, to, caller, edges, last, reported, raced>>

\* A link of the same caller stays.  A field that is null by now throws.
CompareCaller(c) ==
  /\ step[c] = "compare"
  /\ IF last # NoLink /\ last.caller # at[c] THEN Goto(c, "remember")
                                             ELSE AfterViolation(c)
  /\ UNCHANGED <<at, to, caller, edges, last, reported, raced>>

Remember(c) ==
  /\ step[c] = "remember"
  /\ last' = Link(at[c])
  /\ AfterViolation(c)
  /\ UNCHANGED <<at, to, caller, edges, reported, raced>>

-----------------------------------------------------------------------------
(***************************************************************************)
(* onFireEventSuccess.                                                     *)
(***************************************************************************)
CheckLast(c) ==
  /\ step[c] = "success"
  /\ IF last = NoLink
       THEN Done(c, last)
       ELSE Goto(c, "mine") /\ UNCHANGED <<at, caller, last, raced>>
  /\ UNCHANGED <<to, edges, reported>>

CheckSource(c) ==
  /\ step[c] = "mine"
  /\ IF last # NoLink /\ last.caller = at[c]
       THEN Goto(c, "find") /\ UNCHANGED <<at, caller, last, raced>>
       ELSE Done(c, last)
  /\ UNCHANGED <<to, edges, reported>>

\* getEventableByCandidateElementInState.
FindEventable(c) ==
  /\ step[c] = "find"
  /\ IF last # NoLink
       THEN /\ Goto(c, "complete")
            /\ caller' = [caller EXCEPT ![c] = last.caller]
            /\ UNCHANGED <<at, last, raced>>
       ELSE Done(c, last)
  /\ UNCHANGED <<to, edges, reported>>

XpathOf(c) == IF <<caller[c], to[c]>> \in edges THEN <<caller[c], to[c]>> ELSE NoLink

\* setStateBroken, then setXpath and what is drawn of the element.
SetBroken(c) ==
  /\ step[c] = "complete"
  /\ IF last # NoLink
       THEN /\ Goto(c, "xpath")
            /\ last' = [last EXCEPT !.broken = to[c]]
            /\ UNCHANGED <<at, caller, raced>>
       ELSE Done(c, last)
  /\ UNCHANGED <<to, edges, reported>>

SetXpath(c) ==
  /\ step[c] = "xpath"
  /\ IF last # NoLink
       THEN /\ Goto(c, "build")
            /\ last' = [last EXCEPT !.xpath = XpathOf(c)]
            /\ UNCHANGED <<at, caller, raced>>
       ELSE Done(c, last)
  /\ UNCHANGED <<to, edges, reported>>

\* build and putIfAbsent; without an eventable, or a broken state, they throw.
PutIfAbsent(c) ==
  /\ step[c] = "build"
  /\ IF last # NoLink /\ last.broken # NoLink /\ XpathOf(c) # NoLink
       THEN /\ Goto(c, "clear")
            /\ reported' =
                 IF reported[last.broken] # NoLink THEN reported
                 ELSE [reported EXCEPT ![last.broken] = [link |-> last, quiet |-> ~raced]]
            /\ UNCHANGED <<at, caller, last, raced>>
       ELSE UNCHANGED reported /\ Done(c, last)
  /\ UNCHANGED <<to, edges>>

Cleared == NoLink

Clear(c) ==
  /\ step[c] = "clear"
  /\ Done(c, Cleared)
  /\ UNCHANGED <<to, edges, reported>>

-----------------------------------------------------------------------------
BrokenInit ==
  /\ step = [c \in Checkers |-> "idle"]
  /\ at = [c \in Checkers |-> IndexState]
  /\ to = at
  /\ caller = [c \in Checkers |-> NoLink]
  /\ edges = {}
  /\ last = NoLink
  /\ reported = [s \in PageStates |-> NoLink]
  /\ raced = FALSE

CheckerStep(c) ==
  \/ CheckFree(c) \/ CompareCaller(c) \/ Remember(c)
  \/ CheckLast(c) \/ CheckSource(c) \/ FindEventable(c)
  \/ SetBroken(c) \/ SetXpath(c) \/ PutIfAbsent(c) \/ Clear(c)

BrokenNext ==
  \E c \in Checkers :
    \/ Restart(c)
    \/ \E t \in PageStates : FireInto(c, t)
    \/ CheckerStep(c)

BrokenSpec == BrokenInit /\ [][BrokenNext]_brokenVars

-----------------------------------------------------------------------------
LinkSet == [caller : PageStates, broken : PageStates \cup {NoLink},
            xpath : LeadsTo \cup {NoLink}]
RowSet  == [link : LinkSet, quiet : BOOLEAN]

\* null is no object of the plugin.
ASSUME NullAssumption == NoLink \notin PageStates \cup LeadsTo \cup LinkSet \cup RowSet

Steps   == {"idle", "violation", "compare", "remember", "success", "mine", "find",
            "complete", "xpath", "build", "clear"}

BrokenTypeOK ==
  /\ step \in [Checkers -> Steps]
  /\ at \in [Checkers -> PageStates]
  /\ to \in [Checkers -> PageStates]
  /\ caller \in [Checkers -> PageStates \cup {NoLink}]
  /\ edges \subseteq LeadsTo
  /\ last \in LinkSet \cup {NoLink}
  /\ reported \in [PageStates -> RowSet \cup {NoLink}]
  /\ raced \in BOOLEAN

(***************************************************************************)
(* What is reported while no other crawler was in between is a broken page *)
(* and an element that leads to it from the caller that is named.          *)
(***************************************************************************)
QuietReportsAreTrue ==
  \A t \in PageStates :
    reported[t] # NoLink /\ reported[t].quiet =>
      /\ t \in BrokenPages
      /\ reported[t].link.xpath = <<reported[t].link.caller, t>>
      /\ reported[t].link.xpath \in edges

(***************************************************************************)
(* A broken page that a crawler has come to while no other one was in      *)
(* between is reported.                                                    *)
(***************************************************************************)
QuietLinksAreReported ==
  [][ \A c \in Checkers :
        /\ Inside(c) /\ step'[c] = "idle"
        /\ to[c] \in BrokenPages
        /\ ~raced
        => reported'[to[c]] # NoLink ]_brokenVars
===============================================================================
