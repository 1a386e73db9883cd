------------------------------ MODULE Parts_proofs ------------------------------
(***************************************************************************)
(* Theorems about the parts of the system that share no state: click-once  *)
(* of CandidateElements, the field of the broken link checker, the plugin  *)
(* store and the configurations of the server, the knowledge base page of  *)
(* the web client; and, with the configuration editor of                   *)
(* ConfigEditor_proofs, all of them side by side, as MCParts has them.     *)
(* They hold for any number of crawlers, elements, pages, plugins,         *)
(* configurations and threads, and any knowledge base.                     *)
(***************************************************************************)
EXTENDS MCParts, ConfigEditor_proofs, FiniteSetTheorems, WellFoundedInduction,
        NaturalsInduction, TLAPS

-----------------------------------------------------------------------------
(***************************************************************************)
(* The inductive invariant ties the sets of the manager to what was taken. *)
(***************************************************************************)
\* What was taken is marked, each kind of element in the set of its own.
TakenIsMarked ==
  \A m \in taken : IF m.key.of \in MenuItems THEN m.key \in menuElements
                                             ELSE m.key \in elements

\* What is marked was taken.  An element leaves its general string, too.
MarkedWasTaken ==
  /\ \A k \in menuElements : \E m \in taken : m.key = k
  /\ \A k \in elements : \E m \in taken : m.key = k \/ (k.title = NoTitle /\ m.key.of = k.of)

MarkInv == clickOnce => TakenIsMarked /\ MarkedWasTaken

ExtractorInv == ExtractorTypeOK /\ MarkInv /\ TakenOnce /\ RefusedWasTaken

-----------------------------------------------------------------------------
(***************************************************************************)
(* Types.                                                                  *)
(***************************************************************************)
\* The strings of an element are keys.
LEMMA StringType ==
  ASSUME NEW e \in Elements, NEW t \in Titles
  PROVE  /\ UniqueString(e, t) \in Keys
         /\ GeneralString(e) \in Keys
         /\ KeyOf(e, t) \in Keys
         /\ UniqueString(e, t).of = e /\ UniqueString(e, t).title = t
         /\ GeneralString(e).of = e /\ GeneralString(e).title = NoTitle
BY CandidateAssumption DEF UniqueString, GeneralString, KeyOf, Keys

\* Each action keeps the types.
LEMMA ExtractorType == ExtractorTypeOK /\ [ExtractorNext]_extractorVars => ExtractorTypeOK'
<1> SUFFICES ASSUME ExtractorTypeOK, [ExtractorNext]_extractorVars
             PROVE  ExtractorTypeOK'
  OBVIOUS
<1>1. ASSUME NEW x \in Extractors, NEW t \in Titles, NEW es \in SUBSET Elements,
             Extract(x, t, es)
      PROVE  ExtractorTypeOK'
  BY <1>1 DEF Extract, ExtractorTypeOK
<1>2. ASSUME NEW x \in Extractors, NEW e \in Elements, PassOver(x, e)
      PROVE  ExtractorTypeOK'
  BY <1>2 DEF PassOver, ExtractorTypeOK
<1>3. ASSUME NEW x \in Extractors, NEW e \in Elements, Evaluate(x, e)
      PROVE  ExtractorTypeOK'
  <2>1. title[x] \in Titles /\ page[x] \in Nat
    BY DEF ExtractorTypeOK
  <2>2. /\ KeyOf(e, title[x]) \in Keys /\ UniqueString(e, title[x]) \in Keys
        /\ GeneralString(e) \in Keys
    BY <2>1, StringType
  <2>3. taken' \subseteq [key : Keys, page : Nat] /\ refused' \subseteq Keys
    BY <1>3, <2>1, <2>2
    DEF Evaluate, EvaluateMenuItem, EvaluateOther, Accept, Refuse, ExtractorTypeOK
  <2>4. elements' \subseteq Keys /\ menuElements' \subseteq Keys
    BY <1>3, <2>2 DEF Evaluate, EvaluateMenuItem, EvaluateOther, Marks, ExtractorTypeOK
  <2>5. todo' \in [Extractors -> SUBSET Elements]
    BY <1>3 DEF Evaluate, ExtractorTypeOK
  <2> QED
    BY <1>3, <2>3, <2>4, <2>5 DEF Evaluate, ExtractorTypeOK
<1>4. ASSUME NEW x \in Extractors, Return(x)
      PROVE  ExtractorTypeOK'
  BY <1>4, CandidateAssumption DEF Return, ExtractorTypeOK
<1>5. CASE UNCHANGED extractorVars
  BY <1>5 DEF extractorVars, ExtractorTypeOK
<1> QED
  BY <1>1, <1>2, <1>3, <1>4, <1>5 DEF ExtractorNext

LEMMA InitExtractor == ExtractorInit => ExtractorTypeOK
BY CandidateAssumption DEF ExtractorInit, ExtractorTypeOK

(***************************************************************************)
(* The state of the crawlers and of the manager has the type the model     *)
(* gives it.                                                               *)
(***************************************************************************)
THEOREM ExtractorTypeCorrect == ExtractorSpec => []ExtractorTypeOK
BY InitExtractor, ExtractorType, PTL DEF ExtractorSpec

-----------------------------------------------------------------------------
(***************************************************************************)
(* Marking.                                                                *)
(***************************************************************************)
\* An element that is not marked is in no set, and was not taken.
LEMMA AcceptIsNew ==
  ASSUME ExtractorInv, clickOnce,
         NEW e \in Elements, NEW t \in Titles,
         IF e \in MenuItems THEN GeneralString(e) \notin menuElements
                            ELSE ~IsMarked(e, t)
  PROVE  \A m \in taken : m.key # KeyOf(e, t)
<1> SUFFICES ASSUME NEW m \in taken, m.key = KeyOf(e, t)
             PROVE  FALSE
  OBVIOUS
<1>1. m.key.of = e
  BY StringType DEF KeyOf
<1> QED
  BY <1>1 DEF ExtractorInv, MarkInv, TakenIsMarked, KeyOf, IsMarked

\* Accepting an element, and marking it if every element is clicked once.
LEMMA AcceptKeeps ==
  ASSUME ExtractorInv, NEW x \in Extractors, NEW e \in Elements,
         NEW t \in Titles, t = title[x],
         UNCHANGED clickOnce, Accept(x, e),
         clickOnce => IF e \in MenuItems
                        THEN /\ GeneralString(e) \notin menuElements
                             /\ menuElements' = menuElements \cup {GeneralString(e)}
                             /\ UNCHANGED elements
                        ELSE /\ ~IsMarked(e, t)
                             /\ elements' = elements \cup Marks(e, t)
                             /\ UNCHANGED menuElements
  PROVE  MarkInv' /\ TakenOnce' /\ RefusedWasTaken'
<1> DEFINE new == [key |-> KeyOf(e, t), page |-> page[x]]
<1>1. taken' = taken \cup {new} /\ UNCHANGED refused
  BY DEF Accept
<1>2. new.key = KeyOf(e, t) /\ new.key.of = e
  BY StringType DEF KeyOf
<1>3. TakenOnce'
  BY <1>1, <1>2, AcceptIsNew DEF TakenOnce, ExtractorInv
<1>4. RefusedWasTaken'
  BY <1>1 DEF RefusedWasTaken, TakenFor, ExtractorInv
<1>5. MarkInv'
  <2> SUFFICES ASSUME clickOnce
               PROVE  TakenIsMarked' /\ MarkedWasTaken'
    BY DEF MarkInv
  <2>1. TakenIsMarked /\ MarkedWasTaken
    BY DEF ExtractorInv, MarkInv
  <2>2. CASE e \in MenuItems
    <3>1. /\ new.key = GeneralString(e) /\ new \in taken'
          /\ menuElements' = menuElements \cup {GeneralString(e)}
          /\ UNCHANGED elements
      BY <1>1, <2>2 DEF KeyOf
    <3>2. TakenIsMarked'
      BY <1>1, <1>2, <2>1, <2>2, <3>1 DEF TakenIsMarked
    <3>3. \A k \in menuElements' : \E m \in taken' : m.key = k
      BY <1>1, <2>1, <3>1 DEF MarkedWasTaken
    <3> QED
      BY <1>1, <2>1, <3>1, <3>2, <3>3 DEF MarkedWasTaken
  <2>3. CASE e \notin MenuItems
    <3>1. Marks(e, t) = {GeneralString(e), UniqueString(e, t)}
          /\ new.key = UniqueString(e, t)
      BY <2>3 DEF Marks, KeyOf
    <3>2. TakenIsMarked'
      BY <1>1, <1>2, <2>1, <2>3, <3>1 DEF TakenIsMarked
    <3>3. ASSUME NEW k \in elements'
          PROVE  \E m \in taken' : m.key = k \/ (k.title = NoTitle /\ m.key.of = k.of)
      <4>1. CASE k \in elements
        BY <1>1, <2>1, <4>1 DEF MarkedWasTaken
      <4>2. new \in taken'
        BY <1>1
      <4>3. CASE k = UniqueString(e, t)
        BY <3>1, <4>2, <4>3
      <4>4. CASE k = GeneralString(e)
        BY <1>2, <4>2, <4>4, StringType
      <4> QED
        BY <2>3, <3>1, <4>1, <4>3, <4>4
    <3> QED
      BY <1>1, <2>1, <2>3, <3>2, <3>3 DEF MarkedWasTaken
  <2> QED
    BY <2>2, <2>3
<1> QED
  BY <1>3, <1>4, <1>5

\* Refusing an element that is marked.
LEMMA RefuseKeeps ==
  ASSUME ExtractorInv, clickOnce, NEW x \in Extractors, NEW e \in Elements,
         NEW t \in Titles, t = title[x],
         UNCHANGED <<clickOnce, elements, menuElements>>, Refuse(x, e),
         IF e \in MenuItems THEN GeneralString(e) \in menuElements
                            ELSE IsMarked(e, t)
  PROVE  MarkInv' /\ TakenOnce' /\ RefusedWasTaken'
<1> DEFINE r == UniqueString(e, t)
<1>1. refused' = refused \cup {r} /\ UNCHANGED taken
  BY DEF Refuse
<1>2. r.of = e /\ r.title = t
  BY StringType
<1>3. \E m \in taken : m.key = KeyOf(e, t) \/ (t = NoTitle /\ m.key.of = e)
  BY <1>2 DEF ExtractorInv, MarkInv, MarkedWasTaken, KeyOf, IsMarked
<1>4. TakenFor(r) # {}
  BY <1>2, <1>3 DEF TakenFor
<1>5. RefusedWasTaken'
  BY <1>1, <1>4 DEF RefusedWasTaken, TakenFor, ExtractorInv
<1> QED
  BY <1>1, <1>5
  DEF ExtractorInv, MarkInv, TakenIsMarked, MarkedWasTaken, TakenOnce

\* An evaluation does one or the other.
LEMMA EvaluateKeeps ==
  ASSUME ExtractorInv, NEW x \in Extractors, NEW e \in Elements, Evaluate(x, e)
  PROVE  MarkInv' /\ TakenOnce' /\ RefusedWasTaken'
<1> DEFINE t == title[x]
<1>1. t \in Titles
  BY DEF ExtractorInv, ExtractorTypeOK
<1>2. UNCHANGED clickOnce
  BY DEF Evaluate
<1>3. CASE e \in MenuItems
  <2>1. CASE clickOnce /\ GeneralString(e) \in menuElements
    BY <1>1, <1>2, <1>3, <2>1, RefuseKeeps DEF Evaluate, EvaluateMenuItem, EvaluateOther
  <2>2. CASE ~(clickOnce /\ GeneralString(e) \in menuElements)
    BY <1>1, <1>2, <1>3, <2>2, AcceptKeeps DEF Evaluate, EvaluateMenuItem, EvaluateOther
  <2> QED
    BY <2>1, <2>2
<1>4. CASE e \notin MenuItems
  <2>1. CASE clickOnce /\ IsMarked(e, t)
    BY <1>1, <1>2, <1>4, <2>1, RefuseKeeps DEF Evaluate, EvaluateMenuItem, EvaluateOther
  <2>2. CASE ~(clickOnce /\ IsMarked(e, t))
    BY <1>1, <1>2, <1>4, <2>2, AcceptKeeps DEF Evaluate, EvaluateMenuItem, EvaluateOther
  <2> QED
    BY <2>1, <2>2
<1> QED
  BY <1>3, <1>4

\* No other action touches the sets or what was taken and refused.
LEMMA MarksInvariant == ExtractorInv /\ [ExtractorNext]_extractorVars => ExtractorInv'
<1> SUFFICES ASSUME ExtractorInv, [ExtractorNext]_extractorVars
             PROVE  ExtractorInv'
  OBVIOUS
<1>1. ExtractorTypeOK'
  BY ExtractorType DEF ExtractorInv
<1>2. CASE UNCHANGED <<clickOnce, elements, menuElements, taken, refused>>
  BY <1>1, <1>2
  DEF ExtractorInv, MarkInv, TakenIsMarked, MarkedWasTaken, TakenOnce, RefusedWasTaken,
      TakenFor
<1>3. CASE \E x \in Extractors, e \in Elements : Evaluate(x, e)
  BY <1>1, <1>3, EvaluateKeeps DEF ExtractorInv
<1> QED
  BY <1>2, <1>3 DEF ExtractorNext, Extract, PassOver, Return, extractorVars

\* The invariant holds from the start, when nothing was taken.
LEMMA InvariantAlways == ExtractorSpec => []ExtractorInv
<1>1. ExtractorInit => ExtractorInv
  BY CandidateAssumption
  DEF ExtractorInit, ExtractorInv, ExtractorTypeOK, MarkInv, TakenIsMarked,
      MarkedWasTaken, TakenOnce, RefusedWasTaken
<1> QED
  BY <1>1, MarksInvariant, PTL DEF ExtractorSpec

(***************************************************************************)
(* With click-once, no element is taken by two extractions, however many   *)
(* crawlers evaluate the same page at once.                                *)
(***************************************************************************)
THEOREM ElementsAreTakenOnce == ExtractorSpec => []TakenOnce
<1>1. ExtractorInv => TakenOnce
  BY DEF ExtractorInv
<1> QED
  BY <1>1, InvariantAlways, PTL

(***************************************************************************)
(* No element is lost to all crawlers: one that is refused was taken, on a *)
(* page with that title, or, when the page has no title, on any page.      *)
(***************************************************************************)
THEOREM RefusedElementsWereTaken == ExtractorSpec => []RefusedWasTaken
<1>1. ExtractorInv => RefusedWasTaken
  BY DEF ExtractorInv
<1> QED
  BY <1>1, InvariantAlways, PTL

-----------------------------------------------------------------------------
(***************************************************************************)
(* The broken link checker: the inductive invariant.                       *)
(***************************************************************************)
\* A crawler that is coming to a broken page.
OnBroken(c) == Inside(c) /\ to[c] \in BrokenPages

\* The edge is in the graph before the plugin is called.
EdgesFirst == \A c \in Checkers : Inside(c) => <<at[c], to[c]>> \in edges

\* While nothing was in between, whoever comes to a broken page is alone.
BrokenAlone ==
  \A c, d \in Checkers : OnBroken(c) /\ Inside(d) => c = d

\* The field is set by a crawler that is coming to a broken page, and by no other.
FieldIsOwned ==
  last # NoLink => \E c \in Checkers : OnBroken(c) /\ last.caller = at[c]

\* How far the crawler's link has got.
Progress(c) ==
  IF to[c] \notin BrokenPages THEN step[c] = "success"
  ELSE /\ step[c] = "remember" => last = NoLink
       /\ step[c] \notin {"violation", "remember"} => last # NoLink /\ last.caller = at[c]
       /\ step[c] \in {"complete", "xpath", "build", "clear"} => caller[c] = at[c]
       /\ step[c] \in {"xpath", "build", "clear"} => last.broken = to[c]
       /\ step[c] \in {"build", "clear"} => last.xpath = <<at[c], to[c]>>
       /\ step[c] = "clear" => reported[to[c]] # NoLink

Undisturbed ==
  /\ BrokenAlone
  /\ FieldIsOwned
  /\ \A c \in Checkers : Inside(c) => Progress(c)

BrokenInv ==
  BrokenTypeOK /\ EdgesFirst /\ (~raced => Undisturbed) /\ QuietReportsAreTrue

-----------------------------------------------------------------------------
(***************************************************************************)
(* Types.                                                                  *)
(***************************************************************************)
\* A link has the type of the field, whatever is known of it.
LEMMA LinkType ==
  /\ \A s \in PageStates : Link(s) \in LinkSet /\ Link(s).caller = s
  /\ NoLink \notin LinkSet
BY NullAssumption DEF Link, LinkSet

\* What onFireEventSuccess leaves behind, and what becomes of it.
LEMMA DoneType ==
  ASSUME BrokenTypeOK, NEW c \in Checkers, NEW l \in LinkSet \cup {NoLink}, Done(c, l)
  PROVE  /\ step' = [step EXCEPT ![c] = "idle"] /\ step' \in [Checkers -> Steps]
         /\ at' = [at EXCEPT ![c] = to[c]] /\ at' \in [Checkers -> PageStates]
         /\ caller' \in [Checkers -> PageStates \cup {NoLink}]
         /\ last' = l /\ raced' \in BOOLEAN
         /\ raced' = (raced /\ ~(l = NoLink /\ \A d \in Checkers \ {c} : ~Inside(d)))
<1>1. raced' = (raced /\ ~(l = NoLink /\ \A d \in Checkers \ {c} : ~Inside(d)))
  BY DEF Done
<1>2. raced' \in BOOLEAN
  BY <1>1
<1> QED
  BY <1>1, <1>2 DEF BrokenTypeOK, Done, Goto, Steps

\* BrokenTypeOK is inductive.
LEMMA NextBrokenType ==
  ASSUME BrokenTypeOK, [BrokenNext]_brokenVars
  PROVE  BrokenTypeOK'
<1>1. CASE UNCHANGED brokenVars
  BY <1>1 DEF brokenVars, BrokenTypeOK
<1>2. ASSUME NEW c \in Checkers, Restart(c) PROVE BrokenTypeOK'
  BY <1>2, CheckerAssumption DEF Restart, BrokenTypeOK
<1>3. ASSUME NEW c \in Checkers, NEW t \in PageStates, FireInto(c, t) PROVE BrokenTypeOK'
  <2>1. raced' \in BOOLEAN
    BY <1>3 DEF FireInto, BrokenTypeOK
  <2> QED
    BY <1>3, <2>1 DEF FireInto, Goto, BrokenTypeOK, Steps
<1>4. ASSUME NEW c \in Checkers, CheckFree(c) \/ CompareCaller(c) \/ Remember(c)
      PROVE  BrokenTypeOK'
  BY <1>4, LinkType DEF CheckFree, CompareCaller, Remember, AfterViolation, Goto, BrokenTypeOK, Steps
<1>5. ASSUME NEW c \in Checkers, CheckLast(c) \/ CheckSource(c) \/ Clear(c)
      PROVE  BrokenTypeOK'
  <2>1. UNCHANGED <<to, edges, reported>>
    BY <1>5 DEF CheckLast, CheckSource, Clear
  <2>2. CASE \E l \in LinkSet \cup {NoLink} : Done(c, l)
    BY <2>1, <2>2, DoneType DEF BrokenTypeOK
  <2>3. CASE UNCHANGED <<at, caller, last, raced>> /\ \E s \in Steps : Goto(c, s)
    BY <2>1, <2>3 DEF BrokenTypeOK, Goto
  <2> QED
    BY <1>5, <2>2, <2>3 DEF CheckLast, CheckSource, Clear, Cleared, Steps, BrokenTypeOK
<1>6. ASSUME NEW c \in Checkers, FindEventable(c) \/ SetBroken(c) \/ SetXpath(c)
      PROVE  BrokenTypeOK'
  <2>1. UNCHANGED <<to, edges, reported>>
    BY <1>6 DEF FindEventable, SetBroken, SetXpath
  <2>2. CASE Done(c, last)
    <3>1. last \in LinkSet \cup {NoLink}
      BY DEF BrokenTypeOK
    <3> QED
      BY <2>1, <2>2, <3>1, DoneType DEF BrokenTypeOK
  <2>3. CASE last # NoLink
    <3>1. last \in LinkSet /\ last.caller \in PageStates /\ to[c] \in PageStates
      BY <2>3 DEF BrokenTypeOK, LinkSet
    <3>2. XpathOf(c) \in LeadsTo \cup {NoLink}
      BY DEF XpathOf, BrokenTypeOK
    <3>3. [last EXCEPT !.broken = to[c]] \in LinkSet
      BY <3>1 DEF LinkSet
    <3>4. [last EXCEPT !.xpath = XpathOf(c)] \in LinkSet
      BY <3>1, <3>2 DEF LinkSet
    <3> QED
      BY <1>6, <2>1, <2>3, <3>1, <3>3, <3>4
         DEF FindEventable, SetBroken, SetXpath, Goto, BrokenTypeOK, Steps
  <2> QED
    BY <1>6, <2>2, <2>3 DEF FindEventable, SetBroken, SetXpath
<1>7. ASSUME NEW c \in Checkers, PutIfAbsent(c) PROVE BrokenTypeOK'
  <2>1. UNCHANGED <<to, edges>>
    BY <1>7 DEF PutIfAbsent
  <2>2. CASE Done(c, last) /\ UNCHANGED reported
    <3>1. last \in LinkSet \cup {NoLink}
      BY DEF BrokenTypeOK
    <3> QED
      BY <2>1, <2>2, <3>1, DoneType DEF BrokenTypeOK
  <2>3. CASE /\ last # NoLink /\ last.broken # NoLink
             /\ Goto(c, "clear")
             /\ reported' =
                 IF reported[last.broken] # NoLink THEN reported
                 ELSE [reported EXCEPT ![last.broken] = [link |-> last, quiet |-> ~raced]]
             /\ UNCHANGED <<at, caller, last, raced>>
    <3>1. last \in LinkSet
      BY <2>3 DEF BrokenTypeOK
    <3>2. [link |-> last, quiet |-> ~raced] \in RowSet
      BY <3>1 DEF RowSet
    <3>3. reported' \in [PageStates -> RowSet \cup {NoLink}]
      BY <2>3, <3>2 DEF BrokenTypeOK
    <3> QED
      BY <2>1, <2>3, <3>3 DEF Goto, BrokenTypeOK, Steps
  <2> QED
    BY <1>7, <2>2, <2>3 DEF PutIfAbsent
<1> QED
  BY <1>1, <1>2, <1>3, <1>4, <1>5, <1>6, <1>7 DEF BrokenNext, CheckerStep

-----------------------------------------------------------------------------
(***************************************************************************)
(* QuietReportsAreTrue.                                                    *)
(***************************************************************************)
\* Whoever comes to a page that is not broken finds the field free.
LEMMA FieldIsFree ==
  ASSUME Undisturbed, NEW c \in Checkers, Inside(c), ~OnBroken(c)
  PROVE  last = NoLink
BY DEF Undisturbed, FieldIsOwned, BrokenAlone

\* The plugin returns, and was not disturbed or is not any more.
LEMMA DoneQuiet ==
  ASSUME BrokenTypeOK, EdgesFirst, ~raced => Undisturbed,
         NEW c \in Checkers, NEW l \in LinkSet \cup {NoLink}, Inside(c), Done(c, l),
         UNCHANGED <<to, edges, reported>>,
         ~raced => l = NoLink /\ (OnBroken(c) \/ last = NoLink)
  PROVE  EdgesFirst' /\ (~raced' => Undisturbed')
<1>1. /\ step' = [step EXCEPT ![c] = "idle"] /\ at' = [at EXCEPT ![c] = to[c]]
      /\ last' = l /\ UNCHANGED <<to, edges, reported>>
      /\ caller' = [caller EXCEPT ![c] = NoLink]
      /\ raced' = (raced /\ ~(l = NoLink /\ \A d \in Checkers \ {c} : ~Inside(d)))
  BY DoneType DEF Done
<1>2. \A d \in Checkers \ {c} : step'[d] = step[d] /\ at'[d] = at[d] /\ caller'[d] = caller[d]
  BY <1>1 DEF BrokenTypeOK
<1>3. ~Inside(c)'
  BY <1>1 DEF Inside, BrokenTypeOK
<1>4. EdgesFirst'
  BY <1>1, <1>2, <1>3 DEF EdgesFirst, Inside
<1>5. ASSUME raced, ~raced' PROVE Undisturbed'
  <2>1. l = NoLink /\ \A d \in Checkers : ~Inside(d)'
    BY <1>1, <1>2, <1>3, <1>5 DEF Inside
  <2> QED
    BY <1>1, <2>1 DEF Undisturbed, BrokenAlone, OnBroken, FieldIsOwned
<1>6. ASSUME ~raced PROVE Undisturbed'
  <2>1. Undisturbed /\ l = NoLink
    BY <1>6
  <2>2. BrokenAlone'
    BY <1>1, <1>2, <1>3, <2>1 DEF Undisturbed, BrokenAlone, OnBroken, Inside
  <2>3. FieldIsOwned'
    BY <1>1, <2>1 DEF FieldIsOwned
  <2>4. ASSUME NEW d \in Checkers, Inside(d)' PROVE Progress(d)'
    <3>1. d # c /\ Inside(d) /\ step'[d] = step[d] /\ at'[d] = at[d] /\ caller'[d] = caller[d]
      BY <1>2, <1>3, <2>4 DEF Inside
    <3>2. Progress(d) /\ last' = last
      BY <1>1, <1>6, <2>1, <3>1 DEF Undisturbed, BrokenAlone
    <3> QED
      BY <1>1, <3>1, <3>2 DEF Progress
  <2> QED
    BY <2>2, <2>3, <2>4 DEF Undisturbed
<1> QED
  BY <1>4, <1>5, <1>6

\* One more step of the plugin, for the crawler that is alone with it.
LEMMA StepQuiet ==
  ASSUME BrokenTypeOK, EdgesFirst, ~raced => Undisturbed,
         NEW c \in Checkers, NEW s \in Steps \ {"idle"}, Inside(c), Goto(c, s),
         UNCHANGED <<at, to, edges, raced>>,
         ~raced => /\ OnBroken(c)
                   /\ last' # NoLink => last'.caller = at[c]
                   /\ Progress(c)'
  PROVE  EdgesFirst' /\ (~raced' => Undisturbed')
<1>1. step' = [step EXCEPT ![c] = s] /\ \A d \in Checkers : Inside(d)' <=> Inside(d)
  BY DEF Goto, Inside, BrokenTypeOK
<1>2. EdgesFirst'
  BY <1>1 DEF EdgesFirst
<1>3. ASSUME ~raced PROVE Undisturbed'
  <2>1. \A d \in Checkers : OnBroken(d)' <=> OnBroken(d)
    BY <1>1 DEF OnBroken
  <2>2. BrokenAlone'
    BY <1>1, <1>3, <2>1 DEF Undisturbed, BrokenAlone
  <2>3. FieldIsOwned'
    BY <1>3, <2>1 DEF FieldIsOwned
  <2>4. \A d \in Checkers : Inside(d)' => Progress(d)'
    BY <1>1, <1>3, <2>1 DEF Undisturbed, BrokenAlone
  <2> QED
    BY <2>2, <2>3, <2>4 DEF Undisturbed
<1> QED
  BY <1>2, <1>3

\* The crawler comes to a page: the edge is added first.
LEMMA FireQuiet ==
  ASSUME BrokenTypeOK, EdgesFirst, ~raced => Undisturbed,
         NEW c \in Checkers, NEW t \in PageStates, FireInto(c, t)
  PROVE  EdgesFirst' /\ (~raced' => Undisturbed')
<1>1. /\ step' = [step EXCEPT ![c] = IF t \in BrokenPages THEN "violation" ELSE "success"]
      /\ to' = [to EXCEPT ![c] = t] /\ edges' = edges \cup {<<at[c], t>>}
      /\ UNCHANGED <<at, caller, last, reported>> /\ ~Inside(c)
      /\ raced' = (raced \/ Meets(c, t))
  BY DEF FireInto, Goto, Inside
<1>2. \A d \in Checkers \ {c} : step'[d] = step[d] /\ to'[d] = to[d]
  BY <1>1 DEF BrokenTypeOK
<1>3. step'[c] = (IF t \in BrokenPages THEN "violation" ELSE "success") /\ to'[c] = t
  BY <1>1 DEF BrokenTypeOK
<1>4. EdgesFirst'
  BY <1>1, <1>2, <1>3 DEF EdgesFirst, Inside
<1>5. ASSUME ~raced' PROVE Undisturbed'
  <2>1. Undisturbed /\ ~Meets(c, t)
    BY <1>1, <1>5
  <2>2. \A d \in Checkers \ {c} : Inside(d) => t \notin BrokenPages /\ to[d] \notin BrokenPages
    BY <2>1 DEF Meets
  <2>3. BrokenAlone'
    BY <1>2, <1>3, <2>1, <2>2 DEF Undisturbed, BrokenAlone, OnBroken, Inside
  <2>4. ASSUME last # NoLink PROVE FieldIsOwned' /\ t \notin BrokenPages
    <3>1. PICK d \in Checkers : OnBroken(d) /\ last.caller = at[d]
      BY <2>1, <2>4 DEF Undisturbed, FieldIsOwned
    <3>2. d # c
      BY <1>1, <3>1 DEF OnBroken
    <3> QED
      BY <2>2, <3>1, <3>2 DEF OnBroken
  <2>5. FieldIsOwned'
    BY <1>1, <2>4 DEF FieldIsOwned
  <2>6. ASSUME NEW d \in Checkers, Inside(d)' PROVE Progress(d)'
    <3>1. CASE d = c
      BY <1>1, <1>3, <2>4, <3>1 DEF Progress
    <3>2. CASE d # c
      BY <1>1, <1>2, <2>1, <2>6, <3>2 DEF Undisturbed, Progress, Inside
    <3> QED
      BY <3>1, <3>2
  <2> QED
    BY <2>3, <2>5, <2>6 DEF Undisturbed
<1> QED
  BY <1>4, <1>5

\* Whoever comes to a broken page has the field, if it is set.
LEMMA OwnField ==
  ASSUME Undisturbed, NEW c \in Checkers, OnBroken(c), last # NoLink
  PROVE  last.caller = at[c]
BY DEF Undisturbed, FieldIsOwned, BrokenAlone, OnBroken

\* onInvariantViolation remembers the caller.
LEMMA ViolationQuiet ==
  ASSUME BrokenTypeOK, EdgesFirst, ~raced => Undisturbed, NEW c \in Checkers,
         CheckFree(c) \/ CompareCaller(c) \/ Remember(c)
  PROVE  EdgesFirst' /\ (~raced' => Undisturbed')
<1>1. Inside(c) /\ UNCHANGED <<at, to, caller, edges, reported, raced>>
      /\ step[c] \in {"violation", "compare", "remember"}
  BY DEF CheckFree, CompareCaller, Remember, Inside
<1>2. PICK s \in Steps \ {"idle"} : Goto(c, s)
  BY DEF CheckFree, CompareCaller, Remember, AfterViolation, Steps
<1>3. step'[c] = s
  BY <1>2 DEF Goto, BrokenTypeOK
<1>4. ASSUME ~raced PROVE OnBroken(c)
  BY <1>1, <1>4 DEF Undisturbed, Progress, OnBroken
<1>5. ASSUME ~raced PROVE (last' # NoLink => last'.caller = at[c]) /\ Progress(c)'
  <2>1. OnBroken(c) /\ Undisturbed /\ Progress(c)
    BY <1>1, <1>4, <1>5 DEF Undisturbed
  <2>2. last # NoLink => last.caller = at[c]
    BY <2>1, OwnField
  <2>3. CASE CheckFree(c)
    BY <1>1, <1>3, <2>1, <2>2, <2>3 DEF CheckFree, IsFree, Goto, BrokenTypeOK, Progress, OnBroken
  <2>4. CASE CompareCaller(c)
    <3>1. last # NoLink /\ last.caller = at[c]
      BY <2>1, <2>2, <2>4 DEF CompareCaller, Progress, OnBroken
    <3>2. step'[c] \in {"violation", "success"} /\ last' = last
      BY <1>3, <2>4, <3>1 DEF CompareCaller, AfterViolation, Goto, BrokenTypeOK
    <3> QED
      BY <1>1, <2>1, <3>1, <3>2 DEF Progress, OnBroken
  <2>5. CASE Remember(c)
    <3>1. step'[c] \in {"violation", "success"} /\ last' = Link(at[c])
      BY <2>5 DEF Remember, AfterViolation, Goto, BrokenTypeOK
    <3>2. last' # NoLink /\ last'.caller = at[c]
      BY <3>1, LinkType, NullAssumption DEF BrokenTypeOK
    <3> QED
      BY <1>1, <2>1, <3>1, <3>2 DEF Progress, OnBroken
  <2> QED
    BY <2>3, <2>4, <2>5
<1>6. ~raced => /\ OnBroken(c)
                /\ last' # NoLink => last'.caller = at[c]
                /\ Progress(c)'
  BY <1>4, <1>5
<1> QED
  BY <1>1, <1>2, <1>6, StepQuiet

\* While it is not disturbed onFireEventSuccess goes on with a broken page, and
\* returns at once for another one.
LEMMA LinkGoesOn ==
  ASSUME BrokenTypeOK, EdgesFirst, Undisturbed, NEW c \in Checkers, Inside(c),
         step[c] \notin {"violation", "compare", "remember"}
  PROVE  /\ OnBroken(c) => last # NoLink /\ last.caller = at[c]
         /\ ~OnBroken(c) => last = NoLink /\ step[c] = "success"
         /\ step[c] \in {"complete", "xpath", "build", "clear"} =>
              OnBroken(c) /\ XpathOf(c) = <<at[c], to[c]>> /\ XpathOf(c) # NoLink
<1>1. Progress(c)
  BY DEF Undisturbed
<1>2. OnBroken(c) => last # NoLink /\ last.caller = at[c]
  BY <1>1 DEF Progress, OnBroken
<1>3. ~OnBroken(c) => last = NoLink /\ step[c] = "success"
  BY <1>1, FieldIsFree DEF Progress, OnBroken
<1>4. ASSUME step[c] \in {"complete", "xpath", "build", "clear"}
      PROVE  OnBroken(c) /\ XpathOf(c) = <<at[c], to[c]>> /\ XpathOf(c) # NoLink
  <2>1. OnBroken(c) /\ caller[c] = at[c]
    BY <1>1, <1>3, <1>4 DEF Progress, OnBroken
  <2>2. <<at[c], to[c]>> \in edges /\ <<at[c], to[c]>> \in LeadsTo
    BY DEF EdgesFirst, BrokenTypeOK
  <2> QED
    BY <2>1, <2>2, NullAssumption DEF XpathOf
<1> QED
  BY <1>2, <1>3, <1>4

\* onFireEventSuccess completes the link, reports it and clears the field.
LEMMA SuccessQuiet ==
  ASSUME BrokenTypeOK, EdgesFirst, ~raced => Undisturbed, NEW c \in Checkers,
         \/ CheckLast(c) \/ CheckSource(c) \/ FindEventable(c)
         \/ SetBroken(c) \/ SetXpath(c) \/ PutIfAbsent(c)
  PROVE  EdgesFirst' /\ (~raced' => Undisturbed')
<1>1. Inside(c) /\ UNCHANGED <<to, edges>> /\ step[c] \notin {"violation", "compare", "remember", "clear"}
  BY DEF CheckLast, CheckSource, FindEventable, SetBroken, SetXpath, PutIfAbsent, Inside
<1>2. ~raced => /\ OnBroken(c) => last # NoLink /\ last.caller = at[c]
                /\ ~OnBroken(c) => last = NoLink /\ step[c] = "success"
                /\ step[c] \in {"complete", "xpath", "build", "clear"} =>
                     OnBroken(c) /\ XpathOf(c) = <<at[c], to[c]>> /\ XpathOf(c) # NoLink
                /\ Progress(c)
  BY <1>1, LinkGoesOn DEF Undisturbed
<1>3. CASE Done(c, last) /\ UNCHANGED reported
  <2>1. ASSUME ~raced PROVE last = NoLink
    <3> SUFFICES ASSUME OnBroken(c), last # NoLink PROVE FALSE
      BY <1>2, <2>1
    <3>1. step'[c] = "idle"
      BY <1>3 DEF Done, Goto, BrokenTypeOK
    <3>2. last.caller = at[c] /\ Progress(c) /\ to[c] # NoLink
      BY <1>2, <2>1, NullAssumption DEF BrokenTypeOK
    <3>3. step[c] = "build" => last.broken # NoLink /\ XpathOf(c) # NoLink
      BY <1>2, <2>1, <3>2 DEF Progress, OnBroken
    <3> QED
      BY <3>1, <3>2, <3>3 DEF CheckLast, CheckSource, FindEventable, SetBroken, SetXpath, PutIfAbsent,
         Goto, BrokenTypeOK
  <2>2. last \in LinkSet \cup {NoLink}
    BY DEF BrokenTypeOK
  <2> QED
    BY <1>1, <1>3, <2>1, <2>2, DoneQuiet
<1>4. CASE UNCHANGED <<at, raced>> /\ \E s \in Steps \ {"idle"} : Goto(c, s)
  <2>1. PICK s \in Steps \ {"idle"} : Goto(c, s)
    BY <1>4
  <2>2. step'[c] = s
    BY <2>1 DEF Goto, BrokenTypeOK
  <2>3. ASSUME ~raced PROVE OnBroken(c) /\ (last' # NoLink => last'.caller = at[c]) /\ Progress(c)'
    <3>1. OnBroken(c)
      <4> SUFFICES ASSUME ~OnBroken(c) PROVE FALSE
        OBVIOUS
      <4>1. last = NoLink /\ step[c] = "success"
        BY <1>2, <2>3
      <4>2. step'[c] = "idle"
        BY <4>1 DEF CheckLast, CheckSource, FindEventable, SetBroken, SetXpath, PutIfAbsent,
           Done, Goto, BrokenTypeOK
      <4> QED
        BY <2>2, <4>2
    <3>2. last # NoLink /\ last.caller = at[c] /\ last \in LinkSet /\ Progress(c)
      BY <1>2, <2>3, <3>1 DEF BrokenTypeOK
    <3>3. CASE CheckLast(c) \/ CheckSource(c)
      BY <1>1, <1>4, <2>2, <3>1, <3>2, <3>3
         DEF CheckLast, CheckSource, Goto, BrokenTypeOK, Progress, OnBroken
    <3>4. CASE FindEventable(c)
      <4>1. s = "complete" /\ caller'[c] = at[c] /\ last' = last
        BY <2>2, <3>2, <3>4 DEF FindEventable, Goto, BrokenTypeOK
      <4> QED
        BY <1>1, <1>4, <2>2, <3>1, <3>2, <4>1 DEF Progress, OnBroken
    <3>5. CASE SetBroken(c)
      <4>1. /\ s = "xpath" /\ caller' = caller /\ last'.caller = last.caller
            /\ last'.broken = to[c] /\ caller[c] = at[c]
        BY <2>2, <3>1, <3>2, <3>5 DEF SetBroken, Goto, BrokenTypeOK, LinkSet, Progress, OnBroken
      <4>2. last' # NoLink
        <5>1. last' \in LinkSet
          BY <3>2, <3>5 DEF SetBroken, LinkSet, BrokenTypeOK
        <5> QED
          BY <5>1, NullAssumption
      <4> QED
        BY <1>1, <1>4, <2>2, <3>1, <3>2, <4>1, <4>2 DEF Progress, OnBroken
    <3>6. CASE SetXpath(c)
      <4>1. /\ s = "build" /\ caller' = caller /\ last'.caller = last.caller
            /\ last'.broken = to[c] /\ caller[c] = at[c] /\ last'.xpath = <<at[c], to[c]>>
        BY <1>2, <2>2, <2>3, <3>1, <3>2, <3>6
           DEF SetXpath, Goto, BrokenTypeOK, LinkSet, Progress, OnBroken
      <4>2. last' # NoLink
        <5>1. XpathOf(c) \in LeadsTo \cup {NoLink}
          BY DEF XpathOf, BrokenTypeOK
        <5>2. last' \in LinkSet
          BY <3>2, <3>6, <5>1 DEF SetXpath, LinkSet
        <5> QED
          BY <5>2, NullAssumption
      <4> QED
        BY <1>1, <1>4, <2>2, <3>1, <3>2, <4>1, <4>2 DEF Progress, OnBroken
    <3>7. CASE PutIfAbsent(c)
      <4>0. step'[c] # "idle" /\ step[c] = "build"
        BY <2>2, <3>7 DEF PutIfAbsent
      <4>1. /\ s = "clear" /\ UNCHANGED <<caller, last>> /\ caller[c] = at[c]
            /\ last.broken = to[c] /\ last.xpath = <<at[c], to[c]>>
        <5>1. caller[c] = at[c] /\ last.broken = to[c] /\ last.xpath = <<at[c], to[c]>>
          BY <3>1, <3>2, <4>0 DEF Progress, OnBroken
        <5>2. s = "clear" /\ UNCHANGED <<caller, last>>
          BY <2>2, <3>7, <4>0 DEF PutIfAbsent, Done, Goto, BrokenTypeOK
        <5> QED
          BY <5>1, <5>2
      <4>2. reported'[to[c]] # NoLink
        <5>0. [link |-> last, quiet |-> ~raced] \in RowSet
          BY <3>2 DEF RowSet
        <5>1. [link |-> last, quiet |-> ~raced] # NoLink
          BY <5>0, NullAssumption
        <5>2. to[c] \in PageStates
          BY DEF BrokenTypeOK
        <5> QED
          BY <1>4, <2>2, <3>7, <4>1, <5>1, <5>2 DEF PutIfAbsent, Done, Goto, BrokenTypeOK
      <4> QED
        BY <1>1, <1>4, <2>2, <3>1, <3>2, <4>1, <4>2 DEF Progress, OnBroken
    <3> QED
      BY <3>3, <3>4, <3>5, <3>6, <3>7
  <2> QED
    BY <1>1, <1>4, <2>1, <2>3, StepQuiet
<1> QED
  BY <1>3, <1>4 DEF CheckLast, CheckSource, FindEventable, SetBroken, SetXpath, PutIfAbsent, Steps

\* Clear returns with an empty field.
LEMMA ClearQuiet ==
  ASSUME BrokenTypeOK, EdgesFirst, ~raced => Undisturbed, NEW c \in Checkers, Clear(c)
  PROVE  EdgesFirst' /\ (~raced' => Undisturbed')
<1>1. Inside(c) /\ Done(c, NoLink) /\ UNCHANGED <<to, edges, reported>> /\ step[c] = "clear"
  BY DEF Clear, Cleared, Inside
<1>2. ~raced => OnBroken(c)
  BY <1>1, LinkGoesOn
<1> QED
  BY <1>1, <1>2, DoneQuiet

\* A new row is one of the field as it is.
LEMMA ReportsKept ==
  ASSUME BrokenTypeOK, EdgesFirst, ~raced => Undisturbed, QuietReportsAreTrue,
         NEW c \in Checkers, PutIfAbsent(c)
  PROVE  QuietReportsAreTrue'
<1>1. edges' = edges /\ step[c] = "build" /\ Inside(c)
  BY DEF PutIfAbsent, Inside
<1>2. CASE UNCHANGED reported
  BY <1>1, <1>2 DEF QuietReportsAreTrue
<1>3. CASE /\ last # NoLink /\ last.broken # NoLink
           /\ reported' = [reported EXCEPT ![last.broken] = [link |-> last, quiet |-> ~raced]]
  <2> DEFINE entry == [link |-> last, quiet |-> ~raced]
  <2>1. last.broken \in PageStates /\ entry.link = last /\ entry.quiet = ~raced
    BY <1>3 DEF BrokenTypeOK, LinkSet
  <2>2. ASSUME ~raced
        PROVE  /\ last.broken \in BrokenPages
               /\ last.xpath = <<last.caller, last.broken>> /\ last.xpath \in edges
    <3>1. OnBroken(c) /\ last.caller = at[c] /\ Progress(c)
      BY <1>1, <2>2, LinkGoesOn DEF Undisturbed
    <3> QED
      BY <1>1, <3>1 DEF Progress, OnBroken, EdgesFirst
  <2>3. reported' = [reported EXCEPT ![last.broken] = entry]
    BY <1>3
  <2> HIDE DEF entry
  <2>4. ASSUME NEW t \in PageStates, reported'[t] # NoLink, reported'[t].quiet
        PROVE  /\ t \in BrokenPages
               /\ reported'[t].link.xpath = <<reported'[t].link.caller, t>>
               /\ reported'[t].link.xpath \in edges'
    <3>1. CASE t = last.broken
      <4>1. reported'[t] = entry
        BY <2>3, <3>1 DEF BrokenTypeOK
      <4>2. ~raced
        BY <2>1, <2>4, <4>1
      <4> QED
        BY <1>1, <2>1, <2>2, <3>1, <4>1, <4>2
    <3>2. CASE t # last.broken
      <4>1. reported'[t] = reported[t]
        BY <2>3, <3>2 DEF BrokenTypeOK
      <4> QED
        BY <1>1, <2>4, <4>1 DEF QuietReportsAreTrue
    <3> QED
      BY <3>1, <3>2
  <2> QED
    BY <2>4 DEF QuietReportsAreTrue
<1> QED
  BY <1>2, <1>3 DEF PutIfAbsent

\* BrokenInv is inductive.
LEMMA NextBroken ==
  ASSUME BrokenInv, [BrokenNext]_brokenVars
  PROVE  BrokenInv'
<1>1. BrokenTypeOK'
  BY NextBrokenType DEF BrokenInv
<1>2. BrokenTypeOK /\ EdgesFirst /\ (~raced => Undisturbed) /\ QuietReportsAreTrue
  BY DEF BrokenInv
<1>3. CASE UNCHANGED brokenVars
  BY <1>1, <1>2, <1>3 DEF brokenVars, BrokenInv, EdgesFirst, Undisturbed, BrokenAlone, OnBroken,
     FieldIsOwned, Progress, Inside, QuietReportsAreTrue
<1>4. ASSUME NEW c \in Checkers, Restart(c) PROVE BrokenInv'
  <2>1. /\ UNCHANGED <<step, caller, edges, last, reported, raced>> /\ ~Inside(c)
        /\ \A d \in Checkers : Inside(d) => at'[d] = at[d] /\ to'[d] = to[d]
    BY <1>2, <1>4 DEF Restart, Inside, BrokenTypeOK
  <2>2. EdgesFirst'
    BY <1>2, <2>1 DEF EdgesFirst, Inside
  <2>3. ASSUME ~raced PROVE Undisturbed'
    <3>1. Undisturbed
      BY <1>2, <2>3
    <3>2. \A d \in Checkers : OnBroken(d)' <=> OnBroken(d)
      BY <2>1 DEF OnBroken, Inside
    <3>3. BrokenAlone' /\ FieldIsOwned'
      BY <2>1, <3>1, <3>2 DEF Undisturbed, BrokenAlone, FieldIsOwned, OnBroken, Inside
    <3>4. \A d \in Checkers : Inside(d)' => Progress(d)'
      BY <2>1, <3>1 DEF Undisturbed, Progress, Inside
    <3> QED
      BY <3>3, <3>4 DEF Undisturbed
  <2> QED
    BY <1>1, <1>2, <2>1, <2>2, <2>3 DEF BrokenInv, QuietReportsAreTrue
<1>5. ASSUME NEW c \in Checkers, NEW t \in PageStates, FireInto(c, t) PROVE BrokenInv'
  <2>1. QuietReportsAreTrue'
    BY <1>2, <1>5 DEF FireInto, QuietReportsAreTrue
  <2> QED
    BY <1>1, <1>2, <1>5, <2>1, FireQuiet DEF BrokenInv
<1>6. ASSUME NEW c \in Checkers, CheckerStep(c) PROVE BrokenInv'
  <2>1. EdgesFirst' /\ (~raced' => Undisturbed')
    BY <1>2, <1>6, ViolationQuiet, SuccessQuiet, ClearQuiet DEF CheckerStep
  <2>2. CASE PutIfAbsent(c)
    BY <1>1, <1>2, <2>1, <2>2, ReportsKept DEF BrokenInv
  <2>3. CASE UNCHANGED <<edges, reported>>
    BY <1>1, <1>2, <2>1, <2>3 DEF BrokenInv, QuietReportsAreTrue
  <2> QED
    BY <1>6, <2>2, <2>3 DEF CheckerStep, CheckFree, CompareCaller, Remember, CheckLast, CheckSource,
       FindEventable, SetBroken, SetXpath, Clear
<1> QED
  BY <1>3, <1>4, <1>5, <1>6 DEF BrokenNext

\* At first nobody is in the plugin, and the field is empty.
LEMMA InitBroken == BrokenInit => BrokenInv
BY CheckerAssumption DEF BrokenInit, BrokenInv, BrokenTypeOK, Steps, EdgesFirst, Undisturbed,
   BrokenAlone, FieldIsOwned, Inside, OnBroken, QuietReportsAreTrue

\* A crawler that leaves the plugin undisturbed has reported its broken page.
LEMMA LeavesReported ==
  ASSUME BrokenInv, [BrokenNext]_brokenVars, NEW c \in Checkers,
         Inside(c), step'[c] = "idle", to[c] \in BrokenPages, ~raced
  PROVE  reported'[to[c]] # NoLink
<1>1. BrokenTypeOK /\ EdgesFirst /\ Undisturbed /\ OnBroken(c)
  BY DEF BrokenInv, OnBroken
<1>2. PICK d \in Checkers : \/ Restart(d)
                            \/ \E t \in PageStates : FireInto(d, t)
                            \/ CheckerStep(d)
  BY DEF BrokenNext, brokenVars, Inside
<1>3. d = c /\ CheckerStep(c)
  <2>1. Inside(d)
    <3>1. CheckerStep(d) => Inside(d)
      BY DEF CheckerStep, CheckFree, CompareCaller, Remember, CheckLast, CheckSource,
         FindEventable, SetBroken, SetXpath, PutIfAbsent, Clear, Inside
    <3> QED
      BY <1>1, <1>2, <3>1 DEF Restart, FireInto, Goto, Inside, BrokenTypeOK
  <2>2. d = c
    BY <1>1, <2>1 DEF Undisturbed, BrokenAlone
  <2> QED
    BY <1>2, <2>1, <2>2 DEF Restart, FireInto, Inside
<1>4. CASE step[c] \in {"violation", "compare", "remember"}
  BY <1>1, <1>3, <1>4 DEF CheckerStep, CheckFree, CompareCaller, Remember, CheckLast, CheckSource,
     FindEventable, SetBroken, SetXpath, PutIfAbsent, Clear, AfterViolation, Goto, BrokenTypeOK
<1>5. CASE step[c] \notin {"violation", "compare", "remember"}
  <2>1. /\ last # NoLink /\ last.caller = at[c] /\ Progress(c)
        /\ step[c] = "build" => last.broken # NoLink /\ XpathOf(c) # NoLink
    <3>1. last # NoLink /\ last.caller = at[c] /\ Progress(c)
      BY <1>1, <1>5, LinkGoesOn DEF Undisturbed
    <3>2. step[c] = "build" => XpathOf(c) # NoLink
      BY <1>1, <1>5, LinkGoesOn
    <3>3. to[c] # NoLink
      BY <1>1, NullAssumption DEF BrokenTypeOK
    <3> QED
      BY <1>1, <3>1, <3>2, <3>3 DEF Progress, OnBroken
  <2>2. step[c] = "clear" /\ Clear(c)
    BY <1>1, <1>3, <1>5, <2>1 DEF CheckerStep, CheckFree, CompareCaller, Remember, CheckLast,
       CheckSource, FindEventable, SetBroken, SetXpath, PutIfAbsent, Clear, Goto, BrokenTypeOK
  <2> QED
    BY <1>1, <2>1, <2>2 DEF Clear, Progress, OnBroken
<1> QED
  BY <1>4, <1>5

\* What is reported without another crawler in between names a broken page and an
\* edge that leads to it, for every site and number of crawlers.
THEOREM QuietReportsHold == BrokenSpec => []QuietReportsAreTrue
<1>1. BrokenInv => QuietReportsAreTrue
  BY DEF BrokenInv
<1>2. BrokenInv /\ [BrokenNext]_brokenVars => BrokenInv'
  BY NextBroken
<1> QED
  BY InitBroken, <1>1, <1>2, PTL DEF BrokenSpec

\* A broken page a crawler has come to without another one in between is reported.
THEOREM QuietLinksReported == BrokenSpec => QuietLinksAreReported
<1>1. BrokenInv /\ [BrokenNext]_brokenVars => BrokenInv'
  BY NextBroken
<1>2. BrokenInv /\ [BrokenNext]_brokenVars =>
        [ \A c \in Checkers :
            /\ Inside(c) /\ step'[c] = "idle"
            /\ to[c] \in BrokenPages
            /\ ~raced
            => reported'[to[c]] # NoLink ]_brokenVars
  BY LeavesReported
<1> QED
  BY InitBroken, <1>1, <1>2, PTL DEF BrokenSpec, QuietLinksAreReported

\* BrokenTypeOK holds of every crawl.
THEOREM CheckerTypeCorrect == BrokenSpec => []BrokenTypeOK
<1>1. BrokenInv => BrokenTypeOK
  BY DEF BrokenInv
<1>2. BrokenInv /\ [BrokenNext]_brokenVars => BrokenInv'
  BY NextBroken
<1> QED
  BY InitBroken, <1>1, <1>2, PTL DEF BrokenSpec

-----------------------------------------------------------------------------
(***************************************************************************)
(* The plugin store: the inductive invariant.                              *)
(***************************************************************************)
\* The thread works on the files of this plugin.
Worker(t, i)  == Busy(t) /\ purpose[t] # "refresh" /\ id[t] = i
Adder(t, i)   == Worker(t, i) /\ purpose[t] \in {"file", "url"}
IsRefreshing  == \E t \in Requests : Busy(t) /\ purpose[t] = "refresh"

\* What a thread does fits the request it has.
OnPurpose ==
  \A t \in Requests :
    /\ doing[t] = "save" => purpose[t] \in {"file", "url"}
    /\ doing[t] \in {"load", "read", "put"} => purpose[t] \in {"file", "url", "crawl"}
    /\ doing[t] = "delete" => purpose[t] \in {"file", "url", "remove"}
    /\ doing[t] = "forget" => purpose[t] = "remove"
    /\ doing[t] = "loadAll" => purpose[t] = "refresh"
    /\ Busy(t) /\ purpose[t] \in {"file", "url"} => upload[t] # NoFile

\* Only ids below the number of plugins added are in use.
InUse ==
  /\ \A i \in PluginIds : i \in pluginList \/ Has(i) \/ locator[i] # NoFile => i < added
  /\ \A t \in Requests, i \in PluginIds : Worker(t, i) => i < added

\* A jar or a locator that cannot be used is on its way out, even where two
\* threads wrote to it.
LeavesJunk(i) ==
  /\ jar[i] \notin GoodJars \cup {NoFile} =>
       locator[i] # NoFile \/ \E t \in Requests : Adder(t, i) /\ doing[t] \in {"load", "read", "delete"}
  /\ locator[i] \notin GoodJars \cup {NoFile} =>
       \/ \E t \in Requests : Adder(t, i) /\ doing[t] = "load"
       \/ /\ jar[i] \notin GoodJars
          /\ \E t \in Requests : Adder(t, i) /\ doing[t] \in {"read", "delete"}

JunkIsLeaving == \A i \in PluginIds : LeavesJunk(i)

\* The files of a plugin nobody works on: none, or a jar that can be loaded.
Nowhere(i) == jar[i] = NoFile /\ locator[i] = NoFile
Intact(i)  == Readable(i) /\ locator[i] \in {NoFile, jar[i]}

\* The files of a plugin somebody works on.
WorkOK(t, i) ==
  /\ purpose[t] = "file" =>
       /\ i \notin pluginList
       /\ doing[t] = "save" => Nowhere(i)
       /\ doing[t] \in {"load", "read", "put"} => jar[i] = upload[t] /\ locator[i] = NoFile
       /\ doing[t] = "put" => Readable(i)
  /\ purpose[t] = "url" =>
       /\ i \notin pluginList
       /\ doing[t] = "save" => Nowhere(i)
       /\ doing[t] = "load" => jar[i] = NoFile /\ locator[i] = upload[t]
       /\ doing[t] \in {"read", "put"} => jar[i] \in {upload[t], NoBytes} /\ locator[i] = upload[t]
       /\ doing[t] = "put" => Readable(i)
  /\ purpose[t] = "remove" =>
       /\ doing[t] = "delete" => i \in pluginList /\ Intact(i)
       /\ doing[t] = "forget" => Nowhere(i)
  /\ purpose[t] = "crawl" => i \in pluginList /\ Intact(i)

\* A plugin that no two threads worked on.
Apart(i) ==
  /\ \A t, r \in Requests : Worker(t, i) /\ Worker(r, i) => t = r
  /\ \A t \in Requests : Worker(t, i) => ~IsRefreshing /\ WorkOK(t, i)
  /\ (\A t \in Requests : ~Worker(t, i)) =>
       /\ Nowhere(i) \/ Intact(i)
       /\ i \in pluginList => Readable(i)
       /\ Readable(i) /\ ~IsRefreshing => i \in pluginList

SafeIdsApart == \A i \in PluginIds \ unsafe : Apart(i)

StoreInv == StoreTypeOK /\ OnPurpose /\ InUse /\ JunkIsLeaving /\ SafeIdsApart

USE DEF storeFiles, thread

\* The least of a set of natural numbers is in the set.
LEMMA LeastNat ==
  ASSUME NEW S, S \subseteq Nat, S # {}
  PROVE  Min(S) \in S /\ \A n \in S : Min(S) <= n
<1> DEFINE R == OpToRel(<, Nat)
<1>1. IsWellFoundedOn(R, Nat)
  BY NatLessThanWellFounded
<1>2. R = {ss \in Nat \X Nat : ss[1] < ss[2]}
  BY DEF OpToRel
<1> HIDE DEF R
<1>3. PICK x \in S : \A y \in S : <<y, x>> \notin R
  BY <1>1, WFMin
<1>4. ASSUME NEW y \in S PROVE x <= y
  <2>1. x \in Nat /\ y \in Nat
    OBVIOUS
  <2>2. ~(y < x)
    BY <1>2, <1>3, <2>1
  <2> QED
    BY <2>1, <2>2
<1>5. \E z \in S : \A y \in S : z =< y
  BY <1>3, <1>4
<1> QED
  BY <1>5 DEF Min

\* The id of a new plugin is not listed; there is one as long as a plugin may be
\* added.
LEMMA FreshIdType ==
  ASSUME StoreTypeOK, InUse, added < MaxJars
  PROVE  FreshId \in PluginIds \ pluginList /\ FreshId <= added
<1> DEFINE S == PluginIds \ pluginList
<1>1. added \in S
  BY StoreAssumption DEF StoreTypeOK, InUse, PluginIds
<1>2. S \subseteq Nat
  BY StoreAssumption DEF PluginIds
<1> HIDE DEF S
<1>3. Min(S) \in S /\ \A n \in S : Min(S) <= n
  BY <1>1, <1>2, LeastNat
<1> QED
  BY <1>1, <1>3 DEF S, FreshId

\* What a thread can do.
Doings == {"nothing", "save", "load", "read", "put", "delete", "forget", "loadAll"}

\* A thread that takes a request was idle.
LEMMA BeginType ==
  ASSUME StoreTypeOK, NEW t \in Requests, NEW what \in Doings,
         NEW p \in {"file", "url", "remove", "crawl"}, NEW i \in PluginIds, NEW n \in 0 .. MaxJars,
         Begin(t, what, p, i, n)
  PROVE  /\ ~Busy(t) /\ doing' = [doing EXCEPT ![t] = what] /\ doing' \in [Requests -> Doings]
         /\ purpose' = [purpose EXCEPT ![t] = p]
         /\ purpose' \in [Requests -> {"file", "url", "remove", "refresh", "crawl"}]
         /\ id' = [id EXCEPT ![t] = i] /\ id' \in [Requests -> PluginIds]
         /\ upload' = [upload EXCEPT ![t] = n] /\ upload' \in [Requests -> 0 .. MaxJars]
         /\ unsafe \subseteq unsafe' /\ unsafe' \subseteq PluginIds
BY DEF StoreTypeOK, Begin, GoOn, Doings

\* A refresh loads every locator, or fails for some of them.
LEMMA LoadAllType ==
  ASSUME StoreTypeOK, NEW t \in Requests, LoadAll(t)
  PROVE  /\ StoreTypeOK'
         /\ doing[t] = "loadAll" /\ doing' = [doing EXCEPT ![t] = "nothing"]
         /\ \E out \in SUBSET {i \in PluginIds : locator[i] # NoFile} :
              /\ \A i \in PluginIds : jar'[i] = IF i \in out THEN NoBytes
                                                ELSE IF locator[i] # NoFile THEN locator[i]
                                                ELSE jar[i]
              /\ unsafe' = IF pluginList = {} /\ \A r \in Requests \ {t} : ~Busy(r)
                             THEN out ELSE unsafe \cup out
         /\ pluginList' = pluginList \cup {i \in PluginIds : jar'[i] \in GoodJars}
         /\ UNCHANGED <<locator, purpose, id, upload, added>>
<1>1. PICK out \in SUBSET {i \in PluginIds : locator[i] # NoFile} :
       /\ outages + Cardinality(out) <= MaxOutages
       /\ outages' = outages + Cardinality(out)
       /\ jar' = [i \in PluginIds |-> IF i \in out THEN NoBytes
                                      ELSE IF locator[i] # NoFile THEN locator[i]
                                      ELSE jar[i]]
       /\ unsafe' = IF pluginList = {} /\ \A r \in Requests \ {t} : ~Busy(r)
                      THEN out ELSE unsafe \cup out
  BY DEF LoadAll
<1>2. Cardinality(out) \in Nat
  <2>1. IsFiniteSet(PluginIds)
    BY FS_Interval, StoreAssumption DEF PluginIds
  <2>2. out \in SUBSET PluginIds
    OBVIOUS
  <2> QED
    BY <2>1, <2>2, FS_Subset, FS_CardinalityType
<1>3. outages' \in 0 .. MaxOutages
  BY <1>1, <1>2, StoreAssumption DEF StoreTypeOK
<1>4. jar' \in [PluginIds -> NoBytes .. MaxJars]
  BY <1>1, StoreAssumption DEF StoreTypeOK, NoBytes, NoFile
<1>5. unsafe' \subseteq PluginIds
  BY <1>1 DEF StoreTypeOK
<1> QED
  BY <1>1, <1>3, <1>4, <1>5 DEF StoreTypeOK, LoadAll, GoOn

\* StoreTypeOK is inductive.
LEMMA NextStoreType ==
  ASSUME StoreTypeOK, InUse, [StoreNext]_storeVars
  PROVE  StoreTypeOK'
<1>1. CASE UNCHANGED storeVars
  BY <1>1 DEF storeVars, StoreTypeOK
<1>2. ASSUME NEW t \in Requests, NEW p \in {"file", "url"}, AddPlugin(t, p) PROVE StoreTypeOK'
  <2>1. /\ FreshId \in PluginIds /\ added + 1 \in 0 .. MaxJars /\ added' = added + 1
        /\ Begin(t, "save", p, FreshId, added + 1) /\ UNCHANGED <<pluginList, storeFiles, outages>>
    BY <1>2, FreshIdType, StoreAssumption DEF AddPlugin, StoreTypeOK
  <2> QED
    BY <2>1, BeginType DEF StoreTypeOK, Doings
<1>3. ASSUME NEW t \in Requests, NEW i \in PluginIds, Remove(t, i) \/ StartCrawl(t, i)
      PROVE  StoreTypeOK'
  <2>1. PICK what \in {"delete", "load"}, p \in {"remove", "crawl"} : Begin(t, what, p, i, NoFile)
    BY <1>3 DEF Remove, StartCrawl
  <2>2. UNCHANGED <<pluginList, storeFiles, added, outages>> /\ NoFile \in 0 .. MaxJars
    BY <1>3, StoreAssumption DEF Remove, StartCrawl, NoFile
  <2> QED
    BY <2>1, <2>2, BeginType DEF StoreTypeOK, Doings
<1>4. ASSUME NEW t \in Requests,
             WriteFile(t) \/ ReadJar(t) \/ PutPlugin(t) \/ DeleteFiles(t) \/ Forget(t)
      PROVE  StoreTypeOK'
  BY <1>4, StoreAssumption
     DEF StoreTypeOK, WriteFile, ReadJar, AfterReading, PutPlugin, DeleteFiles, Forget, GoOn,
         NoFile, NoBytes
<1>5. ASSUME NEW t \in Requests, Download(t) PROVE StoreTypeOK'
  <2>1. outages' \in 0 .. MaxOutages /\ unsafe' \subseteq PluginIds
    BY <1>5, StoreAssumption DEF StoreTypeOK, Download
  <2>2. jar' \in [PluginIds -> NoBytes .. MaxJars]
    BY <1>5, StoreAssumption DEF StoreTypeOK, Download, NoFile, NoBytes
  <2> QED
    BY <1>5, <2>1, <2>2 DEF StoreTypeOK, Download, GoOn
<1>6. ASSUME NEW t \in Requests, Refresh(t) PROVE StoreTypeOK'
  BY <1>6 DEF StoreTypeOK, Refresh, GoOn
<1> QED
  BY <1>1, <1>2, <1>3, <1>4, <1>5, <1>6, LoadAllType DEF StoreNext

-----------------------------------------------------------------------------
(***************************************************************************)
(* Requests and ids.                                                       *)
(***************************************************************************)
\* A request begins with the first thing it does.
LEMMA BeginPurpose ==
  ASSUME StoreTypeOK, OnPurpose, NEW t \in Requests, NEW what \in Doings,
         NEW p \in {"file", "url", "remove", "crawl"}, NEW i \in PluginIds, NEW n \in 0 .. MaxJars,
         Begin(t, what, p, i, n),
         \/ what = "save" /\ p \in {"file", "url"} /\ n # NoFile
         \/ what = "delete" /\ p = "remove"
         \/ what = "load" /\ p = "crawl"
  PROVE  OnPurpose'
<1>1. /\ doing' = [doing EXCEPT ![t] = what] /\ purpose' = [purpose EXCEPT ![t] = p]
      /\ upload' = [upload EXCEPT ![t] = n]
  BY BeginType
<1>2. doing'[t] = what /\ purpose'[t] = p /\ upload'[t] = n
  BY <1>1 DEF StoreTypeOK
<1>3. \A r \in Requests \ {t} : doing'[r] = doing[r] /\ purpose'[r] = purpose[r] /\ upload'[r] = upload[r]
  BY <1>1 DEF StoreTypeOK
<1> QED
  BY <1>2, <1>3 DEF OnPurpose, Busy

\* OnPurpose is inductive.
LEMMA NextPurpose ==
  ASSUME StoreTypeOK, InUse, OnPurpose, [StoreNext]_storeVars
  PROVE  OnPurpose'
<1>1. CASE UNCHANGED storeVars
  BY <1>1 DEF storeVars, OnPurpose, Busy
<1>2. ASSUME NEW t \in Requests, NEW p \in {"file", "url"}, AddPlugin(t, p) PROVE OnPurpose'
  <2>1. /\ FreshId \in PluginIds /\ added + 1 \in 0 .. MaxJars /\ added + 1 # NoFile
        /\ Begin(t, "save", p, FreshId, added + 1)
    BY <1>2, FreshIdType, StoreAssumption DEF AddPlugin, StoreTypeOK, NoFile
  <2> QED
    BY <2>1, BeginPurpose DEF Doings
<1>3. ASSUME NEW t \in Requests, NEW i \in PluginIds, Remove(t, i) \/ StartCrawl(t, i)
      PROVE  OnPurpose'
  <2>1. NoFile \in 0 .. MaxJars
    BY StoreAssumption DEF NoFile
  <2> QED
    BY <1>3, <2>1, BeginPurpose DEF Remove, StartCrawl, Doings
<1>4. ASSUME NEW t \in Requests,
             \/ WriteFile(t) \/ ReadJar(t) \/ PutPlugin(t) \/ DeleteFiles(t) \/ Forget(t)
             \/ Download(t) \/ LoadAll(t)
      PROVE  OnPurpose'
  BY <1>4 DEF StoreTypeOK, OnPurpose, WriteFile, Download, ReadJar, AfterReading, PutPlugin,
              DeleteFiles, Forget, LoadAll, GoOn, Busy
<1>5. ASSUME NEW t \in Requests, Refresh(t) PROVE OnPurpose'
  BY <1>5 DEF StoreTypeOK, OnPurpose, Refresh, GoOn, Busy
<1> QED
  BY <1>1, <1>2, <1>3, <1>4, <1>5 DEF StoreNext

\* A request is for an id that is in use, or is now.
LEMMA BeginInUse ==
  ASSUME StoreTypeOK, InUse, NEW t \in Requests, NEW what \in Doings,
         NEW p \in {"file", "url", "remove", "crawl"}, NEW i \in PluginIds, NEW n \in 0 .. MaxJars,
         Begin(t, what, p, i, n), UNCHANGED <<pluginList, storeFiles>>,
         added' \in Nat, added <= added', i < added'
  PROVE  InUse'
<1>1. /\ doing' = [doing EXCEPT ![t] = what] /\ purpose' = [purpose EXCEPT ![t] = p]
      /\ id' = [id EXCEPT ![t] = i]
  BY BeginType
<1>2. added \in Nat /\ \A j \in PluginIds : j \in Nat
  BY StoreAssumption DEF StoreTypeOK, PluginIds
<1>3. \A j \in PluginIds : (j \in pluginList \/ Has(j) \/ locator[j] # NoFile)' => j < added'
  BY <1>2 DEF InUse, Has
<1>4. ASSUME NEW r \in Requests, NEW j \in PluginIds, Worker(r, j)' PROVE j < added'
  <2>1. CASE r = t
    BY <1>1, <1>4, <2>1 DEF Worker, StoreTypeOK
  <2>2. CASE r # t
    BY <1>1, <1>2, <1>4, <2>2 DEF InUse, Worker, Busy, StoreTypeOK
  <2> QED
    BY <2>1, <2>2
<1> QED
  BY <1>3, <1>4 DEF InUse

\* A thread that goes on with its request only works on its id.
LEMMA GoesOnInUse ==
  ASSUME StoreTypeOK, InUse, NEW t \in Requests, NEW w \in Doings, GoOn(t, w), Busy(t),
         purpose[t] # "refresh", UNCHANGED <<thread, added>>,
         \A i \in PluginIds \ {id[t]} :
           /\ i \in pluginList' => i \in pluginList
           /\ UNCHANGED <<jar[i], locator[i]>>
  PROVE  InUse'
<1>1. \A r \in Requests, i \in PluginIds : Worker(r, i)' => Worker(r, i)
  BY DEF Worker, Busy, GoOn, StoreTypeOK
<1>2. id[t] \in PluginIds /\ Worker(t, id[t])
  BY DEF Worker, StoreTypeOK
<1>3. \A i \in PluginIds : (i \in pluginList \/ Has(i) \/ locator[i] # NoFile)' => i < added
  BY <1>2 DEF InUse, Has
<1> QED
  BY <1>1, <1>3 DEF InUse

\* What the actions of a thread change, for the id of its request.
LEMMA WorkerStep ==
  ASSUME StoreTypeOK, OnPurpose, NEW t \in Requests,
         \/ WriteFile(t) \/ Download(t) \/ ReadJar(t) \/ PutPlugin(t)
         \/ DeleteFiles(t) \/ Forget(t)
  PROVE  /\ Busy(t) /\ purpose[t] # "refresh" /\ UNCHANGED <<thread, added>>
         /\ \E w \in Doings : GoOn(t, w)
         /\ \A i \in PluginIds \ {id[t]} :
              /\ i \in pluginList' <=> i \in pluginList
              /\ UNCHANGED <<jar[i], locator[i]>>
         /\ unsafe \subseteq unsafe'
<1>1. Busy(t) /\ purpose[t] # "refresh" /\ UNCHANGED <<thread, added>>
  BY DEF WriteFile, Download, ReadJar, PutPlugin, DeleteFiles, Forget, Busy, OnPurpose
<1>2. \E w \in Doings : GoOn(t, w)
  BY DEF WriteFile, Download, ReadJar, AfterReading, PutPlugin, DeleteFiles, Forget, Doings
<1>3. \A i \in PluginIds \ {id[t]} : i \in pluginList' <=> i \in pluginList
  BY DEF WriteFile, Download, ReadJar, PutPlugin, DeleteFiles, Forget
<1>4. \A i \in PluginIds \ {id[t]} : UNCHANGED <<jar[i], locator[i]>>
  BY DEF WriteFile, Download, ReadJar, PutPlugin, DeleteFiles, Forget, StoreTypeOK
<1>5. unsafe \subseteq unsafe'
  BY DEF WriteFile, Download, ReadJar, PutPlugin, DeleteFiles, Forget
<1> QED
  BY <1>1, <1>2, <1>3, <1>4, <1>5

\* InUse is inductive.
LEMMA NextInUse ==
  ASSUME StoreTypeOK, OnPurpose, InUse, [StoreNext]_storeVars
  PROVE  InUse'
<1>1. CASE UNCHANGED storeVars
  BY <1>1 DEF storeVars, InUse, Has, Worker, Busy
<1>2. ASSUME NEW t \in Requests, NEW p \in {"file", "url"}, AddPlugin(t, p) PROVE InUse'
  <2>1. /\ FreshId \in PluginIds /\ added + 1 \in 0 .. MaxJars /\ added' = added + 1
        /\ Begin(t, "save", p, FreshId, added + 1) /\ UNCHANGED <<pluginList, storeFiles>>
        /\ added' \in Nat /\ added <= added'
    BY <1>2, FreshIdType, StoreAssumption DEF AddPlugin, StoreTypeOK
  <2>2. FreshId < added'
    <3>1. FreshId <= added
      BY <1>2, FreshIdType DEF AddPlugin
    <3>2. FreshId \in Nat /\ added \in Nat
      BY <2>1, StoreAssumption DEF StoreTypeOK, PluginIds
    <3> QED
      BY <2>1, <3>1, <3>2
  <2> QED
    BY <2>1, <2>2, BeginInUse DEF Doings
<1>3. ASSUME NEW t \in Requests, NEW i \in PluginIds, Remove(t, i) \/ StartCrawl(t, i)
      PROVE  InUse'
  <2>1. PICK what \in {"delete", "load"}, p \in {"remove", "crawl"} : Begin(t, what, p, i, NoFile)
    BY <1>3 DEF Remove, StartCrawl
  <2>2. UNCHANGED <<pluginList, storeFiles, added>> /\ NoFile \in 0 .. MaxJars /\ added \in Nat
    BY <1>3, StoreAssumption DEF Remove, StartCrawl, NoFile, StoreTypeOK
  <2>3. i < added
    BY <1>3 DEF Remove, StartCrawl, InUse
  <2> QED
    BY <2>1, <2>2, <2>3, BeginInUse DEF Doings
<1>4. ASSUME NEW t \in Requests,
             \/ WriteFile(t) \/ Download(t) \/ ReadJar(t) \/ PutPlugin(t)
             \/ DeleteFiles(t) \/ Forget(t)
      PROVE  InUse'
  BY <1>4, WorkerStep, GoesOnInUse
<1>5. ASSUME NEW t \in Requests, Refresh(t) PROVE InUse'
  <2>1. \A r \in Requests, i \in PluginIds : Worker(r, i)' => Worker(r, i)
    BY <1>5 DEF Refresh, Worker, Busy, GoOn, StoreTypeOK
  <2> QED
    BY <1>5, <2>1 DEF Refresh, InUse, Has
<1>6. ASSUME NEW t \in Requests, LoadAll(t) PROVE InUse'
  <2>1. \A r \in Requests, i \in PluginIds : Worker(r, i)' => Worker(r, i)
    BY <1>6, LoadAllType DEF Worker, Busy, StoreTypeOK
  <2>2. ASSUME NEW i \in PluginIds, (i \in pluginList \/ Has(i) \/ locator[i] # NoFile)'
        PROVE  i < added
    <3>1. i \in pluginList \/ jar'[i] # NoFile \/ locator[i] # NoFile
      BY <1>6, <2>2, LoadAllType, StoreAssumption DEF Has, NoFile
    <3>2. jar'[i] # NoFile => locator[i] # NoFile \/ jar[i] # NoFile
      BY <1>6, LoadAllType
    <3> QED
      BY <3>1, <3>2 DEF InUse, Has
  <2> QED
    BY <1>6, <2>1, <2>2, LoadAllType DEF InUse
<1> QED
  BY <1>1, <1>2, <1>3, <1>4, <1>5, <1>6 DEF StoreNext

-----------------------------------------------------------------------------
(***************************************************************************)
(* Files that cannot be used.                                              *)
(***************************************************************************)
\* As long as those who add the plugin go on, its files may stay as they are.
LEMMA JunkKept ==
  ASSUME NEW i, LeavesJunk(i), UNCHANGED <<jar[i], locator[i]>>,
         \A r \in Requests : Adder(r, i) /\ doing[r] \in {"load", "read", "delete"} =>
           Adder(r, i)' /\ doing'[r] = doing[r]
  PROVE  LeavesJunk(i)'
BY DEF LeavesJunk

\* The threads that add a plugin, after another thread's step.
LEMMA AddersKept ==
  ASSUME StoreTypeOK, NEW t \in Requests, NEW w \in Doings, GoOn(t, w), UNCHANGED thread
  PROVE  /\ \A r \in Requests \ {t}, i \in PluginIds :
              (Adder(r, i)' <=> Adder(r, i)) /\ doing'[r] = doing[r]
         /\ doing'[t] = w
         /\ \A i \in PluginIds : i # id[t] => ~Adder(t, i) /\ ~Adder(t, i)'
BY DEF StoreTypeOK, GoOn, Adder, Worker, Busy

\* A step of a thread, for the id it works on.
LEMMA JunkStep ==
  ASSUME StoreTypeOK, OnPurpose, JunkIsLeaving, NEW t \in Requests,
         \/ WriteFile(t) \/ Download(t) \/ ReadJar(t) \/ PutPlugin(t)
         \/ DeleteFiles(t) \/ Forget(t),
         NEW i \in PluginIds, i = id[t]
  PROVE  LeavesJunk(i)'
<1>1. PICK w \in Doings : GoOn(t, w)
  BY WorkerStep
<1>2. UNCHANGED thread /\ LeavesJunk(i) /\ id'[t] = i
  BY WorkerStep DEF StoreTypeOK, JunkIsLeaving
<1>3. \A r \in Requests \ {t} : (Adder(r, i)' <=> Adder(r, i)) /\ doing'[r] = doing[r]
  BY <1>1, <1>2, AddersKept
<1>4. doing'[t] = w /\ doing' = [doing EXCEPT ![t] = w]
  BY <1>1 DEF GoOn, StoreTypeOK
<1>5. Adder(t, i)' <=> w # "nothing" /\ purpose[t] \in {"file", "url"}
  BY <1>2, <1>4 DEF Adder, Worker, Busy
<1>6. NoBytes \notin GoodJars /\ NoFile \notin GoodJars
  BY StoreAssumption DEF NoBytes, NoFile
<1>7. CASE WriteFile(t)
  <2>1. w = "load" /\ Adder(t, i)'
    <3>1. doing'[t] = "load"
      BY <1>7 DEF WriteFile, GoOn, StoreTypeOK
    <3>2. purpose[t] \in {"file", "url"}
      BY <1>7 DEF WriteFile, OnPurpose
    <3> QED
      BY <1>4, <1>5, <3>1, <3>2
  <2> QED
    BY <1>4, <2>1 DEF LeavesJunk
<1>8. CASE Download(t)
  <2>1. w = "read" /\ doing[t] = "load" /\ locator' = locator
    BY <1>4, <1>8 DEF Download, GoOn, StoreTypeOK
  <2>2. \A r \in Requests : Adder(r, i) => Adder(r, i)' /\ (r # t => doing'[r] = doing[r])
    BY <1>3, <1>5, <2>1 DEF Adder
  <2>3. CASE locator[i] = NoFile
    <3>1. jar' = jar
      BY <1>8, <2>3 DEF Download
    <3> QED
      BY <1>2, <1>4, <2>1, <2>2, <2>3, <3>1 DEF LeavesJunk
  <2>4. CASE locator[i] # NoFile
    <3>1. jar'[i] = locator[i] \/ jar'[i] = NoBytes
      BY <1>2, <1>8, <2>4 DEF Download, StoreTypeOK
    <3>2. locator[i] \notin GoodJars => jar'[i] \notin GoodJars
      BY <1>6, <3>1
    <3> QED
      BY <1>2, <1>4, <2>1, <2>2, <2>4, <3>2 DEF LeavesJunk
  <2> QED
    BY <2>3, <2>4
<1>9. CASE ReadJar(t)
  <2>1. UNCHANGED <<jar, locator>> /\ doing[t] = "read" /\ w = AfterReading(t)
    BY <1>4, <1>9 DEF ReadJar, GoOn, StoreTypeOK
  <2>2. CASE Readable(i)
    BY <1>2, <1>3, <2>1, <2>2 DEF LeavesJunk, Readable
  <2>3. CASE ~Readable(i) /\ Adder(t, i)
    <3>1. w = "delete" /\ Adder(t, i)'
      BY <1>5, <2>1, <2>3 DEF AfterReading, Adder
    <3> QED
      BY <1>2, <1>3, <1>4, <2>1, <3>1 DEF LeavesJunk
  <2>4. CASE ~Adder(t, i)
    BY <1>2, <1>3, <2>1, <2>4, JunkKept
  <2> QED
    BY <2>2, <2>3, <2>4
<1>10. CASE PutPlugin(t) \/ Forget(t)
  <2>1. UNCHANGED <<jar, locator>> /\ doing[t] \in {"put", "forget"}
    BY <1>10 DEF PutPlugin, Forget
  <2>2. \A r \in Requests : Adder(r, i) /\ doing[r] \in {"load", "read", "delete"} =>
           Adder(r, i)' /\ doing'[r] = doing[r]
    BY <1>3, <2>1
  <2> QED
    BY <1>2, <2>1, <2>2, JunkKept
<1>11. CASE DeleteFiles(t)
  <2>1. jar'[i] = NoFile /\ locator'[i] = NoFile
    BY <1>2, <1>11 DEF DeleteFiles, StoreTypeOK
  <2> QED
    BY <2>1 DEF LeavesJunk
<1> QED
  BY <1>2, <1>7, <1>8, <1>9, <1>10, <1>11

\* JunkIsLeaving is inductive.
LEMMA NextJunk ==
  ASSUME StoreTypeOK, OnPurpose, JunkIsLeaving, InUse, [StoreNext]_storeVars
  PROVE  JunkIsLeaving'
<1>1. CASE UNCHANGED storeVars
  BY <1>1 DEF storeVars, JunkIsLeaving, LeavesJunk, Adder, Worker, Busy
<1>2. CASE UNCHANGED storeFiles /\
           \A r \in Requests, i \in PluginIds : Adder(r, i) => Adder(r, i)' /\ doing'[r] = doing[r]
  BY <1>2, JunkKept DEF JunkIsLeaving
<1>3. ASSUME NEW t \in Requests, UNCHANGED storeFiles,
             NEW what \in Doings, NEW p \in {"file", "url", "remove", "crawl"},
             NEW i \in PluginIds, NEW n \in 0 .. MaxJars, Begin(t, what, p, i, n)
      PROVE  JunkIsLeaving'
  <2>1. \A r \in Requests, j \in PluginIds : Adder(r, j) => Adder(r, j)' /\ doing'[r] = doing[r]
    BY <1>3, BeginType DEF Adder, Worker, Busy, StoreTypeOK
  <2> QED
    BY <1>2, <1>3, <2>1
<1>4. ASSUME NEW t \in Requests, NEW p \in {"file", "url"}, AddPlugin(t, p) PROVE JunkIsLeaving'
  <2>1. FreshId \in PluginIds /\ added + 1 \in 0 .. MaxJars /\ Begin(t, "save", p, FreshId, added + 1)
        /\ UNCHANGED storeFiles
    BY <1>4, FreshIdType, StoreAssumption DEF AddPlugin, StoreTypeOK
  <2> QED
    BY <1>3, <2>1 DEF Doings
<1>5. ASSUME NEW t \in Requests, NEW i \in PluginIds, Remove(t, i) \/ StartCrawl(t, i)
      PROVE  JunkIsLeaving'
  <2>1. NoFile \in 0 .. MaxJars /\ UNCHANGED storeFiles
    BY <1>5, StoreAssumption DEF NoFile, Remove, StartCrawl
  <2> QED
    BY <1>3, <1>5, <2>1 DEF Remove, StartCrawl, Doings
<1>6. ASSUME NEW t \in Requests, Refresh(t) PROVE JunkIsLeaving'
  <2>1. \A r \in Requests, j \in PluginIds : Adder(r, j) => Adder(r, j)' /\ doing'[r] = doing[r]
    BY <1>6 DEF Refresh, GoOn, Adder, Worker, Busy, StoreTypeOK
  <2> QED
    BY <1>2, <1>6, <2>1 DEF Refresh
<1>7. ASSUME NEW t \in Requests,
             \/ WriteFile(t) \/ Download(t) \/ ReadJar(t) \/ PutPlugin(t)
             \/ DeleteFiles(t) \/ Forget(t)
      PROVE  JunkIsLeaving'
  <2>1. ASSUME NEW i \in PluginIds, i # id[t] PROVE LeavesJunk(i)'
    <3>1. PICK w \in Doings : GoOn(t, w)
      BY <1>7, WorkerStep
    <3>2. UNCHANGED thread /\ UNCHANGED <<jar[i], locator[i]>>
      BY <1>7, <2>1, WorkerStep
    <3>3. \A r \in Requests : Adder(r, i) => Adder(r, i)' /\ doing'[r] = doing[r]
      BY <2>1, <3>1, <3>2, AddersKept
    <3> QED
      BY <3>2, <3>3, JunkKept DEF JunkIsLeaving
  <2>2. ASSUME NEW i \in PluginIds, i = id[t] PROVE LeavesJunk(i)'
    BY <1>7, <2>2, JunkStep
  <2> QED
    BY <2>1, <2>2 DEF JunkIsLeaving
<1>8. ASSUME NEW t \in Requests, LoadAll(t) PROVE JunkIsLeaving'
  <2>1. \A r \in Requests, j \in PluginIds : Adder(r, j) => Adder(r, j)' /\ doing'[r] = doing[r]
    BY <1>8, LoadAllType DEF OnPurpose, Adder, Worker, Busy, StoreTypeOK
  <2>2. NoBytes \notin GoodJars /\ NoFile \notin GoodJars
    BY StoreAssumption DEF NoBytes, NoFile
  <2>3. ASSUME NEW i \in PluginIds PROVE LeavesJunk(i)'
    <3>1. LeavesJunk(i) /\ locator' = locator
      BY <1>8, LoadAllType DEF JunkIsLeaving
    <3>2. CASE locator[i] = NoFile
      <4>1. jar'[i] = jar[i]
        BY <1>8, <3>2, LoadAllType
      <4> QED
        BY <2>1, <3>1, <4>1, JunkKept
    <3>3. CASE locator[i] # NoFile
      <4>1. jar'[i] \in {NoBytes, locator[i]}
        BY <1>8, <3>3, LoadAllType
      <4>2. locator[i] \notin GoodJars => jar'[i] \notin GoodJars
        BY <2>2, <4>1
      <4> QED
        BY <2>1, <3>1, <3>3, <4>2 DEF LeavesJunk
    <3> QED
      BY <3>2, <3>3
  <2> QED
    BY <2>3 DEF JunkIsLeaving
<1> QED
  BY <1>1, <1>4, <1>5, <1>6, <1>7, <1>8 DEF StoreNext

-----------------------------------------------------------------------------
(***************************************************************************)
(* Plugins no two threads worked on.                                       *)
(***************************************************************************)
\* A plugin stays apart when its files and its threads stay as they are.
LEMMA ApartKept ==
  ASSUME NEW i, Apart(i), UNCHANGED <<jar[i], locator[i]>>, i \in pluginList' <=> i \in pluginList,
         IsRefreshing' <=> IsRefreshing,
         \A r \in Requests : /\ Worker(r, i)' <=> Worker(r, i)
                             /\ Worker(r, i) => UNCHANGED <<doing[r], purpose[r], upload[r]>>
  PROVE  Apart(i)'
<1>1. ASSUME NEW r \in Requests, Worker(r, i)' PROVE ~IsRefreshing' /\ WorkOK(r, i)'
  <2>1. ~IsRefreshing /\ WorkOK(r, i) /\ UNCHANGED <<doing[r], purpose[r], upload[r]>>
    BY <1>1 DEF Apart
  <2> QED
    BY <2>1 DEF WorkOK, Nowhere, Intact, Readable
<1>2. (Nowhere(i)' <=> Nowhere(i)) /\ (Intact(i)' <=> Intact(i)) /\ (Readable(i)' <=> Readable(i))
  BY DEF Nowhere, Intact, Readable
<1> QED
  BY <1>1, <1>2 DEF Apart

\* A refresh goes on, or not, whatever a thread with another request does.
LEMMA RefreshingKept ==
  ASSUME StoreTypeOK, NEW t \in Requests, NEW w \in Doings, GoOn(t, w), UNCHANGED thread,
         Busy(t), purpose[t] # "refresh"
  PROVE  /\ IsRefreshing' <=> IsRefreshing
         /\ \A r \in Requests \ {t} : doing'[r] = doing[r]
         /\ doing'[t] = w
         /\ \A r \in Requests, i \in PluginIds :
              r # t \/ id[t] # i => (Worker(r, i)' <=> Worker(r, i))
<1>1. /\ \A r \in Requests \ {t} : doing'[r] = doing[r] /\ (Busy(r)' <=> Busy(r))
      /\ doing'[t] = w
  BY DEF GoOn, Busy, StoreTypeOK
<1>2. IsRefreshing' <=> IsRefreshing
  BY <1>1 DEF IsRefreshing
<1>3. \A r \in Requests, i \in PluginIds : r # t \/ id[t] # i => (Worker(r, i)' <=> Worker(r, i))
  BY <1>1 DEF Worker
<1> QED
  BY <1>1, <1>2, <1>3

\* The thread goes on with its plugin, or ends its request.
LEMMA GoesOnApart ==
  ASSUME StoreTypeOK, NEW t \in Requests, NEW w \in Doings, GoOn(t, w), UNCHANGED thread,
         Busy(t), purpose[t] # "refresh",
         NEW i \in PluginIds, i = id[t], Apart(i),
         w # "nothing" => WorkOK(t, i)',
         w = "nothing" => /\ (Nowhere(i) \/ Intact(i))'
                          /\ (i \in pluginList <=> Readable(i))'
  PROVE  Apart(i)'
<1>1. Worker(t, i) /\ ~IsRefreshing /\ \A r \in Requests \ {t} : ~Worker(r, i)
  BY DEF Worker, Apart
<1>2. ~IsRefreshing' /\ (\A r \in Requests \ {t} : ~Worker(r, i)') /\ doing'[t] = w
  BY <1>1, RefreshingKept
<1>3. Worker(t, i)' <=> w # "nothing"
  BY <1>2 DEF Worker, Busy
<1> QED
  BY <1>2, <1>3 DEF Apart

\* What a thread does to the plugin it works on alone.
LEMMA WorkStep ==
  ASSUME StoreTypeOK, OnPurpose, NEW t \in Requests,
         \/ WriteFile(t) \/ Download(t) \/ ReadJar(t) \/ PutPlugin(t)
         \/ DeleteFiles(t) \/ Forget(t),
         NEW i \in PluginIds \ unsafe', i = id[t], WorkOK(t, i)
  PROVE  /\ doing'[t] # "nothing" => WorkOK(t, i)'
         /\ doing'[t] = "nothing" => /\ (Nowhere(i) \/ Intact(i))'
                                     /\ (i \in pluginList <=> Readable(i))'
<1>1. UNCHANGED thread /\ Busy(t)
  BY WorkerStep
<1>2. NoBytes \notin GoodJars /\ NoFile \notin GoodJars /\ NoBytes # NoFile
  BY StoreAssumption DEF NoBytes, NoFile
<1>3. CASE WriteFile(t)
  <2>1. /\ doing[t] = "save" /\ doing'[t] = "load" /\ pluginList' = pluginList
        /\ purpose[t] \in {"file", "url"}
        /\ IF purpose[t] = "file" THEN jar'[i] = upload[t] /\ locator'[i] = locator[i]
                                  ELSE locator'[i] = upload[t] /\ jar'[i] = jar[i]
    BY <1>3 DEF WriteFile, GoOn, StoreTypeOK, OnPurpose
  <2> QED
    BY <1>1, <2>1 DEF WorkOK, Nowhere
<1>4. CASE Download(t)
  <2>1. /\ doing[t] = "load" /\ doing'[t] = "read" /\ UNCHANGED <<pluginList, locator>>
        /\ purpose[t] \in {"file", "url", "crawl"}
        /\ locator[i] = NoFile => jar'[i] = jar[i]
        /\ locator[i] # NoFile => jar'[i] = locator[i] \/ (jar'[i] = NoBytes /\ purpose[t] # "crawl")
    BY <1>4 DEF Download, GoOn, StoreTypeOK, OnPurpose
  <2>2. CASE purpose[t] = "file"
    BY <1>1, <2>1, <2>2 DEF WorkOK
  <2>3. CASE purpose[t] = "url"
    <3>1. upload[t] # NoFile
      BY <1>1, <2>3 DEF OnPurpose
    <3> QED
      BY <1>1, <2>1, <2>3, <3>1 DEF WorkOK
  <2>4. CASE purpose[t] = "crawl"
    BY <1>1, <2>1, <2>4 DEF WorkOK, Intact, Readable
  <2> QED
    BY <2>1, <2>2, <2>3, <2>4
<1>5. CASE ReadJar(t)
  <2>1. /\ doing[t] = "read" /\ doing'[t] = AfterReading(t) /\ UNCHANGED <<pluginList, jar, locator>>
        /\ purpose[t] \in {"file", "url", "crawl"}
    BY <1>5 DEF ReadJar, AfterReading, GoOn, StoreTypeOK, OnPurpose
  <2>2. purpose[t] = "crawl" => Readable(i)
    BY DEF WorkOK, Intact
  <2>3. \/ doing'[t] = "put" /\ Readable(i)
        \/ doing'[t] = "delete" /\ purpose[t] # "crawl"
    BY <2>1, <2>2 DEF AfterReading
  <2> QED
    BY <1>1, <2>1, <2>3 DEF WorkOK, Readable, Intact
<1>6. CASE PutPlugin(t)
  <2>1. /\ doing[t] = "put" /\ doing'[t] = "nothing" /\ i \in pluginList' /\ UNCHANGED <<jar, locator>>
        /\ purpose[t] \in {"file", "url", "crawl"}
    BY <1>6 DEF PutPlugin, GoOn, StoreTypeOK, OnPurpose
  <2>2. Readable(i) /\ locator[i] \in {NoFile, jar[i]}
    BY <1>2, <2>1 DEF WorkOK, Intact, Readable
  <2> QED
    BY <2>1, <2>2 DEF Intact, Readable
<1>7. CASE DeleteFiles(t)
  <2>1. /\ doing[t] = "delete" /\ jar'[i] = NoFile /\ locator'[i] = NoFile /\ pluginList' = pluginList
        /\ doing'[t] = (IF purpose[t] = "remove" /\ Has(i) THEN "forget" ELSE "nothing")
        /\ purpose[t] \in {"file", "url", "remove"}
    BY <1>7 DEF DeleteFiles, GoOn, StoreTypeOK, OnPurpose
  <2>2. CASE purpose[t] = "remove"
    <3>1. Has(i)
      BY <1>2, <2>1, <2>2 DEF WorkOK, Intact, Readable, Has
    <3> QED
      BY <1>1, <2>1, <2>2, <3>1 DEF WorkOK, Nowhere
  <2>3. CASE purpose[t] # "remove"
    <3>1. i \notin pluginList
      BY <2>1, <2>3 DEF WorkOK
    <3> QED
      BY <1>2, <2>1, <2>3, <3>1 DEF Nowhere, Readable
  <2> QED
    BY <2>2, <2>3
<1>8. CASE Forget(t)
  <2>1. /\ doing[t] = "forget" /\ doing'[t] = "nothing" /\ i \notin pluginList'
        /\ UNCHANGED <<jar, locator>> /\ purpose[t] = "remove"
    BY <1>8 DEF Forget, GoOn, StoreTypeOK, OnPurpose
  <2> QED
    BY <1>2, <2>1 DEF WorkOK, Nowhere, Readable
<1> QED
  BY <1>3, <1>4, <1>5, <1>6, <1>7, <1>8

\* A request for a plugin nobody works on.
LEMMA BeginApart ==
  ASSUME StoreTypeOK, OnPurpose, SafeIdsApart, NEW t \in Requests, NEW what \in Doings \ {"nothing"},
         NEW p \in {"file", "url", "remove", "crawl"}, NEW k \in PluginIds, NEW n \in 0 .. MaxJars,
         Begin(t, what, p, k, n), UNCHANGED <<pluginList, storeFiles>>,
         \/ what = "save" /\ p \in {"file", "url"} /\ k \notin pluginList
         \/ what = "delete" /\ p = "remove" /\ (k \in pluginList \/ Has(k))
         \/ what = "load" /\ p = "crawl" /\ k \in pluginList
  PROVE  SafeIdsApart'
<1>1. /\ ~Busy(t) /\ doing' = [doing EXCEPT ![t] = what] /\ purpose' = [purpose EXCEPT ![t] = p]
      /\ id' = [id EXCEPT ![t] = k] /\ upload' = [upload EXCEPT ![t] = n] /\ unsafe \subseteq unsafe'
  BY BeginType
<1>2. /\ doing'[t] = what /\ purpose'[t] = p /\ id'[t] = k
      /\ \A r \in Requests \ {t} :
           /\ UNCHANGED <<doing[r], purpose[r], id[r], upload[r]>>
           /\ Busy(r)' <=> Busy(r)
  BY <1>1 DEF StoreTypeOK, Busy
<1>3. IsRefreshing' <=> IsRefreshing
  BY <1>1, <1>2 DEF IsRefreshing
<1>4. ASSUME NEW i \in PluginIds \ unsafe', i # k PROVE Apart(i)'
  <2>1. Apart(i)
    BY <1>1 DEF SafeIdsApart
  <2>2. \A r \in Requests : /\ Worker(r, i)' <=> Worker(r, i)
                            /\ Worker(r, i) => UNCHANGED <<doing[r], purpose[r], upload[r]>>
    BY <1>1, <1>2, <1>4 DEF Worker
  <2> QED
    BY <1>3, <2>1, <2>2, ApartKept
<1>5. ASSUME k \notin unsafe' PROVE Apart(k)'
  <2>1. Others(t, k) = {} /\ ~Refreshing(t) /\ k \notin unsafe
    BY <1>5 DEF Begin
  <2>2. ~IsRefreshing
    BY <1>1, <2>1 DEF IsRefreshing, Refreshing
  <2>3. \A r \in Requests : ~Worker(r, k)
    BY <1>1, <2>1 DEF Worker, Others
  <2>4. (Nowhere(k) \/ Intact(k)) /\ (k \in pluginList <=> Readable(k))
    BY <2>1, <2>2, <2>3 DEF SafeIdsApart, Apart
  <2>5. \A r \in Requests \ {t} : ~Worker(r, k)'
    BY <1>2, <2>3 DEF Worker
  <2>6. NoFile \notin GoodJars
    BY StoreAssumption DEF NoFile
  <2>7. k \in pluginList => Intact(k)
    BY <2>4, <2>6 DEF Nowhere, Readable
  <2>8. k \notin pluginList => Nowhere(k)
    BY <2>4 DEF Intact
  <2>9. WorkOK(t, k)'
    BY <1>2, <2>4, <2>7, <2>8 DEF WorkOK, Nowhere, Has, Intact, Readable
  <2> QED
    BY <1>2, <1>3, <2>2, <2>5, <2>9 DEF Apart, Worker, Busy
<1> QED
  BY <1>4, <1>5 DEF SafeIdsApart

\* Everything listed and safe can be loaded, even while the map is refreshed.
LEMMA RefreshIsAlone ==
  ASSUME SafeIdsApart, NEW i \in PluginIds \ unsafe, IsRefreshing
  PROVE  /\ \A r \in Requests : ~Worker(r, i)
         /\ Nowhere(i) \/ Intact(i)
         /\ i \in pluginList => Readable(i)
<1>1. \A r \in Requests : ~Worker(r, i)
  BY DEF SafeIdsApart, Apart
<1> QED
  BY <1>1 DEF SafeIdsApart, Apart

\* A refresh that nothing disturbs makes every plugin safe that it can load.
LEMMA LoadAllApart ==
  ASSUME StoreInv, NEW t \in Requests, LoadAll(t)
  PROVE  SafeIdsApart'
<1>1. StoreTypeOK /\ OnPurpose /\ JunkIsLeaving /\ SafeIdsApart
  BY DEF StoreInv
<1>2. /\ doing[t] = "loadAll" /\ doing' = [doing EXCEPT ![t] = "nothing"]
      /\ pluginList' = pluginList \cup {i \in PluginIds : jar'[i] \in GoodJars}
      /\ UNCHANGED <<locator, purpose, id, upload>>
  BY <1>1, LoadAllType
<1>3. PICK out \in SUBSET {i \in PluginIds : locator[i] # NoFile} :
        /\ \A i \in PluginIds : jar'[i] = IF i \in out THEN NoBytes
                                          ELSE IF locator[i] # NoFile THEN locator[i]
                                          ELSE jar[i]
        /\ unsafe' = IF pluginList = {} /\ \A r \in Requests \ {t} : ~Busy(r)
                       THEN out ELSE unsafe \cup out
  BY <1>1, LoadAllType
<1>4. /\ IsRefreshing /\ doing'[t] = "nothing"
      /\ \A r \in Requests \ {t} : doing'[r] = doing[r]
      /\ \A r \in Requests, i \in PluginIds : Worker(r, i)' => Worker(r, i) /\ r # t
  BY <1>1, <1>2 DEF IsRefreshing, Busy, OnPurpose, Worker, StoreTypeOK
<1>5. NoFile \notin GoodJars
  BY StoreAssumption DEF NoFile
<1>6. ASSUME NEW i \in PluginIds \ unsafe' PROVE Apart(i)'
  <2>1. i \notin out
    BY <1>3, <1>6
  <2>2. (\A r \in Requests : ~Worker(r, i)') /\ (Nowhere(i) \/ Intact(i))'
        /\ (i \in pluginList' => Readable(i)')
    <3>1. CASE pluginList = {} /\ \A r \in Requests \ {t} : ~Busy(r)
      <4>1. \A r \in Requests : ~Worker(r, i)'
        BY <1>4, <3>1 DEF Worker
      <4>2. \A r \in Requests : ~Adder(r, i)
        BY <1>1, <1>2, <3>1 DEF Adder, Worker, OnPurpose
      <4>3. jar'[i] = IF locator[i] # NoFile THEN locator[i] ELSE jar[i]
        BY <1>3, <2>1
      <4>4. jar'[i] \in GoodJars \cup {NoFile}
        BY <1>1, <4>2, <4>3 DEF JunkIsLeaving, LeavesJunk
      <4> QED
        BY <1>2, <3>1, <4>1, <4>3, <4>4 DEF Nowhere, Intact, Readable
    <3>2. CASE ~(pluginList = {} /\ \A r \in Requests \ {t} : ~Busy(r))
      <4>1. i \notin unsafe
        BY <1>3, <1>6, <3>2
      <4>2. /\ \A r \in Requests : ~Worker(r, i)
            /\ Nowhere(i) \/ Intact(i)
            /\ i \in pluginList => Readable(i)
        BY <1>1, <1>4, <4>1, RefreshIsAlone
      <4>3. jar'[i] = jar[i]
        BY <1>3, <2>1, <4>2 DEF Nowhere, Intact
      <4> QED
        BY <1>2, <1>4, <4>2, <4>3 DEF Nowhere, Intact, Readable
    <3> QED
      BY <3>1, <3>2
  <2>3. Readable(i)' => i \in pluginList'
    BY <1>2 DEF Readable
  <2> QED
    BY <2>2, <2>3 DEF Apart
<1> QED
  BY <1>6 DEF SafeIdsApart

\* A refresh clears the map and makes the ids others work on unsafe.
LEMMA RefreshApart ==
  ASSUME StoreInv, NEW t \in Requests, Refresh(t)
  PROVE  SafeIdsApart'
<1>1. StoreTypeOK /\ OnPurpose /\ SafeIdsApart
  BY DEF StoreInv
<1>2. /\ ~Busy(t) /\ doing' = [doing EXCEPT ![t] = "loadAll"]
      /\ purpose' = [purpose EXCEPT ![t] = "refresh"]
      /\ pluginList' = {} /\ UNCHANGED <<jar, locator, id, upload>>
      /\ unsafe' = unsafe \cup {id[r] : r \in {q \in Requests : Busy(q)}}
  BY DEF Refresh, GoOn
<1>3. IsRefreshing'
  BY <1>1, <1>2 DEF IsRefreshing, Busy, StoreTypeOK
<1>4. ASSUME NEW i \in PluginIds \ unsafe' PROVE Apart(i)'
  <2>1. Apart(i) /\ \A r \in Requests : ~Worker(r, i)
    BY <1>1, <1>2, <1>4 DEF SafeIdsApart, Worker
  <2>2. \A r \in Requests : ~Worker(r, i)'
    BY <1>1, <1>2, <2>1 DEF Worker, Busy, StoreTypeOK
  <2> QED
    BY <1>2, <1>3, <2>1, <2>2 DEF Apart, Nowhere, Intact, Readable
<1> QED
  BY <1>4 DEF SafeIdsApart

\* StoreInv is inductive.
LEMMA NextStore ==
  ASSUME StoreInv, [StoreNext]_storeVars
  PROVE  StoreInv'
<1>1. StoreTypeOK /\ OnPurpose /\ InUse /\ JunkIsLeaving /\ SafeIdsApart
  BY DEF StoreInv
<1> SUFFICES SafeIdsApart'
  BY <1>1, NextStoreType, NextPurpose, NextInUse, NextJunk DEF StoreInv
<1>2. CASE UNCHANGED storeVars
  BY <1>1, <1>2 DEF storeVars, SafeIdsApart, Apart, WorkOK, Worker, Busy, IsRefreshing,
     Nowhere, Intact, Readable
<1>3. ASSUME NEW t \in Requests, NEW p \in {"file", "url"}, AddPlugin(t, p) PROVE SafeIdsApart'
  <2>1. FreshId \in PluginIds \ pluginList /\ Begin(t, "save", p, FreshId, added + 1)
        /\ UNCHANGED <<pluginList, storeFiles>> /\ added + 1 \in 0 .. MaxJars
    BY <1>1, <1>3, FreshIdType, StoreAssumption DEF AddPlugin, StoreTypeOK
  <2> QED
    BY <1>1, <2>1, BeginApart DEF Doings
<1>4. ASSUME NEW t \in Requests, NEW i \in PluginIds, Remove(t, i) \/ StartCrawl(t, i)
      PROVE  SafeIdsApart'
  <2>1. NoFile \in 0 .. MaxJars /\ UNCHANGED <<pluginList, storeFiles>>
    BY <1>4, StoreAssumption DEF NoFile, Remove, StartCrawl
  <2> QED
    BY <1>1, <1>4, <2>1, BeginApart DEF Remove, StartCrawl, Doings
<1>5. ASSUME NEW t \in Requests,
             \/ WriteFile(t) \/ Download(t) \/ ReadJar(t) \/ PutPlugin(t)
             \/ DeleteFiles(t) \/ Forget(t)
      PROVE  SafeIdsApart'
  <2>1. /\ Busy(t) /\ purpose[t] # "refresh" /\ UNCHANGED thread /\ unsafe \subseteq unsafe'
        /\ \A i \in PluginIds \ {id[t]} :
              /\ i \in pluginList' <=> i \in pluginList
              /\ UNCHANGED <<jar[i], locator[i]>>
    BY <1>1, <1>5, WorkerStep
  <2>2. PICK w \in Doings : GoOn(t, w)
    BY <1>1, <1>5, WorkerStep
  <2>3. doing'[t] = w
    BY <1>1, <2>2 DEF GoOn, StoreTypeOK
  <2>4. ASSUME NEW i \in PluginIds \ unsafe', i = id[t] PROVE Apart(i)'
    <3>1. Apart(i) /\ WorkOK(t, i)
      BY <1>1, <2>1, <2>4 DEF SafeIdsApart, Apart, Worker
    <3>2. /\ w # "nothing" => WorkOK(t, i)'
          /\ w = "nothing" => /\ (Nowhere(i) \/ Intact(i))'
                              /\ (i \in pluginList <=> Readable(i))'
      BY <1>1, <1>5, <2>3, <2>4, <3>1, WorkStep
    <3> QED
      BY <1>1, <2>1, <2>2, <2>4, <3>1, <3>2, GoesOnApart
  <2>5. ASSUME NEW i \in PluginIds \ unsafe', i # id[t] PROVE Apart(i)'
    <3>1. Apart(i) /\ IsRefreshing' <=> IsRefreshing
      BY <1>1, <2>1, <2>2, RefreshingKept DEF SafeIdsApart
    <3>2. \A r \in Requests : /\ Worker(r, i)' <=> Worker(r, i)
                              /\ Worker(r, i) => UNCHANGED <<doing[r], purpose[r], upload[r]>>
      BY <1>1, <2>1, <2>2, <2>5, RefreshingKept DEF Worker
    <3> QED
      BY <1>1, <2>1, <2>2, <2>5, <3>2, RefreshingKept, ApartKept DEF SafeIdsApart
  <2> QED
    BY <2>4, <2>5 DEF SafeIdsApart
<1>6. ASSUME NEW t \in Requests, Refresh(t) \/ LoadAll(t) PROVE SafeIdsApart'
  BY <1>6, RefreshApart, LoadAllApart
<1> QED
  BY <1>2, <1>3, <1>4, <1>5, <1>6 DEF StoreNext

\* At first there is no plugin and no request.
LEMMA InitStore == StoreInit => StoreInv
<1> SUFFICES ASSUME StoreInit PROVE StoreInv
  OBVIOUS
<1>1. \A t \in Requests : ~Busy(t)
  BY DEF StoreInit, Busy
<1>2. StoreTypeOK
  BY StoreAssumption DEF StoreInit, StoreTypeOK, NoFile, NoBytes, PluginIds
<1>3. OnPurpose /\ InUse /\ JunkIsLeaving
  BY <1>1 DEF StoreInit, OnPurpose, Busy, InUse, Has, Worker, JunkIsLeaving, LeavesJunk
<1>4. SafeIdsApart
  <2>1. NoFile \notin GoodJars
    BY StoreAssumption DEF NoFile
  <2> QED
    BY <1>1, <2>1 DEF StoreInit, SafeIdsApart, Apart, Worker, Nowhere, Readable
<1> QED
  BY <1>2, <1>3, <1>4 DEF StoreInv

\* Every plugin of the list can be loaded, but for those that two threads worked
\* on, and those the network failed for: however requests to add, remove, use and
\* refresh plugins interleave.
THEOREM ListedPluginsAlwaysWork == StoreSpec => []ListedPluginsWork
<1>1. StoreInv => ListedPluginsWork
  <2> SUFFICES ASSUME StoreInv, NEW i \in pluginList \ unsafe PROVE Readable(i) \/ BeingRemoved(i)
    BY DEF ListedPluginsWork
  <2>1. Apart(i) /\ OnPurpose
    BY DEF StoreInv, StoreTypeOK, SafeIdsApart
  <2>2. CASE \A t \in Requests : ~Worker(t, i)
    BY <2>1, <2>2 DEF Apart
  <2>3. CASE \E t \in Requests : Worker(t, i)
    <3>1. PICK t \in Requests : Worker(t, i) /\ WorkOK(t, i)
      BY <2>1, <2>3 DEF Apart
    <3>2. purpose[t] = "crawl" \/ (purpose[t] = "remove" /\ doing[t] \in {"delete", "forget"})
      BY <2>1, <3>1 DEF StoreInv, StoreTypeOK, OnPurpose, Worker, WorkOK, Busy
    <3> QED
      BY <3>1, <3>2 DEF WorkOK, Intact, BeingRemoved, Worker
  <2> QED
    BY <2>2, <2>3
<1>2. StoreInv /\ [StoreNext]_storeVars => StoreInv'
  BY NextStore
<1> QED
  BY InitStore, <1>1, <1>2, PTL DEF StoreSpec

\* A step of the store keeps uploads apart.
LEMMA ApartStep ==
  ASSUME StoreInv, [StoreNext]_storeVars
  PROVE  /\ \A t \in Requests :
              PutPlugin(t) /\ purpose[t] # "crawl" /\ id[t] \notin unsafe =>
                jar[id[t]] = upload[t]
         /\ \A i \in pluginList \ unsafe' :
              jar'[i] # jar[i] => jar'[i] \in {NoFile, locator[i]}
<1>1. StoreTypeOK /\ OnPurpose /\ SafeIdsApart
  BY DEF StoreInv
<1>2. ASSUME NEW t \in Requests, PutPlugin(t), purpose[t] # "crawl", id[t] \notin unsafe
      PROVE  jar[id[t]] = upload[t]
  <2>1. doing[t] = "put" /\ purpose[t] \in {"file", "url"} /\ Worker(t, id[t])
        /\ id[t] \in PluginIds \ unsafe
    BY <1>1, <1>2 DEF PutPlugin, OnPurpose, Worker, Busy, StoreTypeOK
  <2>2. WorkOK(t, id[t])
    BY <1>1, <2>1 DEF SafeIdsApart, Apart
  <2>3. NoBytes \notin GoodJars
    BY StoreAssumption DEF NoBytes
  <2> QED
    BY <2>1, <2>2, <2>3 DEF WorkOK, Readable
<1>3. ASSUME NEW i \in pluginList \ unsafe', jar'[i] # jar[i]
      PROVE  jar'[i] \in {NoFile, locator[i]}
  <2>1. i \in PluginIds
    BY <1>1 DEF StoreTypeOK
  <2>2. PICK t \in Requests : WriteFile(t) \/ Download(t) \/ DeleteFiles(t) \/ LoadAll(t)
    BY <1>3 DEF StoreNext, storeVars, AddPlugin, Remove, StartCrawl, Refresh, ReadJar, PutPlugin, Forget
  <2>3. CASE LoadAll(t)
    BY <1>1, <1>3, <2>1, <2>3, LoadAllType
  <2>4. CASE WriteFile(t) \/ Download(t) \/ DeleteFiles(t)
    <3>1. i = id[t] /\ Busy(t) /\ purpose[t] # "refresh" /\ i \notin unsafe
      BY <1>1, <1>3, <2>1, <2>4, WorkerStep
    <3>2. WorkOK(t, i)
      BY <1>1, <2>1, <3>1 DEF SafeIdsApart, Apart, Worker
    <3>3. purpose[t] \notin {"file", "url"}
      BY <3>2 DEF WorkOK
    <3>4. CASE DeleteFiles(t)
      BY <1>1, <2>1, <3>1, <3>4 DEF DeleteFiles, StoreTypeOK
    <3>5. CASE Download(t)
      <4>1. purpose[t] = "crawl"
        BY <1>1, <3>3, <3>5 DEF Download, OnPurpose
      <4> QED
        BY <1>1, <1>3, <2>1, <3>1, <3>5, <4>1 DEF Download, StoreTypeOK
    <3>6. CASE WriteFile(t)
      BY <1>1, <3>3, <3>6 DEF WriteFile, OnPurpose
    <3> QED
      BY <2>4, <3>4, <3>5, <3>6
  <2> QED
    BY <2>2, <2>3, <2>4
<1> QED
  BY <1>2, <1>3

\* A plugin that is listed is the one that was uploaded, and keeps its jar until it
\* is removed or downloaded again.
THEOREM UploadsStayApart == StoreSpec => UploadsKeepApart
<1>1. StoreInv /\ [StoreNext]_storeVars => StoreInv'
  BY NextStore
<1>2. StoreInv /\ [StoreNext]_storeVars =>
      [ /\ \A t \in Requests :
             PutPlugin(t) /\ purpose[t] # "crawl" /\ id[t] \notin unsafe =>
               jar[id[t]] = upload[t]
        /\ \A i \in pluginList \ unsafe' :
             jar'[i] # jar[i] => jar'[i] \in {NoFile, locator[i]} ]_storeVars
  BY ApartStep
<1> QED
  BY InitStore, <1>1, <1>2, PTL DEF StoreSpec, UploadsKeepApart

\* StoreTypeOK holds of every store: there is an id for every plugin that is added.
THEOREM StoreTypeCorrect == StoreSpec => []StoreTypeOK
<1>1. StoreInv => StoreTypeOK
  BY DEF StoreInv
<1>2. StoreInv /\ [StoreNext]_storeVars => StoreInv'
  BY NextStore
<1> QED
  BY InitStore, <1>1, <1>2, PTL DEF StoreSpec

-----------------------------------------------------------------------------
(***************************************************************************)
(* The configurations of the server: the inductive invariant.              *)
(***************************************************************************)
\* A thread has an id from when it has found one to when it answers; one that
\* adds has not removed anything; a dead server has no threads at work.
RequestsOK ==
  \A t \in Clients :
    /\ saveId[t] = NoId <=> phase[t] \in {"nothing", "probe"}
    /\ phase[t] \in {"nothing", "unlink"} => ~isAdding[t]
    /\ ~isUp => phase[t] = "nothing"

\* Whoever works on an id that is in no doubt is alone with it.
AloneOnId ==
  \A i \in ConfigIds \ doubtful : \A t, u \in Clients : WorksOn(t, i) /\ WorksOn(u, i) => t = u

\* The map is ahead of the file, by what the thread at work has got.
MapLeads ==
  \A t \in Clients : \A i \in ConfigIds \ doubtful : WorksOn(t, i) =>
    /\ phase[t] \in {"open", "write"} => configList[i] = content[t]
    /\ phase[t] = "unlink" => configList[i] = Absent

ConfigInv ==
  /\ ConfigTypeOK /\ RequestsOK /\ AloneOnId /\ MapLeads
  /\ AddsReplaceNothing /\ FilesFollowMap

Phases == {"nothing", "probe", "put", "open", "write", "unlink"}

-----------------------------------------------------------------------------
\* What an action of a thread does to the requests: no other thread's changes.
LEMMA EndsType ==
  ASSUME ConfigTypeOK, NEW t \in Clients, Ends(t)
  PROVE  /\ phase' \in [Clients -> Phases] /\ isAdding' \in [Clients -> BOOLEAN]
         /\ saveId' \in [Clients -> ConfigIds \cup {NoId}]
         /\ content' \in [Clients -> 0 .. MaxWrites]
         /\ phase'[t] = "nothing" /\ saveId'[t] = NoId /\ ~isAdding'[t]
         /\ \A u \in Clients \ {t} :
              /\ phase'[u] = phase[u] /\ isAdding'[u] = isAdding[u]
              /\ saveId'[u] = saveId[u] /\ content'[u] = content[u]
BY ConfigAssumption DEF Ends, GoesOn, ConfigTypeOK, Phases, Absent

LEMMA BeginsOnType ==
  ASSUME ConfigTypeOK, NEW t \in Clients, NEW i \in ConfigIds, BeginsOn(t, i)
  PROVE  /\ saveId' \in [Clients -> ConfigIds \cup {NoId}] /\ saveId'[t] = i
         /\ \A u \in Clients \ {t} : saveId'[u] = saveId[u]
         /\ doubtful' \subseteq ConfigIds
         /\ doubtful' \cup {i} = doubtful \cup {i}
         /\ i \notin doubtful' => \A u \in Clients \ {t} : ~WorksOn(u, i)
BY DEF BeginsOn, SharesId, WorksOn, ConfigTypeOK

LEMMA GoesOnType ==
  ASSUME ConfigTypeOK, NEW t \in Clients, NEW what \in Phases, GoesOn(t, what)
  PROVE  /\ phase' \in [Clients -> Phases] /\ phase'[t] = what
         /\ \A u \in Clients \ {t} : phase'[u] = phase[u]
BY DEF GoesOn, ConfigTypeOK, Phases

-----------------------------------------------------------------------------
\* add begins.
LEMMA AddConfigKeeps ==
  ASSUME ConfigInv, NEW t \in Clients, AddConfig(t)
  PROVE  ConfigInv'
<1> USE DEF ConfigInv, storage, WorksOn
<1>1. /\ phase' \in [Clients -> Phases] /\ phase'[t] = "probe"
      /\ \A u \in Clients \ {t} : phase'[u] = phase[u]
  BY GoesOnType DEF AddConfig, Phases
<1>2. /\ phase[t] = "nothing" /\ isUp /\ saveId[t] = NoId
      /\ UNCHANGED <<isUp, configList, configFile, saveId, known, deaths, doubtful>>
      /\ \A u \in Clients \ {t} : isAdding'[u] = isAdding[u] /\ content'[u] = content[u]
  BY DEF AddConfig, RequestsOK, ConfigTypeOK
<1>3. ConfigTypeOK'
  <2>1. untried' \in [Clients -> Seq(ConfigIds)]
    BY ConfigAssumption DEF AddConfig, ConfigTypeOK
  <2>2. /\ isAdding' \in [Clients -> BOOLEAN] /\ content' \in [Clients -> 0 .. MaxWrites]
        /\ writes' \in 0 .. MaxWrites
    BY ConfigAssumption DEF AddConfig, ConfigTypeOK
  <2> QED
    BY <1>1, <1>2, <2>1, <2>2 DEF ConfigTypeOK, Phases
<1>4. RequestsOK'
  BY <1>1, <1>2 DEF RequestsOK
<1>5. AloneOnId' /\ FilesFollowMap'
  BY <1>2 DEF AloneOnId, FilesFollowMap
<1>6. MapLeads'
  BY <1>1, <1>2 DEF MapLeads
<1>7. AddsReplaceNothing'
  BY <1>1, <1>2 DEF AddsReplaceNothing
<1> QED
  BY <1>3, <1>4, <1>5, <1>6, <1>7

\* add looks up an id, and uses it if it is free.
LEMMA ProbeIdKeeps ==
  ASSUME ConfigInv, NEW t \in Clients, ProbeId(t)
  PROVE  ConfigInv'
<1> USE DEF ConfigInv, storage, WorksOn
<1> DEFINE i == Head(untried[t])
<1>1. /\ phase[t] = "probe" /\ saveId[t] = NoId /\ isUp
      /\ UNCHANGED <<isUp, configList, configFile, isAdding, content, writes, known, deaths>>
  BY DEF ProbeId, RequestsOK
<1>2. i \in ConfigIds /\ Tail(untried[t]) \in Seq(ConfigIds)
  BY DEF ProbeId, ConfigTypeOK
<1> HIDE DEF i
<1>3. untried' \in [Clients -> Seq(ConfigIds)]
  <2>1. untried' = [untried EXCEPT ![t] = Tail(untried[t])]
        \/ untried' = [untried EXCEPT ![t] = <<>>]
    BY DEF ProbeId
  <2>2. <<>> \in Seq(ConfigIds) /\ untried \in [Clients -> Seq(ConfigIds)]
    BY DEF ConfigTypeOK
  <2> QED
    BY <1>2, <2>1, <2>2
<1>4. CASE IsTaken(t, i)
  <2>1. UNCHANGED <<phase, saveId, doubtful>>
    BY <1>4 DEF ProbeId, i
  <2>2. ConfigTypeOK'
    BY <1>1, <1>3, <2>1 DEF ConfigTypeOK
  <2> QED
    BY <1>1, <2>1, <2>2
    DEF RequestsOK, AloneOnId, MapLeads, AddsReplaceNothing, FilesFollowMap
<1>5. CASE ~IsTaken(t, i)
  <2>1. BeginsOn(t, i) /\ GoesOn(t, "put") /\ configList[i] = Absent
    BY <1>5 DEF ProbeId, IsTaken, i
  <2>2. /\ phase' \in [Clients -> Phases] /\ phase'[t] = "put"
        /\ \A u \in Clients \ {t} : phase'[u] = phase[u]
    BY <2>1, GoesOnType DEF Phases
  <2>3. /\ saveId' \in [Clients -> ConfigIds \cup {NoId}] /\ saveId'[t] = i
        /\ \A u \in Clients \ {t} : saveId'[u] = saveId[u]
        /\ doubtful' \subseteq ConfigIds
        /\ doubtful' \cup {i} = doubtful \cup {i}
        /\ i \notin doubtful' => \A u \in Clients \ {t} : ~WorksOn(u, i)
    BY <1>2, <2>1, BeginsOnType
  <2>4. ConfigTypeOK'
    BY <1>1, <1>3, <2>2, <2>3 DEF ConfigTypeOK, Phases
  <2>5. RequestsOK'
    BY <1>1, <1>2, <2>2, <2>3, ConfigAssumption DEF RequestsOK
  <2>6. AloneOnId'
    BY <2>3 DEF AloneOnId
  <2>7. MapLeads'
    BY <1>1, <2>2, <2>3 DEF MapLeads
  <2>8. AddsReplaceNothing'
    <3> SUFFICES ASSUME NEW u \in Clients, phase'[u] = "put", isAdding[u],
                        saveId'[u] \notin doubtful'
                 PROVE  configList[saveId'[u]] = Absent
      BY <1>1 DEF AddsReplaceNothing
    <3>1. CASE u = t
      BY <2>1, <2>3, <3>1
    <3>2. CASE u # t
      <4>1. phase[u] = "put" /\ saveId'[u] = saveId[u]
        BY <2>2, <2>3, <3>2
      <4>2. saveId[u] \notin doubtful
        BY <2>3, <3>2, <4>1
      <4> QED
        BY <4>1, <4>2 DEF AddsReplaceNothing
    <3> QED
      BY <3>1, <3>2
  <2>9. FilesFollowMap'
    BY <1>1, <1>2, <2>3, ConfigAssumption DEF FilesFollowMap
  <2> QED
    BY <2>4, <2>5, <2>6, <2>7, <2>8, <2>9
<1> QED
  BY <1>4, <1>5

\* update begins.
LEMMA UpdateConfigKeeps ==
  ASSUME ConfigInv, NEW t \in Clients, UpdateConfig(t)
  PROVE  ConfigInv'
<1> USE DEF ConfigInv, storage, WorksOn
<1>1. /\ phase[t] = "nothing" /\ saveId[t] = NoId /\ isUp /\ ~isAdding[t]
      /\ UNCHANGED <<isUp, configList, configFile, isAdding, untried, known, deaths>>
      /\ \A u \in Clients \ {t} : content'[u] = content[u]
  BY DEF UpdateConfig, RequestsOK, ConfigTypeOK
<1>2. PICK i \in ConfigIds : BeginsOn(t, i)
  BY DEF UpdateConfig, ConfigTypeOK
<1>3. /\ phase' \in [Clients -> Phases] /\ phase'[t] = "put"
      /\ \A u \in Clients \ {t} : phase'[u] = phase[u]
  BY GoesOnType DEF UpdateConfig, Phases
<1>4. /\ saveId' \in [Clients -> ConfigIds \cup {NoId}] /\ saveId'[t] = i
      /\ \A u \in Clients \ {t} : saveId'[u] = saveId[u]
      /\ doubtful' \subseteq ConfigIds
      /\ doubtful' \cup {i} = doubtful \cup {i}
      /\ i \notin doubtful' => \A u \in Clients \ {t} : ~WorksOn(u, i)
  BY <1>2, BeginsOnType
<1>5. ConfigTypeOK'
  <2>1. content' \in [Clients -> 0 .. MaxWrites] /\ writes' \in 0 .. MaxWrites
    BY ConfigAssumption DEF UpdateConfig, ConfigTypeOK
  <2> QED
    BY <1>1, <1>3, <1>4, <2>1 DEF ConfigTypeOK, Phases
<1>6. RequestsOK'
  BY <1>1, <1>3, <1>4, ConfigAssumption DEF RequestsOK
<1>7. AloneOnId'
  BY <1>4 DEF AloneOnId
<1>8. MapLeads'
  BY <1>1, <1>3, <1>4 DEF MapLeads
<1>9. AddsReplaceNothing'
  <2> SUFFICES ASSUME NEW u \in Clients, phase'[u] = "put", isAdding[u],
                      saveId'[u] \notin doubtful'
               PROVE  configList[saveId'[u]] = Absent
    BY <1>1 DEF AddsReplaceNothing
  <2>1. u # t /\ phase[u] = "put" /\ saveId'[u] = saveId[u]
    BY <1>1, <1>3, <1>4
  <2>2. saveId[u] \notin doubtful
    BY <1>4, <2>1
  <2> QED
    BY <2>1, <2>2 DEF AddsReplaceNothing
<1>10. FilesFollowMap'
  BY <1>1, <1>4, ConfigAssumption DEF FilesFollowMap
<1> QED
  BY <1>5, <1>6, <1>7, <1>8, <1>9, <1>10

\* remove takes the configuration out of the map.
LEMMA RemoveConfigKeeps ==
  ASSUME ConfigInv, NEW t \in Clients, RemoveConfig(t)
  PROVE  ConfigInv'
<1> USE DEF ConfigInv, WorksOn
<1>1. /\ phase[t] = "nothing" /\ saveId[t] = NoId /\ isUp /\ ~isAdding[t]
      /\ UNCHANGED <<isUp, configFile, isAdding, untried, content, writes, known, deaths>>
  BY DEF RemoveConfig, RequestsOK, ConfigTypeOK
<1>2. PICK i \in ConfigIds : BeginsOn(t, i) /\ configList' = Removed(i)
  BY DEF RemoveConfig, ConfigTypeOK
<1>3. /\ phase' \in [Clients -> Phases] /\ phase'[t] = "unlink"
      /\ \A u \in Clients \ {t} : phase'[u] = phase[u]
  BY GoesOnType DEF RemoveConfig, Phases
<1>4. /\ saveId' \in [Clients -> ConfigIds \cup {NoId}] /\ saveId'[t] = i
      /\ \A u \in Clients \ {t} : saveId'[u] = saveId[u]
      /\ doubtful' \subseteq ConfigIds
      /\ doubtful' \cup {i} = doubtful \cup {i}
      /\ i \notin doubtful' => \A u \in Clients \ {t} : ~WorksOn(u, i)
  BY <1>2, BeginsOnType
<1>5. /\ configList' \in [ConfigIds -> 0 .. MaxWrites] /\ configList'[i] = Absent
      /\ \A j \in ConfigIds \ {i} : configList'[j] = configList[j]
  BY <1>2, ConfigAssumption DEF Removed, ConfigTypeOK, Absent
<1>6. ConfigTypeOK'
  BY <1>1, <1>3, <1>4, <1>5 DEF ConfigTypeOK, Phases
<1>7. RequestsOK'
  BY <1>1, <1>3, <1>4, ConfigAssumption DEF RequestsOK
<1>8. AloneOnId'
  BY <1>4 DEF AloneOnId
<1>9. MapLeads'
  BY <1>1, <1>3, <1>4, <1>5 DEF MapLeads
<1>10. AddsReplaceNothing'
  <2> SUFFICES ASSUME NEW u \in Clients, phase'[u] = "put", isAdding'[u],
                      saveId'[u] \notin doubtful'
               PROVE  configList'[saveId'[u]] = Absent
    BY DEF AddsReplaceNothing
  <2>1. u # t /\ phase[u] = "put" /\ isAdding[u] /\ saveId'[u] = saveId[u]
    BY <1>1, <1>3, <1>4
  <2>2. saveId[u] \in ConfigIds /\ saveId[u] # NoId
    BY <2>1 DEF ConfigTypeOK, RequestsOK
  <2>3. saveId[u] # i /\ saveId[u] \notin doubtful
    BY <1>4, <2>1
  <2> QED
    BY <1>5, <2>1, <2>2, <2>3 DEF AddsReplaceNothing
<1>11. FilesFollowMap'
  BY <1>1, <1>4, <1>5, ConfigAssumption DEF FilesFollowMap
<1> QED
  BY <1>6, <1>7, <1>8, <1>9, <1>10, <1>11
\* The configuration is put into the map, in place of nothing a request adds.
LEMMA PutConfigurationKeeps ==
  ASSUME ConfigInv, NEW t \in Clients, PutConfiguration(t)
  PROVE  ConfigInv'
<1> USE DEF ConfigInv, WorksOn
<1> DEFINE i == saveId[t]
<1>1. /\ phase[t] = "put" /\ i \in ConfigIds /\ isUp
      /\ UNCHANGED <<isUp, configFile, isAdding, untried, saveId, content, writes, deaths,
                     doubtful>>
  BY DEF PutConfiguration, RequestsOK, ConfigTypeOK
<1>2. /\ phase' \in [Clients -> Phases] /\ phase'[t] = "open"
      /\ \A u \in Clients \ {t} : phase'[u] = phase[u]
  BY GoesOnType DEF PutConfiguration, Phases
<1>3. /\ configList' \in [ConfigIds -> 0 .. MaxWrites] /\ configList'[i] = content[t]
      /\ \A j \in ConfigIds \ {i} : configList'[j] = configList[j]
      /\ known' \subseteq ConfigIds
  BY <1>1 DEF PutConfiguration, ConfigTypeOK
<1> HIDE DEF i
<1>4. ConfigTypeOK'
  BY <1>1, <1>2, <1>3 DEF ConfigTypeOK, Phases
<1>5. RequestsOK'
  BY <1>1, <1>2, ConfigAssumption DEF RequestsOK, i
<1>6. AloneOnId'
  BY <1>1 DEF AloneOnId
<1>7. i \notin doubtful => \A u \in Clients \ {t} : ~WorksOn(u, i)
  BY <1>1 DEF AloneOnId, i
<1>8. MapLeads'
  <2> SUFFICES ASSUME NEW u \in Clients, NEW j \in ConfigIds \ doubtful, saveId[u] = j
               PROVE  /\ phase'[u] \in {"open", "write"} => configList'[j] = content[u]
                      /\ phase'[u] = "unlink" => configList'[j] = Absent
    BY <1>1 DEF MapLeads
  <2>1. CASE u = t
    BY <1>2, <1>3, <2>1 DEF i
  <2>2. CASE u # t
    BY <1>2, <1>3, <1>7, <2>2 DEF MapLeads
  <2> QED
    BY <2>1, <2>2
<1>9. AddsReplaceNothing'
  <2> SUFFICES ASSUME NEW u \in Clients, phase'[u] = "put", isAdding[u],
                      saveId[u] \notin doubtful
               PROVE  configList'[saveId[u]] = Absent
    BY <1>1 DEF AddsReplaceNothing
  <2>1. u # t /\ phase[u] = "put"
    BY <1>2
  <2>2. saveId[u] \in ConfigIds
    BY <2>1 DEF ConfigTypeOK, RequestsOK
  <2>3. saveId[u] # i
    BY <1>7, <2>1
  <2> QED
    BY <1>3, <2>1, <2>2, <2>3 DEF AddsReplaceNothing
<1>10. FilesFollowMap'
  BY <1>1, <1>3 DEF FilesFollowMap, i
<1> QED
  BY <1>4, <1>5, <1>6, <1>8, <1>9, <1>10

(***************************************************************************)
(* A thread answers its request, after it changed at most the file of its  *)
(* id: when the id is in no doubt, the file has what the map has.          *)
(***************************************************************************)
LEMMA AnswerKeeps ==
  ASSUME ConfigInv, NEW t \in Clients, Ends(t), NEW i \in ConfigIds, saveId[t] = i,
         isUp,
         UNCHANGED <<isUp, configList, untried, writes, known, deaths>>,
         configFile' \in [ConfigIds -> Torn .. MaxWrites],
         \A j \in ConfigIds \ {i} : configFile'[j] = configFile[j],
         doubtful' \subseteq ConfigIds, doubtful' \cup {i} = doubtful \cup {i},
         doubtful \subseteq doubtful',
         i \notin doubtful' => configFile'[i] = configList[i]
  PROVE  ConfigInv'
<1> USE DEF ConfigInv, WorksOn
<1>1. /\ phase' \in [Clients -> Phases] /\ isAdding' \in [Clients -> BOOLEAN]
      /\ saveId' \in [Clients -> ConfigIds \cup {NoId}]
      /\ content' \in [Clients -> 0 .. MaxWrites]
      /\ phase'[t] = "nothing" /\ saveId'[t] = NoId /\ ~isAdding'[t]
      /\ \A u \in Clients \ {t} :
           /\ phase'[u] = phase[u] /\ isAdding'[u] = isAdding[u]
           /\ saveId'[u] = saveId[u] /\ content'[u] = content[u]
  BY EndsType
<1>2. ConfigTypeOK'
  BY <1>1 DEF ConfigTypeOK, Phases
<1>3. RequestsOK'
  BY <1>1 DEF RequestsOK
<1>4. ASSUME NEW u \in Clients, NEW j \in ConfigIds \ doubtful', saveId'[u] = j
      PROVE  /\ u # t /\ j \in ConfigIds \ doubtful
             /\ saveId[u] = j /\ phase'[u] = phase[u] /\ content'[u] = content[u]
  <2>1. u # t
    BY <1>1, <1>4, ConfigAssumption
  <2> QED
    BY <1>1, <1>4, <2>1
<1>5. AloneOnId' /\ MapLeads'
  <2>1. AloneOnId'
    BY <1>4 DEF AloneOnId
  <2> QED
    BY <1>4, <2>1 DEF MapLeads
<1>6. AddsReplaceNothing'
  BY <1>1 DEF AddsReplaceNothing
<1>7. FilesFollowMap'
  <2> SUFFICES ASSUME NEW j \in ConfigIds \ doubtful', \A u \in Clients : ~(saveId'[u] = j)
               PROVE  configFile'[j] # Torn /\ configFile'[j] = configList[j]
    BY DEF FilesFollowMap
  <2>1. CASE j = i
    <3>1. configList[i] # Torn
      BY ConfigAssumption DEF ConfigTypeOK, Torn
    <3> QED
      BY <2>1, <3>1
  <2>2. CASE j # i
    <3>1. \A u \in Clients : ~(saveId[u] = j)
      BY <1>1, <2>2
    <3> QED
      BY <2>2, <3>1 DEF FilesFollowMap
  <2> QED
    BY <2>1, <2>2
<1> QED
  BY <1>2, <1>3, <1>4, <1>5, <1>6, <1>7

\* The file is not saved or deleted: the id is in doubt from here on.
LEMMA FileStaysKeeps ==
  ASSUME ConfigInv, NEW t \in Clients, phase[t] \in {"open", "write", "unlink"}, FileStays(t),
         UNCHANGED <<isUp, configList, untried, writes, known, deaths>>
  PROVE  ConfigInv'
<1>1. saveId[t] \in ConfigIds /\ isUp
  BY DEF ConfigInv, ConfigTypeOK, RequestsOK
<1>2. Ends(t) /\ UNCHANGED configFile /\ doubtful' = doubtful \cup {saveId[t]}
  BY DEF FileStays
<1>3. configFile \in [ConfigIds -> Torn .. MaxWrites] /\ doubtful \subseteq ConfigIds
  BY DEF ConfigInv, ConfigTypeOK
<1> QED
  BY <1>1, <1>2, <1>3, AnswerKeeps

\* The file is emptied, by the thread that works on its id.
LEMMA OpenConfigFileKeeps ==
  ASSUME ConfigInv, NEW t \in Clients, OpenConfigFile(t)
  PROVE  ConfigInv'
<1> USE DEF ConfigInv, WorksOn
<1>1. phase[t] = "open" /\ UNCHANGED <<isUp, configList, untried, writes, known, deaths>>
  BY DEF OpenConfigFile
<1>2. CASE FileStays(t)
  BY <1>1, <1>2, FileStaysKeeps
<1>3. CASE /\ configFile' = [configFile EXCEPT ![saveId[t]] = Torn]
           /\ GoesOn(t, "write")
           /\ UNCHANGED <<isAdding, saveId, content, doubtful>>
  <2>1. saveId[t] \in ConfigIds /\ isUp
    BY <1>1 DEF ConfigTypeOK, RequestsOK
  <2>2. /\ phase' \in [Clients -> Phases] /\ phase'[t] = "write"
        /\ \A u \in Clients \ {t} : phase'[u] = phase[u]
    BY <1>3, GoesOnType DEF Phases
  <2>3. configFile' \in [ConfigIds -> Torn .. MaxWrites]
    <3>1. Torn \in Torn .. MaxWrites
      BY ConfigAssumption DEF Torn
    <3> QED
      BY <1>3, <3>1 DEF ConfigTypeOK
  <2>4. ConfigTypeOK'
    BY <1>1, <1>3, <2>2, <2>3 DEF ConfigTypeOK, Phases
  <2>5. RequestsOK'
    BY <1>1, <1>3, <2>2 DEF RequestsOK
  <2>6. AloneOnId' /\ AddsReplaceNothing'
    BY <1>1, <1>3, <2>2 DEF AloneOnId, AddsReplaceNothing
  <2>7. MapLeads'
    BY <1>1, <1>3, <2>2 DEF MapLeads
  <2>8. FilesFollowMap'
    BY <1>1, <1>3, <2>1 DEF FilesFollowMap, ConfigTypeOK
  <2> QED
    BY <2>4, <2>5, <2>6, <2>7, <2>8
<1> QED
  BY <1>2, <1>3 DEF OpenConfigFile

\* The file is written.
LEMMA WriteConfigFileKeeps ==
  ASSUME ConfigInv, NEW t \in Clients, WriteConfigFile(t)
  PROVE  ConfigInv'
<1> DEFINE i == saveId[t]
<1>1. phase[t] = "write" /\ UNCHANGED <<isUp, configList, untried, writes, known, deaths>>
  BY DEF WriteConfigFile
<1>2. CASE FileStays(t)
  BY <1>1, <1>2, FileStaysKeeps
<1>3. CASE /\ \E v \in Outcomes(t, i) : configFile' = [configFile EXCEPT ![i] = v]
           /\ Ends(t)
           /\ UNCHANGED doubtful
  <2>1. i \in ConfigIds /\ isUp
    BY <1>1 DEF ConfigInv, ConfigTypeOK, RequestsOK
  <2>2. PICK v \in Outcomes(t, i) : configFile' = [configFile EXCEPT ![i] = v]
    BY <1>3
  <2>3. v \in Torn .. MaxWrites
    <3>1. content[t] \in Torn .. MaxWrites /\ configFile[i] \in Torn .. MaxWrites
          /\ Torn \in Torn .. MaxWrites
      BY <2>1, ConfigAssumption DEF ConfigInv, ConfigTypeOK, Torn
    <3> QED
      BY <2>2, <3>1 DEF Outcomes
  <2>4. i \notin doubtful => v = configList[i]
    <3>1. i \notin doubtful => ~SharesId(t, i)
      BY <2>1 DEF SharesId, WorksOn, ConfigInv, AloneOnId
    <3>2. i \notin doubtful => configList[i] = content[t]
      BY <1>1, <2>1 DEF ConfigInv, MapLeads, WorksOn
    <3> QED
      BY <2>2, <3>1, <3>2 DEF Outcomes
  <2>5. /\ configFile' \in [ConfigIds -> Torn .. MaxWrites] /\ configFile'[i] = v
        /\ \A j \in ConfigIds \ {i} : configFile'[j] = configFile[j]
    BY <2>1, <2>2, <2>3 DEF ConfigInv, ConfigTypeOK
  <2>6. doubtful \subseteq ConfigIds
    BY DEF ConfigInv, ConfigTypeOK
  <2> HIDE DEF i
  <2>7. saveId[t] = i
    BY DEF i
  <2> QED
    BY <1>1, <1>3, <2>1, <2>4, <2>5, <2>6, <2>7, AnswerKeeps
<1> QED
  BY <1>2, <1>3 DEF WriteConfigFile

\* The file is deleted.
LEMMA DeleteConfigFileKeeps ==
  ASSUME ConfigInv, NEW t \in Clients, DeleteConfigFile(t)
  PROVE  ConfigInv'
<1> DEFINE i == saveId[t]
<1>1. phase[t] = "unlink" /\ UNCHANGED <<isUp, configList, untried, writes, known, deaths>>
  BY DEF DeleteConfigFile
<1>2. CASE FileStays(t)
  BY <1>1, <1>2, FileStaysKeeps
<1>3. CASE /\ configFile' = [configFile EXCEPT ![i] = Absent]
           /\ Ends(t)
           /\ UNCHANGED doubtful
  <2>1. i \in ConfigIds /\ isUp
    BY <1>1 DEF ConfigInv, ConfigTypeOK, RequestsOK
  <2>2. /\ configFile' \in [ConfigIds -> Torn .. MaxWrites] /\ configFile'[i] = Absent
        /\ \A j \in ConfigIds \ {i} : configFile'[j] = configFile[j]
    BY <1>3, <2>1, ConfigAssumption DEF ConfigInv, ConfigTypeOK, Absent, Torn
  <2>3. i \notin doubtful => configList[i] = Absent
    BY <1>1, <2>1 DEF ConfigInv, MapLeads, WorksOn
  <2>4. doubtful \subseteq ConfigIds
    BY DEF ConfigInv, ConfigTypeOK
  <2> HIDE DEF i
  <2>5. saveId[t] = i
    BY DEF i
  <2> QED
    BY <1>1, <1>3, <2>1, <2>2, <2>3, <2>4, <2>5, AnswerKeeps
<1> QED
  BY <1>2, <1>3 DEF DeleteConfigFile

-----------------------------------------------------------------------------
\* The server dies: the files no thread was at are whole.
LEMMA ServerDiesKeeps == ConfigInv /\ ServerDies => ConfigInv'
<1> SUFFICES ASSUME ConfigInv, ServerDies
             PROVE  ConfigInv'
  OBVIOUS
<1>1. ConfigTypeOK'
  <2>1. /\ untried' \in [Clients -> Seq(ConfigIds)]
        /\ configList' \in [ConfigIds -> 0 .. MaxWrites]
        /\ content' \in [Clients -> 0 .. MaxWrites]
    BY ConfigAssumption DEF ServerDies, Absent
  <2>2. deaths' \in 0 .. MaxDeaths /\ doubtful' \subseteq ConfigIds
    BY ConfigAssumption DEF ServerDies, ConfigInv, ConfigTypeOK
  <2> QED
    BY <2>1, <2>2 DEF ServerDies, ConfigInv, ConfigTypeOK
<1>2. RequestsOK'
  BY DEF ServerDies, RequestsOK
<1>3. AloneOnId' /\ MapLeads' /\ AddsReplaceNothing'
  BY ConfigAssumption DEF ServerDies, AloneOnId, MapLeads, AddsReplaceNothing, WorksOn
<1>4. FilesFollowMap'
  BY DEF ServerDies, ConfigInv, FilesFollowMap, WorksOn
<1> QED
  BY <1>1, <1>2, <1>3, <1>4 DEF ConfigInv

\* The server starts: no file is torn, or it would not.
LEMMA ServerStartsKeeps == ConfigInv /\ ServerStarts => ConfigInv'
<1> SUFFICES ASSUME ConfigInv, ServerStarts
             PROVE  ConfigInv'
  OBVIOUS
<1> USE DEF ConfigInv
<1>1. /\ UNCHANGED <<configFile, phase, isAdding, untried, saveId, content, writes, known,
                     deaths>>
      /\ configList' = configFile /\ doubtful' = {} /\ isUp' = TRUE
      /\ \A i \in ConfigIds : configFile[i] # Torn
      /\ \A t \in Clients : phase[t] = "nothing" /\ saveId[t] = NoId
  BY DEF ServerStarts, request, RequestsOK
<1>2. configFile \in [ConfigIds -> 0 .. MaxWrites]
  <2>1. \A i \in ConfigIds : configFile[i] \in 0 .. MaxWrites
    BY <1>1, ConfigAssumption DEF ConfigTypeOK, Torn
  <2> QED
    BY <2>1 DEF ConfigTypeOK
<1>3. ConfigTypeOK'
  BY <1>1, <1>2 DEF ConfigTypeOK
<1>4. RequestsOK'
  BY <1>1 DEF RequestsOK
<1>5. AloneOnId' /\ MapLeads' /\ AddsReplaceNothing'
  BY <1>1, ConfigAssumption DEF AloneOnId, MapLeads, AddsReplaceNothing, WorksOn
<1>6. FilesFollowMap'
  BY <1>1 DEF FilesFollowMap
<1> QED
  BY <1>3, <1>4, <1>5, <1>6

LEMMA NextConfig == ConfigInv /\ [ConfigNext]_configVars => ConfigInv'
<1> SUFFICES ASSUME ConfigInv, [ConfigNext]_configVars
             PROVE  ConfigInv'
  OBVIOUS
<1>1. ASSUME NEW t \in Clients, AddConfig(t) \/ ProbeId(t) \/ UpdateConfig(t)
      PROVE  ConfigInv'
  BY <1>1, AddConfigKeeps, ProbeIdKeeps, UpdateConfigKeeps
<1>2. ASSUME NEW t \in Clients, PutConfiguration(t) \/ OpenConfigFile(t) \/ WriteConfigFile(t)
      PROVE  ConfigInv'
  BY <1>2, PutConfigurationKeeps, OpenConfigFileKeeps, WriteConfigFileKeeps
<1>3. ASSUME NEW t \in Clients, RemoveConfig(t) \/ DeleteConfigFile(t)
      PROVE  ConfigInv'
  BY <1>3, RemoveConfigKeeps, DeleteConfigFileKeeps
<1>4. CASE ServerDies \/ ServerStarts
  BY <1>4, ServerDiesKeeps, ServerStartsKeeps
<1>5. CASE UNCHANGED configVars
  <2>1. UNCHANGED <<isUp, configList, configFile, phase, isAdding, untried, saveId, content,
                    writes, known, deaths, doubtful>>
    BY <1>5 DEF configVars, storage, request
  <2>2. ConfigTypeOK' /\ RequestsOK'
    BY <2>1 DEF ConfigInv, ConfigTypeOK, RequestsOK
  <2>3. AloneOnId' /\ MapLeads' /\ AddsReplaceNothing' /\ FilesFollowMap'
    BY <2>1
    DEF ConfigInv, AloneOnId, MapLeads, AddsReplaceNothing, FilesFollowMap, WorksOn
  <2> QED
    BY <2>2, <2>3 DEF ConfigInv
<1> QED
  BY <1>1, <1>2, <1>3, <1>4, <1>5 DEF ConfigNext

LEMMA InitConfig == ConfigInit => ConfigInv
<1> SUFFICES ASSUME ConfigInit
             PROVE  ConfigInv
  OBVIOUS
<1>1. ConfigTypeOK
  <2>1. /\ untried \in [Clients -> Seq(ConfigIds)]
        /\ configList \in [ConfigIds -> 0 .. MaxWrites]
        /\ configFile \in [ConfigIds -> Torn .. MaxWrites]
        /\ content \in [Clients -> 0 .. MaxWrites]
        /\ writes \in 0 .. MaxWrites /\ deaths \in 0 .. MaxDeaths
    BY ConfigAssumption DEF ConfigInit, Absent, Torn
  <2> QED
    BY <2>1 DEF ConfigInit, ConfigTypeOK
<1>2. RequestsOK
  BY DEF ConfigInit, RequestsOK
<1>3. AloneOnId /\ MapLeads /\ AddsReplaceNothing
  BY ConfigAssumption DEF ConfigInit, AloneOnId, MapLeads, AddsReplaceNothing, WorksOn
<1>4. FilesFollowMap
  BY DEF ConfigInit, FilesFollowMap, Absent, Torn
<1> QED
  BY <1>1, <1>2, <1>3, <1>4 DEF ConfigInv

LEMMA ConfigInvAlways == ConfigSpec => []ConfigInv
BY InitConfig, NextConfig, PTL DEF ConfigSpec

(***************************************************************************)
(* The map, the files and the requests have their types.                   *)
(***************************************************************************)
THEOREM ConfigTypeCorrect == ConfigSpec => []ConfigTypeOK
<1>1. ConfigInv => ConfigTypeOK
  BY DEF ConfigInv
<1> QED
  BY <1>1, ConfigInvAlways, PTL

(***************************************************************************)
(* A configuration that is added takes the place of no other, unless two   *)
(* requests work on its id at the same time.                               *)
(***************************************************************************)
THEOREM AddedConfigsAreNew == ConfigSpec => []AddsReplaceNothing
<1>1. ConfigInv => AddsReplaceNothing
  BY DEF ConfigInv
<1> QED
  BY <1>1, ConfigInvAlways, PTL

(***************************************************************************)
(* The files are what the map is, where two requests did not meet and no   *)
(* file failed to be saved or deleted.                                     *)
(***************************************************************************)
THEOREM ConfigFilesFollow == ConfigSpec => []FilesFollowMap
<1>1. ConfigInv => FilesFollowMap
  BY DEF ConfigInv
<1> QED
  BY <1>1, ConfigInvAlways, PTL

-----------------------------------------------------------------------------
(***************************************************************************)
(* The knowledge base page: its lists are those of the selection.          *)
(***************************************************************************)
\* The invariant, of lists ls and indices is when s and t are selected.
Shows(ls, is, s, t) ==
  /\ \A l \in Levels : ls[l] # EmptyList => ls[l].of = Owner(l, s, t)
  /\ \A l \in Levels : ls[l].kind = "page" => ls[l].no = is[l]
  /\ t # Nothing => s = SchemaOf[t]

Indices == 0 .. MaxPages + 1

KbInv == KbTypeOK /\ ListsBelongToSelection

-----------------------------------------------------------------------------
\* The lists an action can set.
LEMMA ListTypes ==
  /\ EmptyList \in ListSet /\ EmptyList.kind = "empty"
  /\ \A p \in Schemas \cup Types \cup {Nothing}, n \in Indices :
       /\ Plain(p) \in ListSet /\ Plain(p).kind = "plain" /\ Plain(p).of = p
       /\ Page(p, n) \in ListSet /\ Page(p, n).kind = "page"
       /\ Page(p, n).of = p /\ Page(p, n).no = n
  /\ 0 \in Indices /\ 1 \in Indices
BY BrowserAssumption DEF EmptyList, Plain, Page, ListSet, Indices

LEMMA PageType ==
  ASSUME NEW p \in Schemas \cup Types \cup {Nothing}, NEW n \in Indices
  PROVE  /\ Page(p, n) \in ListSet /\ Page(p, n).of = p /\ Page(p, n).no = n
BY DEF Page, ListSet, Indices

LEMMA OwnerType ==
  ASSUME NEW s \in Schemas \cup {Nothing}, NEW t \in Types \cup {Nothing}, NEW l \in Levels
  PROVE  Owner(l, s, t) \in Schemas \cup Types \cup {Nothing}
BY DEF Owner, Levels

(***************************************************************************)
(* Rendering keeps what an action has set up: a computed property replaces *)
(* the list and the index together, and with rows of the same owner.       *)
(***************************************************************************)
LEMMA RenderKeeps ==
  ASSUME KbTypeOK,
         NEW touched \in SUBSET Levels, NEW loaded \in SUBSET Levels,
         NEW ls \in [Levels -> ListSet], NEW is \in [Levels -> Indices],
         NEW f \in [Levels -> Filters],
         NEW s \in Schemas \cup {Nothing}, NEW t \in Types \cup {Nothing},
         Shows(ls, is, s, t),
         Render(touched, loaded, ls, is, f, s, t)
  PROVE  KbInv'
<1> DEFINE rs == Reloads(touched, f, s, t)
<1>1. /\ list'  = [l \in Levels |-> IF l \in rs THEN Page(Owner(l, s, t), 1) ELSE ls[l]]
      /\ index' = [l \in Levels |-> IF l \in rs THEN 1 ELSE is[l]]
      /\ filter' = f /\ schema' = s /\ type' = t
  BY DEF Render, FirstIndex
<1>2. rs \subseteq Levels
  BY DEF Reloads
<1>3. list' \in [Levels -> ListSet]
  BY <1>1, OwnerType, ListTypes
<1>4. index' \in [Levels -> 0 .. MaxPages + 1]
  BY <1>1, ListTypes DEF Indices
<1>5. total' \in [Levels -> 0 .. MaxPages]
  <2>1. PICK n \in [rs \cup loaded -> 0 .. MaxPages] :
          total' = [l \in Levels |-> IF l \in rs \cup loaded THEN n[l] ELSE total[l]]
    BY DEF Render
  <2>2. \A l \in Levels : total[l] \in 0 .. MaxPages
    BY DEF KbTypeOK
  <2> HIDE DEF rs
  <2> QED
    BY <2>1, <2>2
<1>6. old' \in [Levels -> Filters]
  <2>1. old' = [l \in Levels |->
                  IF "prop" \in rs /\ l = RememberedIn("prop") THEN f["prop"]
                  ELSE IF l \in rs /\ l # "prop" THEN f[l] ELSE old[l]]
    BY DEF Render
  <2>2. \A l \in Levels : old[l] \in Filters /\ f[l] \in Filters
    BY DEF KbTypeOK
  <2>3. f["prop"] \in Filters
    BY <2>2 DEF Levels
  <2> HIDE DEF rs
  <2> QED
    BY <2>1, <2>2, <2>3
<1>7. KbTypeOK'
  BY <1>1, <1>3, <1>4, <1>5, <1>6 DEF KbTypeOK
<1>8. ASSUME NEW l \in Levels
      PROVE  /\ list'[l] # EmptyList => list'[l].of = Owner(l, s, t)
             /\ list'[l].kind = "page" => list'[l].no = index'[l]
  <2>1. CASE l \in rs
    <3> DEFINE p == Owner(l, s, t)
    <3>1. list'[l] = Page(p, 1) /\ index'[l] = 1
      BY <1>1, <2>1
    <3>2. p \in Schemas \cup Types \cup {Nothing} /\ 1 \in Indices
      BY OwnerType, ListTypes
    <3> HIDE DEF p
    <3>3. Page(p, 1).of = p /\ Page(p, 1).no = 1
      BY <3>2, PageType
    <3> QED
      BY <3>1, <3>3 DEF p
  <2>2. CASE l \notin rs
    BY <1>1, <2>2 DEF Shows
  <2> QED
    BY <2>1, <2>2
<1> QED
  BY <1>1, <1>7, <1>8 DEF KbInv, ListsBelongToSelection, Shows

-----------------------------------------------------------------------------
\* Entering the page.
LEMMA EnterKeeps == KbInv /\ Enter => KbInv'
<1> SUFFICES ASSUME KbInv, Enter
             PROVE  KbInv'
  OBVIOUS
<1> DEFINE ls == [l \in Levels |-> IF l = "schema" THEN Page(Nothing, 1) ELSE EmptyList]
           is == [index EXCEPT !["schema"] = 1]
<1>1. ls \in [Levels -> ListSet] /\ is \in [Levels -> Indices]
  BY ListTypes DEF KbInv, KbTypeOK, Indices
<1>2. Shows(ls, is, Nothing, Nothing)
  BY ListTypes DEF Shows, Owner, Levels, KbInv, KbTypeOK
<1>3. Render(Levels, {"schema"}, ls, is, filter, Nothing, Nothing)
  BY DEF Enter
<1>4. {"schema"} \in SUBSET Levels /\ filter \in [Levels -> Filters] /\ KbTypeOK
  BY DEF Levels, KbInv, KbTypeOK
<1> HIDE DEF ls, is
<1> QED
  BY <1>1, <1>2, <1>3, <1>4, RenderKeeps

\* Typing into a filter.
LEMMA SetFilterKeeps ==
  ASSUME KbInv, NEW l \in Levels, NEW g \in Filters, SetFilter(l, g)
  PROVE  KbInv'
<1>1. Shows(list, index, schema, type)
  BY DEF KbInv, ListsBelongToSelection, Shows
<1>2. /\ KbTypeOK
      /\ list \in [Levels -> ListSet] /\ index \in [Levels -> Indices]
      /\ [filter EXCEPT ![l] = g] \in [Levels -> Filters]
      /\ schema \in Schemas \cup {Nothing} /\ type \in Types \cup {Nothing}
  BY DEF KbInv, KbTypeOK, Indices
<1>3. Render({l}, {}, list, index, [filter EXCEPT ![l] = g], schema, type)
  BY DEF SetFilter
<1> QED
  BY <1>1, <1>2, <1>3, RenderKeeps

\* Selecting a schema.
LEMMA RefreshItemTypesKeeps ==
  ASSUME KbInv, NEW s \in Schemas, RefreshItemTypes(s)
  PROVE  KbInv'
<1> DEFINE ls == [list EXCEPT !["type"] = Page(s, 1), !["prop"] = EmptyList]
           is == [index EXCEPT !["type"] = 1]
           f  == [filter EXCEPT !["type"] = "", !["prop"] = ""]
<1>1. /\ ls \in [Levels -> ListSet] /\ is \in [Levels -> Indices]
      /\ f \in [Levels -> Filters]
  BY ListTypes DEF KbInv, KbTypeOK, Indices, Filters
<1>2. Shows(ls, is, s, Nothing)
  <2>1. /\ ls["schema"] = list["schema"] /\ is["schema"] = index["schema"]
        /\ ls["type"] = Page(s, 1) /\ is["type"] = 1
        /\ ls["prop"] = EmptyList
    BY DEF KbInv, KbTypeOK, Levels
  <2>2. /\ list["schema"] # EmptyList => list["schema"].of = Nothing
        /\ list["schema"].kind = "page" => list["schema"].no = index["schema"]
    BY DEF KbInv, ListsBelongToSelection, Owner, Levels
  <2>3. Page(s, 1).of = s /\ Page(s, 1).no = 1 /\ EmptyList.kind = "empty"
    BY ListTypes
  <2> HIDE DEF ls, is
  <2> QED
    BY <2>1, <2>2, <2>3 DEF Shows, Owner, Levels
<1>3. Render({"type", "prop"}, {"type"}, ls, is, f, s, Nothing)
  BY DEF RefreshItemTypes, TypeAfter
<1>4. {"type", "prop"} \in SUBSET Levels /\ {"type"} \in SUBSET Levels /\ KbTypeOK
  BY DEF Levels, KbInv
<1> HIDE DEF ls, is, f
<1> QED
  BY <1>1, <1>2, <1>3, <1>4, RenderKeeps

\* Selecting a type of the list, which is of the selected schema.
LEMMA RefreshItemPropsKeeps ==
  ASSUME KbInv, NEW t \in Types, RefreshItemProps(t)
  PROVE  KbInv'
<1> DEFINE ls == [list EXCEPT !["prop"] = Page(t, 1)]
           is == [index EXCEPT !["prop"] = 1]
           f  == [filter EXCEPT !["prop"] = ""]
<1>1. /\ ls \in [Levels -> ListSet] /\ is \in [Levels -> Indices]
      /\ f \in [Levels -> Filters] /\ schema \in Schemas \cup {Nothing}
  BY ListTypes DEF KbInv, KbTypeOK, Indices, Filters
<1>2. Shows(ls, is, schema, t)
  <2>1. /\ \A l \in Levels \ {"prop"} : ls[l] = list[l] /\ is[l] = index[l]
        /\ ls["prop"] = Page(t, 1) /\ is["prop"] = 1
    BY DEF KbInv, KbTypeOK, Levels
  <2>2. \A l \in Levels \ {"prop"} :
          /\ Owner(l, schema, t) = Owner(l, schema, type)
          /\ list[l] # EmptyList => list[l].of = Owner(l, schema, type)
          /\ list[l].kind = "page" => list[l].no = index[l]
    BY DEF KbInv, ListsBelongToSelection, Owner, Levels
  <2>3. Page(t, 1).of = t /\ Page(t, 1).no = 1
    BY ListTypes
  <2>4. schema = SchemaOf[t]
    <3>1. list["type"].kind = "page" /\ list["type"].of = SchemaOf[t]
      BY DEF RefreshItemProps
    <3>2. list["type"] # EmptyList
      BY <3>1, ListTypes
    <3> QED
      BY <3>1, <3>2 DEF KbInv, ListsBelongToSelection, Owner, Levels
  <2> HIDE DEF ls, is
  <2> QED
    BY <2>1, <2>2, <2>3, <2>4 DEF Shows, Owner, Levels
<1>3. Render({"prop"}, {"prop"}, ls, is, f, schema, t)
  BY DEF RefreshItemProps
<1>4. {"prop"} \in SUBSET Levels /\ KbTypeOK
  BY DEF Levels, KbInv
<1> HIDE DEF ls, is, f
<1> QED
  BY <1>1, <1>2, <1>3, <1>4, RenderKeeps

\* Turning a page.
LEMMA TurnKeeps ==
  ASSUME KbInv, NEW l \in Levels, NEW n \in 1 .. MaxPages, Turn(l, n)
  PROVE  KbInv'
<1> DEFINE p  == Owner(l, schema, type)
           ls == [list EXCEPT ![l] = Page(p, n)]
           is == [index EXCEPT ![l] = n]
<1>1. p \in Schemas \cup Types \cup {Nothing} /\ n \in Indices
  BY OwnerType, BrowserAssumption DEF KbInv, KbTypeOK, Indices
<1>2. /\ Page(p, n) \in ListSet
      /\ Page(p, n).of = p /\ Page(p, n).no = n
  BY <1>1, ListTypes
<1> HIDE DEF p
<1>3. /\ ls \in [Levels -> ListSet] /\ is \in [Levels -> Indices]
      /\ schema \in Schemas \cup {Nothing} /\ type \in Types \cup {Nothing}
      /\ filter \in [Levels -> Filters] /\ KbTypeOK
  BY <1>1, <1>2 DEF KbInv, KbTypeOK, Indices
<1>4. Shows(ls, is, schema, type)
  <2>1. ASSUME NEW k \in Levels
        PROVE  /\ ls[k] # EmptyList => ls[k].of = Owner(k, schema, type)
               /\ ls[k].kind = "page" => ls[k].no = is[k]
    <3>1. CASE k = l
      BY <1>2, <3>1 DEF p, KbInv, KbTypeOK
    <3>2. CASE k # l
      BY <3>2 DEF KbInv, ListsBelongToSelection, KbTypeOK
    <3> QED
      BY <3>1, <3>2
  <2> QED
    BY <2>1 DEF Shows, KbInv, ListsBelongToSelection
<1>5. Render({l}, {}, ls, is, filter, schema, type)
  BY DEF Turn, p
<1> HIDE DEF ls, is
<1> QED
  BY <1>3, <1>4, <1>5, RenderKeeps

\* Closing a modal.
LEMMA CloseModalKeeps ==
  ASSUME KbInv, NEW l \in Levels, NEW deleted \in BOOLEAN, CloseModal(l, deleted)
  PROVE  KbInv'
<1> DEFINE p     == Owner(l, schema, type)
           below == IF deleted THEN Below(l) ELSE {}
           ls    == [m \in Levels |-> IF m = l THEN Plain(p)
                                      ELSE IF m \in below THEN EmptyList ELSE list[m]]
<1>1. p \in Schemas \cup Types \cup {Nothing}
  BY OwnerType DEF KbInv, KbTypeOK
<1>2. Plain(p) \in ListSet /\ Plain(p).of = p /\ Plain(p).kind = "plain"
  BY <1>1, ListTypes
<1> HIDE DEF p
<1>3. below \in SUBSET Levels
  BY DEF Below, Levels
<1> HIDE DEF below
<1>4. ls \in [Levels -> ListSet]
  BY <1>2, ListTypes DEF KbInv, KbTypeOK
<1>5. Shows(ls, index, schema, type)
  <2>1. ASSUME NEW k \in Levels
        PROVE  /\ ls[k] # EmptyList => ls[k].of = Owner(k, schema, type)
               /\ ls[k].kind = "page" => ls[k].no = index[k]
    <3>1. CASE k = l
      BY <1>2, <3>1 DEF p
    <3>2. CASE k # l /\ k \in below
      BY <3>2, ListTypes
    <3>3. CASE k # l /\ k \notin below
      BY <3>3 DEF KbInv, ListsBelongToSelection
    <3> QED
      BY <3>1, <3>2, <3>3
  <2> QED
    BY <2>1 DEF Shows, KbInv, ListsBelongToSelection
<1>6. Render({l} \cup below, {}, ls, index, filter, schema, type)
  BY DEF CloseModal, p, below
<1>7. /\ index \in [Levels -> Indices] /\ filter \in [Levels -> Filters] /\ KbTypeOK
      /\ schema \in Schemas \cup {Nothing} /\ type \in Types \cup {Nothing}
      /\ {l} \cup below \in SUBSET Levels
  BY <1>3 DEF KbInv, KbTypeOK, Indices
<1> HIDE DEF ls
<1> QED
  BY <1>4, <1>5, <1>6, <1>7, RenderKeeps

-----------------------------------------------------------------------------
LEMMA KbInvariant == KbInv /\ [KbNext]_kbVars => KbInv'
<1> SUFFICES ASSUME KbInv, [KbNext]_kbVars
             PROVE  KbInv'
  OBVIOUS
<1>1. CASE Enter
  BY <1>1, EnterKeeps
<1>2. CASE \E l \in Levels, f \in Filters : SetFilter(l, f)
  BY <1>2, SetFilterKeeps
<1>3. CASE \E s \in Schemas : RefreshItemTypes(s)
  BY <1>3, RefreshItemTypesKeeps
<1>4. CASE \E t \in Types : RefreshItemProps(t)
  BY <1>4, RefreshItemPropsKeeps
<1>5. CASE \E l \in Levels, n \in 1 .. MaxPages : Turn(l, n)
  BY <1>5, TurnKeeps
<1>6. CASE \E l \in Levels, d \in BOOLEAN : CloseModal(l, d)
  BY <1>6, CloseModalKeeps
<1>7. CASE UNCHANGED kbVars
  BY <1>7 DEF kbVars, KbInv, KbTypeOK, ListsBelongToSelection
<1> QED
  BY <1>1, <1>2, <1>3, <1>4, <1>5, <1>6, <1>7 DEF KbNext

LEMMA InitKb == KbInit => KbInv
<1> SUFFICES ASSUME KbInit
             PROVE  KbInv
  OBVIOUS
<1>1. list \in [Levels -> ListSet]
  BY ListTypes DEF KbInit
<1>2. 0 \in 0 .. MaxPages /\ 0 \in 0 .. MaxPages + 1 /\ "" \in Filters
  BY BrowserAssumption DEF Filters
<1>3. KbTypeOK
  BY <1>1, <1>2 DEF KbInit, KbTypeOK
<1>4. ListsBelongToSelection
  BY ListTypes DEF KbInit, ListsBelongToSelection
<1> QED
  BY <1>3, <1>4 DEF KbInv

LEMMA KbInvAlways == KbSpec => []KbInv
BY InitKb, KbInvariant, PTL DEF KbSpec

(***************************************************************************)
(* The lists, their pagers, filters and what is selected have their types. *)
(***************************************************************************)
THEOREM KbTypeCorrect == KbSpec => []KbTypeOK
<1>1. KbInv => KbTypeOK
  BY DEF KbInv
<1> QED
  BY <1>1, KbInvAlways, PTL

(***************************************************************************)
(* The page never shows the types of another schema than the selected one, *)
(* nor the props of another type, and a pager counts from the page shown.  *)
(***************************************************************************)
THEOREM ListsAreTheSelections == KbSpec => []ListsBelongToSelection
<1>1. KbInv => ListsBelongToSelection
  BY DEF KbInv
<1> QED
  BY <1>1, KbInvAlways, PTL

-----------------------------------------------------------------------------
(***************************************************************************)
(* The parts side by side: a step of one is a stutter of each of the       *)
(* others, so that all the invariants hold together.                       *)
(***************************************************************************)
PartsInv ==
  /\ part \in {"editor", "kb", "store", "configs", "checker", "extractor"}
  /\ EditorInv /\ KbInv /\ StoreInv /\ ConfigInv /\ BrokenInv /\ ExtractorTypeOK

\* A step of the parts is a step of each of them, or a stutter.
LEMMA StepOfEach ==
  ASSUME [PartsNext]_partsVars
  PROVE  /\ [EditorNext]_editorVars /\ [KbNext]_kbVars /\ [StoreNext]_storeVars
         /\ [ConfigNext]_configVars /\ [BrokenNext]_brokenVars
         /\ [ExtractorNext]_extractorVars
         /\ UNCHANGED part
BY DEF PartsNext, partsVars

LEMMA PartsInvAlways == PartsSpec => []PartsInv
<1>1. PartsInit => PartsInv
  BY InitEditor, InitKb, InitStore, InitConfig, InitBroken, InitExtractor
  DEF PartsInit, PartsInv
<1>2. PartsInv /\ [PartsNext]_partsVars => PartsInv'
  <2> SUFFICES ASSUME PartsInv, [PartsNext]_partsVars
               PROVE  PartsInv'
    OBVIOUS
  <2>1. EditorInv' /\ KbInv' /\ StoreInv'
    BY StepOfEach, EditorInvariant, KbInvariant, NextStore DEF PartsInv
  <2>2. ConfigInv' /\ BrokenInv' /\ ExtractorTypeOK'
    BY StepOfEach, NextConfig, NextBroken, ExtractorType DEF PartsInv
  <2> QED
    BY <2>1, <2>2, StepOfEach DEF PartsInv
<1> QED
  BY <1>1, <1>2, PTL DEF PartsSpec

(***************************************************************************)
(* Whichever part runs, its state has the type its module gives it.        *)
(***************************************************************************)
THEOREM PartsTypeCorrect == PartsSpec => []PartsTypeOK
<1>1. PartsInv => PartsTypeOK
  BY DEF PartsInv, PartsTypeOK, EditorInv, KbInv, StoreInv, ConfigInv, BrokenInv
<1> QED
  BY <1>1, PartsInvAlways, PTL
===============================================================================
