--------------------------- MODULE CandidateElements ---------------------------
(***************************************************************************)
(* Which elements of a page a crawler may click: CandidateElementExtractor *)
(* of each crawler and the CandidateElementManager they share.             *)
(*                                                                         *)
(* With click-once an element is taken by the first extraction that marks  *)
(* it.  A menu item is known by its general string, any other element by   *)
(* its unique string, which ends with the title of the page; with an empty *)
(* title the two strings are the same.                                     *)
(***************************************************************************)
EXTENDS Integers, FiniteSets

CONSTANTS
  Extractors,  \* crawlers
  Elements,    \* elements of pages: node, attributes, xpath and frame
  MenuItems,   \* those under the xpath of the menu
  Titles,      \* titles of pages
  NoTitle,     \* the empty title, or no title of a running extraction
  MaxPagesSeen \* bound: extractions

ASSUME CandidateAssumption ==
  /\ MenuItems \subseteq Elements
  /\ NoTitle \in Titles
  /\ MaxPagesSeen \in Nat

VARIABLES
  clickOnce,     \* CrawlRules.clickOnce
  elements,      \* CandidateElementManager.ofs
  menuElements,  \* CandidateElementManager.menuElements
  extracting,    \* is the crawler in extract?
  title,         \* the title of the page in each browser
  todo,          \* the elements of the page that were not evaluated yet
  page,          \* history: the number of the extraction
  pagesSeen,     \* history: extractions so far
  taken,         \* history: what the extractions have taken, [key, page]
  refused        \* history: what was refused

extractorVars == <<clickOnce, elements, menuElements, extracting, title, todo, page,
                   pagesSeen, taken, refused>>

UniqueString(e, t) == [of |-> e, title |-> t]
GeneralString(e)   == UniqueString(e, NoTitle)

\* What an element of a page titled t is known by.
KeyOf(e, t) == IF e \in MenuItems THEN GeneralString(e) ELSE UniqueString(e, t)

-----------------------------------------------------------------------------
(***************************************************************************)
(* Faulty variants of definitions below; no part of ExtractorSpec.         *)
(***************************************************************************)
\* Only the general string is added.
Marks_General(e, t) == {GeneralString(e)}

-----------------------------------------------------------------------------
(***************************************************************************)
(* CandidateElementManager: what markChecked looks for and adds, under its *)
(* lock.  isChecked, which getNodeListForTagElement asks first, is given a *)
(* string without an identification and never finds it.                    *)
(***************************************************************************)
IsMarked(e, t) == UniqueString(e, t) \in elements
Marks(e, t) == {GeneralString(e), UniqueString(e, t)}

\* What evaluateElement does with an element that was marked, or was not.
Accept(x, e) ==
  /\ taken' = taken \cup {[key |-> KeyOf(e, title[x]), page |-> page[x]]}
  /\ UNCHANGED refused

Refuse(x, e) ==
  /\ refused' = refused \cup {UniqueString(e, title[x])}
  /\ UNCHANGED taken

EvaluateMenuItem(x, e) ==
  /\ e \in MenuItems
  /\ IF clickOnce /\ GeneralString(e) \in menuElements
       THEN Refuse(x, e) /\ UNCHANGED menuElements
       ELSE /\ Accept(x, e)
            /\ menuElements' = IF clickOnce THEN menuElements \cup {GeneralString(e)}
                                            ELSE menuElements
  /\ UNCHANGED elements

EvaluateOther(x, e) ==
  /\ e \notin MenuItems
  /\ IF clickOnce /\ IsMarked(e, title[x])
       THEN Refuse(x, e) /\ UNCHANGED elements
       ELSE /\ Accept(x, e)
            /\ elements' = IF clickOnce THEN elements \cup Marks(e, title[x])
                                        ELSE elements
  /\ UNCHANGED menuElements

-----------------------------------------------------------------------------
(***************************************************************************)
(* CandidateElementExtractor.extract, one element of the page at a time.   *)
(***************************************************************************)
Extract(x, t, es) ==
  /\ ~extracting[x]
  /\ pagesSeen < MaxPagesSeen
  /\ pagesSeen' = pagesSeen + 1
  /\ extracting' = [extracting EXCEPT ![x] = TRUE]
  /\ title' = [title EXCEPT ![x] = t]
  /\ todo' = [todo EXCEPT ![x] = es]
  /\ page' = [page EXCEPT ![x] = pagesSeen + 1]
  /\ UNCHANGED <<clickOnce, elements, menuElements, taken, refused>>

\* An element that is not visible, or has become so, is passed over.
PassOver(x, e) ==
  /\ e \in todo[x]
  /\ todo' = [todo EXCEPT ![x] = @ \ {e}]
  /\ UNCHANGED <<clickOnce, elements, menuElements, extracting, title, page, pagesSeen,
                 taken, refused>>

Evaluate(x, e) ==
  /\ e \in todo[x]
  /\ todo' = [todo EXCEPT ![x] = @ \ {e}]
  /\ EvaluateMenuItem(x, e) \/ EvaluateOther(x, e)
  /\ UNCHANGED <<clickOnce, extracting, title, page, pagesSeen>>

\* Its results become the actions of the state, or are lost with an exception:
\* what was marked stays marked.
Return(x) ==
  /\ extracting[x]
  /\ extracting' = [extracting EXCEPT ![x] = FALSE]
  /\ todo' = [todo EXCEPT ![x] = {}]
  /\ title' = [title EXCEPT ![x] = NoTitle]
  /\ page' = [page EXCEPT ![x] = 0]
  /\ UNCHANGED <<clickOnce, elements, menuElements, pagesSeen, taken, refused>>

-----------------------------------------------------------------------------
ExtractorInit ==
  /\ clickOnce \in BOOLEAN
  /\ elements = {}
  /\ menuElements = {}
  /\ extracting = [x \in Extractors |-> FALSE]
  /\ title = [x \in Extractors |-> NoTitle]
  /\ todo = [x \in Extractors |-> {}]
  /\ page = [x \in Extractors |-> 0]
  /\ pagesSeen = 0
  /\ taken = {}
  /\ refused = {}

ExtractorNext ==
  \E x \in Extractors :
    \/ \E t \in Titles, es \in SUBSET Elements : Extract(x, t, es)
    \/ \E e \in Elements : PassOver(x, e) \/ Evaluate(x, e)
    \/ Return(x)

ExtractorSpec == ExtractorInit /\ [][ExtractorNext]_extractorVars

-----------------------------------------------------------------------------
Keys == [of : Elements, title : Titles]

ExtractorTypeOK ==
  /\ clickOnce \in BOOLEAN
  /\ elements \subseteq Keys
  /\ menuElements \subseteq Keys
  /\ extracting \in [Extractors -> BOOLEAN]
  /\ title \in [Extractors -> Titles]
  /\ todo \in [Extractors -> SUBSET Elements]
  /\ page \in [Extractors -> Nat]
  /\ pagesSeen \in Nat
  /\ taken \subseteq [key : Keys, page : Nat]
  /\ refused \subseteq Keys

(***************************************************************************)
(* With click-once no two extractions take the same element, whatever      *)
(* crawlers evaluate the same page at the same time.                       *)
(***************************************************************************)
TakenOnce ==
  clickOnce => \A m, n \in taken : m.key = n.key => m.page = n.page

(***************************************************************************)
(* An element is refused only when an extraction has taken it, on a page   *)
(* with the same title.  Excepted is a page without a title: there, an     *)
(* element is refused that was taken on any page.                          *)
(***************************************************************************)
TakenFor(r) ==
  {m \in taken : \/ m.key = KeyOf(r.of, r.title)
                 \/ r.title = NoTitle /\ m.key.of = r.of}

RefusedWasTaken ==
  \A r \in refused : clickOnce /\ TakenFor(r) # {}
===============================================================================
