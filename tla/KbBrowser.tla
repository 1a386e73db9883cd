------------------------------ MODULE KbBrowser ------------------------------
(***************************************************************************)
(* The knowledge base page of the web client: the schemas, the item types  *)
(* of the selected schema, the item props of the selected type, each a     *)
(* list with a filter and pages (JatytaManagementKbdataController, its     *)
(* route and its modals).                                                  *)
(*                                                                         *)
(* A list is shown by a computed property, which loads the first page when *)
(* the filter differs from the filter it remembers, and else shows what an *)
(* action has set: a page, or the plain array a modal sets, of which it    *)
(* shows nothing.  Actions run first, properties when they are rendered.   *)
(***************************************************************************)
EXTENDS Integers

CONSTANTS
  Schemas,   \* schemas of the knowledge base
  Types,     \* item types
  SchemaOf,  \* the schema of each item type
  Nothing,   \* nothing is selected
  MaxPages   \* bound: pages of a list

Levels  == {"schema", "type", "prop"}
Filters == {"", "f"}

ASSUME BrowserAssumption ==
  /\ SchemaOf \in [Types -> Schemas]
  /\ Nothing \notin Schemas \cup Types
  /\ MaxPages \in Nat

VARIABLES
  list,    \* page: schemas, itemtypes, itemprops
  index,   \* page: indexSchema, indexItemtype, indexItemprop
  total,   \* page: totalPages of each level
  filter,  \* page: the text in each filter field
  old,     \* page: filterOld of each level
  schema,  \* page: selectedSchema
  type     \* page: selectedItemType

kbVars == <<list, index, total, filter, old, schema, type>>

EmptyList  == [kind |-> "empty", of |-> Nothing, no |-> 0]
Plain(p)   == [kind |-> "plain", of |-> p, no |-> 0]
Page(p, n) == [kind |-> "page", of |-> p, no |-> n]

\* What a list of level l belongs to, when s and t are selected.
Owner(l, s, t) == CASE l = "schema" -> Nothing
                    [] l = "type"   -> s
                    [] OTHER        -> t

\* A list is on the page when what it belongs to is selected.
OnPage(l, s, t) == l = "schema" \/ Owner(l, s, t) # Nothing

-----------------------------------------------------------------------------
(***************************************************************************)
(* Faulty variants of definitions below; no part of KbSpec.                *)
(***************************************************************************)
\* A new schema is selected and the type of the former stays selected.
TypeAfter_Kept(s) == type

-----------------------------------------------------------------------------
(***************************************************************************)
(* The computed properties.  That of the item props remembers its filter   *)
(* in the place of the item types' filter.                                 *)
(***************************************************************************)
RememberedIn(l) == IF l = "prop" THEN "type" ELSE l

\* The index after the first page was loaded.
FirstIndex(l) == 1

\* The levels whose property loads its first page, when the levels of touched
\* have a new list or filter.
Reloads(touched, f, s, t) ==
  {l \in touched : OnPage(l, s, t) /\ old[l] # f[l]}

(***************************************************************************)
(* The end of an action: it has set lists ls, filters f and indices is,    *)
(* has loaded the first pages of loaded, has selected s and t, and the     *)
(* properties of touched levels are computed.  Rows come and go all the    *)
(* time: any number of pages may be answered with a first page.            *)
(***************************************************************************)
Render(touched, loaded, ls, is, f, s, t) ==
  LET rs == Reloads(touched, f, s, t) IN
  /\ list'  = [l \in Levels |-> IF l \in rs THEN Page(Owner(l, s, t), 1) ELSE ls[l]]
  /\ index' = [l \in Levels |-> IF l \in rs THEN FirstIndex(l) ELSE is[l]]
  /\ \E n \in [rs \cup loaded -> 0 .. MaxPages] :
       total' = [l \in Levels |-> IF l \in rs \cup loaded THEN n[l] ELSE total[l]]
  /\ old'   = [l \in Levels |->
                IF "prop" \in rs /\ l = RememberedIn("prop") THEN f["prop"]
                ELSE IF l \in rs /\ l # "prop" THEN f[l] ELSE old[l]]
  /\ filter' = f
  /\ schema' = s
  /\ type' = t

-----------------------------------------------------------------------------
\* JatytaManagementKbdataRoute: the filters stay as they were left.
Enter ==
  Render(Levels, {"schema"},
         [l \in Levels |-> IF l = "schema" THEN Page(Nothing, 1) ELSE EmptyList],
         [index EXCEPT !["schema"] = 1], filter, Nothing, Nothing)

SetFilter(l, f) ==
  /\ list["schema"] # EmptyList
  /\ OnPage(l, schema, type)
  /\ f # filter[l]
  /\ Render({l}, {}, list, index, [filter EXCEPT ![l] = f], schema, type)

\* The type that is selected after schema s is.
TypeAfter(s) == Nothing

\* refreshItemTypes, for a schema of the list.
RefreshItemTypes(s) ==
  /\ list["schema"].kind = "page"
  /\ Render({"type", "prop"}, {"type"},
            [list EXCEPT !["type"] = Page(s, 1), !["prop"] = EmptyList],
            [index EXCEPT !["type"] = 1],
            [filter EXCEPT !["type"] = "", !["prop"] = ""],
            s, TypeAfter(s))

\* refreshItemProps, for a type of the list.
RefreshItemProps(t) ==
  /\ list["type"].kind = "page"
  /\ list["type"].of = SchemaOf[t]
  /\ Render({"prop"}, {"prop"},
            [list EXCEPT !["prop"] = Page(t, 1)],
            [index EXCEPT !["prop"] = 1],
            [filter EXCEPT !["prop"] = ""],
            schema, t)

\* nextSchema, backSchema and their like.
Turn(l, n) ==
  /\ OnPage(l, schema, type)
  /\ list[l] # EmptyList
  /\ n \in {index[l] + 1, index[l] - 1}
  /\ IF n > index[l] THEN n <= total[l] ELSE n > 0
  /\ Render({l}, {},
            [list EXCEPT ![l] = Page(Owner(l, schema, type), n)],
            [index EXCEPT ![l] = n], filter, schema, type)

\* The save, refresh and delete of the modals set plain arrays; what was under
\* a deleted row is not shown any more, and what was selected stays selected.
Below(l) == CASE l = "schema" -> {"type", "prop"}
              [] l = "type"   -> {"prop"}
              [] OTHER        -> {}

CloseModal(l, deleted) ==
  LET below == IF deleted THEN Below(l) ELSE {} IN
  /\ list["schema"] # EmptyList
  /\ OnPage(l, schema, type)
  /\ deleted => list[l].kind = "page"
  /\ Render({l} \cup below, {},
            [m \in Levels |-> IF m = l THEN Plain(Owner(l, schema, type))
                              ELSE IF m \in below THEN EmptyList ELSE list[m]],
            index, filter, schema, type)

-----------------------------------------------------------------------------
KbInit ==
  /\ list = [l \in Levels |-> EmptyList]
  /\ index = [l \in Levels |-> 0]
  /\ total = [l \in Levels |-> 0]
  /\ filter = [l \in Levels |-> ""]
  /\ old = [l \in Levels |-> ""]
  /\ schema = Nothing
  /\ type = Nothing

KbNext ==
  \/ Enter
  \/ \E l \in Levels, f \in Filters : SetFilter(l, f)
  \/ \E s \in Schemas : RefreshItemTypes(s)
  \/ \E t \in Types : RefreshItemProps(t)
  \/ \E l \in Levels, n \in 1 .. MaxPages : Turn(l, n)
  \/ \E l \in Levels, d \in BOOLEAN : CloseModal(l, d)

KbSpec == KbInit /\ [][KbNext]_kbVars

-----------------------------------------------------------------------------
ListSet == [kind : {"empty", "plain", "page"},
            of : Schemas \cup Types \cup {Nothing},
            no : 0 .. MaxPages + 1]

KbTypeOK ==
  /\ list \in [Levels -> ListSet]
  /\ index \in [Levels -> 0 .. MaxPages + 1]
  /\ total \in [Levels -> 0 .. MaxPages]
  /\ filter \in [Levels -> Filters]
  /\ old \in [Levels -> Filters]
  /\ schema \in Schemas \cup {Nothing}
  /\ type \in Types \cup {Nothing}

(***************************************************************************)
(* What is shown as the types of the selected schema and the props of the  *)
(* selected type belongs to them, and the selected type is one of the      *)
(* selected schema, whatever was loaded, filtered, saved or deleted since; *)
(* and a page that is shown is the one the pager counts from.              *)
(***************************************************************************)
ListsBelongToSelection ==
  /\ \A l \in Levels : list[l] # EmptyList => list[l].of = Owner(l, schema, type)
  /\ \A l \in Levels : list[l].kind = "page" => list[l].no = index[l]
  /\ type # Nothing => schema = SchemaOf[type]
===============================================================================
