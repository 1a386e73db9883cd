----------------------------- MODULE ConfigEditor -----------------------------
(***************************************************************************)
(* Editing a crawl configuration in the web client: ConfigurationRoute,    *)
(* the routes and controllers of its tabs, and what they store through     *)
(* ConfigurationsResource and JatytaConfigurationResource.                 *)
(*                                                                         *)
(* A configuration is a JSON file (config) and, in the knowledge base, one *)
(* row (row) whose fields are edited on three tabs, and lists of further   *)
(* rows (rows), of which one stands for all.  Every tab keeps a copy of    *)
(* its own of the whole row, in a controller that lives as long as the     *)
(* page.  A value is the number of the edit that typed it.                 *)
(***************************************************************************)
EXTENDS Integers, FiniteSets

CONSTANTS
  Configs,    \* ids of the configurations
  NoConfig,   \* no configuration
  None,       \* no copy, no row
  Groups,     \* fields of the row, by the tab that edits them
  Lists,      \* lists of rows that are edited
  MaxEdits    \* bound: values typed

ASSUME EditorAssumption ==
  /\ NoConfig \notin Configs
  /\ None \notin [Groups -> Nat]
  /\ None \notin [of : Configs \cup {NoConfig}, fields : [Groups -> Nat]]
  /\ "jatyta" \in Groups /\ Groups \subseteq {"jatyta", "forms", "login"}
  /\ Lists \subseteq {"formList", "validations", "brokenLinks"}
  /\ MaxEdits \in Nat

VARIABLES
  config,    \* server: version of each configuration's file, 0 if absent
  row,       \* server: the JatytaCrawlConfiguration row of each, or None
  rows,      \* server: the row of each list of each configuration, 0 if absent
  selected,  \* page: the configuration that is open, or NoConfig
  main,      \* page: content of the configuration controller
  tab,       \* page: the tab that is open
  copy,      \* page: content of each tab's controller, or None
  listCopy,  \* page: the list of each list's controller, or None
  edits,     \* history: values typed so far
  typedIn,   \* history: the configuration each value was typed in
  outdated,  \* history: Save stored the row after the open tab had read it
  mixed      \* history: rows saved together with tabs of other configurations

editorServer == <<config, row, rows>>
editorPage   == <<selected, main, tab, copy, listCopy>>
editorVars   == <<editorServer, editorPage, edits, typedIn,
                  outdated, mixed>>

Defaults == [g \in Groups |-> 0]

\* The tab on which a list is edited, and whether tab t is a tab of the row.
TabOf(l) == IF l = "formList" THEN "forms" ELSE l
AllTabs  == Groups \cup {TabOf(l) : l \in Lists} \cup {"index"}

-----------------------------------------------------------------------------
(***************************************************************************)
(* Faulty variants of definitions below; no part of EditorSpec.            *)
(***************************************************************************)
\* The tab shows what its controller had before.
Loaded_Kept(c, g) ==
  IF copy[g] # None THEN copy[g]
  ELSE IF row[c] = None THEN [of |-> NoConfig, fields |-> Defaults]
  ELSE [of |-> c, fields |-> row[c]]

\* The other tabs' fields are left out of the merge.
Merged_JatytaOnly(j, gs) == j

\* The row of the configuration that is open is stored, not the one of the copy.
StoredRow_Selected(j) == [row EXCEPT ![selected] = j.fields]

-----------------------------------------------------------------------------
(***************************************************************************)
(* Opening a configuration and its tabs.                                   *)
(***************************************************************************)
Opened(c) ==
  /\ selected' = c
  /\ tab' = "index"
  /\ outdated' = FALSE

\* ConfigurationRoute.  The tabs' controllers keep what they have.
OpenConfig(c) ==
  /\ config[c] # 0
  /\ c # selected
  /\ Opened(c)
  /\ main' = [of |-> c, v |-> config[c]]
  /\ UNCHANGED <<editorServer, copy, listCopy, edits, typedIn, mixed>>

\* newconfiguration ignores the id it is given: the new row has none.
GetNew(c) == [of |-> NoConfig, fields |-> Defaults]

\* CrawlConfigurations.find, or getNew when there is no row.
Loaded(c, g) ==
  IF row[c] = None THEN GetNew(c) ELSE [of |-> c, fields |-> row[c]]

\* The routes of the tabs read anew what they show; a route that is already
\* open is not entered again.
OpenTab(t) ==
  /\ selected # NoConfig
  /\ t # tab
  /\ tab' = t
  /\ copy' = [g \in Groups |-> IF g = t THEN Loaded(selected, g) ELSE copy[g]]
  /\ listCopy' = [l \in Lists |-> IF TabOf(l) = t
                                    THEN [of |-> selected, v |-> rows[l][selected]]
                                    ELSE listCopy[l]]
  /\ outdated' = FALSE
  /\ UNCHANGED <<editorServer, selected, main, edits, typedIn, mixed>>

\* The user leaves the configuration, or loads the page again.  The controller's
\* content stays, but nothing reads it before it is replaced.
Closed ==
  /\ selected' = NoConfig
  /\ main' = [of |-> NoConfig, v |-> 0]
  /\ tab' = "index"
  /\ outdated' = FALSE

Leave ==
  /\ selected # NoConfig
  /\ Closed
  /\ UNCHANGED <<editorServer, copy, listCopy, edits, typedIn, mixed>>

LoadPage ==
  /\ selected = NoConfig
  /\ \/ \E g \in Groups : copy[g] # None
     \/ \E l \in Lists : listCopy[l] # None
  /\ copy' = [g \in Groups |-> None]
  /\ listCopy' = [l \in Lists |-> None]
  /\ UNCHANGED <<editorServer, selected, main, tab, edits, typedIn,
                 outdated, mixed>>

-----------------------------------------------------------------------------
(***************************************************************************)
(* Typing a value: into the configuration, a tab's copy, or a list.        *)
(***************************************************************************)
Type ==
  /\ selected # NoConfig
  /\ edits < MaxEdits
  /\ edits' = edits + 1
  /\ typedIn' = [typedIn EXCEPT ![edits + 1] = selected]
  /\ \/ /\ tab = "index"
        /\ main' = [main EXCEPT !.v = edits + 1]
        /\ UNCHANGED <<copy, listCopy>>
     \/ /\ tab \in Groups
        /\ copy' = [copy EXCEPT ![tab].fields[tab] = edits + 1]
        /\ UNCHANGED <<main, listCopy>>
     \/ \E l \in Lists :
          /\ TabOf(l) = tab
          /\ listCopy' = [listCopy EXCEPT ![l].v = edits + 1]
          /\ UNCHANGED <<main, copy>>
  /\ UNCHANGED <<editorServer, selected, tab, outdated, mixed>>

-----------------------------------------------------------------------------
(***************************************************************************)
(* Saving.  The server may answer any request with 500.  That throws,      *)
(* except for the request of the configuration itself, which has no        *)
(* handler for that status.  A step that only fails changes nothing, and   *)
(* is left out.                                                            *)
(***************************************************************************)
\* updateconfiguration stores the whole row; a row has to have an id.
StoredRow(j) == [row EXCEPT ![j.of] = j.fields]

PutRow(j) ==
  /\ j.of # NoConfig
  /\ row' = StoredRow(j)

\* save of the controller of one tab.
SaveTab ==
  /\ selected # NoConfig
  /\ tab \in Groups
  /\ PutRow(copy[tab])
  /\ UNCHANGED <<config, rows, editorPage, edits, typedIn, outdated, mixed>>

\* The lists stored when those in ls are.
StoredLists(ls) ==
  [l \in Lists |->
    IF l \notin ls \/ listCopy[l] = None THEN rows[l]
    ELSE IF listCopy[l].v = 0 THEN rows[l]
    ELSE [rows[l] EXCEPT ![listCopy[l].of] = listCopy[l].v]]

\* saveAll of the controller of a list.
SaveList(l) ==
  /\ selected # NoConfig
  /\ TabOf(l) = tab
  /\ rows' = StoredLists({l})
  /\ UNCHANGED <<config, row, editorPage, edits, typedIn, outdated, mixed>>

\* The row that save of the configuration starts from: the copy of the jatyta
\* tab, whichever configuration it is of; or the row of this configuration.
Base ==
  IF copy["jatyta"] # None THEN copy["jatyta"]
  ELSE IF row[selected] = None THEN [of |-> NoConfig, fields |-> Defaults]
  ELSE [of |-> selected, fields |-> row[selected]]

\* The fields of the tabs gs are copied into it, if those tabs have a copy.
Merged(j, gs) ==
  [j EXCEPT !.fields = [g \in Groups |->
     IF g \in gs /\ copy[g] # None THEN copy[g].fields[g] ELSE j.fields[g]]]

Kept(j) == IF copy["jatyta"] = None THEN copy ELSE [copy EXCEPT !["jatyta"] = j]
Filled(l) == listCopy[l] # None /\ listCopy[l].v # 0
PutConfig == config' = [config EXCEPT ![main.of] = main.v]
TryConfig == PutConfig \/ UNCHANGED config

FirstLists == Lists \cap {"formList"}
LastLists  == Lists \ FirstLists

\* No controller of a tab holds anything of another configuration.
OneConfiguration ==
  /\ \A g \in Groups : copy[g] = None \/ copy[g].of = selected
  /\ \A l \in Lists : listCopy[l] = None \/ listCopy[l].of = selected

\* "save" of ConfigurationController: the configuration, the list of forms, the
\* row, the other lists.  The first request that fails, that of the
\* configuration apart, ends it.  What the page says is in quotes.
Save(j) ==
  /\ selected # NoConfig
  /\ copy' = Kept(j)
  /\ mixed' = IF OneConfiguration THEN mixed ELSE mixed \cup {j.of}
  /\ outdated' = TRUE
  /\ UNCHANGED <<selected, main, tab, listCopy, edits, typedIn>>

AllFields == Merged(Base, {"forms", "login"})

\* "Configuration Saved".
SaveAll ==
  /\ Save(AllFields)
  /\ PutConfig /\ PutRow(AllFields)
  /\ rows' = StoredLists(Lists)

\* The request of the configuration fails: "Configuration Saved".
SaveWithoutConfig ==
  /\ Save(AllFields)
  /\ UNCHANGED config
  /\ PutRow(AllFields)
  /\ rows' = StoredLists(Lists)

\* The list of forms fails, before the login fields are merged: an error.
SaveStopsAtForms ==
  /\ Save(Merged(Base, {"forms"}))
  /\ TryConfig
  /\ \E l \in FirstLists : Filled(l)
  /\ UNCHANGED <<row, rows>>

\* The row fails: an error.
SaveStopsAtRow ==
  /\ Save(AllFields)
  /\ TryConfig
  /\ rows' = StoredLists(FirstLists)
  /\ UNCHANGED row

\* A list after the row fails: an error.  The validations come before the
\* broken links.
SaveStopsAtList ==
  /\ Save(AllFields)
  /\ TryConfig /\ PutRow(AllFields)
  /\ \E l \in LastLists :
       /\ Filled(l)
       /\ rows' = StoredLists(FirstLists \cup {m \in LastLists : m # l /\ m = "validations"})

-----------------------------------------------------------------------------
(***************************************************************************)
(* Adding and deleting a configuration.                                    *)
(***************************************************************************)
\* "add": addConfiguration stores the configuration, then its row and its
\* rows of broken links if there is no row yet.  A failure leaves what was
\* stored, and the page where it is.
Add(c) ==
  /\ selected = NoConfig
  /\ config[c] = 0
  /\ edits < MaxEdits
  /\ edits' = edits + 1
  /\ typedIn' = [typedIn EXCEPT ![edits + 1] = c]
  /\ config' = [config EXCEPT ![c] = edits + 1]
  /\ \/ /\ row' = IF row[c] = None THEN [row EXCEPT ![c] = Defaults] ELSE row
        /\ Opened(c)
        /\ main' = [of |-> c, v |-> edits + 1]
     \/ UNCHANGED <<row, selected, tab, main, outdated>>
  /\ UNCHANGED <<rows, copy, listCopy, mixed>>

\* "delete": removeConfiguration leaves the rows in the knowledge base.
Delete ==
  /\ selected # NoConfig
  /\ config' = [config EXCEPT ![selected] = 0]
  /\ Closed
  /\ UNCHANGED <<row, rows, copy, listCopy, edits, typedIn, mixed>>

-----------------------------------------------------------------------------
EditorInit ==
  /\ config = [c \in Configs |-> 0]
  /\ row = [c \in Configs |-> None]
  /\ rows = [l \in Lists |-> [c \in Configs |-> 0]]
  /\ selected = NoConfig
  /\ main = [of |-> NoConfig, v |-> 0]
  /\ tab = "index"
  /\ copy = [g \in Groups |-> None]
  /\ listCopy = [l \in Lists |-> None]
  /\ edits = 0
  /\ typedIn = [n \in 1 .. MaxEdits |-> NoConfig]
  /\ outdated = FALSE
  /\ mixed = {}

EditorNext ==
  \/ \E c \in Configs : OpenConfig(c) \/ Add(c)
  \/ \E t \in AllTabs : OpenTab(t)
  \/ \E l \in Lists : SaveList(l)
  \/ Leave \/ LoadPage
  \/ Type
  \/ SaveTab
  \/ SaveAll \/ SaveWithoutConfig
  \/ SaveStopsAtForms \/ SaveStopsAtRow \/ SaveStopsAtList
  \/ Delete

EditorSpec == EditorInit /\ [][EditorNext]_editorVars

-----------------------------------------------------------------------------
Values   == 0 .. MaxEdits
RowCopy  == [of : Configs \cup {NoConfig}, fields : [Groups -> Values]]
FileCopy == [of : Configs \cup {NoConfig}, v : Values]

EditorTypeOK ==
  /\ config \in [Configs -> Values]
  /\ row \in [Configs -> [Groups -> Values] \cup {None}]
  /\ rows \in [Lists -> [Configs -> Values]]
  /\ selected \in Configs \cup {NoConfig}
  /\ main \in FileCopy
  /\ tab \in AllTabs
  /\ copy \in [Groups -> RowCopy \cup {None}]
  /\ listCopy \in [Lists -> FileCopy \cup {None}]
  /\ edits \in Values
  /\ typedIn \in [1 .. MaxEdits -> Configs \cup {NoConfig}]
  /\ outdated \in BOOLEAN
  /\ mixed \subseteq Configs \cup {NoConfig}

(***************************************************************************)
(* Every tab stores the whole row from a copy of its own, and yet, while   *)
(* no tab holds anything of another configuration, no save puts an older   *)
(* value in the place of a newer one, neither in the row nor in a list.    *)
(* The exception is a tab's own save after the configuration's: the tab    *)
(* still holds the other tabs' fields as they were when it was opened.     *)
(***************************************************************************)
NothingStoredIsLost ==
  [][ OneConfiguration /\ (outdated => ~SaveTab) =>
        \A c \in Configs :
          /\ row[c] # None => \A g \in Groups : row'[c][g] >= row[c][g]
          /\ \A l \in Lists : rows'[l][c] >= rows[l][c] ]_editorVars

(***************************************************************************)
(* When no tab holds anything of another configuration, and "Configuration *)
(* Saved" is true of the configuration itself, all that was typed on any   *)
(* tab is stored, and what no tab shows is stored as it was.               *)
(***************************************************************************)
SaveStoresEveryTab ==
  [][ SaveAll /\ OneConfiguration =>
        /\ config'[selected] = main.v
        /\ \A g \in Groups :
             row'[selected][g] = IF copy[g] = None THEN row[selected][g]
                                                   ELSE copy[g].fields[g]
        /\ \A l \in Lists : Filled(l) => rows'[l][selected] = listCopy[l].v ]_editorVars

(***************************************************************************)
(* The fields of a row were typed in its own configuration, unless a page  *)
(* stored the row after it had opened another configuration as well: the   *)
(* controllers still hold the tabs of that one.                            *)
(***************************************************************************)
FieldsStayHome ==
  \A c \in Configs \ mixed :
    row[c] # None =>
      \A g \in Groups : row[c][g] # 0 => typedIn[row[c][g]] = c

(***************************************************************************)
(* A configuration gets its row when it is added or never: the tabs' way   *)
(* to create a missing one stores nothing, because newconfiguration        *)
(* returns a row that has no configuration.                                *)
(***************************************************************************)
RowsComeFromPosts ==
  [][ \A c \in Configs :
        row[c] = None /\ row'[c] # None => config[c] = 0 /\ config'[c] # 0 ]_editorVars
===============================================================================
