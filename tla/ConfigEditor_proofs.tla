-------------------------- MODULE ConfigEditor_proofs --------------------------
(***************************************************************************)
(* Theorems about ConfigEditor, for every set of configurations, fields    *)
(* and lists, and any number of edits.                                     *)
(***************************************************************************)
EXTENDS ConfigEditor, TLAPS

-----------------------------------------------------------------------------
(***************************************************************************)
(* The inductive invariant.                                                *)
(***************************************************************************)
\* The tab that is open has a copy of the row, of this configuration or of none,
\* and of its list.
TabIsLoaded ==
  selected # NoConfig =>
    /\ tab \in Groups =>
         copy[tab] \in RowCopy /\ copy[tab].of \in {selected, NoConfig}
    /\ \A l \in Lists : TabOf(l) = tab => listCopy[l] \in FileCopy

\* A copy that is of a configuration was read from its row, which still exists.
CopiesHaveRows ==
  \A g \in Groups :
    copy[g] # None /\ copy[g].of # NoConfig => row[copy[g].of] # None

\* v is empty, or was typed into configuration c.
TypedInto(c, v) == v # 0 => v <= edits /\ typedIn[v] = c

CopiesStayHome ==
  \A g \in Groups :
    copy[g] # None /\ copy[g].of \in Configs \ mixed =>
      \A h \in Groups : TypedInto(copy[g].of, copy[g].fields[h])

RowsStayHome ==
  \A c \in Configs \ mixed :
    row[c] # None => \A h \in Groups : TypedInto(c, row[c][h])

RowInv == TabIsLoaded /\ CopiesHaveRows /\ CopiesStayHome /\ RowsStayHome

EditorInv == EditorTypeOK /\ RowInv

-----------------------------------------------------------------------------
(***************************************************************************)
(* What the operators return.                                              *)
(***************************************************************************)
LEMMA DefaultsType == Defaults \in [Groups -> Values] /\ 0 \in Values
BY EditorAssumption DEF Defaults, Values

LEMMA RowIsSomething ==
  /\ \A f \in [Groups -> Values] : f # None
  /\ \A j \in RowCopy : j # None
<1>1. \A f \in [Groups -> Values] : f \in [Groups -> Nat]
  BY EditorAssumption DEF Values
<1>2. \A j \in RowCopy : j \in [of : Configs \cup {NoConfig}, fields : [Groups -> Nat]]
  BY <1>1 DEF RowCopy
<1> QED
  BY <1>1, <1>2, EditorAssumption

\* A tab shows the row, or a new one that has no configuration.
LEMMA LoadedType ==
  ASSUME EditorTypeOK, NEW c \in Configs, NEW g \in Groups
  PROVE  /\ Loaded(c, g) \in RowCopy
         /\ Loaded(c, g) = [of |-> NoConfig, fields |-> Defaults]
              \/ (row[c] # None /\ Loaded(c, g) = [of |-> c, fields |-> row[c]])
BY DefaultsType DEF EditorTypeOK, Loaded, GetNew, RowCopy

LEMMA StoredListsType ==
  ASSUME EditorTypeOK, NEW ls
  PROVE  StoredLists(ls) \in [Lists -> [Configs -> Values]]
<1> SUFFICES ASSUME NEW l \in Lists
             PROVE  (IF l \notin ls \/ listCopy[l] = None THEN rows[l]
                     ELSE IF listCopy[l].v = 0 THEN rows[l]
                     ELSE [rows[l] EXCEPT ![listCopy[l].of] = listCopy[l].v])
                    \in [Configs -> Values]
  BY DEF StoredLists
<1>1. rows[l] \in [Configs -> Values]
  BY DEF EditorTypeOK
<1>2. CASE listCopy[l] # None
  <2>1. listCopy[l].v \in Values
    BY <1>2 DEF EditorTypeOK, FileCopy
  <2> QED
    BY <1>1, <2>1
<1> QED
  BY <1>1, <1>2

LEMMA BaseType ==
  ASSUME EditorTypeOK, selected # NoConfig
  PROVE  /\ Base \in RowCopy
         /\ \/ copy["jatyta"] # None /\ Base = copy["jatyta"]
            \/ Base = [of |-> NoConfig, fields |-> Defaults]
            \/ row[selected] # None /\ Base = [of |-> selected, fields |-> row[selected]]
<1>1. CASE copy["jatyta"] # None
  BY <1>1, EditorAssumption DEF Base, EditorTypeOK
<1>2. CASE copy["jatyta"] = None /\ row[selected] = None
  BY <1>2, DefaultsType DEF Base, RowCopy
<1>3. CASE copy["jatyta"] = None /\ row[selected] # None
  BY <1>3 DEF Base, RowCopy, EditorTypeOK
<1> QED
  BY <1>1, <1>2, <1>3

\* The merge takes each field from the base or from the copy of its tab.
LEMMA MergedType ==
  ASSUME EditorTypeOK, selected # NoConfig, NEW gs
  PROVE  LET j == Merged(Base, gs) IN
         /\ j \in RowCopy
         /\ j.of = Base.of
         /\ \A g \in Groups :
              \/ j.fields[g] = Base.fields[g]
              \/ copy[g] # None /\ j.fields[g] = copy[g].fields[g]
<1> DEFINE F == [g \in Groups |-> IF g \in gs /\ copy[g] # None THEN copy[g].fields[g]
                                                              ELSE Base.fields[g]]
<1>1. Base \in RowCopy
  BY BaseType
<1>2. F \in [Groups -> Values]
  BY <1>1 DEF EditorTypeOK, RowCopy
<1>3. Merged(Base, gs) = [of |-> Base.of, fields |-> F]
  BY <1>1 DEF Merged, RowCopy
<1> QED
  BY <1>1, <1>2, <1>3 DEF RowCopy

-----------------------------------------------------------------------------
(***************************************************************************)
(* Saving the configuration, with the fields of the tabs gs.               *)
(***************************************************************************)
\* What is saved has a row, and was typed into it unless it counts as mixed.
LEMMA SavedIsHome ==
  ASSUME EditorInv, NEW gs, Save(Merged(Base, gs))
  PROVE  LET j == Merged(Base, gs) IN
         /\ j \in RowCopy
         /\ j.of # NoConfig => row[j.of] # None
         /\ j.of \in Configs \ mixed' => \A h \in Groups : TypedInto(j.of, j.fields[h])
         /\ j.of = Base.of
<1> DEFINE j == Merged(Base, gs)
<1>0. EditorTypeOK /\ CopiesHaveRows /\ CopiesStayHome /\ RowsStayHome
  BY DEF EditorInv, RowInv
<1>1. selected # NoConfig /\ selected \in Configs
  BY <1>0 DEF Save, EditorTypeOK
<1>2. /\ j \in RowCopy /\ j.of = Base.of
      /\ \A g \in Groups : \/ j.fields[g] = Base.fields[g]
                           \/ copy[g] # None /\ j.fields[g] = copy[g].fields[g]
  BY <1>0, <1>1, MergedType
<1>3. /\ Base \in RowCopy
      /\ \/ copy["jatyta"] # None /\ Base = copy["jatyta"]
         \/ Base = [of |-> NoConfig, fields |-> Defaults]
         \/ row[selected] # None /\ Base = [of |-> selected, fields |-> row[selected]]
  BY <1>0, <1>1, BaseType
<1>4. mixed' = IF OneConfiguration THEN mixed ELSE mixed \cup {j.of}
  BY DEF Save
<1> HIDE DEF j
<1>5. "jatyta" \in Groups /\ NoConfig \notin Configs
  BY EditorAssumption
<1>6. j.of # NoConfig => row[j.of] # None
  BY <1>0, <1>2, <1>3, <1>5 DEF CopiesHaveRows
<1>7. ASSUME j.of \in Configs \ mixed', NEW h \in Groups
      PROVE  TypedInto(j.of, j.fields[h])
  <2>1. OneConfiguration /\ j.of \notin mixed
    BY <1>4, <1>7
  <2>2. \A g \in Groups : copy[g] = None \/ copy[g].of = selected
    BY <2>1 DEF OneConfiguration
  <2>3. j.of = selected
    BY <1>2, <1>3, <1>5, <1>7, <2>2
  <2>4. \A g \in Groups : copy[g] # None => TypedInto(selected, copy[g].fields[h])
    BY <1>0, <1>1, <2>1, <2>2, <2>3 DEF CopiesStayHome
  <2>5. copy[h] # None => TypedInto(selected, copy[h].fields[h])
    BY <2>4
  <2>6. TypedInto(selected, Base.fields[h])
    <3>1. CASE copy["jatyta"] # None /\ Base = copy["jatyta"]
      BY <1>5, <2>4, <3>1
    <3>2. CASE Base = [of |-> NoConfig, fields |-> Defaults]
      BY <3>2 DEF TypedInto, Defaults
    <3>3. CASE row[selected] # None /\ Base = [of |-> selected, fields |-> row[selected]]
      BY <1>0, <1>1, <2>1, <2>3, <3>3 DEF RowsStayHome
    <3> QED
      BY <1>3, <3>1, <3>2, <3>3
  <2> QED
    BY <1>2, <2>3, <2>5, <2>6
<1> QED
  BY <1>2, <1>6, <1>7 DEF j

\* It keeps the invariant, whether or not the row is stored in the end.
LEMMA SaveKeeps ==
  ASSUME EditorInv, NEW gs, Save(Merged(Base, gs)),
         PutRow(Merged(Base, gs)) \/ UNCHANGED row,
         config' \in [Configs -> Values],
         rows' \in [Lists -> [Configs -> Values]]
  PROVE  EditorInv'
<1> DEFINE j == Merged(Base, gs)
<1>0. EditorTypeOK /\ RowInv
  BY DEF EditorInv
<1>1. /\ j \in RowCopy
      /\ j.of # NoConfig => row[j.of] # None
      /\ j.of \in Configs \ mixed' => \A h \in Groups : TypedInto(j.of, j.fields[h])
      /\ j.of = Base.of
  BY SavedIsHome
<1>2. PutRow(j) \/ UNCHANGED row
  OBVIOUS
<1>3. /\ copy' = (IF copy["jatyta"] = None THEN copy ELSE [copy EXCEPT !["jatyta"] = j])
      /\ UNCHANGED <<selected, main, tab, listCopy, edits, typedIn>>
      /\ mixed \subseteq mixed' /\ mixed' \subseteq mixed \cup {j.of} /\ outdated' = TRUE
  BY DEF Save, Kept
<1>4. copy["jatyta"] # None => j.of = copy["jatyta"].of
  BY <1>1 DEF Base
<1> HIDE DEF j
<1>5. j.of \in Configs \cup {NoConfig} /\ j.fields \in [Groups -> Values] /\ j.fields # None
  BY <1>1, RowIsSomething DEF RowCopy
<1>6. /\ \A c \in Configs : row'[c] = row[c] \/ (c = j.of /\ row'[c] = j.fields)
      /\ \A c \in Configs : row[c] # None => row'[c] # None
  <2>1. CASE UNCHANGED row
    BY <2>1
  <2>2. CASE PutRow(j)
    <3>1. row' = [row EXCEPT ![j.of] = j.fields]
      BY <2>2 DEF PutRow, StoredRow
    <3>2. \A c \in Configs : row'[c] = IF c = j.of THEN j.fields ELSE row[c]
      BY <1>0, <3>1 DEF EditorTypeOK
    <3> QED
      BY <1>5, <3>2
  <2> QED
    BY <1>2, <2>1, <2>2
<1>7. \A g \in Groups : copy'[g] = copy[g] \/ (copy["jatyta"] # None /\ copy'[g] = j
                                               /\ g = "jatyta")
  BY <1>0, <1>3 DEF EditorTypeOK
<1>8. EditorTypeOK'
  <2>1. row' \in [Configs -> [Groups -> Values] \cup {None}]
    BY <1>0, <1>2, <1>5 DEF EditorTypeOK, PutRow, StoredRow
  <2>2. copy' \in [Groups -> RowCopy \cup {None}]
    BY <1>0, <1>1, <1>3 DEF EditorTypeOK
  <2>3. mixed' \subseteq Configs \cup {NoConfig}
    BY <1>0, <1>3, <1>5 DEF EditorTypeOK
  <2> QED
    BY <1>0, <1>3, <2>1, <2>2, <2>3 DEF EditorTypeOK
<1>9. TabIsLoaded'
  <2> SUFFICES ASSUME selected # NoConfig, tab \in Groups
               PROVE  copy'[tab] \in RowCopy /\ copy'[tab].of \in {selected, NoConfig}
    BY <1>0, <1>3 DEF RowInv, TabIsLoaded
  <2>1. copy[tab] \in RowCopy /\ copy[tab].of \in {selected, NoConfig}
    BY <1>0 DEF RowInv, TabIsLoaded
  <2> QED
    BY <1>1, <1>4, <1>7, <2>1
<1>10. CopiesHaveRows'
  <2> SUFFICES ASSUME NEW g \in Groups, copy'[g] # None, copy'[g].of # NoConfig
               PROVE  row'[copy'[g].of] # None
    BY DEF CopiesHaveRows
  <2>1. copy'[g].of \in Configs /\ row[copy'[g].of] # None
    BY <1>0, <1>1, <1>5, <1>7 DEF RowInv, CopiesHaveRows, EditorTypeOK, RowCopy
  <2> QED
    BY <1>6, <2>1
<1>11. CopiesStayHome'
  <2> SUFFICES ASSUME NEW g \in Groups, copy'[g] # None,
                      copy'[g].of \in Configs \ mixed', NEW h \in Groups
               PROVE  TypedInto(copy'[g].of, copy'[g].fields[h])
    BY <1>3 DEF CopiesStayHome, TypedInto
  <2>1. CASE copy'[g] = j
    BY <1>1, <2>1
  <2>2. CASE copy'[g] = copy[g]
    BY <1>0, <1>3, <2>2 DEF RowInv, CopiesStayHome
  <2> QED
    BY <1>7, <2>1, <2>2
<1>12. RowsStayHome'
  <2> SUFFICES ASSUME NEW c \in Configs \ mixed', row'[c] # None, NEW h \in Groups
               PROVE  TypedInto(c, row'[c][h])
    BY <1>3 DEF RowsStayHome, TypedInto
  <2>1. CASE c = j.of /\ row'[c] = j.fields
    BY <1>1, <2>1
  <2>2. CASE row'[c] = row[c]
    BY <1>0, <1>3, <2>2 DEF RowInv, RowsStayHome
  <2> QED
    BY <1>6, <2>1, <2>2
<1> QED
  BY <1>8, <1>9, <1>10, <1>11, <1>12 DEF EditorInv, RowInv

\* The five ways a save can end.
LEMMA SavesKeep ==
  ASSUME EditorInv,
         \/ SaveAll \/ SaveWithoutConfig
         \/ SaveStopsAtForms \/ SaveStopsAtRow \/ SaveStopsAtList
  PROVE  EditorInv'
<1>1. EditorTypeOK
  BY DEF EditorInv
<1>2. [config EXCEPT ![main.of] = main.v] \in [Configs -> Values]
      /\ config \in [Configs -> Values] /\ rows \in [Lists -> [Configs -> Values]]
  BY <1>1 DEF EditorTypeOK, FileCopy
<1>3. \A ls : StoredLists(ls) \in [Lists -> [Configs -> Values]]
  BY <1>1, StoredListsType
<1>4. CASE SaveAll
  BY <1>2, <1>3, <1>4, SaveKeeps DEF SaveAll, AllFields, PutConfig
<1>5. CASE SaveWithoutConfig
  BY <1>2, <1>3, <1>5, SaveKeeps DEF SaveWithoutConfig, AllFields
<1>6. CASE SaveStopsAtForms
  BY <1>2, <1>6, SaveKeeps DEF SaveStopsAtForms, TryConfig, PutConfig
<1>7. CASE SaveStopsAtRow
  BY <1>2, <1>3, <1>7, SaveKeeps DEF SaveStopsAtRow, AllFields, TryConfig, PutConfig
<1>8. CASE SaveStopsAtList
  BY <1>2, <1>3, <1>8, SaveKeeps DEF SaveStopsAtList, AllFields, TryConfig, PutConfig
<1> QED
  BY <1>4, <1>5, <1>6, <1>7, <1>8

-----------------------------------------------------------------------------
(***************************************************************************)
(* The other actions.                                                      *)
(***************************************************************************)
LEMMA OpenConfigKeeps ==
  ASSUME EditorInv, NEW c \in Configs, OpenConfig(c)
  PROVE  EditorInv'
<1>1. EditorTypeOK'
  <2>1. main' \in FileCopy
    BY DEF OpenConfig, EditorInv, EditorTypeOK, FileCopy
  <2>2. tab' \in AllTabs
    BY DEF OpenConfig, Opened, AllTabs
  <2> QED
    BY <2>1, <2>2 DEF OpenConfig, Opened, editorServer, EditorInv, EditorTypeOK
<1>2. TabIsLoaded'
  <2>1. tab' = "index" /\ \A l \in Lists : TabOf(l) # "index"
    BY EditorAssumption DEF OpenConfig, Opened, TabOf
  <2>2. "index" \notin Groups
    BY EditorAssumption
  <2> QED
    BY <2>1, <2>2 DEF TabIsLoaded
<1> QED
  BY <1>1, <1>2
  DEF OpenConfig, editorServer, EditorInv, RowInv, CopiesHaveRows, CopiesStayHome, RowsStayHome, TypedInto

LEMMA OpenTabKeeps ==
  ASSUME EditorInv, NEW t \in AllTabs, OpenTab(t)
  PROVE  EditorInv'
<1>0. EditorTypeOK /\ RowInv
  BY DEF EditorInv
<1>1. selected \in Configs /\ tab' = t
  BY <1>0 DEF OpenTab, EditorTypeOK
<1>2. \A g \in Groups : copy'[g] = IF g = t THEN Loaded(selected, g) ELSE copy[g]
  BY DEF OpenTab
<1>3. \A g \in Groups :
        /\ Loaded(selected, g) \in RowCopy
        /\ Loaded(selected, g).of \in {selected, NoConfig}
        /\ Loaded(selected, g).of # NoConfig =>
             row[selected] # None /\ Loaded(selected, g).fields = row[selected]
  BY <1>0, <1>1, LoadedType
<1>4. EditorTypeOK'
  <2>1. copy' \in [Groups -> RowCopy \cup {None}]
    BY <1>0, <1>3 DEF OpenTab, EditorTypeOK
  <2>2. listCopy' \in [Lists -> FileCopy \cup {None}]
    <3>1. \A l \in Lists : [of |-> selected, v |-> rows[l][selected]] \in FileCopy
      BY <1>0, <1>1 DEF EditorTypeOK, FileCopy
    <3> QED
      BY <1>0, <3>1 DEF OpenTab, EditorTypeOK
  <2> QED
    BY <1>0, <1>1, <2>1, <2>2 DEF OpenTab, editorServer, EditorTypeOK
<1>5. UNCHANGED <<row, selected, edits, typedIn, mixed>>
  BY DEF OpenTab, editorServer
<1>6. TabIsLoaded'
  <2>1. \A l \in Lists : TabOf(l) = t => listCopy'[l] \in FileCopy
    BY <1>0, <1>1 DEF OpenTab, EditorTypeOK, FileCopy
  <2> QED
    BY <1>1, <1>2, <1>3, <1>5, <2>1 DEF TabIsLoaded
<1>7. CopiesHaveRows'
  BY <1>0, <1>2, <1>3, <1>5 DEF RowInv, CopiesHaveRows
<1>8. CopiesStayHome'
  <2> SUFFICES ASSUME NEW g \in Groups, copy'[g] # None,
                      copy'[g].of \in Configs \ mixed, NEW h \in Groups
               PROVE  TypedInto(copy'[g].of, copy'[g].fields[h])
    BY <1>5 DEF CopiesStayHome, TypedInto
  <2>1. CASE g = t
    BY <1>0, <1>1, <1>2, <1>3, <2>1, EditorAssumption DEF RowInv, RowsStayHome
  <2>2. CASE g # t
    BY <1>0, <1>2, <2>2 DEF RowInv, CopiesStayHome
  <2> QED
    BY <2>1, <2>2
<1>9. RowsStayHome'
  BY <1>0, <1>5 DEF RowInv, RowsStayHome, TypedInto
<1> QED
  BY <1>4, <1>6, <1>7, <1>8, <1>9 DEF EditorInv, RowInv

LEMMA LeaveKeeps == EditorInv /\ Leave => EditorInv'
<1> SUFFICES ASSUME EditorInv, Leave
             PROVE  EditorInv'
  OBVIOUS
<1>1. EditorTypeOK'
  <2>1. main' \in FileCopy /\ tab' \in AllTabs
    BY DefaultsType DEF Leave, Closed, FileCopy, AllTabs
  <2> QED
    BY <2>1 DEF Leave, Closed, editorServer, EditorInv, EditorTypeOK
<1> QED
  BY <1>1
  DEF Leave, Closed, editorServer, EditorInv, RowInv, TabIsLoaded, CopiesHaveRows,
      CopiesStayHome, RowsStayHome, TypedInto

LEMMA LoadPageKeeps == EditorInv /\ LoadPage => EditorInv'
<1> SUFFICES ASSUME EditorInv, LoadPage
             PROVE  EditorInv'
  OBVIOUS
<1>1. EditorTypeOK'
  BY DEF LoadPage, editorServer, EditorInv, EditorTypeOK
<1>2. selected' = NoConfig /\ \A g \in Groups : copy'[g] = None
  BY DEF LoadPage
<1> QED
  BY <1>1, <1>2
  DEF LoadPage, editorServer, EditorInv, RowInv, TabIsLoaded, CopiesHaveRows,
      CopiesStayHome, RowsStayHome, TypedInto

\* A value is typed: what was typed before keeps its configuration.
LEMMA TypedBefore ==
  ASSUME EditorTypeOK, edits < MaxEdits, edits' = edits + 1, NEW d,
         typedIn' = [typedIn EXCEPT ![edits + 1] = d]
  PROVE  /\ edits' \in Values /\ edits' # 0
         /\ typedIn'[edits'] = d
         /\ typedIn' \in [1 .. MaxEdits -> Configs \cup {NoConfig, d}]
         /\ \A c \in Configs, v \in Values :
              TypedInto(c, v) /\ v # 0 => v <= edits' /\ typedIn'[v] = c
<1>1. edits \in Nat /\ edits' \in 1 .. MaxEdits /\ MaxEdits \in Nat
  BY EditorAssumption DEF EditorTypeOK, Values
<1>2. typedIn \in [1 .. MaxEdits -> Configs \cup {NoConfig}]
  BY DEF EditorTypeOK
<1>3. typedIn'[edits'] = d
  BY <1>1, <1>2
<1>4. ASSUME NEW c \in Configs, NEW v \in Values, TypedInto(c, v), v # 0
      PROVE  v <= edits' /\ typedIn'[v] = c
  <2>1. v \in 1 .. MaxEdits /\ v <= edits /\ typedIn[v] = c
    BY <1>1, <1>4 DEF TypedInto, Values
  <2> QED
    BY <1>1, <1>2, <2>1
<1>5. typedIn' \in [1 .. MaxEdits -> Configs \cup {NoConfig, d}]
  BY <1>1, <1>2
<1> QED
  BY <1>1, <1>3, <1>4, <1>5 DEF Values

LEMMA TypeKeeps == EditorInv /\ Type => EditorInv'
<1> SUFFICES ASSUME EditorInv, Type
             PROVE  EditorInv'
  OBVIOUS
<1> DEFINE n == edits + 1
<1>0. EditorTypeOK /\ RowInv
  BY DEF EditorInv
<1>1. /\ selected # NoConfig /\ selected \in Configs
      /\ UNCHANGED <<config, row, rows, selected, tab, outdated, mixed>>
      /\ edits < MaxEdits /\ edits' = edits + 1
      /\ typedIn' = [typedIn EXCEPT ![edits + 1] = selected]
  BY <1>0 DEF Type, EditorTypeOK, editorServer
<1>2. /\ edits' = n /\ n \in Values /\ n # 0 /\ typedIn'[n] = selected
      /\ typedIn' \in [1 .. MaxEdits -> Configs \cup {NoConfig}]
      /\ \A c \in Configs, v \in Values :
           TypedInto(c, v) /\ v # 0 => v <= n /\ typedIn'[v] = c
  <2>1. Configs \cup {NoConfig, selected} = Configs \cup {NoConfig}
    BY <1>1
  <2> QED
    BY <1>0, <1>1, <2>1, TypedBefore
<1>3. \/ UNCHANGED copy
      \/ /\ tab \in Groups
         /\ copy' = [copy EXCEPT ![tab].fields[tab] = n]
  BY DEF Type
<1>4. /\ UNCHANGED main \/ main' = [main EXCEPT !.v = n]
      /\ \/ UNCHANGED listCopy
         \/ \E l \in Lists : TabOf(l) = tab /\ listCopy' = [listCopy EXCEPT ![l].v = n]
  BY DEF Type
<1> HIDE DEF n
<1>5. ASSUME NEW g \in Groups
      PROVE  \/ copy'[g] = copy[g]
             \/ /\ g = tab /\ copy[g] \in RowCopy /\ copy[g].of \in {selected, NoConfig}
                /\ copy'[g] = [of |-> copy[g].of,
                               fields |-> [copy[g].fields EXCEPT ![g] = n]]
  <2>1. CASE UNCHANGED copy
    BY <2>1
  <2>2. CASE tab \in Groups /\ copy' = [copy EXCEPT ![tab].fields[tab] = n]
    <3>1. copy[tab] \in RowCopy /\ copy[tab].of \in {selected, NoConfig}
      BY <1>0, <1>1, <2>2 DEF RowInv, TabIsLoaded
    <3>2. copy'[g] = IF g = tab
                       THEN [copy[tab] EXCEPT !.fields = [copy[tab].fields EXCEPT ![tab] = n]]
                       ELSE copy[g]
      BY <1>0, <2>2 DEF EditorTypeOK
    <3>3. [copy[tab] EXCEPT !.fields = [copy[tab].fields EXCEPT ![tab] = n]]
            = [of |-> copy[tab].of, fields |-> [copy[tab].fields EXCEPT ![tab] = n]]
      BY <3>1 DEF RowCopy
    <3> QED
      BY <3>1, <3>2, <3>3
  <2> QED
    BY <1>3, <2>1, <2>2
<1>6. ASSUME NEW g \in Groups
      PROVE  copy'[g] \in RowCopy \cup {None}
  <2>1. CASE copy'[g] = copy[g]
    BY <1>0, <2>1 DEF EditorTypeOK
  <2>2. CASE copy[g] \in RowCopy
             /\ copy'[g] = [of |-> copy[g].of, fields |-> [copy[g].fields EXCEPT ![g] = n]]
    BY <1>2, <2>2 DEF RowCopy
  <2> QED
    BY <1>5, <2>1, <2>2
<1>7. ASSUME NEW l \in Lists
      PROVE  /\ listCopy'[l] \in FileCopy \cup {None}
             /\ listCopy[l] \in FileCopy => listCopy'[l] \in FileCopy
  <2>1. CASE UNCHANGED listCopy
    BY <1>0, <2>1 DEF EditorTypeOK
  <2>2. ASSUME NEW m \in Lists, TabOf(m) = tab, listCopy' = [listCopy EXCEPT ![m].v = n]
        PROVE  /\ listCopy'[l] \in FileCopy \cup {None}
               /\ listCopy[l] \in FileCopy => listCopy'[l] \in FileCopy
    <3>1. listCopy[m] \in FileCopy
      BY <1>0, <1>1, <2>2 DEF RowInv, TabIsLoaded
    <3>2. [listCopy[m] EXCEPT !.v = n] \in FileCopy
      BY <1>2, <3>1 DEF FileCopy
    <3>3. listCopy'[l] = IF l = m THEN [listCopy[m] EXCEPT !.v = n] ELSE listCopy[l]
      BY <1>0, <2>2 DEF EditorTypeOK
    <3> QED
      BY <1>0, <3>2, <3>3 DEF EditorTypeOK
  <2> QED
    BY <1>4, <2>1, <2>2
<1>8. EditorTypeOK'
  <2>1. copy' \in [Groups -> RowCopy \cup {None}]
    BY <1>0, <1>3, <1>6 DEF EditorTypeOK
  <2>2. listCopy' \in [Lists -> FileCopy \cup {None}]
    BY <1>0, <1>4, <1>7 DEF EditorTypeOK
  <2>3. main' \in FileCopy
    BY <1>0, <1>2, <1>4 DEF EditorTypeOK, FileCopy
  <2> QED
    BY <1>0, <1>1, <1>2, <2>1, <2>2, <2>3 DEF EditorTypeOK
<1>9. TabIsLoaded'
  <2>1. tab \in Groups => copy'[tab] \in RowCopy /\ copy'[tab].of \in {selected, NoConfig}
    <3> SUFFICES ASSUME tab \in Groups
                 PROVE  copy'[tab] \in RowCopy /\ copy'[tab].of \in {selected, NoConfig}
      OBVIOUS
    <3>1. copy[tab] \in RowCopy /\ copy[tab].of \in {selected, NoConfig}
      BY <1>0, <1>1 DEF RowInv, TabIsLoaded
    <3>2. [of |-> copy[tab].of, fields |-> [copy[tab].fields EXCEPT ![tab] = n]] \in RowCopy
      BY <1>2, <3>1 DEF RowCopy
    <3> QED
      BY <1>5, <3>1, <3>2
  <2> QED
    BY <1>0, <1>1, <1>7, <2>1 DEF RowInv, TabIsLoaded
<1>10. CopiesHaveRows'
  <2> SUFFICES ASSUME NEW g \in Groups, copy'[g] # None, copy'[g].of # NoConfig
               PROVE  row[copy'[g].of] # None
    BY <1>1 DEF CopiesHaveRows
  <2>1. CASE copy'[g] = copy[g]
    BY <1>0, <2>1 DEF RowInv, CopiesHaveRows
  <2>2. CASE copy[g] \in RowCopy
             /\ copy'[g] = [of |-> copy[g].of, fields |-> [copy[g].fields EXCEPT ![g] = n]]
    <3>1. copy[g] # None
      BY <2>2, RowIsSomething
    <3> QED
      BY <1>0, <2>2, <3>1 DEF RowInv, CopiesHaveRows
  <2> QED
    BY <1>5, <2>1, <2>2
<1>11. CopiesStayHome'
  <2> SUFFICES ASSUME NEW g \in Groups, copy'[g] # None,
                      copy'[g].of \in Configs \ mixed, NEW h \in Groups,
                      copy'[g].fields[h] # 0
               PROVE  /\ copy'[g].fields[h] <= n
                      /\ typedIn'[copy'[g].fields[h]] = copy'[g].of
    BY <1>1, <1>2 DEF CopiesStayHome, TypedInto
  <2>1. CASE copy'[g] = copy[g]
    <3>1. copy[g] \in RowCopy
      BY <1>0, <2>1 DEF EditorTypeOK
    <3>2. copy[g].fields[h] \in Values /\ TypedInto(copy[g].of, copy[g].fields[h])
      BY <1>0, <2>1, <3>1 DEF RowInv, CopiesStayHome, RowCopy
    <3> QED
      BY <1>2, <2>1, <3>2
  <2>2. CASE /\ copy[g] \in RowCopy /\ copy[g].of \in {selected, NoConfig}
             /\ copy'[g] = [of |-> copy[g].of, fields |-> [copy[g].fields EXCEPT ![g] = n]]
    <3>1. copy'[g].of = selected /\ copy[g].of = selected /\ copy[g] # None
      BY <2>2, EditorAssumption, RowIsSomething
    <3>2. /\ copy[g].fields[h] \in Values /\ TypedInto(selected, copy[g].fields[h])
          /\ copy'[g].fields[h] = IF h = g THEN n ELSE copy[g].fields[h]
      BY <1>0, <2>2, <3>1 DEF RowInv, CopiesStayHome, RowCopy
    <3>3. CASE h = g
      BY <1>2, <3>1, <3>2, <3>3 DEF Values
    <3>4. CASE h # g
      BY <1>1, <1>2, <3>1, <3>2, <3>4
    <3> QED
      BY <3>3, <3>4
  <2> QED
    BY <1>5, <2>1, <2>2
<1>12. RowsStayHome'
  <2> SUFFICES ASSUME NEW c \in Configs \ mixed, row[c] # None, NEW h \in Groups,
                      row[c][h] # 0
               PROVE  row[c][h] <= n /\ typedIn'[row[c][h]] = c
    BY <1>1, <1>2 DEF RowsStayHome, TypedInto
  <2>1. row[c][h] \in Values /\ TypedInto(c, row[c][h])
    BY <1>0 DEF RowInv, RowsStayHome, EditorTypeOK
  <2> QED
    BY <1>2, <2>1
<1> QED
  BY <1>8, <1>9, <1>10, <1>11, <1>12 DEF EditorInv, RowInv

\* A tab's own save stores the copy in the row it was read from.
LEMMA SaveTabKeeps == EditorInv /\ SaveTab => EditorInv'
<1> SUFFICES ASSUME EditorInv, SaveTab
             PROVE  EditorInv'
  OBVIOUS
<1> DEFINE j == copy[tab]
<1>0. EditorTypeOK /\ RowInv
  BY DEF EditorInv
<1>1. /\ tab \in Groups /\ j \in RowCopy /\ j # None /\ j.of # NoConfig /\ j.of \in Configs
      /\ row' = [row EXCEPT ![j.of] = j.fields]
      /\ UNCHANGED <<config, rows, selected, main, tab, copy, listCopy, edits, typedIn,
                     outdated, mixed>>
  BY <1>0, RowIsSomething
  DEF SaveTab, PutRow, StoredRow, editorPage, RowInv, TabIsLoaded, RowCopy
<1>2. j.fields \in [Groups -> Values] /\ j.fields # None
  BY <1>1, RowIsSomething DEF RowCopy
<1>3. j.of \notin mixed => \A h \in Groups : TypedInto(j.of, j.fields[h])
  BY <1>0, <1>1 DEF RowInv, CopiesStayHome
<1> HIDE DEF j
<1>4. \A c \in Configs : row'[c] = IF c = j.of THEN j.fields ELSE row[c]
  BY <1>0, <1>1 DEF EditorTypeOK
<1>5. EditorTypeOK'
  <2>1. row' \in [Configs -> [Groups -> Values] \cup {None}]
    BY <1>0, <1>1, <1>2 DEF EditorTypeOK
  <2> QED
    BY <1>0, <1>1, <2>1 DEF EditorTypeOK
<1>6. CopiesHaveRows'
  <2> SUFFICES ASSUME NEW g \in Groups, copy[g] # None, copy[g].of # NoConfig
               PROVE  row'[copy[g].of] # None
    BY <1>1 DEF CopiesHaveRows
  <2>1. copy[g].of \in Configs /\ row[copy[g].of] # None
    BY <1>0 DEF RowInv, CopiesHaveRows, EditorTypeOK, RowCopy
  <2> QED
    BY <1>2, <1>4, <2>1
<1>7. RowsStayHome'
  <2> SUFFICES ASSUME NEW c \in Configs \ mixed, row'[c] # None, NEW h \in Groups
               PROVE  TypedInto(c, row'[c][h])
    BY <1>1 DEF RowsStayHome, TypedInto
  <2>1. CASE c = j.of
    BY <1>3, <1>4, <2>1
  <2>2. CASE c # j.of
    BY <1>0, <1>4, <2>2 DEF RowInv, RowsStayHome
  <2> QED
    BY <2>1, <2>2
<1> QED
  BY <1>0, <1>1, <1>5, <1>6, <1>7 DEF EditorInv, RowInv, TabIsLoaded, CopiesStayHome, TypedInto

LEMMA SaveListKeeps ==
  ASSUME EditorInv, NEW l \in Lists, SaveList(l)
  PROVE  EditorInv'
<1>0. EditorTypeOK /\ RowInv
  BY DEF EditorInv
<1>1. /\ rows' \in [Lists -> [Configs -> Values]]
      /\ UNCHANGED <<config, row, selected, main, tab, copy, listCopy, edits, typedIn,
                     outdated, mixed>>
  BY <1>0, StoredListsType DEF SaveList, editorPage
<1> QED
  BY <1>0, <1>1
  DEF EditorInv, EditorTypeOK, RowInv, TabIsLoaded, CopiesHaveRows, CopiesStayHome,
      RowsStayHome, TypedInto

LEMMA DeleteKeeps == EditorInv /\ Delete => EditorInv'
<1> SUFFICES ASSUME EditorInv, Delete
             PROVE  EditorInv'
  OBVIOUS
<1>1. EditorTypeOK'
  <2>1. main' \in FileCopy /\ tab' \in AllTabs
    BY DefaultsType DEF Delete, Closed, FileCopy, AllTabs
  <2>2. config' \in [Configs -> Values]
    BY DefaultsType DEF Delete, EditorInv, EditorTypeOK
  <2> QED
    BY <2>1, <2>2 DEF Delete, Closed, EditorInv, EditorTypeOK
<1> QED
  BY <1>1
  DEF Delete, Closed, EditorInv, RowInv, TabIsLoaded, CopiesHaveRows, CopiesStayHome,
      RowsStayHome, TypedInto

\* A row that is added has no fields yet.
LEMMA AddKeeps ==
  ASSUME EditorInv, NEW c \in Configs, Add(c)
  PROVE  EditorInv'
<1>0. EditorTypeOK /\ RowInv
  BY DEF EditorInv
<1>1. /\ selected = NoConfig /\ UNCHANGED <<rows, copy, listCopy, mixed>>
      /\ edits < MaxEdits /\ edits' = edits + 1
      /\ typedIn' = [typedIn EXCEPT ![edits + 1] = c]
      /\ config' = [config EXCEPT ![c] = edits + 1]
      /\ \/ UNCHANGED row
         \/ row[c] = None /\ row' = [row EXCEPT ![c] = Defaults]
      /\ \/ /\ selected' = c /\ tab' = "index" /\ outdated' = FALSE
            /\ main' = [of |-> c, v |-> edits + 1]
         \/ UNCHANGED <<selected, tab, main, outdated>>
  BY DEF Add, Opened
<1>2. /\ edits' \in Values
      /\ typedIn' \in [1 .. MaxEdits -> Configs \cup {NoConfig}]
      /\ \A d \in Configs, v \in Values :
           TypedInto(d, v) /\ v # 0 => v <= edits' /\ typedIn'[v] = d
  <2>1. Configs \cup {NoConfig, c} = Configs \cup {NoConfig}
    OBVIOUS
  <2> QED
    BY <1>0, <1>1, <2>1, TypedBefore
<1>3. \A d \in Configs : row'[d] = row[d] \/ (row[d] = None /\ row'[d] = Defaults)
  BY <1>0, <1>1 DEF EditorTypeOK
<1>4. EditorTypeOK'
  <2>1. row' \in [Configs -> [Groups -> Values] \cup {None}]
    BY <1>0, <1>1, DefaultsType DEF EditorTypeOK
  <2>2. config' \in [Configs -> Values] /\ main' \in FileCopy
    BY <1>0, <1>1, <1>2 DEF EditorTypeOK, FileCopy
  <2>3. tab' \in AllTabs /\ selected' \in Configs \cup {NoConfig} /\ outdated' \in BOOLEAN
    BY <1>0, <1>1 DEF EditorTypeOK, AllTabs
  <2> QED
    BY <1>0, <1>1, <1>2, <2>1, <2>2, <2>3 DEF EditorTypeOK
<1>5. TabIsLoaded'
  <2>1. \A l \in Lists : TabOf(l) # "index"
    BY EditorAssumption DEF TabOf
  <2>2. "index" \notin Groups
    BY EditorAssumption
  <2> QED
    BY <1>1, <2>1, <2>2 DEF TabIsLoaded
<1>6. CopiesHaveRows'
  <2> SUFFICES ASSUME NEW g \in Groups, copy[g] # None, copy[g].of # NoConfig
               PROVE  row'[copy[g].of] # None
    BY <1>1 DEF CopiesHaveRows
  <2>1. copy[g].of \in Configs /\ row[copy[g].of] # None
    BY <1>0 DEF RowInv, CopiesHaveRows, EditorTypeOK, RowCopy
  <2> QED
    BY <1>3, <2>1
<1>7. CopiesStayHome'
  <2> SUFFICES ASSUME NEW g \in Groups, copy[g] # None,
                      copy[g].of \in Configs \ mixed, NEW h \in Groups,
                      copy[g].fields[h] # 0
               PROVE  /\ copy[g].fields[h] <= edits'
                      /\ typedIn'[copy[g].fields[h]] = copy[g].of
    BY <1>1 DEF CopiesStayHome, TypedInto
  <2>1. copy[g].fields[h] \in Values /\ TypedInto(copy[g].of, copy[g].fields[h])
    BY <1>0 DEF RowInv, CopiesStayHome, EditorTypeOK, RowCopy
  <2> QED
    BY <1>2, <2>1
<1>8. RowsStayHome'
  <2> SUFFICES ASSUME NEW d \in Configs \ mixed, row'[d] # None, NEW h \in Groups,
                      row'[d][h] # 0
               PROVE  row'[d][h] <= edits' /\ typedIn'[row'[d][h]] = d
    BY <1>1 DEF RowsStayHome, TypedInto
  <2>1. row'[d] = row[d]
    BY <1>3 DEF Defaults
  <2>2. row[d][h] \in Values /\ TypedInto(d, row[d][h])
    BY <1>0, <2>1 DEF RowInv, RowsStayHome, EditorTypeOK
  <2> QED
    BY <1>2, <2>1, <2>2
<1> QED
  BY <1>4, <1>5, <1>6, <1>7, <1>8 DEF EditorInv, RowInv

-----------------------------------------------------------------------------
LEMMA EditorInvariant == EditorInv /\ [EditorNext]_editorVars => EditorInv'
<1> SUFFICES ASSUME EditorInv, [EditorNext]_editorVars
             PROVE  EditorInv'
  OBVIOUS
<1>1. CASE \E c \in Configs : OpenConfig(c) \/ Add(c)
  BY <1>1, OpenConfigKeeps, AddKeeps
<1>2. CASE \E t \in AllTabs : OpenTab(t)
  BY <1>2, OpenTabKeeps
<1>3. CASE \E l \in Lists : SaveList(l)
  BY <1>3, SaveListKeeps
<1>4. CASE Leave \/ LoadPage \/ Type \/ SaveTab \/ Delete
  BY <1>4, LeaveKeeps, LoadPageKeeps, TypeKeeps, SaveTabKeeps, DeleteKeeps
<1>5. CASE \/ SaveAll \/ SaveWithoutConfig
           \/ SaveStopsAtForms \/ SaveStopsAtRow \/ SaveStopsAtList
  BY <1>5, SavesKeep
<1>6. CASE UNCHANGED editorVars
  BY <1>6
  DEF editorVars, editorServer, editorPage, EditorInv, EditorTypeOK, RowInv, TabIsLoaded,
      CopiesHaveRows, CopiesStayHome, RowsStayHome, TypedInto
<1> QED
  BY <1>1, <1>2, <1>3, <1>4, <1>5, <1>6 DEF EditorNext

LEMMA InitEditor == EditorInit => EditorInv
<1> SUFFICES ASSUME EditorInit
             PROVE  EditorInv
  OBVIOUS
<1>1. EditorTypeOK
  BY DefaultsType DEF EditorInit, EditorTypeOK, FileCopy, AllTabs
<1>2. RowInv
  BY DEF EditorInit, RowInv, TabIsLoaded, CopiesHaveRows, CopiesStayHome, RowsStayHome
<1> QED
  BY <1>1, <1>2 DEF EditorInv

LEMMA EditorInvAlways == EditorSpec => []EditorInv
BY InitEditor, EditorInvariant, PTL DEF EditorSpec

(***************************************************************************)
(* The editor's state has its type, whatever is opened, typed and saved.   *)
(***************************************************************************)
THEOREM EditorTypeCorrect == EditorSpec => []EditorTypeOK
<1>1. EditorInv => EditorTypeOK
  BY DEF EditorInv
<1> QED
  BY <1>1, EditorInvAlways, PTL

(***************************************************************************)
(* No field moves to the row of another configuration, except by a save    *)
(* while a tab still holds something of another one.                       *)
(***************************************************************************)
THEOREM FieldsKeepTheirConfiguration == EditorSpec => []FieldsStayHome
<1>1. EditorInv => FieldsStayHome
  BY DEF EditorInv, RowInv, RowsStayHome, FieldsStayHome, TypedInto
<1> QED
  BY <1>1, EditorInvAlways, PTL

(***************************************************************************)
(* Only adding a configuration creates its row: no tab ever does.          *)
(***************************************************************************)
LEMMA OnlyAddCreates ==
  ASSUME EditorInv, [EditorNext]_editorVars,
         NEW c \in Configs, row[c] = None, row'[c] # None
  PROVE  config[c] = 0 /\ config'[c] # 0
<1>0. EditorTypeOK /\ RowInv
  BY DEF EditorInv
<1>1. ASSUME NEW j, PutRow(j), j.of # NoConfig => row[j.of] # None
      PROVE  FALSE
  BY <1>0, <1>1 DEF PutRow, StoredRow, EditorTypeOK
<1>2. ASSUME NEW gs, Save(Merged(Base, gs)), PutRow(Merged(Base, gs))
      PROVE  FALSE
  BY <1>1, <1>2, SavedIsHome
<1>3. ~SaveTab
  <2> SUFFICES ASSUME SaveTab
               PROVE  FALSE
    OBVIOUS
  <2>1. copy[tab] # None /\ PutRow(copy[tab]) /\ tab \in Groups
    BY <1>0, RowIsSomething DEF SaveTab, RowInv, TabIsLoaded
  <2> QED
    BY <1>0, <1>1, <2>1 DEF RowInv, CopiesHaveRows
<1>4. ~(SaveAll \/ SaveWithoutConfig \/ SaveStopsAtList)
  BY <1>2 DEF SaveAll, SaveWithoutConfig, SaveStopsAtList, AllFields
<1>5. PICK d \in Configs : Add(d)
  BY <1>3, <1>4
  DEF EditorNext, editorVars, editorServer, OpenConfig, OpenTab, SaveList, Leave, LoadPage,
      Type, SaveStopsAtForms, SaveStopsAtRow, Delete
<1>6. d = c
  BY <1>0, <1>5 DEF Add, EditorTypeOK
<1> QED
  BY <1>0, <1>5, <1>6 DEF Add, EditorTypeOK, Values

(***************************************************************************)
(* The row of a configuration appears together with its file or not at all *)
(* (ConfigurationsResource.addConfiguration).                              *)
(***************************************************************************)
THEOREM RowsAreCreatedByAdding == EditorSpec => RowsComeFromPosts
<1>1. EditorInv /\ [EditorNext]_editorVars =>
        [\A c \in Configs :
           row[c] = None /\ row'[c] # None => config[c] = 0 /\ config'[c] # 0]_editorVars
  BY OnlyAddCreates
<1> QED
  BY <1>1, EditorInvAlways, PTL DEF EditorSpec, RowsComeFromPosts

-----------------------------------------------------------------------------
(***************************************************************************)
(* What is stored: the inductive invariant.                                *)
(***************************************************************************)
\* Every value was typed, by the last edit at the latest.
ValuesAreTyped ==
  /\ \A c \in Configs : row[c] # None => \A g \in Groups : row[c][g] <= edits
  /\ \A h \in Groups : copy[h] # None => \A g \in Groups : copy[h].fields[g] <= edits

\* The copy of a configuration that tab h has.
CopyOf(h, c) == copy[h] # None /\ copy[h].of = c

\* What no tab shows is in every copy as it is in the row.
UntouchedFields ==
  \A c \in Configs : \A g, h \in Groups :
    copy[g] = None /\ CopyOf(h, c) => copy[h].fields[g] = row[c][g]

\* A tab has nothing older than the row in the field that it edits itself, and
\* the open tab nothing newer than the tab that edits it.
OwnFieldsAhead ==
  \A c \in Configs : \A g \in Groups : CopyOf(g, c) =>
    /\ copy[g].fields[g] >= row[c][g]
    /\ tab \in Groups /\ selected # NoConfig /\ CopyOf(tab, c) =>
         copy[tab].fields[g] <= copy[g].fields[g]

\* Until Save stores the row, the open tab has nothing older than the row at all.
OpenTabIsFresh ==
  selected # NoConfig /\ tab \in Groups /\ ~outdated /\ CopyOf(tab, selected) =>
    \A g \in Groups : copy[tab].fields[g] >= row[selected][g]

FieldInv ==
  main.of = selected /\ ValuesAreTyped /\ UntouchedFields /\ OwnFieldsAhead /\ OpenTabIsFresh

\* A list is never older than the row of its configuration.
ListInv ==
  \A l \in Lists :
    /\ \A c \in Configs : rows[l][c] <= edits
    /\ listCopy[l] # None =>
         /\ listCopy[l].v <= edits
         /\ \A c \in Configs : listCopy[l].of = c => listCopy[l].v >= rows[l][c]

StoredInv == EditorInv /\ FieldInv /\ ListInv

\* All values are numbers.
LEMMA ValueTypes ==
  ASSUME EditorTypeOK
  PROVE  /\ edits \in Nat
         /\ \A c \in Configs : row[c] # None => \A g \in Groups : row[c][g] \in Nat
         /\ \A h \in Groups : copy[h] # None => \A g \in Groups : copy[h].fields[g] \in Nat
         /\ \A l \in Lists : \A c \in Configs : rows[l][c] \in Nat
         /\ \A l \in Lists : listCopy[l] # None => listCopy[l].v \in Nat
<1>1. Values \subseteq Nat
  BY EditorAssumption DEF Values
<1>2. ASSUME NEW h \in Groups, copy[h] # None, NEW g \in Groups PROVE copy[h].fields[g] \in Values
  <2>1. copy[h] \in RowCopy
    BY <1>2 DEF EditorTypeOK
  <2> QED
    BY <2>1 DEF RowCopy
<1>3. ASSUME NEW l \in Lists, listCopy[l] # None PROVE listCopy[l].v \in Values
  <2>1. listCopy[l] \in FileCopy
    BY <1>3 DEF EditorTypeOK
  <2> QED
    BY <2>1 DEF FileCopy
<1>4. ASSUME NEW c \in Configs, row[c] # None, NEW g \in Groups PROVE row[c][g] \in Values
  BY <1>4 DEF EditorTypeOK
<1>5. \A l \in Lists : \A c \in Configs : rows[l][c] \in Values
  BY DEF EditorTypeOK
<1> QED
  BY <1>1, <1>2, <1>3, <1>4, <1>5 DEF EditorTypeOK

\* No tab of the row has the name of the page a configuration opens with.
LEMMA TabNames == "jatyta" \in Groups /\ "index" \notin Groups /\ NoConfig \notin Configs
BY EditorAssumption

\* A step that leaves the copies alone, and the rows there are, and shows no tab.
LEMMA QuietKeeps ==
  ASSUME EditorInv, FieldInv, EditorTypeOK',
         UNCHANGED copy, edits' >= edits, main'.of = selected',
         selected' = NoConfig \/ tab' \notin Groups,
         \A c \in Configs : row'[c] = row[c] \/ (row[c] = None /\ row'[c] = Defaults)
  PROVE  FieldInv'
<1>1. EditorTypeOK /\ CopiesHaveRows
  BY DEF EditorInv, RowInv
<1>2. /\ edits \in Nat /\ edits' \in Nat /\ edits' >= edits
      /\ \A c \in Configs : row[c] # None => \A g \in Groups : row[c][g] \in Nat
      /\ \A h \in Groups : copy[h] # None => \A g \in Groups : copy[h].fields[g] \in Nat
  <2>1. edits' \in Nat
    BY DEF EditorTypeOK, Values
  <2> QED
    BY <1>1, <2>1, ValueTypes
<1>3. \A g \in Groups : Defaults[g] = 0
  BY DEF Defaults
<1>4. \A c \in Configs : \A h \in Groups : CopyOf(h, c) => row'[c] = row[c]
  BY <1>1, TabNames DEF CopiesHaveRows, CopyOf
<1>5. ValuesAreTyped'
  <2>1. ASSUME NEW c \in Configs, row'[c] # None, NEW g \in Groups PROVE row'[c][g] <= edits'
    <3>1. CASE row[c] # None
      <4>1. row'[c] = row[c] /\ row[c][g] <= edits
        BY <3>1 DEF FieldInv, ValuesAreTyped
      <4> QED
        BY <1>2, <3>1, <4>1
    <3>2. CASE row[c] = None
      BY <1>2, <1>3, <2>1, <3>2
    <3> QED
      BY <3>1, <3>2
  <2>2. ASSUME NEW h \in Groups, copy[h] # None, NEW g \in Groups PROVE copy[h].fields[g] <= edits'
    BY <1>2, <2>2 DEF FieldInv, ValuesAreTyped
  <2> QED
    BY <2>1, <2>2 DEF ValuesAreTyped
<1>6. UntouchedFields'
  BY <1>4 DEF FieldInv, UntouchedFields, CopyOf
<1>7. OwnFieldsAhead'
  BY <1>4 DEF FieldInv, OwnFieldsAhead, CopyOf
<1>8. OpenTabIsFresh'
  BY DEF OpenTabIsFresh
<1> QED
  BY <1>5, <1>6, <1>7, <1>8 DEF FieldInv

\* What is shown and what is stored is the same; more may have been typed elsewhere.
LEMMA SameFields ==
  ASSUME EditorTypeOK, FieldInv, UNCHANGED <<row, copy, selected, tab, outdated>>, main'.of = main.of,
         edits' \in {edits, edits + 1}
  PROVE  FieldInv'
<1>1. /\ edits \in Nat /\ edits' \in Nat /\ edits' >= edits
      /\ \A c \in Configs : row[c] # None => \A g \in Groups : row[c][g] \in Nat
      /\ \A h \in Groups : copy[h] # None => \A g \in Groups : copy[h].fields[g] \in Nat
  BY ValueTypes
<1>2. ValuesAreTyped'
  BY <1>1 DEF FieldInv, ValuesAreTyped
<1> QED
  BY <1>2 DEF FieldInv, UntouchedFields, OwnFieldsAhead, OpenTabIsFresh, CopyOf

\* A tab that opens shows the row.
LEMMA OpenTabFields ==
  ASSUME EditorTypeOK, FieldInv, NEW t \in AllTabs, OpenTab(t)
  PROVE  FieldInv'
<1>1. /\ selected \in Configs /\ tab' = t /\ outdated' = FALSE
      /\ UNCHANGED <<row, selected, main, edits>>
      /\ \A g \in Groups : copy'[g] = IF g = t THEN Loaded(selected, g) ELSE copy[g]
  BY DEF OpenTab, EditorTypeOK, editorServer
<1>2. /\ edits \in Nat
      /\ \A c \in Configs : row[c] # None => \A g \in Groups : row[c][g] \in Nat
      /\ \A h \in Groups : copy[h] # None => \A g \in Groups : copy[h].fields[g] \in Nat
  BY ValueTypes
<1>3. ASSUME t \in Groups
      PROVE  /\ copy'[t] # None
             /\ \/ copy'[t].of = NoConfig /\ \A g \in Groups : copy'[t].fields[g] = 0
                \/ copy'[t].of = selected /\ row[selected] # None
                   /\ \A g \in Groups : copy'[t].fields[g] = row[selected][g]
  <2>1. /\ Loaded(selected, t) \in RowCopy
        /\ \/ Loaded(selected, t) = [of |-> NoConfig, fields |-> Defaults]
           \/ row[selected] # None /\ Loaded(selected, t) = [of |-> selected, fields |-> row[selected]]
    BY <1>1, <1>3, LoadedType
  <2>2. copy'[t] = Loaded(selected, t) /\ copy'[t] # None
    BY <1>1, <1>3, <2>1, RowIsSomething
  <2> QED
    BY <2>1, <2>2 DEF Defaults
<1>4. \A h \in Groups : h # t => copy'[h] = copy[h]
  BY <1>1
<1>5. ASSUME NEW c \in Configs, t \in Groups, CopyOf(t, c)'
      PROVE  c = selected /\ row[c] # None /\ \A g \in Groups : copy'[t].fields[g] = row[c][g]
  BY <1>3, <1>5, TabNames DEF CopyOf
<1>6. \A c \in Configs : \A h \in Groups : h # t => (CopyOf(h, c)' <=> CopyOf(h, c))
  BY <1>4 DEF CopyOf
<1>7. ValuesAreTyped'
  <2>1. ASSUME NEW h \in Groups, copy'[h] # None, NEW g \in Groups PROVE copy'[h].fields[g] <= edits
    <3>1. CASE h # t
      BY <1>4, <2>1, <3>1 DEF FieldInv, ValuesAreTyped
    <3>2. CASE h = t
      BY <1>1, <1>2, <1>3, <3>2 DEF FieldInv, ValuesAreTyped
    <3> QED
      BY <3>1, <3>2
  <2> QED
    BY <1>1, <2>1 DEF FieldInv, ValuesAreTyped
<1>8. UntouchedFields'
  <2> SUFFICES ASSUME NEW c \in Configs, NEW g \in Groups, NEW h \in Groups,
                      copy'[g] = None, CopyOf(h, c)'
               PROVE  copy'[h].fields[g] = row[c][g]
    BY <1>1 DEF UntouchedFields
  <2>1. copy[g] = None
    BY <1>3, <1>4
  <2>2. CASE h # t
    BY <1>4, <1>6, <2>1, <2>2 DEF FieldInv, UntouchedFields
  <2>3. CASE h = t
    BY <1>5, <2>3
  <2> QED
    BY <2>2, <2>3
<1>9. OwnFieldsAhead'
  <2> SUFFICES ASSUME NEW c \in Configs, NEW g \in Groups, CopyOf(g, c)'
               PROVE  /\ copy'[g].fields[g] >= row[c][g]
                      /\ t \in Groups /\ CopyOf(t, c)' => copy'[t].fields[g] <= copy'[g].fields[g]
    BY <1>1 DEF OwnFieldsAhead, CopyOf
  <2>1. CASE g # t
    <3>1. copy'[g] = copy[g] /\ copy[g].fields[g] >= row[c][g]
      BY <1>4, <1>6, <2>1 DEF FieldInv, OwnFieldsAhead
    <3>2. t \in Groups /\ CopyOf(t, c)' => copy'[t].fields[g] = row[c][g] /\ row[c][g] \in Nat
      BY <1>2, <1>5
    <3>3. copy[g].fields[g] \in Nat
      BY <1>2, <1>6, <2>1 DEF CopyOf
    <3> QED
      BY <3>1, <3>2, <3>3
  <2>2. CASE g = t
    <3>1. copy'[g].fields[g] = row[c][g] /\ row[c][g] \in Nat
      BY <1>2, <1>5, <2>2
    <3> QED
      BY <2>2, <3>1
  <2> QED
    BY <2>1, <2>2
<1>10. OpenTabIsFresh'
  <2> SUFFICES ASSUME t \in Groups, CopyOf(t, selected)', NEW g \in Groups
               PROVE  copy'[t].fields[g] >= row[selected][g]
    BY <1>1 DEF OpenTabIsFresh, CopyOf
  <2>1. copy'[t].fields[g] = row[selected][g] /\ row[selected][g] \in Nat
    BY <1>1, <1>2, <1>5 DEF CopyOf
  <2> QED
    BY <2>1
<1> QED
  BY <1>1, <1>7, <1>8, <1>9, <1>10 DEF FieldInv

\* A value that is typed is newer than all others.
LEMMA TypeFields ==
  ASSUME EditorInv, FieldInv, Type
  PROVE  FieldInv'
<1>0. EditorTypeOK /\ TabIsLoaded
  BY DEF EditorInv, RowInv
<1>1. selected # NoConfig /\ edits' = edits + 1 /\ UNCHANGED <<row, selected, tab, outdated>>
  BY DEF Type, editorServer
<1>2. CASE copy' = copy /\ main'.of = main.of
  BY <1>0, <1>1, <1>2, SameFields
<1>3. CASE tab \in Groups /\ copy' = [copy EXCEPT ![tab].fields[tab] = edits + 1] /\ main' = main
  <2>1. copy[tab] \in RowCopy
    BY <1>0, <1>1, <1>3 DEF TabIsLoaded
  <2>2. copy'[tab] = [copy[tab] EXCEPT !.fields[tab] = edits + 1]
    BY <1>0, <1>3 DEF EditorTypeOK
  <2>3. \A h \in Groups : h # tab => copy'[h] = copy[h]
    BY <1>0, <1>3 DEF EditorTypeOK
  <2>4. /\ copy'[tab].of = copy[tab].of
        /\ \A g \in Groups : copy'[tab].fields[g] = IF g = tab THEN edits + 1 ELSE copy[tab].fields[g]
    BY <1>3, <2>1, <2>2 DEF RowCopy
  <2>5. copy[tab] # None /\ copy'[tab] # None
    <3>1. copy'[tab] \in RowCopy
      <4>1. edits + 1 \in Values
        BY <1>0, <1>1, EditorAssumption DEF Type, EditorTypeOK, Values
      <4> QED
        BY <1>3, <2>1, <2>2, <4>1 DEF RowCopy
    <3> QED
      BY <2>1, <3>1, RowIsSomething
  <2>6. /\ edits \in Nat
        /\ \A c \in Configs : row[c] # None => \A g \in Groups : row[c][g] \in Nat
        /\ \A h \in Groups : copy[h] # None => \A g \in Groups : copy[h].fields[g] \in Nat
    BY <1>0, ValueTypes
  <2>7. ASSUME NEW h \in Groups
        PROVE  /\ copy'[h] = None <=> copy[h] = None
               /\ \A c \in Configs : CopyOf(h, c)' <=> CopyOf(h, c)
               /\ \A g \in Groups : copy'[h].fields[g] =
                    IF h = tab /\ g = tab THEN edits + 1 ELSE copy[h].fields[g]
    <3>1. CASE h = tab
      BY <2>4, <2>5, <3>1 DEF CopyOf
    <3>2. CASE h # tab
      BY <2>3, <3>2 DEF CopyOf
    <3> QED
      BY <3>1, <3>2
  <2>8. ValuesAreTyped'
    <3>1. ASSUME NEW h \in Groups, copy'[h] # None, NEW g \in Groups PROVE copy'[h].fields[g] <= edits + 1
      <4>1. copy[h].fields[g] <= edits /\ copy[h].fields[g] \in Nat
        BY <2>6, <2>7, <3>1 DEF FieldInv, ValuesAreTyped
      <4> QED
        BY <2>6, <2>7, <4>1
    <3>2. ASSUME NEW c \in Configs, row[c] # None, NEW g \in Groups PROVE row[c][g] <= edits + 1
      BY <2>6, <3>2 DEF FieldInv, ValuesAreTyped
    <3> QED
      BY <1>1, <3>1, <3>2 DEF ValuesAreTyped
  <2>9. UntouchedFields'
    <3> SUFFICES ASSUME NEW c \in Configs, NEW g \in Groups, NEW h \in Groups,
                        copy'[g] = None, CopyOf(h, c)'
                 PROVE  copy'[h].fields[g] = row[c][g]
      BY <1>1 DEF UntouchedFields
    <3>1. copy[g] = None /\ CopyOf(h, c) /\ g # tab
      BY <2>5, <2>7
    <3> QED
      BY <2>7, <3>1 DEF FieldInv, UntouchedFields
  <2>10. OwnFieldsAhead'
    <3> SUFFICES ASSUME NEW c \in Configs, NEW g \in Groups, CopyOf(g, c)'
                 PROVE  /\ copy'[g].fields[g] >= row[c][g]
                        /\ CopyOf(tab, c)' => copy'[tab].fields[g] <= copy'[g].fields[g]
      BY <1>1, <1>3 DEF OwnFieldsAhead, CopyOf
    <3>1. CopyOf(g, c) /\ copy[g] # None
      BY <2>7 DEF CopyOf
    <3>2. CASE g = tab
      <4>1. copy[g].fields[g] >= row[c][g] /\ copy[g].fields[g] <= edits
        BY <3>1 DEF FieldInv, OwnFieldsAhead, ValuesAreTyped
      <4>2. copy'[g].fields[g] = edits + 1 /\ copy[g].fields[g] \in Nat
        BY <2>4, <2>6, <3>1, <3>2
      <4>3. row[c] # None => row[c][g] <= edits /\ row[c][g] \in Nat
        BY <2>6 DEF FieldInv, ValuesAreTyped
      <4>4. row[c] # None
        BY <3>1, TabNames DEF EditorInv, RowInv, CopiesHaveRows, CopyOf
      <4> QED
        BY <2>6, <3>2, <4>2, <4>3, <4>4
    <3>3. CASE g # tab
      BY <1>1, <1>3, <2>7, <3>1, <3>3 DEF FieldInv, OwnFieldsAhead
    <3> QED
      BY <3>2, <3>3
  <2>11. OpenTabIsFresh'
    <3> SUFFICES ASSUME ~outdated, CopyOf(tab, selected)', NEW g \in Groups
                 PROVE  copy'[tab].fields[g] >= row[selected][g]
      BY <1>1 DEF OpenTabIsFresh, CopyOf
    <3>1. selected \in Configs
      BY <1>0, <1>1 DEF EditorTypeOK
    <3>2. CopyOf(tab, selected)
      BY <1>1, <1>3, <2>4, <2>5 DEF CopyOf
    <3>3. copy[tab].fields[g] >= row[selected][g] /\ row[selected] # None
      BY <1>1, <1>3, <3>1, <3>2, TabNames
      DEF FieldInv, OpenTabIsFresh, EditorInv, RowInv, CopiesHaveRows, CopyOf
    <3>4. copy[tab].fields[g] \in Nat /\ copy[tab].fields[g] <= edits /\ row[selected][g] \in Nat
      BY <1>3, <2>5, <2>6, <3>1, <3>3 DEF FieldInv, ValuesAreTyped
    <3> QED
      BY <2>4, <2>6, <3>3, <3>4
  <2> QED
    BY <1>1, <1>3, <2>8, <2>9, <2>10, <2>11 DEF FieldInv
<1> QED
  <2>1. \/ copy' = copy /\ main'.of = main.of
        \/ tab \in Groups /\ copy' = [copy EXCEPT ![tab].fields[tab] = edits + 1] /\ main' = main
    <3>1. [main EXCEPT !.v = edits + 1].of = main.of
      BY <1>0 DEF EditorTypeOK, FileCopy
    <3> QED
      BY <3>1 DEF Type
  <2> QED
    BY <1>2, <1>3, <2>1

\* A tab that is saved has all that is in the row, and no more than the other tabs.
LEMMA SaveTabFields ==
  ASSUME EditorInv, FieldInv, SaveTab
  PROVE  /\ FieldInv'
         /\ ~outdated => \A c \in Configs : row[c] # None => \A g \in Groups : row'[c][g] >= row[c][g]
<1>0. EditorTypeOK /\ TabIsLoaded
  BY DEF EditorInv, RowInv
<1> DEFINE j == copy[tab]
<1>1. /\ selected # NoConfig /\ selected \in Configs /\ tab \in Groups
      /\ UNCHANGED <<copy, selected, main, tab, edits, outdated>>
      /\ j.of # NoConfig /\ row' = [row EXCEPT ![j.of] = j.fields]
  BY <1>0 DEF SaveTab, PutRow, StoredRow, EditorTypeOK, editorPage
<1>2. j.of = selected /\ j # None /\ CopyOf(tab, selected)
  BY <1>0, <1>1, RowIsSomething DEF TabIsLoaded, CopyOf
<1>3. \A c \in Configs : row'[c] = IF c = selected THEN copy[tab].fields ELSE row[c]
  BY <1>0, <1>1, <1>2 DEF EditorTypeOK
<1> HIDE DEF j
<1>4. \A h \in Groups, c \in Configs : CopyOf(h, c)' <=> CopyOf(h, c)
  BY <1>1 DEF CopyOf
<1>5. copy[tab] # None
  BY <1>2 DEF j
<1>6. /\ \A c \in Configs : row[c] # None => \A g \in Groups : row[c][g] \in Nat
      /\ \A h \in Groups : copy[h] # None => \A g \in Groups : copy[h].fields[g] \in Nat
  BY <1>0, ValueTypes
<1>7. ValuesAreTyped'
  BY <1>1, <1>3, <1>5 DEF FieldInv, ValuesAreTyped
<1>8. UntouchedFields'
  <2> SUFFICES ASSUME NEW c \in Configs, NEW g \in Groups, NEW h \in Groups,
                      copy[g] = None, CopyOf(h, c)
               PROVE  copy[h].fields[g] = row'[c][g]
    BY <1>1, <1>4 DEF UntouchedFields
  <2>1. copy[h].fields[g] = row[c][g]
    BY DEF FieldInv, UntouchedFields
  <2>2. copy[tab].fields[g] = row[selected][g]
    BY <1>1, <1>2 DEF FieldInv, UntouchedFields
  <2> QED
    BY <1>3, <2>1, <2>2
<1>9. OwnFieldsAhead'
  <2> SUFFICES ASSUME NEW c \in Configs, NEW g \in Groups, CopyOf(g, c)
               PROVE  /\ copy[g].fields[g] >= row'[c][g]
                      /\ CopyOf(tab, c) => copy[tab].fields[g] <= copy[g].fields[g]
    BY <1>1, <1>4 DEF OwnFieldsAhead
  <2>1. CopyOf(tab, c) => copy[tab].fields[g] <= copy[g].fields[g]
    BY <1>1 DEF FieldInv, OwnFieldsAhead
  <2>2. copy[g].fields[g] >= row[c][g]
    BY DEF FieldInv, OwnFieldsAhead
  <2>3. copy[g].fields[g] \in Nat /\ copy[tab].fields[g] \in Nat
    BY <1>1, <1>5, <1>6 DEF CopyOf
  <2>4. CASE c = selected
    <3>1. copy[tab].fields[g] <= copy[g].fields[g] /\ row'[c][g] = copy[tab].fields[g]
      BY <1>2, <1>3, <2>1, <2>4
    <3> QED
      BY <2>1, <2>3, <3>1
  <2>5. CASE c # selected
    BY <1>3, <2>1, <2>2, <2>5
  <2> QED
    BY <2>4, <2>5
<1>10. OpenTabIsFresh'
  <2> SUFFICES ASSUME NEW g \in Groups
               PROVE  copy[tab].fields[g] >= row'[selected][g]
    BY <1>1 DEF OpenTabIsFresh
  <2>1. copy[tab].fields[g] \in Nat /\ row'[selected][g] = copy[tab].fields[g]
    BY <1>1, <1>3, <1>5, <1>6
  <2> QED
    BY <2>1
<1>11. ASSUME ~outdated, NEW c \in Configs, row[c] # None, NEW g \in Groups
       PROVE  row'[c][g] >= row[c][g]
  <2>1. row[c][g] \in Nat
    BY <1>6, <1>11
  <2>2. CASE c = selected
    <3>1. copy[tab].fields[g] >= row[selected][g]
      BY <1>1, <1>2, <1>11 DEF FieldInv, OpenTabIsFresh
    <3> QED
      BY <1>3, <2>2, <3>1
  <2>3. CASE c # selected
    <3>1. row'[c] = row[c]
      BY <1>3, <2>3
    <3> QED
      BY <2>1, <3>1
  <2> QED
    BY <2>2, <2>3
<1> QED
  BY <1>1, <1>7, <1>8, <1>9, <1>10, <1>11 DEF FieldInv
\* What a save of the configuration merges, and what its row gets.
LEMMA SaveMerges ==
  ASSUME EditorInv, FieldInv, NEW gs, "jatyta" \notin gs, Save(Merged(Base, gs))
  PROVE  LET j == Merged(Base, gs) IN
         /\ selected \in Configs /\ j \in RowCopy
         /\ j.of # NoConfig => j.of \in Configs /\ row[j.of] # None
         /\ \A g \in Groups : g \in gs /\ copy[g] # None => j.fields[g] = copy[g].fields[g]
         /\ \A g \in Groups : copy[g] = None =>
              (j.of # NoConfig => j.fields[g] = row[j.of][g])
         /\ copy["jatyta"] # None =>
              /\ j.of = copy["jatyta"].of
              /\ \A g \in Groups : g \notin gs \/ copy[g] = None => j.fields[g] = copy["jatyta"].fields[g]
         /\ copy["jatyta"] = None => j.of \in {selected, NoConfig}
         /\ \A g \in Groups : j.fields[g] <= edits
<1> DEFINE j == Merged(Base, gs)
<1>0. EditorTypeOK /\ CopiesHaveRows
  BY DEF EditorInv, RowInv
<1>1. selected # NoConfig /\ selected \in Configs
  BY <1>0 DEF Save, EditorTypeOK
<1>2. /\ Base \in RowCopy
      /\ \/ copy["jatyta"] # None /\ Base = copy["jatyta"]
         \/ Base = [of |-> NoConfig, fields |-> Defaults]
         \/ row[selected] # None /\ Base = [of |-> selected, fields |-> row[selected]]
  BY <1>0, <1>1, BaseType
<1>3. j \in RowCopy /\ j.of = Base.of
  BY <1>0, <1>1, MergedType
<1>4. \A g \in Groups : j.fields[g] = IF g \in gs /\ copy[g] # None THEN copy[g].fields[g]
                                                                  ELSE Base.fields[g]
  BY <1>2 DEF Merged, RowCopy
<1> HIDE DEF j
<1>5. j.of # NoConfig => j.of \in Configs /\ row[j.of] # None
  <2>1. j.of \in Configs \cup {NoConfig}
    BY <1>3 DEF RowCopy
  <2>2. j.of # NoConfig => row[j.of] # None
    BY SavedIsHome DEF j
  <2> QED
    BY <2>1, <2>2
<1>6. copy["jatyta"] # None => Base = copy["jatyta"]
  BY DEF Base
<1>7. copy["jatyta"] = None =>
        Base = [of |-> NoConfig, fields |-> Defaults] \/ Base = [of |-> selected, fields |-> row[selected]]
  BY DEF Base
<1>8. ASSUME NEW g \in Groups, copy[g] = None, j.of # NoConfig PROVE j.fields[g] = row[j.of][g]
  <2>1. j.fields[g] = Base.fields[g]
    BY <1>4, <1>8
  <2>2. CASE copy["jatyta"] # None
    <3>1. CopyOf("jatyta", j.of) /\ j.of \in Configs
      BY <1>3, <1>5, <1>6, <1>8, <2>2 DEF CopyOf
    <3> QED
      BY <1>6, <1>8, <2>1, <2>2, <3>1, TabNames DEF FieldInv, UntouchedFields
  <2>3. CASE copy["jatyta"] = None
    BY <1>3, <1>7, <1>8, <2>1, <2>3
  <2> QED
    BY <2>2, <2>3
<1>9. copy["jatyta"] # None =>
        /\ j.of = copy["jatyta"].of
        /\ \A g \in Groups : g \notin gs \/ copy[g] = None => j.fields[g] = copy["jatyta"].fields[g]
  BY <1>3, <1>4, <1>6
<1>10. copy["jatyta"] = None => j.of \in {selected, NoConfig}
  BY <1>3, <1>7
<1>11. ASSUME NEW g \in Groups PROVE j.fields[g] <= edits
  <2>1. edits \in Nat
    BY <1>0, ValueTypes
  <2>2. copy["jatyta"] # None => copy["jatyta"].fields[g] <= edits
    BY TabNames DEF FieldInv, ValuesAreTyped
  <2>3. row[selected] # None => row[selected][g] <= edits
    BY <1>1 DEF FieldInv, ValuesAreTyped
  <2>4. Base.fields[g] <= edits
    BY <1>2, <2>1, <2>2, <2>3 DEF Defaults
  <2>5. copy[g] # None => copy[g].fields[g] <= edits
    BY DEF FieldInv, ValuesAreTyped
  <2> QED
    BY <1>4, <2>4, <2>5
<1> QED
  BY <1>1, <1>3, <1>4, <1>5, <1>8, <1>9, <1>10, <1>11 DEF j

\* A save of the configuration, whether the row is stored in the end or not.
LEMMA SaveFields ==
  ASSUME EditorInv, FieldInv, NEW gs, "jatyta" \notin gs, Save(Merged(Base, gs)),
         \/ PutRow(Merged(Base, gs)) /\ Groups \subseteq gs \cup {"jatyta"}
         \/ UNCHANGED row
  PROVE  /\ FieldInv'
         /\ OneConfiguration =>
              \A c \in Configs : row[c] # None => \A g \in Groups : row'[c][g] >= row[c][g]
<1>0. EditorTypeOK
  BY DEF EditorInv
<1>1. PICK j : j = Merged(Base, gs)
  OBVIOUS
<1>2. /\ selected \in Configs /\ j \in RowCopy
      /\ j.of # NoConfig => j.of \in Configs /\ row[j.of] # None
      /\ \A g \in Groups : g \in gs /\ copy[g] # None => j.fields[g] = copy[g].fields[g]
      /\ \A g \in Groups : copy[g] = None =>
           (j.of # NoConfig => j.fields[g] = row[j.of][g])
      /\ copy["jatyta"] # None =>
           /\ j.of = copy["jatyta"].of
           /\ \A g \in Groups : g \notin gs \/ copy[g] = None => j.fields[g] = copy["jatyta"].fields[g]
      /\ copy["jatyta"] = None => j.of \in {selected, NoConfig}
      /\ \A g \in Groups : j.fields[g] <= edits
  BY <1>1, SaveMerges
<1>3. /\ UNCHANGED <<selected, main, tab, edits>> /\ outdated' = TRUE
      /\ copy' = IF copy["jatyta"] = None THEN copy ELSE [copy EXCEPT !["jatyta"] = j]
  BY <1>1 DEF Save, Kept
<1>4. "jatyta" \in Groups /\ NoConfig \notin Configs /\ j # None
  BY <1>2, TabNames, RowIsSomething
<1>5. /\ \A h \in Groups : h # "jatyta" => copy'[h] = copy[h]
      /\ copy'["jatyta"] = IF copy["jatyta"] = None THEN None ELSE j
  BY <1>0, <1>3, <1>4 DEF EditorTypeOK
<1>6. ASSUME NEW h \in Groups
      PROVE  /\ copy'[h] = None <=> copy[h] = None
             /\ \A c \in Configs : CopyOf(h, c)' <=> CopyOf(h, c)
             /\ copy'[h].fields[h] = copy[h].fields[h] \/ copy[h] = None
  <2>1. CASE h = "jatyta" /\ copy[h] # None
    BY <1>2, <1>4, <1>5, <2>1 DEF CopyOf
  <2>2. CASE h # "jatyta" \/ copy[h] = None
    <3>1. copy'[h] = copy[h]
      BY <1>5, <2>2
    <3> QED
      BY <3>1 DEF CopyOf
  <2> QED
    BY <2>1, <2>2
<1>7. \A c \in Configs : row'[c] = row[c] \/
        (c = j.of /\ row'[c] = j.fields /\ row[c] # None /\ Groups \subseteq gs \cup {"jatyta"})
  <2>1. CASE UNCHANGED row
    BY <2>1
  <2>2. CASE PutRow(j) /\ Groups \subseteq gs \cup {"jatyta"}
    <3>1. row' = [row EXCEPT ![j.of] = j.fields] /\ j.of \in Configs /\ row[j.of] # None
      BY <1>2, <2>2 DEF PutRow, StoredRow
    <3>2. \A c \in Configs : row'[c] = IF c = j.of THEN j.fields ELSE row[c]
      BY <1>0, <3>1 DEF EditorTypeOK
    <3> QED
      BY <2>2, <3>1, <3>2
  <2> QED
    BY <1>1, <2>1, <2>2
<1>8. /\ edits \in Nat
      /\ \A c \in Configs : row[c] # None => \A g \in Groups : row[c][g] \in Nat
      /\ \A h \in Groups : copy[h] # None => \A g \in Groups : copy[h].fields[g] \in Nat
  BY <1>0, ValueTypes
<1>9. ASSUME NEW c \in Configs, NEW g \in Groups, CopyOf(g, c)
      PROVE  /\ row'[c] = row[c] \/ row'[c][g] = copy[g].fields[g]
             /\ copy[g].fields[g] >= row[c][g] /\ copy[g].fields[g] \in Nat
  <2>1. copy[g].fields[g] >= row[c][g] /\ copy[g].fields[g] \in Nat
    BY <1>8, <1>9 DEF FieldInv, OwnFieldsAhead, CopyOf
  <2>2. ASSUME c = j.of, row'[c] = j.fields, Groups \subseteq gs \cup {"jatyta"}
        PROVE  row'[c][g] = copy[g].fields[g]
    <3>1. CASE g = "jatyta"
      BY <1>2, <1>9, <2>2, <3>1 DEF CopyOf
    <3>2. CASE g # "jatyta"
      BY <1>2, <1>9, <2>2, <3>2 DEF CopyOf
    <3> QED
      BY <3>1, <3>2
  <2> QED
    BY <1>7, <2>1, <2>2
<1>10. ASSUME NEW c \in Configs, NEW g \in Groups, copy[g] = None
       PROVE  row'[c][g] = row[c][g]
  BY <1>2, <1>4, <1>7, <1>10
<1>11. ValuesAreTyped'
  <2>1. ASSUME NEW c \in Configs, row'[c] # None, NEW g \in Groups PROVE row'[c][g] <= edits
    BY <1>2, <1>7, <2>1 DEF FieldInv, ValuesAreTyped
  <2>2. ASSUME NEW h \in Groups, copy'[h] # None, NEW g \in Groups PROVE copy'[h].fields[g] <= edits
    <3>1. copy[h] # None /\ (copy'[h] = copy[h] \/ copy'[h] = j)
      BY <1>5, <1>6, <2>2
    <3> QED
      BY <1>2, <3>1 DEF FieldInv, ValuesAreTyped
  <2> QED
    BY <1>3, <2>1, <2>2 DEF ValuesAreTyped
<1>12. UntouchedFields'
  <2> SUFFICES ASSUME NEW c \in Configs, NEW g \in Groups, NEW h \in Groups,
                      copy[g] = None, CopyOf(h, c)
               PROVE  copy'[h].fields[g] = row'[c][g]
    BY <1>6 DEF UntouchedFields
  <2>1. copy[h].fields[g] = row[c][g] /\ row'[c][g] = row[c][g]
    BY <1>10 DEF FieldInv, UntouchedFields
  <2>2. copy'[h].fields[g] = copy[h].fields[g]
    <3>1. CASE h = "jatyta"
      BY <1>2, <1>5, <3>1 DEF CopyOf
    <3>2. CASE h # "jatyta"
      BY <1>5, <3>2
    <3> QED
      BY <3>1, <3>2
  <2> QED
    BY <2>1, <2>2
<1>13. OwnFieldsAhead'
  <2> SUFFICES ASSUME NEW c \in Configs, NEW g \in Groups, CopyOf(g, c)
               PROVE  /\ copy'[g].fields[g] >= row'[c][g]
                      /\ tab \in Groups /\ selected # NoConfig /\ CopyOf(tab, c) =>
                           copy'[tab].fields[g] <= copy'[g].fields[g]
    BY <1>3, <1>6 DEF OwnFieldsAhead
  <2>1. copy'[g].fields[g] = copy[g].fields[g] /\ copy[g] # None
    BY <1>6 DEF CopyOf
  <2>2. copy'[g].fields[g] >= row'[c][g]
    <3>1. copy[g].fields[g] >= row[c][g] /\ copy[g].fields[g] \in Nat
      BY <1>9
    <3>2. row'[c] = row[c] \/ row'[c][g] = copy[g].fields[g]
      BY <1>9
    <3> QED
      BY <2>1, <3>1, <3>2
  <2>3. ASSUME tab \in Groups, selected # NoConfig, CopyOf(tab, c)
        PROVE  copy'[tab].fields[g] <= copy'[g].fields[g]
    <3>1. copy[tab].fields[g] <= copy[g].fields[g] /\ copy[g].fields[g] \in Nat
      BY <1>9, <2>3 DEF FieldInv, OwnFieldsAhead
    <3>2. copy'[tab].fields[g] \in {copy[tab].fields[g], copy[g].fields[g]}
      <4>1. CASE tab = "jatyta"
        <5>1. copy'[tab] = j
          BY <1>5, <2>3, <4>1 DEF CopyOf
        <5>2. j.fields[g] \in {copy[tab].fields[g], copy[g].fields[g]}
          BY <1>2, <2>1, <2>3, <4>1 DEF CopyOf
        <5> QED
          BY <5>1, <5>2
      <4>2. CASE tab # "jatyta"
        BY <1>5, <2>3, <4>2
      <4> QED
        BY <4>1, <4>2
    <3> QED
      BY <2>1, <3>1, <3>2
  <2> QED
    BY <2>2, <2>3
<1>14. OpenTabIsFresh'
  BY <1>3 DEF OpenTabIsFresh
<1>15. ASSUME OneConfiguration, NEW c \in Configs, row[c] # None, NEW g \in Groups
       PROVE  row'[c][g] >= row[c][g]
  <2>1. row[c][g] \in Nat
    BY <1>8, <1>15
  <2>2. CASE row'[c] = row[c]
    BY <2>1, <2>2
  <2>3. CASE copy[g] = None
    <3>1. row'[c][g] = row[c][g]
      BY <1>10, <2>3
    <3> QED
      BY <2>1, <3>1
  <2>4. CASE row'[c] # row[c] /\ copy[g] # None
    <3>1. c = j.of
      BY <1>7, <2>4
    <3>2. j.of = selected
      BY <1>2, <1>4, <1>15, <3>1 DEF OneConfiguration
    <3>3. CopyOf(g, c)
      BY <1>15, <2>4, <3>1, <3>2 DEF OneConfiguration, CopyOf
    <3> QED
      BY <1>9, <2>4, <3>3
  <2> QED
    BY <2>2, <2>3, <2>4
<1> QED
  BY <1>3, <1>11, <1>12, <1>13, <1>14, <1>15 DEF FieldInv

\* The lists that are stored are those that are shown, and not older than before.
LEMMA StoredListsKept ==
  ASSUME EditorTypeOK, EditorTypeOK', ListInv, UNCHANGED listCopy, edits' >= edits,
         NEW ls, rows' = StoredLists(ls)
  PROVE  ListInv' /\ \A l \in Lists : \A c \in Configs : rows'[l][c] >= rows[l][c]
<1>1. /\ edits \in Nat /\ edits' \in Nat
      /\ \A l \in Lists : \A c \in Configs : rows[l][c] \in Nat
      /\ \A l \in Lists : listCopy[l] # None => listCopy[l].v \in Nat
  <2>1. edits' \in Nat
    BY DEF EditorTypeOK, Values
  <2> QED
    BY <2>1, ValueTypes
<1>2. ASSUME NEW l \in Lists, NEW c \in Configs
      PROVE  rows'[l][c] = rows[l][c] \/
               (listCopy[l] # None /\ listCopy[l].of = c /\ rows'[l][c] = listCopy[l].v)
  <2>1. rows[l] \in [Configs -> Values]
    BY DEF EditorTypeOK
  <2>2. \/ rows'[l] = rows[l]
        \/ listCopy[l] # None /\ rows'[l] = [rows[l] EXCEPT ![listCopy[l].of] = listCopy[l].v]
    BY DEF StoredLists
  <2> QED
    BY <2>1, <2>2
<1>3. ASSUME NEW l \in Lists, NEW c \in Configs
      PROVE  /\ rows'[l][c] <= edits' /\ rows'[l][c] >= rows[l][c]
             /\ listCopy[l] # None /\ listCopy[l].of = c => listCopy[l].v >= rows'[l][c]
  <2>1. rows[l][c] <= edits /\ rows[l][c] \in Nat
    BY <1>1 DEF ListInv
  <2>2. listCopy[l] # None /\ listCopy[l].of = c =>
          listCopy[l].v <= edits /\ listCopy[l].v >= rows[l][c] /\ listCopy[l].v \in Nat
    BY <1>1 DEF ListInv
  <2> QED
    BY <1>1, <1>2, <2>1, <2>2
<1>4. \A l \in Lists : listCopy[l] # None => listCopy[l].v <= edits'
  BY <1>1 DEF ListInv
<1> QED
  BY <1>3, <1>4 DEF ListInv

\* Storing no list changes nothing.
LEMMA NoListStored == EditorTypeOK => StoredLists({}) = rows
BY DEF EditorTypeOK, StoredLists

\* Each action keeps the lists and, Save and the tabs of the row apart, the rows.
LEMMA NextLists ==
  ASSUME EditorInv, EditorTypeOK', ListInv, [EditorNext]_editorVars
  PROVE  ListInv' /\ \A l \in Lists : \A c \in Configs : rows'[l][c] >= rows[l][c]
<1>0. EditorTypeOK /\ TabIsLoaded
  BY DEF EditorInv, RowInv
<1>1. /\ edits \in Nat /\ edits' \in Nat
      /\ \A l \in Lists : \A c \in Configs : rows[l][c] \in Nat
      /\ \A l \in Lists : listCopy[l] # None => listCopy[l].v \in Nat
  <2>1. edits' \in Nat
    BY DEF EditorTypeOK, Values
  <2> QED
    BY <1>0, <2>1, ValueTypes
<1>2. ASSUME NEW ls, rows' = StoredLists(ls), UNCHANGED <<listCopy, edits>>
      PROVE  ListInv' /\ \A l \in Lists : \A c \in Configs : rows'[l][c] >= rows[l][c]
  BY <1>0, <1>1, <1>2, StoredListsKept
<1>3. ASSUME UNCHANGED <<rows, listCopy>>, edits' \in {edits, edits + 1}
      PROVE  ListInv' /\ \A l \in Lists : \A c \in Configs : rows'[l][c] >= rows[l][c]
  <2>1. edits' >= edits /\ rows' = StoredLists({})
    BY <1>0, <1>1, <1>3, NoListStored
  <2> QED
    BY <1>0, <1>3, <2>1, StoredListsKept
<1>4. ASSUME UNCHANGED rows
      PROVE  \A l \in Lists : \A c \in Configs : rows'[l][c] >= rows[l][c]
  BY <1>1, <1>4
<1>5. CASE LoadPage
  BY <1>4, <1>5 DEF LoadPage, ListInv, editorServer
<1>6. ASSUME NEW t \in AllTabs, OpenTab(t)
      PROVE  ListInv' /\ UNCHANGED rows
  <2>1. /\ UNCHANGED <<rows, edits>> /\ selected \in Configs
        /\ \A l \in Lists : listCopy'[l] = IF TabOf(l) = t THEN [of |-> selected, v |-> rows[l][selected]]
                                                           ELSE listCopy[l]
    BY <1>0, <1>6 DEF OpenTab, EditorTypeOK, editorServer
  <2>2. ASSUME NEW l \in Lists, listCopy'[l] # None
        PROVE  /\ listCopy'[l].v <= edits
               /\ \A c \in Configs : listCopy'[l].of = c => listCopy'[l].v >= rows[l][c]
    <3>1. CASE TabOf(l) = t
      <4>1. listCopy'[l].of = selected /\ listCopy'[l].v = rows[l][selected]
        <5>1. listCopy'[l] = IF TabOf(l) = t THEN [of |-> selected, v |-> rows[l][selected]]
                                             ELSE listCopy[l]
          BY <2>1, <2>2
        <5>2. listCopy'[l] = [of |-> selected, v |-> rows[l][selected]]
          BY <3>1, <5>1 DEF TabOf
        <5> QED
          BY <5>2
      <4>2. rows[l][selected] <= edits /\ rows[l][selected] \in Nat
        BY <1>1, <2>1, <2>2 DEF ListInv
      <4> QED
        BY <4>1, <4>2
    <3>2. CASE TabOf(l) # t
      BY <2>1, <2>2, <3>2 DEF ListInv
    <3> QED
      BY <3>1, <3>2
  <2> QED
    BY <2>1, <2>2 DEF ListInv
<1>7. CASE Type
  <2>1. UNCHANGED rows /\ edits' = edits + 1
    BY <1>7 DEF Type, editorServer
  <2>2. CASE UNCHANGED listCopy
    BY <1>3, <2>1, <2>2
  <2>3. ASSUME NEW l \in Lists, TabOf(l) = tab, listCopy' = [listCopy EXCEPT ![l].v = edits + 1]
        PROVE  ListInv'
    <3>1. listCopy[l] \in FileCopy
      BY <1>0, <1>7, <2>3 DEF TabIsLoaded, Type
    <3>2. /\ listCopy'[l].v = edits + 1
          /\ \A m \in Lists : m # l => listCopy'[m] = listCopy[m]
      BY <1>0, <2>3, <3>1 DEF EditorTypeOK, FileCopy
    <3>3. ASSUME NEW m \in Lists
          PROVE  /\ \A c \in Configs : rows[m][c] <= edits + 1
                 /\ listCopy'[m] # None =>
                      /\ listCopy'[m].v <= edits + 1
                      /\ \A c \in Configs : listCopy'[m].of = c => listCopy'[m].v >= rows[m][c]
      <4>1. \A c \in Configs : rows[m][c] <= edits /\ rows[m][c] \in Nat
        BY <1>1 DEF ListInv
      <4>2. CASE m = l
        BY <1>1, <3>2, <4>1, <4>2
      <4>3. CASE m # l
        <5>1. listCopy'[m] = listCopy[m]
          BY <3>2, <4>3
        <5>2. listCopy[m] # None =>
                /\ listCopy[m].v <= edits /\ listCopy[m].v \in Nat
                /\ \A c \in Configs : listCopy[m].of = c => listCopy[m].v >= rows[m][c]
          BY <1>1 DEF ListInv
        <5> QED
          BY <1>1, <4>1, <5>1, <5>2
      <4> QED
        BY <4>2, <4>3
    <3> QED
      BY <2>1, <3>3 DEF ListInv
  <2> QED
    BY <1>4, <1>7, <2>1, <2>2, <2>3 DEF Type
<1>8. CASE \/ \E l \in Lists : SaveList(l)
           \/ SaveAll \/ SaveWithoutConfig \/ SaveStopsAtRow \/ SaveStopsAtList
  <2>1. (\E ls : rows' = StoredLists(ls)) /\ UNCHANGED <<listCopy, edits>>
    BY <1>8 DEF SaveList, SaveAll, SaveWithoutConfig, SaveStopsAtRow, SaveStopsAtList, Save, editorPage
  <2> QED
    BY <1>2, <2>1
<1>9. CASE \/ \E c \in Configs : OpenConfig(c) \/ Add(c)
           \/ Leave \/ SaveTab \/ SaveStopsAtForms \/ Delete \/ UNCHANGED editorVars
  <2>1. UNCHANGED <<rows, listCopy>> /\ edits' \in {edits, edits + 1}
    BY <1>9
    DEF OpenConfig, Add, Leave, SaveTab, SaveStopsAtForms, Delete, Save, editorServer, editorPage,
        editorVars
  <2> QED
    BY <1>3, <2>1
<1> QED
  BY <1>4, <1>5, <1>6, <1>7, <1>8, <1>9 DEF EditorNext

\* The fields that Save takes from the copies of their tabs.
LEMMA SavedGroups ==
  /\ "jatyta" \notin {"forms", "login"} /\ "jatyta" \notin {"forms"}
  /\ Groups \subseteq {"forms", "login"} \cup {"jatyta"}
BY EditorAssumption

\* Each action keeps the fields; a row only loses to a tab that is out of date, or
\* to a save with tabs of another configuration.
LEMMA NextFields ==
  ASSUME EditorInv, EditorInv', FieldInv, [EditorNext]_editorVars
  PROVE  /\ FieldInv'
         /\ OneConfiguration /\ (outdated => ~SaveTab) =>
              \A c \in Configs : row[c] # None => \A g \in Groups : row'[c][g] >= row[c][g]
<1> DEFINE Ahead == \A c \in Configs : row[c] # None => \A g \in Groups : row'[c][g] >= row[c][g]
<1>0. EditorTypeOK /\ EditorTypeOK'
  BY DEF EditorInv
<1>1. /\ edits \in Nat
      /\ \A c \in Configs : row[c] # None => \A g \in Groups : row[c][g] \in Nat
  BY <1>0, ValueTypes
<1>2. ASSUME \A c \in Configs : row[c] # None => row'[c] = row[c] PROVE Ahead
  BY <1>1, <1>2
<1>3. main.of = selected
  BY DEF FieldInv
<1> HIDE DEF Ahead
<1>4. ASSUME UNCHANGED <<row, copy, edits>>, main'.of = selected', tab' = "index"
      PROVE  FieldInv' /\ Ahead
  <2>1. edits' >= edits /\ tab' \notin Groups
    BY <1>1, <1>4, TabNames
  <2> QED
    BY <1>0, <1>2, <1>4, <2>1, QuietKeeps
<1>5. ASSUME NEW c \in Configs, OpenConfig(c) PROVE FieldInv' /\ Ahead
  BY <1>4, <1>5 DEF OpenConfig, Opened, editorServer
<1>6. CASE Leave \/ Delete
  BY <1>4, <1>6 DEF Leave, Delete, Closed, editorServer, Ahead
<1>7. CASE LoadPage
  <2>1. /\ UNCHANGED <<row, selected, main, tab, edits>> /\ selected = NoConfig
        /\ \A g \in Groups : copy'[g] = None
    BY <1>7 DEF LoadPage, editorServer
  <2>2. FieldInv'
    BY <2>1 DEF FieldInv, ValuesAreTyped, UntouchedFields, OwnFieldsAhead, OpenTabIsFresh, CopyOf
  <2> QED
    BY <1>2, <2>1, <2>2 DEF Ahead
<1>8. ASSUME NEW c \in Configs, Add(c) PROVE FieldInv' /\ Ahead
  <2>1. /\ UNCHANGED copy /\ edits' = edits + 1 /\ selected = NoConfig
        /\ \/ /\ row' = IF row[c] = None THEN [row EXCEPT ![c] = Defaults] ELSE row
              /\ selected' = c /\ tab' = "index" /\ main' = [of |-> c, v |-> edits + 1]
           \/ UNCHANGED <<row, selected, tab, main>>
    BY <1>8 DEF Add, Opened
  <2>2. \A d \in Configs : row'[d] = row[d] \/ (row[d] = None /\ row'[d] = Defaults)
    BY <1>0, <2>1 DEF EditorTypeOK
  <2>3. edits' >= edits /\ main'.of = selected' /\ (selected' = NoConfig \/ tab' \notin Groups)
    BY <1>1, <1>3, <2>1, TabNames
  <2>4. FieldInv'
    BY <1>0, <2>1, <2>2, <2>3, QuietKeeps
  <2> QED
    BY <1>2, <2>2, <2>4
<1>9. ASSUME NEW t \in AllTabs, OpenTab(t) PROVE FieldInv' /\ Ahead
  <2>1. FieldInv'
    BY <1>0, <1>9, OpenTabFields
  <2> QED
    BY <1>2, <1>9, <2>1 DEF OpenTab, editorServer
<1>10. CASE Type
  <2>1. FieldInv'
    BY <1>10, TypeFields
  <2> QED
    BY <1>2, <1>10, <2>1 DEF Type, editorServer, Ahead
<1>11. CASE (\E l \in Lists : SaveList(l)) \/ UNCHANGED editorVars
  <2>1. UNCHANGED <<row, copy, selected, main, tab, edits, outdated>>
    BY <1>11 DEF SaveList, editorPage, editorVars, editorServer
  <2>2. FieldInv'
    BY <1>0, <2>1, SameFields
  <2> QED
    BY <1>2, <2>1, <2>2 DEF Ahead
<1>12. CASE SaveTab
  <2>1. FieldInv' /\ (~outdated => Ahead)
    BY <1>12, SaveTabFields DEF Ahead
  <2> QED
    BY <1>12, <2>1 DEF Ahead
<1>13. ASSUME NEW gs, "jatyta" \notin gs, Save(Merged(Base, gs)),
              \/ PutRow(Merged(Base, gs)) /\ Groups \subseteq gs \cup {"jatyta"}
              \/ UNCHANGED row
       PROVE  FieldInv' /\ (OneConfiguration => Ahead)
  BY <1>13, SaveFields DEF Ahead
<1>14. CASE SaveStopsAtForms
  BY <1>13, <1>14, SavedGroups DEF SaveStopsAtForms, Ahead
<1>15. CASE SaveAll \/ SaveWithoutConfig \/ SaveStopsAtRow \/ SaveStopsAtList
  <2>1. Save(Merged(Base, {"forms", "login"}))
    BY <1>15 DEF SaveAll, SaveWithoutConfig, SaveStopsAtRow, SaveStopsAtList, AllFields
  <2>2. PutRow(Merged(Base, {"forms", "login"})) \/ UNCHANGED row
    BY <1>15 DEF SaveAll, SaveWithoutConfig, SaveStopsAtRow, SaveStopsAtList, AllFields
  <2> QED
    BY <1>13, <2>1, <2>2, SavedGroups DEF Ahead
<1> QED
  BY <1>5, <1>6, <1>7, <1>8, <1>9, <1>10, <1>11, <1>12, <1>14, <1>15 DEF EditorNext, Ahead

\* The invariant of what is stored.
LEMMA StoredInvAlways == EditorSpec => []StoredInv
<1>1. EditorInit => FieldInv /\ ListInv
  BY TabNames
  DEF EditorInit, FieldInv, ListInv, ValuesAreTyped, UntouchedFields, OwnFieldsAhead, OpenTabIsFresh,
      CopyOf
<1>2. FieldInv /\ ListInv /\ EditorInv /\ EditorInv' /\ [EditorNext]_editorVars => FieldInv' /\ ListInv'
  <2> SUFFICES ASSUME FieldInv, ListInv, EditorInv, EditorInv', [EditorNext]_editorVars
               PROVE  FieldInv' /\ ListInv'
    OBVIOUS
  <2>1. EditorTypeOK'
    BY DEF EditorInv
  <2> QED
    BY <2>1, NextFields, NextLists
<1>3. EditorInv /\ FieldInv /\ ListInv => StoredInv
  BY DEF StoredInv
<1> QED
  BY <1>1, <1>2, <1>3, EditorInvAlways, PTL DEF EditorSpec

\* What "Configuration Saved" stores.
LEMMA SaveAllStores ==
  ASSUME StoredInv, SaveAll, OneConfiguration
  PROVE  /\ config'[selected] = main.v
         /\ \A g \in Groups :
              row'[selected][g] = IF copy[g] = None THEN row[selected][g] ELSE copy[g].fields[g]
         /\ \A l \in Lists : Filled(l) => rows'[l][selected] = listCopy[l].v
<1>0. EditorInv /\ EditorTypeOK /\ FieldInv /\ main.of = selected
  BY DEF StoredInv, EditorInv, FieldInv
<1> DEFINE gs == {"forms", "login"}
<1>1. PICK j : j = Merged(Base, gs)
  OBVIOUS
<1>2. /\ Save(Merged(Base, gs)) /\ j.of # NoConfig /\ row' = [row EXCEPT ![j.of] = j.fields]
      /\ config' = [config EXCEPT ![main.of] = main.v] /\ rows' = StoredLists(Lists)
  BY <1>1 DEF SaveAll, AllFields, PutRow, StoredRow, PutConfig
<1>3. /\ selected \in Configs /\ j \in RowCopy
      /\ j.of # NoConfig => j.of \in Configs /\ row[j.of] # None
      /\ \A g \in Groups : g \in gs /\ copy[g] # None => j.fields[g] = copy[g].fields[g]
      /\ \A g \in Groups : copy[g] = None =>
           (j.of # NoConfig => j.fields[g] = row[j.of][g])
      /\ copy["jatyta"] # None =>
           /\ j.of = copy["jatyta"].of
           /\ \A g \in Groups : g \notin gs \/ copy[g] = None => j.fields[g] = copy["jatyta"].fields[g]
      /\ copy["jatyta"] = None => j.of \in {selected, NoConfig}
  BY <1>0, <1>1, <1>2, SavedGroups, SaveMerges
<1> HIDE DEF gs
<1>4. config'[selected] = main.v
  BY <1>0, <1>2, <1>3 DEF EditorTypeOK
<1>5. j.of = selected
  BY <1>2, <1>3, TabNames DEF OneConfiguration
<1>6. row'[selected] = j.fields
  BY <1>0, <1>2, <1>3, <1>5 DEF EditorTypeOK
<1>7. ASSUME NEW g \in Groups
      PROVE  j.fields[g] = IF copy[g] = None THEN row[selected][g] ELSE copy[g].fields[g]
  <2>1. g \in gs \/ g = "jatyta"
    BY SavedGroups DEF gs
  <2>2. "jatyta" \notin gs
    BY SavedGroups DEF gs
  <2> QED
    BY <1>2, <1>3, <1>5, <2>1, <2>2
<1>8. ASSUME NEW l \in Lists, Filled(l) PROVE rows'[l][selected] = listCopy[l].v
  <2>1. listCopy[l].of = selected /\ listCopy[l] # None /\ listCopy[l].v # 0
    BY <1>8 DEF Filled, OneConfiguration
  <2>2. rows'[l] = [rows[l] EXCEPT ![selected] = listCopy[l].v]
    BY <1>2, <2>1 DEF StoredLists
  <2> QED
    BY <1>0, <1>3, <2>2 DEF EditorTypeOK
<1> QED
  BY <1>4, <1>6, <1>7, <1>8

(***************************************************************************)
(* No save puts an older value in the place of a newer one, unless a tab   *)
(* of another configuration is saved with it, or a tab that was opened     *)
(* before the configuration was saved (ConfigurationController).           *)
(***************************************************************************)
THEOREM NewerValuesStay == EditorSpec => NothingStoredIsLost
<1>1. StoredInv /\ EditorInv' /\ [EditorNext]_editorVars =>
        [ OneConfiguration /\ (outdated => ~SaveTab) =>
            \A c \in Configs :
              /\ row[c] # None => \A g \in Groups : row'[c][g] >= row[c][g]
              /\ \A l \in Lists : rows'[l][c] >= rows[l][c] ]_editorVars
  <2> SUFFICES ASSUME StoredInv, EditorInv', [EditorNext]_editorVars,
                      OneConfiguration, outdated => ~SaveTab
               PROVE  \A c \in Configs :
                        /\ row[c] # None => \A g \in Groups : row'[c][g] >= row[c][g]
                        /\ \A l \in Lists : rows'[l][c] >= rows[l][c]
    OBVIOUS
  <2>1. EditorInv /\ FieldInv /\ ListInv /\ EditorTypeOK'
    BY DEF StoredInv, EditorInv
  <2>2. \A c \in Configs : row[c] # None => \A g \in Groups : row'[c][g] >= row[c][g]
    BY <2>1, NextFields
  <2>3. \A l \in Lists : \A c \in Configs : rows'[l][c] >= rows[l][c]
    BY <2>1, NextLists
  <2> QED
    BY <2>2, <2>3
<1> QED
  BY <1>1, StoredInvAlways, EditorInvAlways, PTL DEF EditorSpec, NothingStoredIsLost

(***************************************************************************)
(* "Configuration Saved" means that what is on all tabs was stored, and    *)
(* that what no tab shows stayed as it was (save of                        *)
(* ConfigurationController), when no tab is of another configuration.      *)
(***************************************************************************)
THEOREM SavedMeansStored == EditorSpec => SaveStoresEveryTab
<1>1. StoredInv /\ [EditorNext]_editorVars =>
        [ SaveAll /\ OneConfiguration =>
            /\ config'[selected] = main.v
            /\ \A g \in Groups :
                 row'[selected][g] = IF copy[g] = None THEN row[selected][g]
                                                       ELSE copy[g].fields[g]
            /\ \A l \in Lists : Filled(l) => rows'[l][selected] = listCopy[l].v ]_editorVars
  BY SaveAllStores
<1> QED
  BY <1>1, StoredInvAlways, PTL DEF EditorSpec, SaveStoresEveryTab
===============================================================================
