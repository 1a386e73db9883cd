-------------------------------- MODULE MCParts --------------------------------
(***************************************************************************)
(* Parts of the system that share no state, for the model checker: the     *)
(* configuration editor and the knowledge base page of the web client, the *)
(* plugin store and the configurations of the server, and two helpers of   *)
(* the crawl engine.  A behaviour is one of one part; the others stay as   *)
(* they were initially.                                                    *)
(***************************************************************************)
EXTENDS ConfigEditor, KbBrowser, PluginStore, ConfigStore, BrokenLinks, CandidateElements,
        TLC

CONSTANTS s1, s2, t1, t2, index_, good, bad

SchemaOfTypes == (t1 :> s1) @@ (t2 :> s2)
SiteMap       == {<<index_, bad>>, <<bad, good>>, <<index_, good>>}

\* The second configuration named "a" has the id "a2", like the first named "a2".
IdVariants    == "a" :> <<"a", "a2", "a3">> @@ "a2" :> <<"a2", "a22", "a23">>

VARIABLE part

PartsInit ==
  /\ part \in {"editor", "kb", "store", "configs", "checker", "extractor"}
  /\ EditorInit /\ KbInit /\ StoreInit /\ ConfigInit /\ BrokenInit /\ ExtractorInit
  /\ clickOnce \/ part = "extractor"

PartsNext ==
  /\ UNCHANGED part
  /\ \/ /\ part = "editor" /\ EditorNext
        /\ UNCHANGED <<kbVars, storeVars, configVars, brokenVars, extractorVars>>
     \/ /\ part = "kb" /\ KbNext
        /\ UNCHANGED <<editorVars, storeVars, configVars, brokenVars, extractorVars>>
     \/ /\ part = "store" /\ StoreNext
        /\ UNCHANGED <<editorVars, kbVars, configVars, brokenVars, extractorVars>>
     \/ /\ part = "configs" /\ ConfigNext
        /\ UNCHANGED <<editorVars, kbVars, storeVars, brokenVars, extractorVars>>
     \/ /\ part = "checker" /\ BrokenNext
        /\ UNCHANGED <<editorVars, kbVars, storeVars, configVars, extractorVars>>
     \/ /\ part = "extractor" /\ ExtractorNext
        /\ UNCHANGED <<editorVars, kbVars, storeVars, configVars, brokenVars>>

partsVars ==
  <<part, editorVars, kbVars, storeVars, configVars, brokenVars, extractorVars>>

PartsSpec == PartsInit /\ [][PartsNext]_partsVars

\* The type of the state of the part that runs.
PartsTypeOK ==
  CASE part = "editor"    -> EditorTypeOK
    [] part = "kb"        -> KbTypeOK
    [] part = "store"     -> StoreTypeOK
    [] part = "configs"   -> ConfigTypeOK
    [] part = "checker"   -> BrokenTypeOK
    [] part = "extractor" -> ExtractorTypeOK
===============================================================================
