------------------------------ MODULE PluginStore ------------------------------
(***************************************************************************)
(* The plugins the server offers: the map pluginList of Plugins, and the   *)
(* files of PluginManager, as the requests of PluginsResource and the start *)
(* of a crawl (getInstanceOf) change them.                                 *)
(*                                                                         *)
(* A plugin is a jar in the plugins folder; one that was added by its URL  *)
(* has a locator as well, and its jar is downloaded anew, in the place of  *)
(* the old one, whenever it is loaded.  Nothing is locked: an id is chosen *)
(* first and its files are written after that.  The jars are numbered, and *)
(* all have the same name, so that only the number added to it tells their *)
(* ids apart.                                                              *)
(***************************************************************************)
EXTENDS Integers, FiniteSetsExt

CONSTANTS
  Requests,   \* threads of the server
  GoodJars,   \* jars with a plugin descriptor
  MaxJars,    \* bound: plugins added
  MaxOutages  \* bound: downloads that fail

ASSUME StoreAssumption ==
  /\ MaxJars \in Nat \ {0}
  /\ GoodJars \subseteq 1 .. MaxJars
  /\ MaxOutages \in Nat

PluginIds == 0 .. MaxJars - 1

VARIABLES
  pluginList,  \* ids in the map
  jar,         \* file of each id: a jar, NoFile or NoBytes
  locator,     \* the jar the URL in each locator leads to, or NoFile
  doing,       \* what each thread does next
  purpose,     \* "file", "url", "remove", "refresh" or "crawl"
  id,          \* the id it does it for
  upload,      \* the jar it adds
  added,       \* history: plugins added so far
  outages,     \* history: downloads failed so far
  unsafe       \* history: ids that two threads wrote to, that were chosen while
               \* the map was refreshed, or whose download for a crawl failed

storeFiles == <<jar, locator>>
thread     == <<purpose, id, upload>>
storeVars  == <<pluginList, storeFiles, doing, thread, added, outages, unsafe>>

NoFile  == 0
NoBytes == -1

GoOn(t, what) == doing' = [doing EXCEPT ![t] = what]
Has(i) == jar[i] # NoFile
Busy(t) == doing[t] # "nothing"
Others(t, i) == {r \in Requests \ {t} : Busy(r) /\ id[r] = i /\ purpose[r] # "refresh"}
Refreshing(t) == \E r \in Requests \ {t} : Busy(r) /\ purpose[r] = "refresh"

-----------------------------------------------------------------------------
(***************************************************************************)
(* Faulty variants of definitions below; no part of StoreSpec.             *)
(***************************************************************************)
\* The id is the name, whether or not there is such a plugin.
FreshId_Name == 0

\* The numbers start one too high.
FreshId_Shifted == Min((1 .. MaxJars + 1) \ pluginList)

\* A jar without a descriptor is a plugin, too.
AfterReading_Put(t) == "put"

-----------------------------------------------------------------------------
(***************************************************************************)
(* Adding a plugin.                                                        *)
(***************************************************************************)
\* adaptToId: the name, or the name with the first number that is free.
FreshId == Min(PluginIds \ pluginList)

\* A thread takes a request; it is unsafe to do so with an id that is in use.
Begin(t, what, p, i, n) ==
  /\ ~Busy(t)
  /\ GoOn(t, what)
  /\ purpose' = [purpose EXCEPT ![t] = p]
  /\ id' = [id EXCEPT ![t] = i]
  /\ upload' = [upload EXCEPT ![t] = n]
  /\ unsafe' = IF Others(t, i) # {} \/ Refreshing(t) THEN unsafe \cup {i} ELSE unsafe

AddPlugin(t, p) ==
  /\ added < MaxJars
  /\ added' = added + 1
  /\ Begin(t, "save", p, FreshId, added + 1)
  /\ UNCHANGED <<pluginList, storeFiles, outages>>

\* save: of the bytes, or of the URL.
WriteFile(t) ==
  /\ doing[t] = "save"
  /\ GoOn(t, "load")
  /\ IF purpose[t] = "file"
       THEN jar' = [jar EXCEPT ![id[t]] = upload[t]] /\ UNCHANGED locator
       ELSE locator' = [locator EXCEPT ![id[t]] = upload[t]] /\ UNCHANGED jar
  /\ UNCHANGED <<pluginList, thread, added, outages, unsafe>>

-----------------------------------------------------------------------------
(***************************************************************************)
(* load: a locator's jar is downloaded, and then the jar is read.          *)
(***************************************************************************)
Download(t) ==
  /\ doing[t] = "load"
  /\ GoOn(t, "read")
  /\ \/ /\ locator[id[t]] = NoFile
        /\ UNCHANGED <<jar, outages, unsafe>>
     \/ /\ locator[id[t]] # NoFile
        /\ jar' = [jar EXCEPT ![id[t]] = locator[id[t]]]
        /\ UNCHANGED <<outages, unsafe>>
     \/ /\ locator[id[t]] # NoFile
        /\ outages < MaxOutages
        /\ outages' = outages + 1
        /\ jar' = [jar EXCEPT ![id[t]] = NoBytes]
        /\ unsafe' = IF purpose[t] = "crawl" THEN unsafe \cup {id[t]} ELSE unsafe
  /\ UNCHANGED <<pluginList, locator, thread, added>>

\* Is there a plugin descriptor in the jar?
Readable(i) == jar[i] \in GoodJars

\* A new plugin that cannot be read is deleted; a plugin that is reloaded, for
\* a crawl, is not, and stays in the map as it was: put of null throws.
AfterReading(t) ==
  IF Readable(id[t]) THEN "put"
  ELSE IF purpose[t] = "crawl" THEN "nothing"
  ELSE "delete"

ReadJar(t) ==
  /\ doing[t] = "read"
  /\ GoOn(t, AfterReading(t))
  /\ UNCHANGED <<pluginList, storeFiles, thread, added, outages, unsafe>>

PutPlugin(t) ==
  /\ doing[t] = "put"
  /\ GoOn(t, "nothing")
  /\ pluginList' = pluginList \cup {id[t]}
  /\ UNCHANGED <<storeFiles, thread, added, outages, unsafe>>

-----------------------------------------------------------------------------
(***************************************************************************)
(* Removing a plugin that a page lists, or listed, and deleting the files  *)
(* of one that could not be added.                                         *)
(***************************************************************************)
Remove(t, i) ==
  /\ i \in pluginList \/ Has(i)
  /\ Begin(t, "delete", "remove", i, NoFile)
  /\ UNCHANGED <<pluginList, storeFiles, added, outages>>

\* delete fails when there is no jar; then the plugin stays in the map.
DeleteFiles(t) ==
  /\ doing[t] = "delete"
  /\ jar' = [jar EXCEPT ![id[t]] = NoFile]
  /\ locator' = [locator EXCEPT ![id[t]] = NoFile]
  /\ GoOn(t, IF purpose[t] = "remove" /\ Has(id[t]) THEN "forget" ELSE "nothing")
  /\ UNCHANGED <<pluginList, thread, added, outages, unsafe>>

Forget(t) ==
  /\ doing[t] = "forget"
  /\ GoOn(t, "nothing")
  /\ pluginList' = pluginList \ {id[t]}
  /\ UNCHANGED <<storeFiles, thread, added, outages, unsafe>>

-----------------------------------------------------------------------------
(***************************************************************************)
(* reload of the plugin a crawl uses, and reloadAll.                       *)
(***************************************************************************)
StartCrawl(t, i) ==
  /\ i \in pluginList
  /\ Begin(t, "load", "crawl", i, NoFile)
  /\ UNCHANGED <<pluginList, storeFiles, added, outages>>

Refresh(t) ==
  /\ ~Busy(t)
  /\ GoOn(t, "loadAll")
  /\ purpose' = [purpose EXCEPT ![t] = "refresh"]
  /\ pluginList' = {}
  /\ unsafe' = unsafe \cup {id[r] : r \in {q \in Requests : Busy(q)}}
  /\ UNCHANGED <<storeFiles, id, upload, added, outages>>

\* loadAll, then putAll.
LoadAll(t) ==
  /\ doing[t] = "loadAll"
  /\ GoOn(t, "nothing")
  /\ \E out \in SUBSET {i \in PluginIds : locator[i] # NoFile} :
       /\ outages + Cardinality(out) <= MaxOutages
       /\ outages' = outages + Cardinality(out)
       /\ jar' = [i \in PluginIds |-> IF i \in out THEN NoBytes
                                      ELSE IF locator[i] # NoFile THEN locator[i]
                                      ELSE jar[i]]
       /\ unsafe' = IF pluginList = {} /\ \A r \in Requests \ {t} : ~Busy(r)
                      THEN out ELSE unsafe \cup out
  /\ pluginList' = pluginList \cup {i \in PluginIds : jar'[i] \in GoodJars}
  /\ UNCHANGED <<locator, thread, added>>

-----------------------------------------------------------------------------
StoreInit ==
  /\ pluginList = {}
  /\ jar = [i \in PluginIds |-> NoFile]
  /\ locator = [i \in PluginIds |-> NoFile]
  /\ doing = [t \in Requests |-> "nothing"]
  /\ purpose = [t \in Requests |-> "crawl"]
  /\ id = [t \in Requests |-> 0]
  /\ upload = [t \in Requests |-> NoFile]
  /\ added = 0
  /\ outages = 0
  /\ unsafe = {}

StoreNext ==
  \E t \in Requests :
    \/ \E p \in {"file", "url"} : AddPlugin(t, p)
    \/ WriteFile(t) \/ Download(t) \/ ReadJar(t) \/ PutPlugin(t)
    \/ \E i \in PluginIds : Remove(t, i) \/ StartCrawl(t, i)
    \/ DeleteFiles(t) \/ Forget(t)
    \/ Refresh(t) \/ LoadAll(t)

StoreSpec == StoreInit /\ [][StoreNext]_storeVars

-----------------------------------------------------------------------------
StoreTypeOK ==
  /\ pluginList \subseteq PluginIds
  /\ jar \in [PluginIds -> NoBytes .. MaxJars]
  /\ locator \in [PluginIds -> 0 .. MaxJars]
  /\ doing \in [Requests -> {"nothing", "save", "load", "read", "put", "delete",
                             "forget", "loadAll"}]
  /\ purpose \in [Requests -> {"file", "url", "remove", "refresh", "crawl"}]
  /\ id \in [Requests -> PluginIds]
  /\ upload \in [Requests -> 0 .. MaxJars]
  /\ added \in 0 .. MaxJars
  /\ outages \in 0 .. MaxOutages
  /\ unsafe \subseteq PluginIds

(***************************************************************************)
(* A plugin of the list has a jar that can be loaded, so that a crawl can  *)
(* use it.  Excepted are ids that two threads worked on at once, ids that  *)
(* were chosen while the map was refreshed, and ids whose download for a   *)
(* crawl or a refresh failed, until a refresh that nothing disturbs.       *)
(***************************************************************************)
BeingRemoved(i) == \E t \in Requests : doing[t] = "forget" /\ id[t] = i

ListedPluginsWork ==
  \A i \in pluginList \ unsafe : Readable(i) \/ BeingRemoved(i)

(***************************************************************************)
(* A plugin that is put on the list is the one that was uploaded, and its  *)
(* jar is not replaced by another one until it is removed; with the same   *)
(* exceptions.                                                             *)
(***************************************************************************)
UploadsKeepApart ==
  [][ /\ \A t \in Requests :
           PutPlugin(t) /\ purpose[t] # "crawl" /\ id[t] \notin unsafe =>
             jar[id[t]] = upload[t]
      /\ \A i \in pluginList \ unsafe' :
           jar'[i] # jar[i] => jar'[i] \in {NoFile, locator[i]} ]_storeVars
===============================================================================
