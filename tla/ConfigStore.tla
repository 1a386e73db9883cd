------------------------------ MODULE ConfigStore ------------------------------
(***************************************************************************)
(* The configurations of the server: the map configList of Configurations, *)
(* and the file of each in the configurations folder (WorkDirManager), as  *)
(* requests add, update and remove them while the server may die.          *)
(*                                                                         *)
(* Nothing is locked: an id is derived from the name, and made different   *)
(* by a number, before the configuration is put into the map, and its file *)
(* is emptied and written after that.  What is in a configuration is the   *)
(* number of the request that brought it.                                  *)
(***************************************************************************)
EXTENDS Integers, Sequences

CONSTANTS
  Clients,    \* threads of the server that answer requests
  ConfigIds,
  NoId,       \* no id
  Names,      \* names of configurations
  Variants,   \* Variants[n]: the ids that are tried for name n, in this order
  MaxWrites,  \* bound: configurations added or updated
  MaxDeaths   \* bound: how often the server dies

ASSUME ConfigAssumption ==
  /\ NoId \notin ConfigIds
  /\ Variants \in [Names -> Seq(ConfigIds)]
  /\ MaxWrites \in Nat
  /\ MaxDeaths \in Nat

VARIABLES
  isUp,        \* is the server running?
  configList,  \* the map: id -> content, or Absent
  configFile,  \* the files: id -> content, Absent, or Torn
  phase,       \* what each thread does next
  isAdding,    \* does it add a configuration?
  untried,     \* variants of the name it adds that it has not looked up yet
  saveId,      \* the id it works on, or NoId
  content,     \* the configuration it has got
  writes,      \* history: configurations added or updated so far
  known,       \* history: ids that some client may have seen
  deaths,      \* history: how often the server died
  doubtful     \* history: ids that two threads worked on at a time, or whose file
               \* was not saved or deleted, and nobody worked on since

storage    == <<isUp, configList, configFile>>
request    == <<phase, isAdding, untried, saveId, content>>
configVars == <<storage, request, writes, known, deaths, doubtful>>

Absent == 0
Torn   == -1

WorksOn(t, i)  == saveId[t] = i
SharesId(t, i) == \E u \in Clients \ {t} : WorksOn(u, i)

GoesOn(t, what) == phase' = [phase EXCEPT ![t] = what]

\* Thread t begins to work on id i.
BeginsOn(t, i) ==
  /\ saveId' = [saveId EXCEPT ![t] = i]
  /\ doubtful' = IF SharesId(t, i) THEN doubtful \cup {i} ELSE doubtful \ {i}

\* The request is answered.
Ends(t) ==
  /\ GoesOn(t, "nothing")
  /\ isAdding' = [isAdding EXCEPT ![t] = FALSE]
  /\ saveId' = [saveId EXCEPT ![t] = NoId]
  /\ content' = [content EXCEPT ![t] = Absent]

-----------------------------------------------------------------------------
(***************************************************************************)
(* Faulty variants of definitions below; no part of ConfigSpec.            *)
(***************************************************************************)
\* Nothing is looked up once the name itself was taken.
IsTaken_NameOnly(t, i) ==
  \E n \in Names : untried[t] = Variants[n] /\ configList[i] # Absent

\* The file is deleted, the configuration stays in the map.
Removed_FileOnly(i) == configList

-----------------------------------------------------------------------------
\* add: the id is looked for, one containsKey at a time.
AddConfig(t) ==
  /\ isUp
  /\ phase[t] = "nothing"
  /\ writes < MaxWrites
  /\ \E n \in Names : untried' = [untried EXCEPT ![t] = Variants[n]]
  /\ isAdding' = [isAdding EXCEPT ![t] = TRUE]
  /\ content' = [content EXCEPT ![t] = writes + 1]
  /\ writes' = writes + 1
  /\ GoesOn(t, "probe")
  /\ UNCHANGED <<storage, saveId, known, deaths, doubtful>>

IsTaken(t, i) == configList[i] # Absent

ProbeId(t) ==
  /\ phase[t] = "probe"
  /\ untried[t] # <<>>
  /\ IF IsTaken(t, Head(untried[t]))
       THEN /\ untried' = [untried EXCEPT ![t] = Tail(@)]
            /\ UNCHANGED <<phase, saveId, doubtful>>
       ELSE /\ BeginsOn(t, Head(untried[t]))
            /\ untried' = [untried EXCEPT ![t] = <<>>]
            /\ GoesOn(t, "put")
  /\ UNCHANGED <<storage, isAdding, content, writes, known, deaths>>

\* update: by a client, or by a worker at the end of a crawl.  It does not ask
\* whether the configuration is still there.
UpdateConfig(t) ==
  /\ isUp
  /\ phase[t] = "nothing"
  /\ writes < MaxWrites
  /\ \E i \in known : BeginsOn(t, i)
  /\ content' = [content EXCEPT ![t] = writes + 1]
  /\ writes' = writes + 1
  /\ GoesOn(t, "put")
  /\ UNCHANGED <<storage, isAdding, untried, known, deaths>>

\* add and update put what they have got into the map.
PutConfiguration(t) ==
  LET i == saveId[t] IN
  /\ phase[t] = "put"
  /\ configList' = [configList EXCEPT ![i] = content[t]]
  /\ known' = known \cup {i}
  /\ GoesOn(t, "open")
  /\ UNCHANGED <<isUp, configFile, isAdding, untried, saveId, content, writes, deaths, doubtful>>

\* saveConfiguration and deleteConfiguration: an IOException is only logged.
FileStays(t) ==
  /\ doubtful' = doubtful \cup {saveId[t]}
  /\ Ends(t)
  /\ UNCHANGED configFile

\* The file is created, or emptied.
OpenConfigFile(t) ==
  /\ phase[t] = "open"
  /\ \/ /\ configFile' = [configFile EXCEPT ![saveId[t]] = Torn]
        /\ GoesOn(t, "write")
        /\ UNCHANGED <<isAdding, saveId, content, doubtful>>
     \/ FileStays(t)
  /\ UNCHANGED <<isUp, configList, untried, writes, known, deaths>>

\* What two threads write at a time is mixed; a file that was deleted after it
\* was opened stays deleted.
Outcomes(t, i) ==
  IF SharesId(t, i) \/ i \in doubtful
    THEN {content[t], Torn, configFile[i]} ELSE {content[t]}

WriteConfigFile(t) ==
  LET i == saveId[t] IN
  /\ phase[t] = "write"
  /\ \/ /\ \E v \in Outcomes(t, i) : configFile' = [configFile EXCEPT ![i] = v]
        /\ Ends(t)
        /\ UNCHANGED doubtful
     \/ FileStays(t)
  /\ UNCHANGED <<isUp, configList, untried, writes, known, deaths>>

Removed(i) == [configList EXCEPT ![i] = Absent]

\* remove, and then deleteConfiguration.
RemoveConfig(t) ==
  /\ isUp
  /\ phase[t] = "nothing"
  /\ \E i \in known : BeginsOn(t, i) /\ configList' = Removed(i)
  /\ GoesOn(t, "unlink")
  /\ UNCHANGED <<isUp, configFile, isAdding, untried, content, writes, known, deaths>>

DeleteConfigFile(t) ==
  /\ phase[t] = "unlink"
  /\ \/ /\ configFile' = [configFile EXCEPT ![saveId[t]] = Absent]
        /\ Ends(t)
        /\ UNCHANGED doubtful
     \/ FileStays(t)
  /\ UNCHANGED <<isUp, configList, untried, writes, known, deaths>>

ServerDies ==
  /\ isUp
  /\ deaths < MaxDeaths
  /\ deaths' = deaths + 1
  /\ isUp' = FALSE
  /\ configList' = [i \in ConfigIds |-> Absent]
  /\ phase' = [t \in Clients |-> "nothing"]
  /\ isAdding' = [t \in Clients |-> FALSE]
  /\ untried' = [t \in Clients |-> <<>>]
  /\ saveId' = [t \in Clients |-> NoId]
  /\ content' = [t \in Clients |-> Absent]
  /\ doubtful' = doubtful \cup {i \in ConfigIds : \E t \in Clients : WorksOn(t, i)}
  /\ UNCHANGED <<configFile, writes, known>>

\* loadConfigurations: a file that cannot be read is a NullPointerException, and
\* the server does not start.
ServerStarts ==
  /\ ~isUp
  /\ \A i \in ConfigIds : configFile[i] # Torn
  /\ isUp' = TRUE
  /\ configList' = configFile
  /\ doubtful' = {}
  /\ UNCHANGED <<configFile, request, writes, known, deaths>>

-----------------------------------------------------------------------------
ConfigInit ==
  /\ isUp = TRUE
  /\ configList = [i \in ConfigIds |-> Absent]
  /\ configFile = [i \in ConfigIds |-> Absent]
  /\ phase = [t \in Clients |-> "nothing"]
  /\ isAdding = [t \in Clients |-> FALSE]
  /\ untried = [t \in Clients |-> <<>>]
  /\ saveId = [t \in Clients |-> NoId]
  /\ content = [t \in Clients |-> Absent]
  /\ writes = 0
  /\ known = {}
  /\ deaths = 0
  /\ doubtful = {}

ConfigNext ==
  \/ \E t \in Clients :
       \/ AddConfig(t) \/ ProbeId(t) \/ UpdateConfig(t) \/ PutConfiguration(t)
       \/ OpenConfigFile(t) \/ WriteConfigFile(t)
       \/ RemoveConfig(t) \/ DeleteConfigFile(t)
  \/ ServerDies \/ ServerStarts

ConfigSpec == ConfigInit /\ [][ConfigNext]_configVars

-----------------------------------------------------------------------------
ConfigTypeOK ==
  /\ isUp \in BOOLEAN
  /\ configList \in [ConfigIds -> 0 .. MaxWrites]
  /\ configFile \in [ConfigIds -> Torn .. MaxWrites]
  /\ phase \in [Clients -> {"nothing", "probe", "put", "open", "write", "unlink"}]
  /\ isAdding \in [Clients -> BOOLEAN]
  /\ untried \in [Clients -> Seq(ConfigIds)]
  /\ saveId \in [Clients -> ConfigIds \cup {NoId}]
  /\ content \in [Clients -> 0 .. MaxWrites]
  /\ writes \in 0 .. MaxWrites
  /\ known \subseteq ConfigIds
  /\ deaths \in 0 .. MaxDeaths
  /\ doubtful \subseteq ConfigIds

(***************************************************************************)
(* A configuration that is added takes the place of no other, however much *)
(* their names resemble each other, unless two requests work on its id at  *)
(* the same time: Configurations.add looks an id up before it uses it.     *)
(***************************************************************************)
AddsReplaceNothing ==
  \A t \in Clients :
    phase[t] = "put" /\ isAdding[t] /\ saveId[t] \notin doubtful =>
      configList[saveId[t]] = Absent

(***************************************************************************)
(* The files are what the map is, so that a restart brings back every      *)
(* configuration and no removed one; and the server can be started again.  *)
(* Excepted are ids two requests worked on at a time, and ids whose file   *)
(* was not saved or deleted: Configurations changes the map before the     *)
(* file, and WorkDirManager empties the file before it writes it.          *)
(***************************************************************************)
FilesFollowMap ==
  \A i \in ConfigIds \ doubtful :
    (\A t \in Clients : ~WorksOn(t, i)) =>
      configFile[i] # Torn /\ (isUp => configFile[i] = configList[i])
===============================================================================
