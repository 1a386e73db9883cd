----------------------------- MODULE CrawlHistory -----------------------------
(***************************************************************************)
(* The crawl history of the web server: the in-memory list of crawl        *)
(* records (CrawlRecords), their crawl.json files (WorkDirManager), the    *)
(* worker pool that executes them (CrawlRunner), the configurations they   *)
(* refer to, their rows in the knowledge base, and the HTTP threads that   *)
(* create them (CrawlHistoryResource).                                     *)
(*                                                                         *)
(* A crawl record is named by the POST request that created it: the        *)
(* object, its crawl.json file and its task in the pool all belong to one  *)
(* element of Posts.  The integer id the program computes for it is data.  *)
(***************************************************************************)
EXTENDS Integers, Sequences, SequencesExt

CONSTANTS
  Posts,        \* the POST requests to the crawl history
  Null,         \* no record, no configuration
  HttpThreads,  \* server threads that answer POST requests concurrently
  Workers,      \* threads of the executor pool
  Configs,      \* configuration ids
  Faults,       \* what may go wrong, a subset of FaultKinds
  MaxEdits,     \* bound: configuration writes made by clients
  MaxCrashes    \* bound: how often the server process dies

FaultKinds ==
  { "disk",       \* an IOException in saveCrawlRecord, logged and swallowed
    "kb",         \* a JatytaException from the knowledge base
    "socket",     \* a RuntimeException from LogWebSocketServlet.sendToAll
    "exception",  \* an Exception while a crawl is configured or run
    "error" }     \* an Error while a crawl is configured or run

ASSUME HistoryAssumption ==
  /\ Null \notin Posts \cup Configs
  /\ Faults \subseteq FaultKinds
  /\ MaxEdits \in Nat \ {0}
  /\ MaxCrashes \in Nat

VARIABLES
  server,     \* "down", "loading" the records directory, or "up"
  unread,     \* record directories the start-up has not read yet
  identity,   \* CrawlRecords.identity
  crawlList,  \* CrawlRecords.crawlList, newest record first
  recId,      \* CrawlRecord.id; 0 until it is assigned
  recConfig,  \* CrawlRecord.configurationId
  status,     \* CrawlRecord.crawlStatus; "none" for a request not made yet
  folder,     \* is CrawlRecord.outputFolder set?
  disk,       \* the crawl.json files: record id -> content
  hpc,        \* where each HTTP thread is in addCrawlRecord
  hpost,      \* the record each HTTP thread creates
  seen,       \* the value of identity each HTTP thread has read
  copy,       \* the value of crawlList each HTTP thread prepends to
  queue,      \* tasks submitted to the pool, oldest first
  wpc,        \* where each worker is in CrawlExecution.run
  wpost,      \* the record each worker executes
  modCount,   \* list length when the worker's iteration of findByID began
  held,       \* version of the configuration each worker holds
  config,     \* configuration id -> version of its content, 0 if absent
  edits,      \* number of configuration writes made by clients
  kb,         \* JatytaCrawlRecord rows: record id -> row
  stranded,   \* history: records no thread will finish
  torn,       \* history: ids whose crawl.json a crash left unreadable
  cut,        \* history: records some thread worked on when a crash came
  starts,     \* history: how often the crawl of each record was started
  crashes     \* history: number of crashes so far

store   == <<server, unread, identity, crawlList>>
records == <<recId, recConfig, status, folder>>
http    == <<hpc, hpost, seen, copy>>
pool    == <<queue, wpc, wpost, modCount, held>>
confs   == <<config, edits>>
history == <<stranded, torn, cut, starts, crashes>>
vars    == <<store, records, disk, http, pool, confs, kb, history>>

-----------------------------------------------------------------------------
(***************************************************************************)
(* Faulty variants of definitions below: what the code would do with a     *)
(* plausible mistake in it.  They are no part of Spec.                     *)
(***************************************************************************)
\* The names of the status differ from those of the enumeration.
Terminal_Renamed == {"success", "failed"}

\* The first record that is not smaller is looked for.
Positions_NotSmaller(n) == {i \in DOMAIN crawlList : recId[crawlList[i]] >= n}

\* The status is loaded as it was saved.
LoadedStatus_AsSaved(s) == s

\* The number of records is taken for the greatest id.
FinishLoad_ByLength ==
  /\ server = "loading"
  /\ unread = {}
  /\ server' = "up"
  /\ identity' = Len(crawlList)
  /\ UNCHANGED <<unread, crawlList, records, disk, http, pool, confs, kb,
                 history>>

\* The record does not get the folder that was made for it.
OpenFile_NoFolder(p) ==
  /\ disk' = [n \in DOMAIN disk \cup {recId[p]} |->
               IF n = recId[p]
                 THEN [owner |-> Null, status |-> "none", folder |-> FALSE]
                 ELSE disk[n]]
  /\ UNCHANGED folder

\* Last in, first out; or the task stays in the queue.
Dequeued_Newest == [task |-> queue[Len(queue)], rest |-> Front(queue)]
Dequeued_Kept   == [task |-> Head(queue), rest |-> queue]

\* An Error ends the thread, and the pool does not replace it.
DieOfError_Forever(w) ==
  /\ "error" \in Faults
  /\ stranded' = stranded \cup {wpost[w]}
  /\ wpc' = [wpc EXCEPT ![w] = "dead"]

\* A row that cannot be written is ignored.
AfterBadRow_Ignore == "idle"

-----------------------------------------------------------------------------
Terminal == {"success", "failure"}
Statuses == {"none", "idle", "queued", "initializing", "running"} \cup Terminal

TornFile == [owner |-> Null, status |-> "none", folder |-> FALSE]

\* f with k mapped to v, whether or not k was mapped before.
Put(f, k, v) == [x \in DOMAIN f \cup {k} |-> IF x = k THEN v ELSE f[x]]

Listed    == ToSet(crawlList)
Readable  == {n \in DOMAIN disk : disk[n].owner # Null}

HttpHolds(t, p)   == hpc[t] # "idle" /\ hpost[t] = p
WorkerHolds(w, p) == wpc[w] # "idle" /\ wpost[w] = p
HasAgent(p) ==
  \/ \E t \in HttpThreads : HttpHolds(t, p)
  \/ \E i \in DOMAIN queue : queue[i] = p
  \/ \E w \in Workers : WorkerHolds(w, p)

(***************************************************************************)
(* saveCrawlRecord in two steps: the file is created or truncated, then    *)
(* its content is written.  Only a file that did not exist gives the       *)
(* record its output folder.                                               *)
(***************************************************************************)
OpenFile(p) ==
  /\ disk' = Put(disk, recId[p], TornFile)
  /\ folder' = [folder EXCEPT ![p] = @ \/ recId[p] \notin DOMAIN disk]

WriteFile(p) ==
  disk' = Put(disk, recId[p],
              [owner |-> p, status |-> status[p], folder |-> folder[p]])

-----------------------------------------------------------------------------
(***************************************************************************)
(* POST /rest/history: CrawlRecords.add, then CrawlRunner.queue.           *)
(***************************************************************************)
Post(t, p, c) ==
  /\ server = "up"
  /\ hpc[t] = "idle"
  /\ status[p] = "none"
  /\ status' = [status EXCEPT ![p] = "idle"]
  /\ recConfig' = [recConfig EXCEPT ![p] = c]
  /\ hpc' = [hpc EXCEPT ![t] = "assign"]
  /\ hpost' = [hpost EXCEPT ![t] = p]
  /\ seen' = [seen EXCEPT ![t] = identity]
  /\ UNCHANGED <<store, recId, folder, disk, copy, pool, confs, kb, history>>

\* ++identity is a read and a write.  A request for a configuration that was
\* removed consumes an id and fails.
AssignId(t) ==
  LET p == hpost[t] IN
  /\ hpc[t] = "assign"
  /\ identity' = seen[t] + 1
  /\ recId' = [recId EXCEPT ![p] = seen[t] + 1]
  /\ \/ /\ config[recConfig[p]] = 0
        /\ hpc' = [hpc EXCEPT ![t] = "idle"]
        /\ UNCHANGED copy
     \/ /\ config[recConfig[p]] # 0
        /\ hpc' = [hpc EXCEPT ![t] = "link"]
        /\ copy' = [copy EXCEPT ![t] = crawlList]
  /\ UNCHANGED <<server, unread, crawlList, recConfig, status, folder, disk,
                 hpost, seen, pool, confs, kb, history>>

\* crawlList.add(0, r) on an unsynchronised ArrayList.
Link(t) ==
  /\ hpc[t] = "link"
  /\ crawlList' = Cons(hpost[t], copy[t])
  /\ hpc' = [hpc EXCEPT ![t] = "open"]
  /\ UNCHANGED <<server, unread, identity, records, disk, hpost, seen, copy,
                 pool, confs, kb, history>>

OpenNew(t) ==
  /\ hpc[t] = "open"
  /\ \/ /\ OpenFile(hpost[t])
        /\ hpc' = [hpc EXCEPT ![t] = "write"]
     \/ /\ "disk" \in Faults
        /\ hpc' = [hpc EXCEPT ![t] = "row"]
        /\ UNCHANGED <<disk, folder>>
  /\ UNCHANGED <<store, recId, recConfig, status, hpost, seen, copy, pool,
                 confs, kb, history>>

WriteNew(t) ==
  /\ hpc[t] = "write"
  /\ \/ WriteFile(hpost[t])
     \/ "disk" \in Faults /\ UNCHANGED disk
  /\ hpc' = [hpc EXCEPT ![t] = "row"]
  /\ UNCHANGED <<store, records, hpost, seen, copy, pool, confs, kb, history>>

\* The row's idCrawlRecord is unique; a refused or failed insert is printed.
SaveRow(t) ==
  LET p == hpost[t] IN
  /\ hpc[t] = "row"
  /\ \/ /\ recId[p] \notin DOMAIN kb
        /\ kb' = Put(kb, recId[p], [owner |-> p, final |-> FALSE])
     \/ /\ recId[p] \in DOMAIN kb \/ "kb" \in Faults
        /\ UNCHANGED kb
  /\ hpc' = [hpc EXCEPT ![t] = "queue"]
  /\ UNCHANGED <<store, records, disk, hpost, seen, copy, pool, confs, history>>

\* The status changes in memory only.  A failing broadcast is printed and the
\* task is never submitted.
Enqueue(t) ==
  LET p == hpost[t] IN
  /\ hpc[t] = "queue"
  /\ status' = [status EXCEPT ![p] = "queued"]
  /\ hpc' = [hpc EXCEPT ![t] = "idle"]
  /\ \/ /\ queue' = Append(queue, p)
        /\ UNCHANGED stranded
     \/ /\ "socket" \in Faults
        /\ stranded' = stranded \cup {p}
        /\ UNCHANGED queue
  /\ UNCHANGED <<store, recId, recConfig, folder, disk, hpost, seen, copy,
                 wpc, wpost, modCount, held, confs, kb, torn, cut, starts,
                 crashes>>

-----------------------------------------------------------------------------
(***************************************************************************)
(* CrawlExecution.run, by a worker of the pool.                            *)
(***************************************************************************)
Goto(w, label) == wpc' = [wpc EXCEPT ![w] = label]

\* The queue of the pool is first in, first out.
Dequeued == [task |-> Head(queue), rest |-> Tail(queue)]

\* The worker takes the oldest task and begins to iterate over the list.
Take(w) ==
  /\ wpc[w] = "idle"
  /\ queue # <<>>
  /\ queue' = Dequeued.rest
  /\ Goto(w, "lookup")
  /\ wpost' = [wpost EXCEPT ![w] = Dequeued.task]
  /\ modCount' = [modCount EXCEPT ![w] = Len(crawlList)]
  /\ UNCHANGED <<store, records, disk, http, held, confs, kb, history>>

\* findByID: the newest record with the id of the task.  A list that changed
\* meanwhile may make it throw, and so does the use of a record that is not
\* there: both outside the try of run, so the task just disappears.
LookUp(w) ==
  LET task    == wpost[w]
      matches == {i \in DOMAIN crawlList : recId[crawlList[i]] = recId[task]}
  IN
  /\ wpc[w] = "lookup"
  /\ \/ \E i \in matches :
          /\ \A j \in matches : i <= j
          /\ wpost' = [wpost EXCEPT ![w] = crawlList[i]]
          /\ stranded' = stranded \cup ({task} \ {crawlList[i]})
          /\ Goto(w, "init")
     \/ /\ matches = {} \/ Len(crawlList) # modCount[w]
        /\ stranded' = stranded \cup {task}
        /\ Goto(w, "idle")
        /\ UNCHANGED wpost
  /\ UNCHANGED <<store, records, disk, http, queue, modCount, held, confs, kb,
                 torn, cut, starts, crashes>>

Initialize(w) ==
  LET p == wpost[w] IN
  /\ wpc[w] = "init"
  /\ held' = [held EXCEPT ![w] = config[recConfig[p]]]
  /\ status' = [status EXCEPT ![p] = "initializing"]
  /\ \/ Goto(w, "build")
     \/ "socket" \in Faults /\ Goto(w, "fail")
  /\ UNCHANGED <<store, recId, recConfig, folder, disk, http, queue, wpost,
                 modCount, confs, kb, history>>

\* An Error is not caught: the worker thread goes on with the next task.
DieOfError(w) ==
  /\ "error" \in Faults
  /\ stranded' = stranded \cup {wpost[w]}
  /\ Goto(w, "idle")

\* Building the crawler's configuration; a removed configuration is null.
Build(w) ==
  /\ wpc[w] = "build"
  /\ \/ /\ held[w] # 0
        /\ Goto(w, "start")
        /\ UNCHANGED stranded
     \/ /\ held[w] = 0 \/ "exception" \in Faults
        /\ Goto(w, "fail")
        /\ UNCHANGED stranded
     \/ DieOfError(w)
  /\ UNCHANGED <<store, records, disk, http, queue, wpost, modCount, held,
                 confs, kb, torn, cut, starts, crashes>>

\* record.setCrawlStatus(s); crawlRecords.update(record): the file is opened,
\* and after it is written the worker is at "next".
SetStatus(w, s, writing, next) ==
  LET p == wpost[w] IN
  /\ status' = [status EXCEPT ![p] = s]
  /\ \/ /\ OpenFile(p)
        /\ Goto(w, writing)
     \/ /\ "disk" \in Faults
        /\ Goto(w, next)
        /\ UNCHANGED <<disk, folder>>
  /\ UNCHANGED <<store, recId, recConfig, http, queue, wpost, modCount, held,
                 confs, kb, history>>

Start(w)   == wpc[w] = "start"   /\ SetStatus(w, "running", "writeRunning", "announce")
Succeed(w) == wpc[w] = "succeed" /\ SetStatus(w, "success", "writeSuccess", "row")
\* The catch clause.  Whether its broadcast fails or not, run ends.
Fail(w)    == wpc[w] = "fail"    /\ SetStatus(w, "failure", "writeFailure", "idle")

AfterWrite ==
  [writeRunning |-> "announce", writeSuccess |-> "row", writeFailure |-> "idle"]

Write(w) ==
  /\ wpc[w] \in DOMAIN AfterWrite
  /\ WriteFile(wpost[w]) \/ ("disk" \in Faults /\ UNCHANGED disk)
  /\ Goto(w, AfterWrite[wpc[w]])
  /\ UNCHANGED <<store, records, http, queue, wpost, modCount, held, confs, kb,
                 history>>

\* The "run" broadcast, then crawljax.call() begins.
Announce(w) ==
  /\ wpc[w] = "announce"
  /\ \/ /\ Goto(w, "call")
        /\ starts' = [starts EXCEPT ![wpost[w]] = @ + 1]
     \/ "socket" \in Faults /\ Goto(w, "fail") /\ UNCHANGED starts
  /\ UNCHANGED <<store, records, disk, http, queue, wpost, modCount, held,
                 confs, kb, stranded, torn, cut, crashes>>

\* crawljax.call() ends.
Return(w) ==
  /\ wpc[w] = "call"
  /\ \/ Goto(w, "reload") /\ UNCHANGED stranded
     \/ "exception" \in Faults /\ Goto(w, "fail") /\ UNCHANGED stranded
     \/ DieOfError(w)
  /\ UNCHANGED <<store, records, disk, http, queue, wpost, modCount, held,
                 confs, kb, torn, cut, starts, crashes>>

\* The configuration is read again; a removed one is a NullPointerException.
Reload(w) ==
  LET version == config[recConfig[wpost[w]]] IN
  /\ wpc[w] = "reload"
  /\ held' = [held EXCEPT ![w] = version]
  /\ Goto(w, IF version = 0 THEN "fail" ELSE "update")
  /\ UNCHANGED <<store, records, disk, http, queue, wpost, modCount, confs, kb,
                 history>>

\* configurations.update(config): the object read before is put back.
UpdateConfig(w) ==
  /\ wpc[w] = "update"
  /\ config' = [config EXCEPT ![recConfig[wpost[w]]] = held[w]]
  /\ Goto(w, "succeed")
  /\ UNCHANGED <<store, records, disk, http, queue, wpost, modCount, held,
                 edits, kb, history>>

\* The exception of the knowledge base leads to the catch clause.
AfterBadRow == "fail"

\* The knowledge base is updated after the success was saved; a missing row,
\* a failed update or a failing "success" broadcast leads to the catch clause.
UpdateRow(w) ==
  LET p == wpost[w] IN
  /\ wpc[w] = "row"
  /\ \/ /\ recId[p] \in DOMAIN kb
        /\ kb' = Put(kb, recId[p], [owner |-> p, final |-> TRUE])
        /\ \/ Goto(w, "idle")
           \/ "socket" \in Faults /\ Goto(w, "fail")
     \/ /\ recId[p] \notin DOMAIN kb \/ "kb" \in Faults
        /\ Goto(w, AfterBadRow)
        /\ UNCHANGED kb
  /\ UNCHANGED <<store, records, disk, http, queue, wpost, modCount, held,
                 confs, history>>

-----------------------------------------------------------------------------
(***************************************************************************)
(* Clients edit (POST, PUT) and remove (DELETE) configurations.            *)
(***************************************************************************)
EditConfig(c) ==
  /\ server = "up"
  /\ edits < MaxEdits
  /\ edits' = edits + 1
  /\ config' = [config EXCEPT ![c] = edits + 1]
  /\ UNCHANGED <<store, records, disk, http, pool, kb, history>>

RemoveConfig(c) ==
  /\ server = "up"
  /\ config[c] # 0
  /\ config' = [config EXCEPT ![c] = 0]
  /\ UNCHANGED <<store, records, disk, http, pool, edits, kb, history>>

-----------------------------------------------------------------------------
(***************************************************************************)
(* The process dies; memory is lost, files and database rows remain.       *)
(***************************************************************************)
Crash ==
  /\ server # "down"
  /\ crashes < MaxCrashes
  /\ crashes' = crashes + 1
  /\ server' = "down"
  /\ unread' = {}
  /\ identity' = 0
  /\ crawlList' = <<>>
  /\ hpc' = [t \in HttpThreads |-> "idle"]
  /\ queue' = <<>>
  /\ wpc' = [w \in Workers |-> "idle"]
  /\ torn' = torn \cup (DOMAIN disk \ Readable)
  /\ cut' = cut \cup {p \in Posts : HasAgent(p)}
  /\ UNCHANGED <<records, disk, hpost, seen, copy, wpost, modCount, held,
                 confs, kb, stranded, starts>>

Boot ==
  /\ server = "down"
  /\ server' = "loading"
  /\ unread' = DOMAIN disk
  /\ UNCHANGED <<identity, crawlList, records, disk, http, pool, confs, kb,
                 history>>

\* Where loadCrawlRecords inserts a record with id n: before the first record
\* with a smaller id; nowhere if the list has records but no smaller one.
Positions(n) == {i \in DOMAIN crawlList : recId[crawlList[i]] < n}

LoadedStatus(s) == IF s \in Terminal THEN s ELSE "failure"

\* The directories come in the order File.listFiles gives them, which is any.
\* A record that was not finished is marked as failed, in memory only.
LoadRecord(n) ==
  LET p == disk[n].owner IN
  /\ server = "loading"
  /\ n \in unread
  /\ unread' = unread \ {n}
  /\ IF p = Null
       THEN UNCHANGED <<crawlList, status, folder>>
       ELSE /\ status' = [status EXCEPT ![p] = LoadedStatus(disk[n].status)]
            /\ folder' = [folder EXCEPT ![p] = disk[n].folder]
            /\ \/ /\ crawlList = <<>>
                  /\ crawlList' = <<p>>
               \/ \E i \in Positions(n) :
                    /\ \A j \in Positions(n) : i <= j
                    /\ crawlList' = InsertAt(crawlList, i, p)
               \/ /\ crawlList # <<>>
                  /\ Positions(n) = {}
                  /\ UNCHANGED crawlList
  /\ UNCHANGED <<server, identity, recId, recConfig, disk, http, pool, confs,
                 kb, history>>

FinishLoad ==
  /\ server = "loading"
  /\ unread = {}
  /\ server' = "up"
  /\ identity' = IF crawlList = <<>> THEN 0 ELSE recId[Head(crawlList)]
  /\ UNCHANGED <<unread, crawlList, records, disk, http, pool, confs, kb,
                 history>>

-----------------------------------------------------------------------------
Init ==
  /\ server = "up"
  /\ unread = {}
  /\ identity = 0
  /\ crawlList = <<>>
  /\ recId = [p \in Posts |-> 0]
  /\ recConfig = [p \in Posts |-> Null]
  /\ status = [p \in Posts |-> "none"]
  /\ folder = [p \in Posts |-> FALSE]
  /\ disk = <<>>
  /\ hpc = [t \in HttpThreads |-> "idle"]
  /\ hpost = [t \in HttpThreads |-> Null]
  /\ seen = [t \in HttpThreads |-> 0]
  /\ copy = [t \in HttpThreads |-> <<>>]
  /\ queue = <<>>
  /\ wpc = [w \in Workers |-> "idle"]
  /\ wpost = [w \in Workers |-> Null]
  /\ modCount = [w \in Workers |-> 0]
  /\ held = [w \in Workers |-> 0]
  /\ config = [c \in Configs |-> 1]
  /\ edits = 1
  /\ kb = <<>>
  /\ stranded = {}
  /\ torn = {}
  /\ cut = {}
  /\ starts = [p \in Posts |-> 0]
  /\ crashes = 0

HttpStep(t) ==
  AssignId(t) \/ Link(t) \/ OpenNew(t) \/ WriteNew(t) \/ SaveRow(t) \/ Enqueue(t)

WorkerStep(w) ==
  \/ Take(w) \/ LookUp(w) \/ Initialize(w) \/ Build(w) \/ Start(w) \/ Announce(w)
  \/ Return(w) \/ Reload(w) \/ UpdateConfig(w) \/ Succeed(w) \/ UpdateRow(w)
  \/ Fail(w) \/ Write(w)

StartUp == Boot \/ (\E n \in unread : LoadRecord(n)) \/ FinishLoad

Next ==
  \/ \E t \in HttpThreads, p \in Posts, c \in Configs : Post(t, p, c)
  \/ \E t \in HttpThreads : HttpStep(t)
  \/ \E w \in Workers : WorkerStep(w)
  \/ \E c \in Configs : EditConfig(c) \/ RemoveConfig(c)
  \/ Crash
  \/ StartUp

Spec == Init /\ [][Next]_vars

\* Threads that can go on do, and somebody restarts the server.
Fairness ==
  /\ \A t \in HttpThreads : WF_vars(HttpStep(t))
  /\ \A w \in Workers : WF_vars(WorkerStep(w))
  /\ WF_vars(StartUp)

FairSpec == Spec /\ Fairness

-----------------------------------------------------------------------------
(***************************************************************************)
(* Properties.                                                             *)
(***************************************************************************)
TypeOK ==
  /\ server \in {"down", "loading", "up"}
  /\ unread \subseteq DOMAIN disk
  /\ identity \in Nat
  /\ crawlList \in Seq(Posts)
  /\ recId \in [Posts -> Nat]
  /\ recConfig \in [Posts -> Configs \cup {Null}]
  /\ status \in [Posts -> Statuses]
  /\ folder \in [Posts -> BOOLEAN]
  /\ DOMAIN disk \subseteq Nat
  /\ \A n \in DOMAIN disk :
       disk[n] \in [owner : Posts \cup {Null}, status : Statuses, folder : BOOLEAN]
  /\ hpc \in [HttpThreads ->
                {"idle", "assign", "link", "open", "write", "row", "queue"}]
  /\ hpost \in [HttpThreads -> Posts \cup {Null}]
  /\ seen \in [HttpThreads -> Nat]
  /\ copy \in [HttpThreads -> Seq(Posts)]
  /\ queue \in Seq(Posts)
  /\ wpc \in [Workers ->
                {"idle", "lookup", "init", "build", "start", "announce", "call",
                 "reload", "update", "succeed", "row", "fail"}
                \cup DOMAIN AfterWrite]
  /\ wpost \in [Workers -> Posts \cup {Null}]
  /\ modCount \in [Workers -> Nat]
  /\ held \in [Workers -> Nat]
  /\ config \in [Configs -> Nat]
  /\ edits \in Nat
  /\ DOMAIN kb \subseteq Nat
  /\ \A n \in DOMAIN kb : kb[n] \in [owner : Posts, final : BOOLEAN]
  /\ stranded \subseteq Posts
  /\ torn \subseteq Nat
  /\ cut \subseteq Posts
  /\ starts \in [Posts -> Nat]
  /\ crashes \in Nat

\* The list is in strictly descending order of ids, so no two records the
\* program knows share an id: getActiveCrawlList, findByID and the loading of
\* the files rely on it (CrawlRecords, WorkDirManager.loadCrawlRecords).
NewestFirst ==
  \A i, j \in DOMAIN crawlList :
    i < j => recId[crawlList[i]] > recId[crawlList[j]]

\* The id of a record is unique among the records of the crawl history.
UniqueIds ==
  \A p, q \in Listed : p # q => recId[p] # recId[q]

\* A record whose crawl.json can be read keeps that file to itself: no other
\* record, created before or after any number of restarts, is saved over it
\* (identity restored by the constructor of CrawlRecords).
FilesAreNotShared ==
  \A p \in Listed :
    recId[p] \in Readable => disk[recId[p]].owner = p

\* At most one thread or queued task is responsible for a record.
AtMostOneAgent ==
  \A p \in Posts :
    /\ \A t, u \in HttpThreads : HttpHolds(t, p) /\ HttpHolds(u, p) => t = u
    /\ \A i, j \in DOMAIN queue : queue[i] = p /\ queue[j] = p => i = j
    /\ \A v, w \in Workers : WorkerHolds(v, p) /\ WorkerHolds(w, p) => v = w
    /\ \A t \in HttpThreads, i \in DOMAIN queue : ~(HttpHolds(t, p) /\ queue[i] = p)
    /\ \A t \in HttpThreads, w \in Workers : ~(HttpHolds(t, p) /\ WorkerHolds(w, p))
    /\ \A w \in Workers, i \in DOMAIN queue : ~(WorkerHolds(w, p) /\ queue[i] = p)

\* A listed record that is shown as waiting or running is on its way: some
\* thread or task is responsible for it, unless its thread died of one of
\* the causes recorded in stranded.  After a restart nothing looks active.
ActiveHasAgent ==
  \A p \in Listed :
    status[p] \in Terminal \/ p \in stranded \/ HasAgent(p)

\* A crawl is started at most once, whatever crashes and restarts happen.
StartedAtMostOnce == \A p \in Posts : starts[p] <= 1

\* As long as files can be saved, a record left as a success has its final row
\* in the knowledge base, unless a crash came between the two saves: a row that
\* cannot be written turns the success into a failure, after restarts as well.
SuccessHasRow ==
  \A p \in Listed :
    status[p] = "success" /\ ~HasAgent(p) /\ p \notin cut
      => /\ recId[p] \in DOMAIN kb
         /\ kb[recId[p]] = [owner |-> p, final |-> TRUE]

\* A crawl that runs writes into its output folder.  As long as files can be
\* saved the folder is unknown only if the record reuses the id of a file that
\* a crash left unreadable (WorkDirManager.saveCrawlRecord).
FolderIsKnown ==
  \A w \in Workers :
    wpc[w] # "idle" => folder[wpost[w]] \/ recId[wpost[w]] \in torn

\* The content of a configuration is never replaced by an older one.
EditsAreKept ==
  [][\A c \in Configs : config'[c] = 0 \/ config'[c] >= config[c]]_config

\* A crawl that users see as queued ends, or its thread died, or the server did.
QueuedCrawlEnds ==
  \A p \in Posts :
    p \in Listed /\ status[p] = "queued" ~>
      (status[p] \in Terminal \/ p \in stranded \/ server = "down")

-----------------------------------------------------------------------------
(***************************************************************************)
(* The crawl history implements CrawlJobs: a job waits while its task is   *)
(* in the queue of the pool and executes while a worker has it.            *)
(***************************************************************************)
Jobs == INSTANCE CrawlJobs WITH
  Jobs      <- Posts,
  Capacity  <- Cardinality(Workers),
  waiting   <- queue,
  executing <- {p \in Posts : \E w \in Workers : WorkerHolds(w, p)},
  over      <- {p \in Posts : status[p] # "none" /\ ~HasAgent(p)}

\* Crawls are taken in order, at most once, by as many workers as there are.
ImplementsCrawlJobs == Jobs!Spec
=============================================================================
