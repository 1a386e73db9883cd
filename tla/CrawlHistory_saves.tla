--------------------------- MODULE CrawlHistory_saves --------------------------
(***************************************************************************)
(* What the crawl history guarantees as long as files can be saved: a      *)
(* crawl that runs has its folder, and a success has its row.              *)
(***************************************************************************)
EXTENDS CrawlHistory_refinement

USE DEF store, records, http, pool, confs, history

\* The disk takes what is saved: no IOException is swallowed.
FilesAreSaved == "disk" \notin Faults

-----------------------------------------------------------------------------
(***************************************************************************)
(* The inductive invariants, on top of Inv.                                *)
(***************************************************************************)
\* Records whose crawl.json was opened since their request was made.
Opened(p) ==
  \/ \E t \in HttpThreads : hpc[t] \in {"write", "row", "queue"} /\ hpost[t] = p
  \/ \E i \in DOMAIN queue : queue[i] = p
  \/ \E w \in Workers : WorkerHolds(w, p)

\* The file with id n was opened and will be written.
Writes == {"writeRunning", "writeSuccess", "writeFailure"}

Writing(n) ==
  \/ \E t \in HttpThreads : hpc[t] = "write" /\ recId[hpost[t]] = n
  \/ \E w \in Workers : wpc[w] \in Writes /\ recId[wpost[w]] = n

\* A file that cannot be read is being written, or a crash tore it; so a
\* record gets its folder, or the id of a torn file.
FolderInv ==
  /\ \A p \in Posts : Opened(p) => folder[p] \/ recId[p] \in torn
  /\ \A n \in DOMAIN disk \ Readable : n \in torn \/ Writing(n)
  /\ \A t \in HttpThreads :
       hpc[t] = "open" => \A n \in Readable : disk[n].owner # hpost[t]

\* The places of a worker whose crawl came to its end.
Closing == {"writeSuccess", "row", "fail", "writeFailure"}

\* Somebody has p, and its crawl did not come to its end.
Early(p) ==
  \/ \E t \in HttpThreads : HttpHolds(t, p)
  \/ \E i \in DOMAIN queue : queue[i] = p
  \/ \E w \in Workers : WorkerHolds(w, p) /\ wpc[w] \notin Closing

\* p is a success in a file; in memory or in a file; p has its final row.
FileDone(p) == \E n \in Readable : disk[n].owner = p /\ disk[n].status = "success"

Done(p) == (p \in Listed /\ status[p] = "success") \/ FileDone(p)

HasRow(p) == recId[p] \in DOMAIN kb /\ kb[recId[p]] = [owner |-> p, final |-> TRUE]

\* A success, in memory or in a file, is no early one; and it has its row
\* unless somebody still works on it or did when a crash came.
RowInv ==
  \A p \in Posts :
    /\ Early(p) => status[p] # "success" /\ ~FileDone(p)
    /\ Done(p) => HasAgent(p) \/ p \in cut \/ HasRow(p)

-----------------------------------------------------------------------------
(***************************************************************************)
(* Opening and writing files.                                              *)
(***************************************************************************)
\* The files and folders after one file was opened.
LEMMA OpenedFile ==
  ASSUME Inv, NEW p \in Posts, OpenFile(p)
  PROVE  /\ DOMAIN disk' = DOMAIN disk \cup {recId[p]}
         /\ \A n : n \in Readable' <=> n \in Readable /\ n # recId[p]
         /\ \A n \in Readable' : disk'[n] = disk[n]
         /\ \A q \in Posts : folder'[q] <=> folder[q] \/ (q = p /\ recId[p] \notin DOMAIN disk)
<1>1. disk' = Put(disk, recId[p], TornFile) /\ TornFile.owner = Null
  BY DEF OpenFile, TornFile
<1>2. DOMAIN disk' = DOMAIN disk \cup {recId[p]}
  BY <1>1 DEF Put
<1>3. \A n \in DOMAIN disk' : disk'[n] = IF n = recId[p] THEN TornFile ELSE disk[n]
  BY <1>1 DEF Put
<1>4. \A n : n \in Readable' <=> n \in Readable /\ n # recId[p]
  BY <1>1, <1>2, <1>3 DEF Readable
<1>5. \A n \in Readable' : disk'[n] = disk[n]
  BY <1>2, <1>3, <1>4 DEF Readable
<1>6. \A q \in Posts : folder'[q] <=> folder[q] \/ (q = p /\ recId[p] \notin DOMAIN disk)
  <2>1. folder \in [Posts -> BOOLEAN]
    BY DEF Inv, TypeOK
  <2>2. folder' = [folder EXCEPT ![p] = folder[p] \/ recId[p] \notin DOMAIN disk]
    BY DEF OpenFile
  <2> QED
    BY <2>1, <2>2
<1> QED
  BY <1>2, <1>4, <1>5, <1>6

\* The file of the record after it is written.
LEMMA WrittenFile ==
  ASSUME Inv, NEW p \in Posts, WriteFile(p)
  PROVE  /\ DOMAIN disk' = DOMAIN disk \cup {recId[p]}
         /\ \A n : n \in Readable' <=> n \in Readable \/ n = recId[p]
         /\ \A n \in Readable' : n # recId[p] => disk'[n] = disk[n]
         /\ disk'[recId[p]].owner = p
         /\ disk'[recId[p]].status = status[p]
<1> DEFINE r == [owner |-> p, status |-> status[p], folder |-> folder[p]]
<1>1. disk' = Put(disk, recId[p], r) /\ r.owner = p /\ r.status = status[p]
  BY DEF WriteFile
<1> HIDE DEF r
<1>2. DOMAIN disk' = DOMAIN disk \cup {recId[p]}
  BY <1>1 DEF Put
<1>3. \A n \in DOMAIN disk' : disk'[n] = IF n = recId[p] THEN r ELSE disk[n]
  BY <1>1 DEF Put
<1>4. p # Null
  BY HistoryAssumption DEF HistoryAssumption
<1>5. \A n : n \in Readable' <=> n \in Readable \/ n = recId[p]
  BY <1>1, <1>2, <1>3, <1>4 DEF Readable
<1>6. \A n \in Readable' : n # recId[p] => disk'[n] = disk[n]
  BY <1>2, <1>3, <1>5 DEF Readable
<1> QED
  BY <1>1, <1>2, <1>3, <1>5, <1>6

-----------------------------------------------------------------------------
(***************************************************************************)
(* The folders.  A step leaves the files alone, opens one, or writes one.  *)
(***************************************************************************)
LEMMA KeepsFolders ==
  ASSUME FolderInv, UNCHANGED <<disk, torn>>,
         \A p \in Posts : Opened(p)' =>
           Opened(p) /\ folder'[p] = folder[p] /\ recId'[p] = recId[p],
         \A n \in DOMAIN disk : Writing(n) => Writing(n)',
         \A t \in HttpThreads : hpc'[t] = "open" =>
           \/ hpc[t] = "open" /\ hpost'[t] = hpost[t]
           \/ \A n \in Readable : disk[n].owner # hpost'[t]
  PROVE  FolderInv'
<1>1. Readable' = Readable
  BY DEF Readable
<1>2. \A p \in Posts : Opened(p)' => folder'[p] \/ recId'[p] \in torn'
  BY DEF FolderInv
<1>3. \A n \in DOMAIN disk' \ Readable' : n \in torn' \/ Writing(n)'
  BY <1>1 DEF FolderInv
<1>4. \A t \in HttpThreads :
        hpc'[t] = "open" => \A n \in Readable' : disk'[n].owner # hpost'[t]
  BY <1>1 DEF FolderInv
<1> QED
  BY <1>2, <1>3, <1>4 DEF FolderInv

\* Opening a file of a record that has its folder preserves FolderInv.
LEMMA OpensFile ==
  ASSUME Inv, FolderInv, NEW p \in Posts, OpenFile(p), UNCHANGED <<torn, recId, hpost>>,
         Opened(p) \/ (recId[p] \notin Readable /\ ~Writing(recId[p])),
         \A q \in Posts : Opened(q)' => Opened(q) \/ q = p,
         \A n : Writing(n) => Writing(n)',
         \A n : n = recId[p] => Writing(n)',
         \A t \in HttpThreads : hpc'[t] = "open" => hpc[t] = "open"
  PROVE  FolderInv'
<1>1. /\ DOMAIN disk' = DOMAIN disk \cup {recId[p]}
      /\ \A n : n \in Readable' <=> n \in Readable /\ n # recId[p]
      /\ \A n \in Readable' : disk'[n] = disk[n]
      /\ \A q \in Posts : folder'[q] <=> folder[q] \/ (q = p /\ recId[p] \notin DOMAIN disk)
  BY OpenedFile
<1>2. ASSUME NEW q \in Posts, Opened(q)' PROVE folder'[q] \/ recId[q] \in torn
  <2>1. CASE Opened(q)
    BY <1>1, <2>1 DEF FolderInv
  <2>2. CASE ~Opened(q)
    <3>1. q = p /\ recId[p] \notin Readable /\ ~Writing(recId[p])
      BY <1>2, <2>2
    <3>2. recId[p] \in DOMAIN disk => recId[p] \in torn
      BY <3>1 DEF FolderInv
    <3> QED
      BY <1>1, <3>1, <3>2
  <2> QED
    BY <2>1, <2>2
<1>3. \A n \in DOMAIN disk' \ Readable' : n \in torn \/ Writing(n)'
  BY <1>1 DEF FolderInv
<1>4. \A t \in HttpThreads :
        hpc'[t] = "open" => \A n \in Readable' : disk'[n].owner # hpost[t]
  BY <1>1 DEF FolderInv
<1> QED
  BY <1>2, <1>3, <1>4 DEF FolderInv

\* So does writing it.
LEMMA WritesFile ==
  ASSUME Inv, FolderInv, NEW p \in Posts, WriteFile(p),
         UNCHANGED <<torn, recId, hpost, folder>>,
         \A q \in Posts : Opened(q)' => Opened(q),
         \A n : n # recId[p] /\ Writing(n) => Writing(n)',
         \A t \in HttpThreads : hpc'[t] = "open" => hpc[t] = "open" /\ hpost[t] # p
  PROVE  FolderInv'
<1>1. /\ DOMAIN disk' = DOMAIN disk \cup {recId[p]}
      /\ \A n : n \in Readable' <=> n \in Readable \/ n = recId[p]
      /\ \A n \in Readable' : n # recId[p] => disk'[n] = disk[n]
      /\ disk'[recId[p]].owner = p
  BY WrittenFile
<1>2. \A q \in Posts : Opened(q)' => folder'[q] \/ recId'[q] \in torn'
  BY DEF FolderInv
<1>3. \A n \in DOMAIN disk' \ Readable' : n \in torn \/ Writing(n)'
  BY <1>1 DEF FolderInv
<1>4. \A t \in HttpThreads :
        hpc'[t] = "open" => \A n \in Readable' : disk'[n].owner # hpost[t]
  BY <1>1 DEF FolderInv
<1> QED
  BY <1>2, <1>3, <1>4 DEF FolderInv

-----------------------------------------------------------------------------
(***************************************************************************)
(* Workers and the folders.                                                *)
(***************************************************************************)
\* What a worker that changes its place changes of Opened and Writing.
LEMMA WorkerViews ==
  ASSUME Inv, NEW w \in Workers, wpc[w] # "idle", NEW l,
         wpc' = [wpc EXCEPT ![w] = l], UNCHANGED <<queue, wpost, hpc, hpost, recId>>
  PROVE  /\ \A q \in Posts : Opened(q)' => Opened(q)
         /\ \A n : Writing(n) /\ (wpc[w] \notin Writes \/ n # recId[wpost[w]])
                     => Writing(n)'
         /\ l \in Writes => \A n : n = recId[wpost[w]] => Writing(n)'
<1>1. \A v \in Workers : wpc'[v] = IF v = w THEN l ELSE wpc[v]
  BY DEF Inv, TypeOK
<1>2. \A v \in Workers, q \in Posts : WorkerHolds(v, q)' => WorkerHolds(v, q)
  BY <1>1 DEF WorkerHolds
<1>3. \A q \in Posts : Opened(q)' => Opened(q)
  BY <1>2 DEF Opened
<1>4. ASSUME NEW n, Writing(n), wpc[w] \notin Writes \/ n # recId[wpost[w]]
      PROVE  Writing(n)'
  <2>1. CASE \E t \in HttpThreads : hpc[t] = "write" /\ recId[hpost[t]] = n
    BY <2>1 DEF Writing
  <2>2. CASE \E v \in Workers : wpc[v] \in Writes /\ recId[wpost[v]] = n
    <3>1. PICK v \in Workers : wpc[v] \in Writes /\ recId[wpost[v]] = n
      BY <2>2
    <3>2. v # w
      BY <1>4, <3>1
    <3> QED
      BY <1>1, <3>1, <3>2 DEF Writing
  <2> QED
    BY <1>4, <2>1, <2>2 DEF Writing
<1>5. l \in Writes => \A n : n = recId[wpost[w]] => Writing(n)'
  BY <1>1 DEF Writing
<1> QED
  BY <1>3, <1>4, <1>5

\* A worker that takes a task holds what was in the queue.
LEMMA TakeViews ==
  ASSUME Inv, NEW w \in Workers, Take(w)
  PROVE  /\ \A q \in Posts : Opened(q)' => Opened(q)
         /\ \A n : Writing(n) => Writing(n)'
<1>1. /\ wpc[w] = "idle" /\ queue # <<>> /\ queue' = Tail(queue)
      /\ wpc' = [wpc EXCEPT ![w] = "lookup"]
      /\ wpost' = [wpost EXCEPT ![w] = Head(queue)]
      /\ UNCHANGED <<hpc, hpost, recId>>
  BY DEF Take, Goto, Dequeued
<1>2. queue \in Seq(Posts)
  BY DEF Inv, TypeOK
<1>3. /\ DOMAIN queue = 1 .. Len(queue) /\ Len(queue) \in Nat /\ 1 \in DOMAIN queue
      /\ queue[1] = Head(queue)
  BY <1>1, <1>2, HeadTailProperties, EmptySeq, LenProperties
<1>4. \A q : (\E i \in DOMAIN queue' : queue'[i] = q) => \E i \in DOMAIN queue : queue[i] = q
  <2>1. /\ Len(queue') = Len(queue) - 1 /\ DOMAIN queue' = 1 .. Len(queue')
        /\ \A i \in 1 .. Len(queue') : queue'[i] = queue[i + 1]
    BY <1>1, <1>2, HeadTailProperties, LenProperties
  <2>2. \A i \in 1 .. Len(queue') : i + 1 \in DOMAIN queue
    BY <1>3, <2>1
  <2> QED
    BY <2>1, <2>2
<1>5. \A v \in Workers : /\ wpc'[v] = IF v = w THEN "lookup" ELSE wpc[v]
                         /\ wpost'[v] = IF v = w THEN Head(queue) ELSE wpost[v]
  BY <1>1 DEF Inv, TypeOK
<1>6. \A v \in Workers, q \in Posts :
        WorkerHolds(v, q)' => WorkerHolds(v, q) \/ q = Head(queue)
  BY <1>5 DEF WorkerHolds
<1>7. \A q \in Posts : Opened(q)' => Opened(q)
  BY <1>1, <1>3, <1>4, <1>6 DEF Opened
<1>8. \A v \in Workers : wpc[v] \in Writes => wpc'[v] = wpc[v] /\ wpost'[v] = wpost[v]
  BY <1>1, <1>5 DEF Writes
<1>9. \A n : Writing(n) => Writing(n)'
  BY <1>1, <1>8 DEF Writing
<1> QED
  BY <1>7, <1>9

\* Every step of a worker preserves FolderInv.
LEMMA WorkerFolders ==
  ASSUME Inv, FolderInv, FilesAreSaved, NEW w \in Workers, WorkerStep(w)
  PROVE  FolderInv'
<1>1. CASE Take(w)
  <2>1. UNCHANGED <<disk, torn, folder, recId, hpc, hpost>>
    BY <1>1 DEF Take
  <2> QED
    BY <1>1, <2>1, TakeViews, KeepsFolders
<1>2. CASE ~Take(w)
  <2>1. wpc[w] # "idle" /\ GoesOn(w) /\ UNCHANGED <<queue, wpost, hpc, hpost>>
    BY <1>2, WorkerFrame
  <2>2. PICK p \in Posts : p = wpost[w]
    BY <2>1, WorkerFacts
  <2>3. UNCHANGED <<recId, torn>>
    BY <1>2 DEF WorkerStep, LookUp, Initialize, Build, SetStatus, Start, Succeed, Fail,
       Announce, Return, Reload, UpdateConfig, UpdateRow, Write
  <2>4. Opened(p) /\ \A t \in HttpThreads : ~HttpHolds(t, p)
    BY <2>1, <2>2 DEF Opened, WorkerHolds, Inv, AtMostOneAgent
  <2>5. CASE Start(w) \/ Succeed(w) \/ Fail(w)
    <3>1. /\ OpenFile(p)
          /\ \/ Goto(w, "writeRunning") \/ Goto(w, "writeSuccess") \/ Goto(w, "writeFailure")
      BY <2>2, <2>5 DEF Start, Succeed, Fail, SetStatus, FilesAreSaved
    <3>2. PICK l \in Writes : wpc' = [wpc EXCEPT ![w] = l]
      BY <3>1 DEF Goto, Writes
    <3>3. wpc[w] \notin Writes
      BY <2>5 DEF Start, Succeed, Fail, Writes
    <3> QED
      BY <2>1, <2>2, <2>3, <2>4, <3>1, <3>2, <3>3, WorkerViews, OpensFile
  <2>6. CASE Write(w)
    <3>1. WriteFile(p) /\ UNCHANGED folder
      BY <2>2, <2>6 DEF Write, FilesAreSaved
    <3>2. PICK l : wpc' = [wpc EXCEPT ![w] = l]
      BY <2>6 DEF Write, Goto
    <3>3. \A t \in HttpThreads : hpc[t] = "open" => hpost[t] # p
      BY <2>4 DEF HttpHolds
    <3> QED
      BY <2>1, <2>2, <2>3, <3>1, <3>2, <3>3, WorkerViews, WritesFile
  <2>7. CASE ~(Start(w) \/ Succeed(w) \/ Fail(w) \/ Write(w))
    <3>1. UNCHANGED <<disk, folder>> /\ wpc[w] \notin Writes
      BY <1>2, <2>7 DEF WorkerStep, LookUp, Initialize, Build, Announce, Return, Reload,
         UpdateConfig, UpdateRow, Writes
    <3>2. PICK l : wpc' = [wpc EXCEPT ![w] = l]
      BY <2>1 DEF GoesOn, Goto
    <3> QED
      BY <2>1, <2>3, <3>1, <3>2, WorkerViews, KeepsFolders
  <2> QED
    BY <2>5, <2>6, <2>7
<1> QED
  BY <1>1, <1>2

-----------------------------------------------------------------------------
(***************************************************************************)
(* HTTP threads and the folders.                                           *)
(***************************************************************************)
\* An HTTP thread that changes its place, except for the end of its work.
LEMMA HttpViews ==
  ASSUME Inv, NEW t \in HttpThreads, hpc[t] # "idle", NEW l,
         hpc' = [hpc EXCEPT ![t] = l],
         UNCHANGED <<queue, wpc, wpost, hpost, recId>>
  PROVE  /\ \A q \in Posts : Opened(q)' => Opened(q) \/ q = hpost[t]
         /\ \A n : Writing(n) /\ (hpc[t] # "write" \/ n # recId[hpost[t]]) => Writing(n)'
         /\ l = "write" => \A n : n = recId[hpost[t]] => Writing(n)'
         /\ \A u \in HttpThreads : hpc'[u] = IF u = t THEN l ELSE hpc[u]
<1>1. \A u \in HttpThreads : hpc'[u] = IF u = t THEN l ELSE hpc[u]
  BY DEF Inv, TypeOK
<1>2. \A q \in Posts : Opened(q)' => Opened(q) \/ q = hpost[t]
  BY <1>1 DEF Opened, WorkerHolds
<1>3. ASSUME NEW n, Writing(n), hpc[t] # "write" \/ n # recId[hpost[t]]
      PROVE  Writing(n)'
  <2>1. CASE \E w \in Workers : wpc[w] \in Writes /\ recId[wpost[w]] = n
    BY <2>1 DEF Writing
  <2>2. CASE \E u \in HttpThreads : hpc[u] = "write" /\ recId[hpost[u]] = n
    <3>1. PICK u \in HttpThreads : hpc[u] = "write" /\ recId[hpost[u]] = n
      BY <2>2
    <3>2. u # t
      BY <1>3, <3>1
    <3> QED
      BY <1>1, <3>1, <3>2 DEF Writing
  <2> QED
    BY <1>3, <2>1, <2>2 DEF Writing
<1>4. l = "write" => \A n : n = recId[hpost[t]] => Writing(n)'
  BY <1>1 DEF Writing
<1> QED
  BY <1>1, <1>2, <1>3, <1>4

\* Nobody else works on the record of an HTTP thread, or writes its file.
LEMMA HttpAlone ==
  ASSUME Inv, NEW t \in HttpThreads, hpc[t] # "idle", NEW p \in Posts, p = hpost[t]
  PROVE  /\ Opened(p) => hpc[t] \in {"write", "row", "queue"}
         /\ \A u \in HttpThreads : hpc[u] # "idle" /\ hpost[u] = p => u = t
         /\ \A w \in Workers : wpc[w] # "idle" => wpost[w] # p
         /\ p \in Listed /\ Writing(recId[p]) => hpc[t] = "write"
<1>1. HttpHolds(t, p)
  BY DEF HttpHolds
<1>2. /\ \A u \in HttpThreads : hpc[u] # "idle" /\ hpost[u] = p => u = t
      /\ \A w \in Workers : wpc[w] # "idle" => wpost[w] # p
      /\ \A i \in DOMAIN queue : queue[i] # p
  BY <1>1 DEF HttpHolds, WorkerHolds, Inv, AtMostOneAgent
<1>3. Opened(p) => hpc[t] \in {"write", "row", "queue"}
  BY <1>2 DEF Opened, WorkerHolds
<1>4. ASSUME p \in Listed, Writing(recId[p]) PROVE hpc[t] = "write"
  <2>1. CASE \E u \in HttpThreads : hpc[u] = "write" /\ recId[hpost[u]] = recId[p]
    <3>1. PICK u \in HttpThreads : hpc[u] = "write" /\ recId[hpost[u]] = recId[p]
      BY <2>1
    <3>2. hpost[u] \in Listed
      BY <3>1, HttpFacts
    <3>3. hpost[u] = p
      BY <1>4, <3>1, <3>2, SameId DEF Inv
    <3> QED
      BY <1>2, <3>1, <3>3
  <2>2. CASE \E w \in Workers : wpc[w] \in Writes /\ recId[wpost[w]] = recId[p]
    <3>1. PICK w \in Workers : wpc[w] \in Writes /\ recId[wpost[w]] = recId[p]
      BY <2>2
    <3>2. wpc[w] # "idle" /\ wpost[w] \in Listed
      BY <3>1, WorkerFacts DEF Writes
    <3>3. wpost[w] = p
      BY <1>4, <3>1, <3>2, SameId DEF Inv
    <3> QED
      BY <1>2, <3>2, <3>3
  <2> QED
    BY <1>4, <2>1, <2>2 DEF Writing
<1> QED
  BY <1>2, <1>3, <1>4

\* A record that gets its id has no file to its name.
LEMMA AssignFolders ==
  ASSUME Inv, FolderInv, NEW t \in HttpThreads, AssignId(t)
  PROVE  FolderInv'
<1>1. PICK p \in Posts : p = hpost[t]
  BY HttpFacts DEF AssignId
<1>2. /\ hpc[t] = "assign"
      /\ recId' = [recId EXCEPT ![p] = seen[t] + 1]
      /\ hpc' = [hpc EXCEPT ![t] = "idle"] \/ hpc' = [hpc EXCEPT ![t] = "link"]
      /\ UNCHANGED <<disk, torn, folder, queue, wpc, wpost, hpost>>
  BY <1>1 DEF AssignId
<1>3. \A u \in HttpThreads : /\ u # t => hpc'[u] = hpc[u]
                             /\ hpc'[t] \in {"idle", "link"}
  BY <1>2 DEF Inv, TypeOK
<1>4. \A q \in Posts : q # p => recId'[q] = recId[q]
  BY <1>2 DEF Inv, TypeOK
<1>5. /\ ~Opened(p)
      /\ \A u \in HttpThreads : hpc[u] # "idle" /\ hpost[u] = p => u = t
      /\ \A w \in Workers : wpc[w] # "idle" => wpost[w] # p
  BY <1>1, <1>2, HttpAlone
<1>6. \A q \in Posts : Opened(q)' => Opened(q)
  BY <1>2, <1>3 DEF Opened, WorkerHolds
<1>7. ASSUME NEW n, Writing(n) PROVE Writing(n)'
  <2>1. CASE \E u \in HttpThreads : hpc[u] = "write" /\ recId[hpost[u]] = n
    <3>1. PICK u \in HttpThreads : hpc[u] = "write" /\ recId[hpost[u]] = n
      BY <2>1
    <3>2. hpost[u] \in Posts /\ u # t /\ hpost[u] # p
      BY <1>2, <1>5, <3>1, HttpFacts
    <3> QED
      BY <1>2, <1>3, <1>4, <3>1, <3>2 DEF Writing
  <2>2. CASE \E w \in Workers : wpc[w] \in Writes /\ recId[wpost[w]] = n
    <3>1. PICK w \in Workers : wpc[w] \in Writes /\ recId[wpost[w]] = n
      BY <2>2
    <3>2. wpost[w] \in Posts /\ wpost[w] # p
      BY <1>5, <3>1, WorkerFacts DEF Writes
    <3> QED
      BY <1>2, <1>4, <3>1, <3>2 DEF Writing
  <2> QED
    BY <1>7, <2>1, <2>2 DEF Writing
<1>8. \A u \in HttpThreads : hpc'[u] = "open" => hpc[u] = "open" /\ hpost'[u] = hpost[u]
  BY <1>2, <1>3
<1>9. \A q \in Posts : Opened(q)' =>
        Opened(q) /\ folder'[q] = folder[q] /\ recId'[q] = recId[q]
  BY <1>2, <1>4, <1>5, <1>6
<1> QED
  BY <1>2, <1>7, <1>8, <1>9, KeepsFolders

\* So does putting the record on the list.
LEMMA LinkFolders ==
  ASSUME Inv, FolderInv, NEW t \in HttpThreads, Link(t)
  PROVE  FolderInv'
<1>1. /\ hpc[t] = "link" /\ hpc' = [hpc EXCEPT ![t] = "open"]
      /\ UNCHANGED <<disk, torn, folder, recId, queue, wpc, wpost, hpost>>
  BY DEF Link
<1>2. \A n \in Readable : disk[n].owner # hpost[t]
  BY <1>1 DEF Inv, HttpInv, NewRecord
<1>3. \A u \in HttpThreads : hpc'[u] = IF u = t THEN "open" ELSE hpc[u]
  BY <1>1 DEF Inv, TypeOK
<1>4. \A q \in Posts : Opened(q)' => Opened(q)
  BY <1>1, <1>3 DEF Opened, WorkerHolds
<1>5. \A n : Writing(n) => Writing(n)'
  BY <1>1, <1>3 DEF Writing
<1> QED
  BY <1>1, <1>2, <1>3, <1>4, <1>5, KeepsFolders

\* So does opening the file of a new record.
LEMMA OpenNewFolders ==
  ASSUME Inv, FolderInv, FilesAreSaved, NEW t \in HttpThreads, OpenNew(t)
  PROVE  FolderInv'
<1>1. PICK p \in Posts : p = hpost[t]
  BY HttpFacts DEF OpenNew
<1>2. /\ hpc[t] = "open" /\ hpc' = [hpc EXCEPT ![t] = "write"] /\ OpenFile(p)
      /\ UNCHANGED <<torn, recId, queue, wpc, wpost, hpost>>
  BY <1>1 DEF OpenNew, FilesAreSaved
<1>3. p \in Listed
  BY <1>1, <1>2, HttpFacts
<1>4. recId[p] \notin Readable
  BY <1>1, <1>2, <1>3 DEF Inv, FilesAreNotShared, FolderInv
<1>5. ~Writing(recId[p])
  BY <1>1, <1>2, <1>3, HttpAlone
<1>6. /\ \A q \in Posts : Opened(q)' => Opened(q) \/ q = p
      /\ \A n : Writing(n) => Writing(n)'
      /\ \A n : n = recId[p] => Writing(n)'
      /\ \A u \in HttpThreads : hpc'[u] = "open" => hpc[u] = "open"
  BY <1>1, <1>2, HttpViews
<1> QED
  BY <1>2, <1>4, <1>5, <1>6, OpensFile

\* So does writing it.
LEMMA WriteNewFolders ==
  ASSUME Inv, FolderInv, FilesAreSaved, NEW t \in HttpThreads, WriteNew(t)
  PROVE  FolderInv'
<1>1. PICK p \in Posts : p = hpost[t]
  BY HttpFacts DEF WriteNew
<1>2. /\ hpc[t] = "write" /\ hpc' = [hpc EXCEPT ![t] = "row"] /\ WriteFile(p)
      /\ UNCHANGED <<torn, recId, folder, queue, wpc, wpost, hpost>>
  BY <1>1 DEF WriteNew, FilesAreSaved
<1>3. /\ \A q \in Posts : Opened(q)' => Opened(q) \/ q = p
      /\ \A n : n # recId[p] /\ Writing(n) => Writing(n)'
      /\ \A u \in HttpThreads : hpc'[u] = IF u = t THEN "row" ELSE hpc[u]
  BY <1>1, <1>2, HttpViews
<1>4. Opened(p)
  BY <1>1, <1>2 DEF Opened
<1>5. \A u \in HttpThreads : hpc'[u] = "open" => hpc[u] = "open" /\ hpost[u] # p
  BY <1>1, <1>2, <1>3, HttpAlone
<1> QED
  BY <1>2, <1>3, <1>4, <1>5, WritesFile

\* The row of a new record says nothing of folders.
LEMMA SaveRowFolders ==
  ASSUME Inv, FolderInv, NEW t \in HttpThreads, SaveRow(t)
  PROVE  FolderInv'
<1>1. /\ hpc[t] = "row" /\ hpc' = [hpc EXCEPT ![t] = "queue"]
      /\ UNCHANGED <<disk, torn, folder, recId, queue, wpc, wpost, hpost>>
  BY DEF SaveRow
<1>2. \A u \in HttpThreads : hpc'[u] = IF u = t THEN "queue" ELSE hpc[u]
  BY <1>1 DEF Inv, TypeOK
<1>3. \A q \in Posts : Opened(q)' => Opened(q)
  BY <1>1, <1>2 DEF Opened, WorkerHolds
<1>4. \A n : Writing(n) => Writing(n)'
  BY <1>1, <1>2 DEF Writing
<1> QED
  BY <1>1, <1>2, <1>3, <1>4, KeepsFolders

\* The queue of the pool after a task was submitted.
LEMMA QueueGrows ==
  ASSUME Inv, NEW p \in Posts, queue' = Append(queue, p)
  PROVE  \A q : (\E i \in DOMAIN queue' : queue'[i] = q)
                     <=> (\E i \in DOMAIN queue : queue[i] = q) \/ q = p
<1>1. queue \in Seq(Posts)
  BY DEF Inv, TypeOK
<1>2. queue' = [i \in 1 .. Len(queue) + 1 |-> IF i = Len(queue) + 1 THEN p ELSE queue[i]]
  BY <1>1, AppendFacts
<1>3. Len(queue) \in Nat /\ DOMAIN queue = 1 .. Len(queue)
  BY <1>1, LenProperties
<1>4. DOMAIN queue' = 1 .. Len(queue) + 1
  BY <1>2
<1>5. \A q : (\E i \in DOMAIN queue : queue[i] = q) \/ q = p
               => \E i \in DOMAIN queue' : queue'[i] = q
  BY <1>2, <1>3, <1>4
<1>6. \A q : (\E i \in DOMAIN queue' : queue'[i] = q)
               => (\E i \in DOMAIN queue : queue[i] = q) \/ q = p
  BY <1>2, <1>3, <1>4
<1> QED
  BY <1>5, <1>6

\* Handing the record to the pool says nothing of folders.
LEMMA EnqueueFolders ==
  ASSUME Inv, FolderInv, NEW t \in HttpThreads, Enqueue(t)
  PROVE  FolderInv'
<1>1. PICK p \in Posts : p = hpost[t]
  BY HttpFacts DEF Enqueue
<1>2. /\ hpc[t] = "queue" /\ hpc' = [hpc EXCEPT ![t] = "idle"]
      /\ queue' = Append(queue, p) \/ UNCHANGED queue
      /\ UNCHANGED <<disk, torn, folder, recId, wpc, wpost, hpost>>
  BY <1>1 DEF Enqueue
<1>3. \A u \in HttpThreads : hpc'[u] = IF u = t THEN "idle" ELSE hpc[u]
  BY <1>2 DEF Inv, TypeOK
<1>4. \A q : (\E i \in DOMAIN queue' : queue'[i] = q)
               => (\E i \in DOMAIN queue : queue[i] = q) \/ q = p
  <2>1. CASE queue' = Append(queue, p)
    BY <2>1, QueueGrows
  <2>2. CASE UNCHANGED queue
    BY <2>2
  <2> QED
    BY <1>2, <2>1, <2>2
<1>5. Opened(p)
  BY <1>1, <1>2 DEF Opened
<1>6. \A q \in Posts : Opened(q)' => Opened(q)
  BY <1>2, <1>3, <1>4, <1>5 DEF Opened, WorkerHolds
<1>7. \A n : Writing(n) => Writing(n)'
  BY <1>2, <1>3 DEF Writing
<1> QED
  BY <1>2, <1>3, <1>6, <1>7, KeepsFolders

\* A request that arrives has no record yet.
LEMMA PostFolders ==
  ASSUME Inv, FolderInv, NEW t \in HttpThreads, NEW p \in Posts, NEW c \in Configs,
         Post(t, p, c)
  PROVE  FolderInv'
<1>1. /\ hpc[t] = "idle" /\ hpc' = [hpc EXCEPT ![t] = "assign"]
      /\ hpost' = [hpost EXCEPT ![t] = p]
      /\ UNCHANGED <<disk, torn, folder, recId, queue, wpc, wpost>>
  BY DEF Post
<1>2. \A u \in HttpThreads : /\ hpc'[u] = IF u = t THEN "assign" ELSE hpc[u]
                             /\ u # t => hpost'[u] = hpost[u]
  BY <1>1 DEF Inv, TypeOK
<1>3. \A q \in Posts : Opened(q)' => Opened(q)
  BY <1>1, <1>2 DEF Opened, WorkerHolds
<1>4. \A n : Writing(n) => Writing(n)'
  BY <1>1, <1>2 DEF Writing
<1> QED
  BY <1>1, <1>2, <1>3, <1>4, KeepsFolders

-----------------------------------------------------------------------------
(***************************************************************************)
(* Crashes, start-ups and clients.                                         *)
(***************************************************************************)
\* Every file that cannot be read after a crash was torn by it or before.
LEMMA CrashFolders ==
  ASSUME Inv, Crash
  PROVE  FolderInv'
<1>1. /\ hpc' = [t \in HttpThreads |-> "idle"] /\ queue' = <<>>
      /\ wpc' = [w \in Workers |-> "idle"]
      /\ torn' = torn \cup (DOMAIN disk \ Readable) /\ UNCHANGED disk
  BY DEF Crash
<1>2. \A q \in Posts : ~Opened(q)'
  BY <1>1 DEF Opened, WorkerHolds
<1>3. Readable' = Readable
  BY <1>1 DEF Readable
<1> QED
  BY <1>1, <1>2, <1>3 DEF FolderInv

\* The other steps, a crash and a restart included, preserve FolderInv.
LEMMA OtherFolders ==
  ASSUME Inv, FolderInv, StartUp \/ \E c \in Configs : EditConfig(c) \/ RemoveConfig(c)
  PROVE  FolderInv'
<1>1. UNCHANGED <<hpc, hpost, queue, wpc, wpost, disk, torn, recId>>
  BY DEF StartUp, Boot, LoadRecord, FinishLoad, EditConfig, RemoveConfig
<1>2. ASSUME NEW q \in Posts, Opened(q)' PROVE Opened(q) /\ folder'[q] = folder[q]
  <2>1. Opened(q)
    BY <1>1, <1>2 DEF Opened, WorkerHolds
  <2>2. ~Quiet
    BY <2>1 DEF Opened, WorkerHolds, Quiet
  <2>3. server = "up"
    BY <2>2 DEF Inv, ServerInv
  <2>4. UNCHANGED folder
    BY <2>3 DEF StartUp, Boot, LoadRecord, FinishLoad, EditConfig, RemoveConfig
  <2> QED
    BY <2>1, <2>4
<1>3. \A n : Writing(n) => Writing(n)'
  BY <1>1 DEF Writing
<1> QED
  BY <1>1, <1>2, <1>3, KeepsFolders

\* FolderInv holds at the start.
LEMMA InitFolders ==
  ASSUME Init
  PROVE  FolderInv
<1>1. \A q \in Posts : ~Opened(q)
  BY DEF Init, Opened, WorkerHolds
<1> QED
  BY <1>1 DEF Init, FolderInv

\* Every step preserves FolderInv.
LEMMA NextFolders ==
  ASSUME FilesAreSaved, Inv, FolderInv, [Next]_vars
  PROVE  FolderInv'
<1>1. CASE UNCHANGED vars
  <2>1. UNCHANGED <<hpc, hpost, queue, wpc, wpost, disk, torn, recId, folder>>
    BY <1>1 DEF vars
  <2>2. \A q \in Posts : Opened(q)' => Opened(q)
    BY <2>1 DEF Opened, WorkerHolds
  <2>3. \A n : Writing(n) => Writing(n)'
    BY <2>1 DEF Writing
  <2> QED
    BY <2>1, <2>2, <2>3, KeepsFolders
<1>2. CASE \E t \in HttpThreads, p \in Posts, c \in Configs : Post(t, p, c)
  BY <1>2, PostFolders
<1>3. CASE \E t \in HttpThreads : HttpStep(t)
  BY <1>3, AssignFolders, LinkFolders, OpenNewFolders, WriteNewFolders, SaveRowFolders,
     EnqueueFolders DEF HttpStep
<1>4. CASE \E w \in Workers : WorkerStep(w)
  BY <1>4, WorkerFolders
<1>5. CASE StartUp \/ \E c \in Configs : EditConfig(c) \/ RemoveConfig(c)
  BY <1>5, OtherFolders
<1>6. CASE Crash
  BY <1>6, CrashFolders
<1> QED
  BY <1>1, <1>2, <1>3, <1>4, <1>5, <1>6 DEF Next

\* As long as files can be saved, a crawl that a worker executes has its folder,
\* or the id of a file that a crash left unreadable.
THEOREM RunningCrawlsHaveFolders ==
  ASSUME OneHttpThread, FilesAreSaved
  PROVE  Spec => []FolderIsKnown
<1>1. Init => FolderInv
  BY InitFolders
<1>2. Inv /\ FolderInv /\ [Next]_vars => FolderInv'
  BY NextFolders
<1>3. Inv /\ FolderInv => FolderIsKnown
  <2> SUFFICES ASSUME Inv, FolderInv, NEW w \in Workers, wpc[w] # "idle"
               PROVE  folder[wpost[w]] \/ recId[wpost[w]] \in torn
    BY DEF FolderIsKnown
  <2>1. wpost[w] \in Posts /\ Opened(wpost[w])
    BY WorkerFacts DEF Opened, WorkerHolds
  <2> QED
    BY <2>1 DEF FolderInv
<1> QED
  BY <1>1, <1>2, <1>3, HistoryInvariant, PTL DEF Spec

-----------------------------------------------------------------------------
(***************************************************************************)
(* The rows.  A step works on one record and leaves the others as they are.*)
(***************************************************************************)
\* What a step that works on another record does to this one.
Untouched(q) ==
  /\ Early(q)' => Early(q)
  /\ HasAgent(q) => HasAgent(q)'
  /\ status'[q] = status[q]
  /\ FileDone(q)' => FileDone(q)
  /\ q \in Listed' => q \in Listed
  /\ q \in cut => q \in cut'
  /\ Done(q) /\ HasRow(q) => HasRow(q)'

\* A step that touches one record only, and keeps its part of RowInv.
LEMMA RowsKept ==
  ASSUME RowInv, NEW p \in Posts, \A q \in Posts : q # p => Untouched(q),
         Early(p)' => status'[p] # "success" /\ ~FileDone(p)',
         Done(p)' => HasAgent(p)' \/ p \in cut' \/ HasRow(p)'
  PROVE  RowInv'
<1> SUFFICES ASSUME NEW q \in Posts
             PROVE  /\ Early(q)' => status'[q] # "success" /\ ~FileDone(q)'
                    /\ Done(q)' => HasAgent(q)' \/ q \in cut' \/ HasRow(q)'
  BY DEF RowInv
<1>1. CASE q = p
  BY <1>1
<1>2. CASE q # p
  <2>1. Untouched(q)
    BY <1>2
  <2>2. Done(q)' => Done(q)
    BY <2>1 DEF Untouched, Done
  <2> QED
    BY <2>1, <2>2 DEF Untouched, RowInv
<1> QED
  BY <1>1, <1>2

\* A step that touches no record preserves RowInv.
LEMMA RowsSame ==
  ASSUME RowInv, \A q \in Posts : Untouched(q)
  PROVE  RowInv'
<1> SUFFICES ASSUME NEW q \in Posts
             PROVE  /\ Early(q)' => status'[q] # "success" /\ ~FileDone(q)'
                    /\ Done(q)' => HasAgent(q)' \/ q \in cut' \/ HasRow(q)'
  BY DEF RowInv
<1>1. Untouched(q)
  OBVIOUS
<1>2. Done(q)' => Done(q)
  BY <1>1 DEF Untouched, Done
<1> QED
  BY <1>1, <1>2 DEF Untouched, RowInv

\* Saving p says nothing new of the others, and of p what its status says.
LEMMA FilesOfOthers ==
  ASSUME Inv, NEW p \in Posts, UNCHANGED disk \/ OpenFile(p) \/ WriteFile(p),
         NEW q \in Posts, q # p
  PROVE  FileDone(q)' => FileDone(q)
<1>1. CASE UNCHANGED disk
  BY <1>1 DEF FileDone, Readable
<1>2. CASE OpenFile(p)
  <2>1. /\ \A n : n \in Readable' <=> n \in Readable /\ n # recId[p]
        /\ \A n \in Readable' : disk'[n] = disk[n]
    BY <1>2, OpenedFile
  <2> QED
    BY <2>1 DEF FileDone
<1>3. CASE WriteFile(p)
  <2>1. /\ \A n : n \in Readable' <=> n \in Readable \/ n = recId[p]
        /\ \A n \in Readable' : n # recId[p] => disk'[n] = disk[n]
        /\ disk'[recId[p]].owner = p
    BY <1>3, WrittenFile
  <2> QED
    BY <2>1 DEF FileDone
<1> QED
  BY <1>1, <1>2, <1>3

\* A save adds no success to the files but the one it writes.
LEMMA OwnFile ==
  ASSUME Inv, NEW p \in Posts
  PROVE  /\ UNCHANGED disk \/ OpenFile(p) => (FileDone(p)' => FileDone(p))
         /\ WriteFile(p) /\ status[p] # "success" => ~FileDone(p)'
<1>1. UNCHANGED disk => (FileDone(p)' => FileDone(p))
  BY DEF FileDone, Readable
<1>2. ASSUME OpenFile(p) PROVE FileDone(p)' => FileDone(p)
  <2>1. /\ \A n : n \in Readable' <=> n \in Readable /\ n # recId[p]
        /\ \A n \in Readable' : disk'[n] = disk[n]
    BY <1>2, OpenedFile
  <2> QED
    BY <2>1 DEF FileDone
<1>3. ASSUME WriteFile(p), status[p] # "success" PROVE ~FileDone(p)'
  <2>1. /\ \A n : n \in Readable' <=> n \in Readable \/ n = recId[p]
        /\ \A n \in Readable' : n # recId[p] => disk'[n] = disk[n]
        /\ disk'[recId[p]].status = status[p]
    BY <1>3, WrittenFile
  <2>2. \A n \in Readable : n # recId[p] => disk[n].owner # p
    BY DEF Inv, IdInv
  <2> QED
    BY <1>3, <2>1, <2>2 DEF FileDone
<1> QED
  BY <1>1, <1>2, <1>3

\* A row that is put for a record of the list is not another record's.
LEMMA RowsOfOthers ==
  ASSUME Inv, NEW p \in Listed, NEW r, kb' = Put(kb, recId[p], r), UNCHANGED recId,
         NEW q \in Posts, q # p, Done(q), HasRow(q)
  PROVE  HasRow(q)'
<1>1. recId[q] # recId[p]
  <2>1. CASE q \in Listed
    BY <2>1, SameId DEF Inv
  <2>2. CASE FileDone(q)
    <3>1. PICK n \in Readable : disk[n].owner = q
      BY <2>2 DEF FileDone
    <3>2. recId[q] = n
      BY <3>1 DEF Inv, IdInv
    <3> QED
      BY <3>1, <3>2 DEF Inv, FilesAreNotShared
  <2> QED
    BY <2>1, <2>2 DEF Done
<1>2. recId[q] \in DOMAIN kb' /\ kb'[recId[q]] = kb[recId[q]]
  BY <1>1 DEF Put, HasRow
<1> QED
  BY <1>2 DEF HasRow

-----------------------------------------------------------------------------
(***************************************************************************)
(* Workers and the rows.                                                   *)
(***************************************************************************)
\* A worker changes only its own record; while the crawl is not at its end
\* that is no success, and it leaves a success only with its row.
LEMMA WorkerRows ==
  ASSUME Inv, RowInv, NEW w \in Workers, wpc[w] # "idle",
         NEW p \in Posts, p = wpost[w], NEW l, wpc' = [wpc EXCEPT ![w] = l],
         UNCHANGED <<crawlList, recId, hpc, hpost, queue, wpost, cut>>,
         \A q \in Posts : q # p => status'[q] = status[q],
         UNCHANGED disk \/ OpenFile(p) \/ WriteFile(p),
         UNCHANGED kb \/ kb' = Put(kb, recId[p], [owner |-> p, final |-> TRUE]),
         l \notin Closing \cup {"idle"} => status'[p] # "success" /\ ~FileDone(p)',
         l = "idle" => (status'[p] # "success" /\ ~FileDone(p)') \/ HasRow(p)'
  PROVE  RowInv'
<1>1. \A v \in Workers : wpc'[v] = IF v = w THEN l ELSE wpc[v]
  BY DEF Inv, TypeOK
<1>2. Listed' = Listed /\ p \in Listed
  BY WorkerFacts DEF Listed
<1>3. \A t \in HttpThreads, q \in Posts : HttpHolds(t, q)' <=> HttpHolds(t, q)
  BY DEF HttpHolds
<1>4. \A v \in Workers, q \in Posts :
        v # w => (WorkerHolds(v, q)' <=> WorkerHolds(v, q)) /\ wpc'[v] = wpc[v]
  BY <1>1 DEF WorkerHolds
<1>5. \A q \in Posts : (WorkerHolds(w, q) <=> q = p) /\ (WorkerHolds(w, q)' <=> l # "idle" /\ q = p)
  BY <1>1 DEF WorkerHolds
<1>6. ASSUME NEW q \in Posts, q # p PROVE Untouched(q)
  <2>1. Early(q)' => Early(q)
    BY <1>3, <1>4, <1>5, <1>6 DEF Early
  <2>2. HasAgent(q) => HasAgent(q)'
    BY <1>3, <1>4, <1>5, <1>6 DEF HasAgent
  <2>3. FileDone(q)' => FileDone(q)
    BY <1>6, FilesOfOthers
  <2>4. Done(q) /\ HasRow(q) => HasRow(q)'
    <3>1. CASE UNCHANGED kb
      BY <3>1 DEF HasRow
    <3>2. CASE kb' = Put(kb, recId[p], [owner |-> p, final |-> TRUE])
      BY <1>2, <1>6, <3>2, RowsOfOthers
    <3> QED
      BY <3>1, <3>2
  <2> QED
    BY <1>2, <1>6, <2>1, <2>2, <2>3, <2>4 DEF Untouched
<1>7. Early(p)' => l \notin Closing \cup {"idle"}
  <2>1. /\ \A t \in HttpThreads : ~HttpHolds(t, p)
        /\ \A i \in DOMAIN queue : queue[i] # p
        /\ \A v \in Workers : WorkerHolds(v, p) => v = w
    BY <1>5 DEF Inv, AtMostOneAgent
  <2> QED
    BY <1>1, <1>3, <1>4, <1>5, <2>1 DEF Early
<1>8. l # "idle" => HasAgent(p)'
  BY <1>5 DEF HasAgent
<1>9. Done(p)' => HasAgent(p)' \/ HasRow(p)'
  BY <1>8 DEF Done
<1> QED
  BY <1>6, <1>7, <1>9, RowsKept

\* The steps that neither save anything nor set the status.
LEMMA PlainRows ==
  ASSUME Inv, RowInv, NEW w \in Workers,
         LookUp(w) \/ Build(w) \/ Announce(w) \/ Return(w) \/ Reload(w) \/ UpdateConfig(w)
  PROVE  RowInv'
<1>1. /\ wpc[w] \notin Closing \cup {"idle"}
      /\ UNCHANGED <<crawlList, recId, hpc, hpost, queue, cut, status, disk, kb>>
  BY DEF LookUp, Build, Announce, Return, Reload, UpdateConfig, Closing
<1>2. GoesOn(w) /\ UNCHANGED wpost
  BY WorkerFrame DEF WorkerStep, Take, LookUp, Build, Announce, Return, Reload, UpdateConfig
<1>3. PICK l : wpc' = [wpc EXCEPT ![w] = l]
  BY <1>2 DEF GoesOn, Goto
<1>4. PICK p \in Posts : p = wpost[w]
  BY <1>1, WorkerFacts
<1>5. Early(p)
  BY <1>1, <1>4 DEF Early, WorkerHolds
<1>6. status'[p] # "success" /\ ~FileDone(p)'
  BY <1>1, <1>5, OwnFile DEF RowInv
<1> QED
  BY <1>1, <1>2, <1>3, <1>4, <1>6, WorkerRows

\* The crawl initializes: an early record stays one.
LEMMA InitializeRows ==
  ASSUME Inv, RowInv, NEW w \in Workers, Initialize(w)
  PROVE  RowInv'
<1>1. PICK p \in Posts : p = wpost[w]
  BY WorkerFacts DEF Initialize
<1>2. /\ wpc[w] = "init" /\ status' = [status EXCEPT ![p] = "initializing"]
      /\ UNCHANGED <<crawlList, recId, hpc, hpost, queue, wpost, cut, disk, kb>>
      /\ Goto(w, "build") \/ Goto(w, "fail")
  BY <1>1 DEF Initialize
<1>3. PICK l \in {"build", "fail"} : wpc' = [wpc EXCEPT ![w] = l]
  BY <1>2 DEF Goto
<1>4. \A q \in Posts : status'[q] = IF q = p THEN "initializing" ELSE status[q]
  BY <1>2 DEF Inv, TypeOK
<1>5. Early(p)
  BY <1>1, <1>2 DEF Early, WorkerHolds, Closing
<1>6. status'[p] # "success" /\ ~FileDone(p)'
  BY <1>2, <1>4, <1>5, OwnFile DEF RowInv
<1> QED
  BY <1>1, <1>2, <1>3, <1>4, <1>6, WorkerRows

\* A crawl starts, succeeds or fails: the worker still has the record.
LEMMA StatusRows ==
  ASSUME Inv, RowInv, FilesAreSaved, NEW w \in Workers, Start(w) \/ Succeed(w) \/ Fail(w)
  PROVE  RowInv'
<1>1. PICK p \in Posts : p = wpost[w]
  BY WorkerFacts DEF Start, Succeed, Fail
<1>2. PICK s : /\ status' = [status EXCEPT ![p] = s]
               /\ OpenFile(p)
               /\ \/ Goto(w, "writeSuccess") \/ Goto(w, "writeFailure")
                  \/ wpc[w] = "start" /\ s = "running" /\ Goto(w, "writeRunning")
  BY <1>1 DEF Start, Succeed, Fail, SetStatus, FilesAreSaved
<1>3. /\ wpc[w] # "idle"
      /\ UNCHANGED <<crawlList, recId, hpc, hpost, queue, wpost, cut, kb>>
  BY DEF Start, Succeed, Fail, SetStatus
<1>4. \A q \in Posts : status'[q] = IF q = p THEN s ELSE status[q]
  BY <1>2 DEF Inv, TypeOK
<1>5. CASE Goto(w, "writeSuccess") \/ Goto(w, "writeFailure")
  <2>1. PICK l \in {"writeSuccess", "writeFailure"} : wpc' = [wpc EXCEPT ![w] = l]
    BY <1>5 DEF Goto
  <2>2. l \in Closing /\ l # "idle"
    BY DEF Closing
  <2> QED
    BY <1>1, <1>2, <1>3, <1>4, <2>1, <2>2, WorkerRows
<1>6. CASE wpc[w] = "start" /\ s = "running" /\ Goto(w, "writeRunning")
  <2>1. Early(p)
    BY <1>1, <1>6 DEF Early, WorkerHolds, Closing
  <2>2. status'[p] # "success" /\ ~FileDone(p)'
    BY <1>2, <1>4, <1>6, <2>1, OwnFile DEF RowInv
  <2>3. wpc' = [wpc EXCEPT ![w] = "writeRunning"]
    BY <1>6 DEF Goto
  <2> QED
    BY <1>1, <1>2, <1>3, <1>4, <2>2, <2>3, WorkerRows
<1> QED
  BY <1>2, <1>5, <1>6

\* The file of a worker's record.
LEMMA WriteRows ==
  ASSUME Inv, RowInv, FilesAreSaved, NEW w \in Workers, Write(w)
  PROVE  RowInv'
<1>1. wpc[w] \in Writes /\ wpc[w] # "idle"
  BY DEF Write, AfterWrite, Writes
<1>2. PICK p \in Posts : p = wpost[w]
  BY <1>1, WorkerFacts
<1>3. /\ WriteFile(p) /\ wpc' = [wpc EXCEPT ![w] = AfterWrite[wpc[w]]]
      /\ UNCHANGED <<crawlList, recId, status, hpc, hpost, queue, wpost, cut, kb>>
  BY <1>2 DEF Write, FilesAreSaved, Goto
<1>4. CASE wpc[w] = "writeRunning"
  <2>1. Early(p)
    BY <1>1, <1>2, <1>4 DEF Early, WorkerHolds, Closing
  <2>2. status'[p] # "success" /\ ~FileDone(p)'
    BY <1>3, <2>1, OwnFile DEF RowInv
  <2> QED
    BY <1>1, <1>2, <1>3, <2>2, WorkerRows
<1>5. CASE wpc[w] = "writeSuccess"
  <2>1. AfterWrite[wpc[w]] \in Closing /\ AfterWrite[wpc[w]] # "idle"
    BY <1>5 DEF AfterWrite, Closing
  <2> QED
    BY <1>1, <1>2, <1>3, <2>1, WorkerRows
<1>6. CASE wpc[w] = "writeFailure"
  <2>1. status[p] = "failure"
    BY <1>2, <1>6 DEF Inv, StatusInv
  <2>2. status'[p] # "success" /\ ~FileDone(p)'
    BY <1>3, <2>1, OwnFile
  <2> QED
    BY <1>1, <1>2, <1>3, <2>2, WorkerRows
<1> QED
  BY <1>1, <1>4, <1>5, <1>6 DEF Writes

\* The row of a worker's record becomes final.
LEMMA UpdateRowRows ==
  ASSUME Inv, RowInv, NEW w \in Workers, UpdateRow(w)
  PROVE  RowInv'
<1>1. PICK p \in Posts : p = wpost[w]
  BY WorkerFacts DEF UpdateRow
<1>2. /\ wpc[w] = "row"
      /\ UNCHANGED <<crawlList, recId, status, hpc, hpost, queue, wpost, cut, disk>>
      /\ \/ /\ kb' = Put(kb, recId[p], [owner |-> p, final |-> TRUE])
            /\ Goto(w, "idle") \/ Goto(w, "fail")
         \/ Goto(w, "fail") /\ UNCHANGED kb
  BY <1>1 DEF UpdateRow, AfterBadRow
<1>3. CASE Goto(w, "fail")
  <2>1. wpc' = [wpc EXCEPT ![w] = "fail"]
    BY <1>3 DEF Goto
  <2> QED
    BY <1>1, <1>2, <2>1, WorkerRows DEF Closing
<1>4. CASE Goto(w, "idle") /\ kb' = Put(kb, recId[p], [owner |-> p, final |-> TRUE])
  <2>1. wpc' = [wpc EXCEPT ![w] = "idle"]
    BY <1>4 DEF Goto
  <2>2. HasRow(p)'
    <3>1. recId'[p] = recId[p] /\ recId[p] \in DOMAIN kb'
      BY <1>2, <1>4 DEF Put
    <3>2. kb'[recId[p]] = [owner |-> p, final |-> TRUE]
      BY <1>4, <3>1 DEF Put
    <3> QED
      BY <3>1, <3>2 DEF HasRow
  <2> QED
    BY <1>1, <1>2, <1>4, <2>1, <2>2, WorkerRows
<1> QED
  BY <1>2, <1>3, <1>4

\* A worker takes a task.
LEMMA TakeRows ==
  ASSUME Inv, RowInv, NEW w \in Workers, Take(w)
  PROVE  RowInv'
<1>1. /\ wpc[w] = "idle" /\ queue # <<>> /\ queue' = Tail(queue)
      /\ wpc' = [wpc EXCEPT ![w] = "lookup"]
      /\ wpost' = [wpost EXCEPT ![w] = Head(queue)]
      /\ UNCHANGED <<crawlList, recId, status, hpc, hpost, cut, disk, kb>>
  BY DEF Take, Goto, Dequeued
<1>2. queue \in Seq(Posts)
  BY DEF Inv, TypeOK
<1>3. /\ DOMAIN queue = 1 .. Len(queue) /\ Len(queue) \in Nat /\ 1 \in DOMAIN queue
      /\ queue[1] = Head(queue)
  BY <1>1, <1>2, HeadTailProperties, EmptySeq, LenProperties
<1>4. \A q : (\E i \in DOMAIN queue' : queue'[i] = q) => \E i \in DOMAIN queue : queue[i] = q
  <2>1. /\ Len(queue') = Len(queue) - 1 /\ DOMAIN queue' = 1 .. Len(queue')
        /\ \A i \in 1 .. Len(queue') : queue'[i] = queue[i + 1]
    BY <1>1, <1>2, HeadTailProperties, LenProperties
  <2>2. \A i \in 1 .. Len(queue') : i + 1 \in DOMAIN queue
    BY <1>3, <2>1
  <2> QED
    BY <2>1, <2>2
<1>5. \A v \in Workers : /\ wpc'[v] = IF v = w THEN "lookup" ELSE wpc[v]
                         /\ wpost'[v] = IF v = w THEN Head(queue) ELSE wpost[v]
  BY <1>1 DEF Inv, TypeOK
<1>6. ASSUME NEW q \in Posts, Early(q)' PROVE Early(q)
  <2>1. CASE \E t \in HttpThreads : HttpHolds(t, q)'
    BY <1>1, <2>1 DEF HttpHolds, Early
  <2>2. CASE \E i \in DOMAIN queue' : queue'[i] = q
    BY <1>4, <2>2 DEF Early
  <2>3. CASE \E v \in Workers : WorkerHolds(v, q)' /\ wpc'[v] \notin Closing
    BY <1>3, <1>5, <2>3 DEF WorkerHolds, Early
  <2> QED
    BY <1>6, <2>1, <2>2, <2>3 DEF Early
<1>7. ASSUME NEW q \in Posts PROVE Untouched(q)
  <2>1. HasAgent(q) => HasAgent(q)'
    BY TakeAgents
  <2> QED
    BY <1>1, <1>6, <2>1 DEF Untouched, FileDone, Readable, Listed, HasRow
<1> QED
  BY <1>7, RowsSame

\* Every step of a worker preserves RowInv.
LEMMA WorkerStepRows ==
  ASSUME Inv, RowInv, FilesAreSaved, NEW w \in Workers, WorkerStep(w)
  PROVE  RowInv'
BY TakeRows, PlainRows, InitializeRows, StatusRows, WriteRows, UpdateRowRows DEF WorkerStep

-----------------------------------------------------------------------------
(***************************************************************************)
(* HTTP threads and the rows.                                              *)
(***************************************************************************)
\* An HTTP thread changes only its own record, which is no success.
LEMMA HttpRows ==
  ASSUME Inv, RowInv, NEW t \in HttpThreads, hpc[t] # "idle",
         NEW p \in Posts, p = hpost[t], NEW l, hpc' = [hpc EXCEPT ![t] = l],
         UNCHANGED <<wpc, wpost, hpost, cut>>,
         \A q \in Posts : q # p =>
           /\ status'[q] = status[q]
           /\ recId'[q] = recId[q]
           /\ (\E i \in DOMAIN queue' : queue'[i] = q) <=> (\E i \in DOMAIN queue : queue[i] = q)
           /\ q \in Listed' => q \in Listed
           /\ HasRow(q) => HasRow(q)',
         UNCHANGED disk \/ OpenFile(p) \/ WriteFile(p),
         status'[p] # "success"
  PROVE  RowInv'
<1>1. \A u \in HttpThreads : hpc'[u] = IF u = t THEN l ELSE hpc[u]
  BY DEF Inv, TypeOK
<1>2. \A q \in Posts : q # p => \A u \in HttpThreads : HttpHolds(u, q)' <=> HttpHolds(u, q)
  BY <1>1 DEF HttpHolds
<1>3. \A q \in Posts, w \in Workers : WorkerHolds(w, q)' <=> WorkerHolds(w, q)
  BY DEF WorkerHolds
<1>4. Early(p)
  BY DEF Early, HttpHolds
<1>5. status[p] # "success" /\ ~FileDone(p)
  BY <1>4 DEF RowInv
<1>6. ~FileDone(p)'
  BY <1>5, OwnFile
<1>7. ASSUME NEW q \in Posts, q # p PROVE Untouched(q)
  <2>1. Early(q)' => Early(q)
    BY <1>2, <1>3, <1>7 DEF Early
  <2>2. HasAgent(q) => HasAgent(q)'
    BY <1>2, <1>3, <1>7 DEF HasAgent
  <2>3. FileDone(q)' => FileDone(q)
    BY <1>7, FilesOfOthers
  <2> QED
    BY <1>7, <2>1, <2>2, <2>3 DEF Untouched
<1>8. ~Done(p)'
  BY <1>6 DEF Done
<1> QED
  BY <1>6, <1>7, <1>8, RowsKept

\* A new record is an early one, and no success.
LEMMA AssignRows ==
  ASSUME Inv, RowInv, NEW t \in HttpThreads, AssignId(t)
  PROVE  RowInv'
<1>1. PICK p \in Posts : p = hpost[t]
  BY HttpFacts DEF AssignId
<1>2. /\ hpc[t] = "assign" /\ recId' = [recId EXCEPT ![p] = seen[t] + 1]
      /\ hpc' = [hpc EXCEPT ![t] = "idle"] \/ hpc' = [hpc EXCEPT ![t] = "link"]
      /\ UNCHANGED <<crawlList, status, disk, queue, wpc, wpost, hpost, cut, kb>>
  BY <1>1 DEF AssignId
<1>3. PICK l : hpc' = [hpc EXCEPT ![t] = l]
  BY <1>2
<1>4. \A q \in Posts : q # p => recId'[q] = recId[q]
  BY <1>2 DEF Inv, TypeOK
<1>5. Listed' = Listed
  BY <1>2 DEF Listed
<1>6. \A q \in Posts : q # p => (HasRow(q) => HasRow(q)')
  BY <1>2, <1>4 DEF HasRow
<1>7. status'[p] # "success"
  BY <1>1, <1>2 DEF RowInv, Early, HttpHolds
<1> QED
  BY <1>1, <1>2, <1>3, <1>4, <1>5, <1>6, <1>7, HttpRows

\* The list with one more record in front, as a function.
LEMMA ListAsFunction ==
  ASSUME crawlList \in Seq(Posts), NEW p \in Posts
  PROVE  Cons(p, crawlList) =
           [i \in 1 .. Len(crawlList) + 1 |-> IF i = 1 THEN p ELSE crawlList[i - 1]]
  BY ConsFacts

\* The record of the thread is the only one that gets on the list.
LEMMA LinkedList ==
  ASSUME Inv, NEW t \in HttpThreads, Link(t), NEW p \in Posts, p = hpost[t]
  PROVE  \A q \in Posts : q # p => (q \in Listed' => q \in Listed)
<1>1. crawlList' = Cons(p, crawlList)
  <2>1. crawlList' = Cons(p, copy[t]) /\ hpc[t] = "link"
    BY DEF Link
  <2>2. copy[t] = crawlList
    BY <2>1 DEF Inv, HttpInv
  <2> QED
    BY <2>1, <2>2, Zenon
<1>2. crawlList \in Seq(Posts)
  BY DEF Inv, TypeOK
<1>3. crawlList' = [i \in 1 .. Len(crawlList) + 1 |-> IF i = 1 THEN p ELSE crawlList[i - 1]]
  <2>1. Cons(p, crawlList) = [i \in 1 .. Len(crawlList) + 1 |-> IF i = 1 THEN p ELSE crawlList[i - 1]]
    BY <1>2, ListAsFunction, Zenon
  <2> QED
    BY <1>1, <2>1, Zenon
<1>4. Len(crawlList) \in Nat /\ DOMAIN crawlList = 1 .. Len(crawlList)
  BY <1>2, LenProperties
<1> SUFFICES ASSUME NEW q \in Posts, q # p, q \in Listed' PROVE q \in Listed
  OBVIOUS
<1>5. PICK i \in 1 .. Len(crawlList) + 1 : crawlList'[i] = q
  BY <1>3 DEF Listed, ToSet
<1>6. i # 1 /\ i - 1 \in DOMAIN crawlList /\ crawlList[i - 1] = q
  BY <1>3, <1>4, <1>5
<1> QED
  BY <1>6 DEF Listed, ToSet

\* Listing and saving a new record preserve RowInv.
LEMMA SavingRows ==
  ASSUME Inv, RowInv, FilesAreSaved, NEW t \in HttpThreads,
         Link(t) \/ OpenNew(t) \/ WriteNew(t)
  PROVE  RowInv'
<1>1. hpc[t] # "idle" /\ UNCHANGED <<recId, status, queue, wpc, wpost, hpost, cut, kb>>
  BY DEF Link, OpenNew, WriteNew
<1>2. PICK p \in Posts : p = hpost[t]
  BY <1>1, HttpFacts
<1>3. PICK l : hpc' = [hpc EXCEPT ![t] = l]
  BY DEF Link, OpenNew, WriteNew
<1>4. UNCHANGED disk \/ OpenFile(p) \/ WriteFile(p)
  BY <1>2 DEF Link, OpenNew, WriteNew
<1>5. \A q \in Posts : q # p => (q \in Listed' => q \in Listed)
  <2>1. CASE Link(t)
    BY <1>2, <2>1, LinkedList
  <2>2. CASE OpenNew(t) \/ WriteNew(t)
    BY <2>2 DEF OpenNew, WriteNew, Listed
  <2> QED
    BY <2>1, <2>2
<1>6. \A q \in Posts : HasRow(q) => HasRow(q)'
  BY <1>1 DEF HasRow
<1>7. status'[p] # "success"
  BY <1>1, <1>2 DEF RowInv, Early, HttpHolds
<1> QED
  BY <1>1, <1>2, <1>3, <1>4, <1>5, <1>6, <1>7, HttpRows

\* An insert never takes the place of a row.
LEMMA SaveRowRows ==
  ASSUME Inv, RowInv, NEW t \in HttpThreads, SaveRow(t)
  PROVE  RowInv'
<1>1. PICK p \in Posts : p = hpost[t]
  BY HttpFacts DEF SaveRow
<1>2. /\ hpc[t] = "row" /\ hpc' = [hpc EXCEPT ![t] = "queue"]
      /\ UNCHANGED <<crawlList, recId, status, disk, queue, wpc, wpost, hpost, cut>>
      /\ \/ recId[p] \notin DOMAIN kb /\ kb' = Put(kb, recId[p], [owner |-> p, final |-> FALSE])
         \/ UNCHANGED kb
  BY <1>1 DEF SaveRow
<1>3. Listed' = Listed
  BY <1>2 DEF Listed
<1>4. \A q \in Posts : HasRow(q) => HasRow(q)'
  <2>1. CASE UNCHANGED kb
    BY <1>2, <2>1 DEF HasRow
  <2>2. CASE recId[p] \notin DOMAIN kb /\ kb' = Put(kb, recId[p], [owner |-> p, final |-> FALSE])
    <3>1. \A n \in DOMAIN kb : n \in DOMAIN kb' /\ kb'[n] = kb[n]
      BY <2>2 DEF Put
    <3> QED
      BY <1>2, <3>1 DEF HasRow
  <2> QED
    BY <1>2, <2>1, <2>2
<1>5. status'[p] # "success"
  BY <1>1, <1>2 DEF RowInv, Early, HttpHolds
<1> QED
  BY <1>1, <1>2, <1>3, <1>4, <1>5, HttpRows

\* Handing the record to the pool preserves RowInv.
LEMMA EnqueueRows ==
  ASSUME Inv, RowInv, NEW t \in HttpThreads, Enqueue(t)
  PROVE  RowInv'
<1>1. PICK p \in Posts : p = hpost[t]
  BY HttpFacts DEF Enqueue
<1>2. /\ hpc[t] = "queue" /\ hpc' = [hpc EXCEPT ![t] = "idle"]
      /\ status' = [status EXCEPT ![p] = "queued"]
      /\ queue' = Append(queue, p) \/ UNCHANGED queue
      /\ UNCHANGED <<crawlList, recId, disk, wpc, wpost, hpost, cut, kb>>
  BY <1>1 DEF Enqueue
<1>3. Listed' = Listed
  BY <1>2 DEF Listed
<1>4. \A q \in Posts : status'[q] = IF q = p THEN "queued" ELSE status[q]
  BY <1>2 DEF Inv, TypeOK
<1>5. \A q \in Posts : HasRow(q) => HasRow(q)'
  BY <1>2 DEF HasRow
<1>6. \A q : q # p => ((\E i \in DOMAIN queue' : queue'[i] = q)
                         <=> (\E i \in DOMAIN queue : queue[i] = q))
  <2>1. CASE queue' = Append(queue, p)
    BY <2>1, QueueGrows
  <2>2. CASE UNCHANGED queue
    BY <2>2
  <2> QED
    BY <1>2, <2>1, <2>2
<1>7. hpc[t] # "idle" /\ hpc' = [hpc EXCEPT ![t] = "idle"] /\ UNCHANGED <<wpc, wpost, hpost, cut>>
  BY <1>2
<1>8. \A q \in Posts : q # p =>
        /\ status'[q] = status[q]
        /\ recId'[q] = recId[q]
        /\ (\E i \in DOMAIN queue' : queue'[i] = q) <=> (\E i \in DOMAIN queue : queue[i] = q)
        /\ q \in Listed' => q \in Listed
        /\ HasRow(q) => HasRow(q)'
  <2> SUFFICES ASSUME NEW q \in Posts, q # p
               PROVE  /\ status'[q] = status[q]
                      /\ recId'[q] = recId[q]
                      /\ (\E i \in DOMAIN queue' : queue'[i] = q) <=> (\E i \in DOMAIN queue : queue[i] = q)
                      /\ q \in Listed' => q \in Listed
                      /\ HasRow(q) => HasRow(q)'
    OBVIOUS
  <2>1. status'[q] = status[q]
    BY <1>4
  <2>2. recId'[q] = recId[q]
    BY <1>2
  <2>3. (\E i \in DOMAIN queue' : queue'[i] = q) <=> (\E i \in DOMAIN queue : queue[i] = q)
    BY <1>6, Zenon
  <2>4. q \in Listed' => q \in Listed
    BY <1>3
  <2> QED
    BY <1>5, <2>1, <2>2, <2>3, <2>4, Zenon
<1>9. (UNCHANGED disk \/ OpenFile(p) \/ WriteFile(p)) /\ status'[p] # "success"
  BY <1>2, <1>4
<1> QED
  BY <1>1, <1>7, <1>8, <1>9, HttpRows

\* A request that arrives: no file and no status says anything of it.
LEMMA PostRows ==
  ASSUME Inv, RowInv, NEW t \in HttpThreads, NEW p \in Posts, NEW c \in Configs,
         Post(t, p, c)
  PROVE  RowInv'
<1>1. /\ hpc[t] = "idle" /\ status[p] = "none"
      /\ status' = [status EXCEPT ![p] = "idle"]
      /\ hpc' = [hpc EXCEPT ![t] = "assign"] /\ hpost' = [hpost EXCEPT ![t] = p]
      /\ UNCHANGED <<crawlList, recId, disk, queue, wpc, wpost, cut, kb>>
  BY DEF Post
<1>2. \A u \in HttpThreads, q \in Posts :
        HttpHolds(u, q)' <=> IF u = t THEN q = p ELSE HttpHolds(u, q)
  BY <1>1 DEF HttpHolds, Inv, TypeOK
<1>3. \A q \in Posts : ~HttpHolds(t, q)
  BY <1>1 DEF HttpHolds
<1>4. \A q \in Posts : status'[q] = IF q = p THEN "idle" ELSE status[q]
  BY <1>1 DEF Inv, TypeOK
<1>5. \A q \in Posts : FileDone(q)' <=> FileDone(q)
  BY <1>1 DEF FileDone, Readable
<1>6. ~FileDone(p)
  BY <1>1 DEF FileDone, Inv, BornInv
<1>7. ASSUME NEW q \in Posts, q # p PROVE Untouched(q)
  <2>1. Early(q)' => Early(q)
    BY <1>1, <1>2, <1>7 DEF Early, WorkerHolds
  <2>2. HasAgent(q) => HasAgent(q)'
    BY <1>1, <1>2, <1>3, <1>7 DEF HasAgent, WorkerHolds
  <2> QED
    BY <1>1, <1>4, <1>5, <1>7, <2>1, <2>2 DEF Untouched, Listed, HasRow
<1>8. status'[p] # "success" /\ ~FileDone(p)'
  BY <1>4, <1>5, <1>6
<1>9. ~Done(p)'
  BY <1>8 DEF Done
<1> QED
  BY <1>7, <1>8, <1>9, RowsKept

-----------------------------------------------------------------------------
(***************************************************************************)
(* Crashes, start-ups and clients, and the rows.                           *)
(***************************************************************************)
\* Whoever worked on a record when the server died is recorded in cut.
LEMMA CrashRows ==
  ASSUME Inv, RowInv, Crash
  PROVE  RowInv'
<1>1. /\ hpc' = [t \in HttpThreads |-> "idle"] /\ queue' = <<>> /\ crawlList' = <<>>
      /\ wpc' = [w \in Workers |-> "idle"]
      /\ cut' = cut \cup {p \in Posts : HasAgent(p)}
      /\ UNCHANGED <<recId, disk, kb>>
  BY DEF Crash
<1> SUFFICES ASSUME NEW q \in Posts
             PROVE  ~Early(q)' /\ (Done(q)' => q \in cut' \/ HasRow(q)')
  BY DEF RowInv
<1>2. ~Early(q)'
  BY <1>1 DEF Early, HttpHolds, WorkerHolds
<1>3. Done(q)' => FileDone(q)
  BY <1>1 DEF Done, FileDone, Readable, Listed, ToSet
<1>4. FileDone(q) => q \in cut' \/ HasRow(q)
  BY <1>1 DEF RowInv, Done
<1>5. HasRow(q)' <=> HasRow(q)
  BY <1>1 DEF HasRow
<1> QED
  BY <1>2, <1>3, <1>4, <1>5

\* The list, the status and the queue are as they were for all records.
LEMMA OtherRows ==
  ASSUME Inv, RowInv,
         UNCHANGED <<crawlList, status, recId, disk, hpc, hpost, queue, wpc, wpost, cut, kb>>
  PROVE  RowInv'
<1>1. \A q \in Posts : Untouched(q)
  BY DEF Untouched, Early, HasAgent, HttpHolds, WorkerHolds, FileDone, Readable, Listed, HasRow
<1> QED
  BY <1>1, RowsSame

\* A record is loaded as a success only if its file says so.
LEMMA LoadRows ==
  ASSUME Inv, RowInv, NEW n \in unread, LoadRecord(n)
  PROVE  RowInv'
<1>1. server = "loading"
      /\ UNCHANGED <<recId, disk, hpc, hpost, queue, wpc, wpost, cut, kb>>
  BY DEF LoadRecord
<1>2. CASE n \notin Readable
  <2>1. UNCHANGED <<crawlList, status>>
    BY <1>2 DEF LoadRecord, Readable, Inv, TypeOK
  <2> QED
    BY <1>1, <2>1, OtherRows
<1>3. CASE n \in Readable
  <2>1. PICK p \in Posts : p = disk[n].owner /\ p # Null
    BY <1>3 DEF Readable, Inv, TypeOK
  <2>2. \A q \in Posts : ~Early(q) /\ ~HasAgent(q)
    BY <1>1 DEF Inv, ServerInv, Quiet, Early, HasAgent, HttpHolds, WorkerHolds
  <2>3. \A q \in Posts : (Early(q)' <=> Early(q)) /\ (FileDone(q)' <=> FileDone(q))
                         /\ (HasRow(q)' <=> HasRow(q))
    BY <1>1 DEF Early, HttpHolds, WorkerHolds, FileDone, Readable, HasRow
  <2>4. status' = [status EXCEPT ![p] = LoadedStatus(disk[n].status)]
    BY <2>1 DEF LoadRecord
  <2>5. \A q \in Posts : status'[q] = IF q = p THEN LoadedStatus(disk[n].status) ELSE status[q]
    BY <2>4 DEF Inv, TypeOK
  <2>6. Listed' \subseteq Listed \cup {p}
    BY <1>1, <1>3, <2>1, LoadedList
  <2>7. \A q \in Posts : q # p => Untouched(q)
    BY <1>1, <2>2, <2>3, <2>5, <2>6 DEF Untouched
  <2>8. Done(p)' => FileDone(p)
    BY <1>3, <2>1, <2>3, <2>5 DEF Done, LoadedStatus, FileDone, Terminal
  <2>9. Done(p)' => p \in cut' \/ HasRow(p)'
    BY <1>1, <2>2, <2>3, <2>8 DEF RowInv, Done
  <2> QED
    BY <2>2, <2>3, <2>7, <2>9, RowsKept
<1> QED
  BY <1>2, <1>3

\* RowInv holds at the start.
LEMMA InitRows ==
  ASSUME Init
  PROVE  RowInv
<1>1. \A q \in Posts : ~Early(q)
  BY DEF Init, Early, HttpHolds, WorkerHolds
<1>2. \A q \in Posts : ~Done(q)
  BY DEF Init, Done, FileDone, Readable, Listed, ToSet
<1> QED
  BY <1>1, <1>2 DEF RowInv

\* Every step preserves RowInv.
LEMMA NextRows ==
  ASSUME FilesAreSaved, Inv, RowInv, [Next]_vars
  PROVE  RowInv'
<1>1. CASE UNCHANGED vars
  BY <1>1, OtherRows DEF vars
<1>2. CASE \E t \in HttpThreads, p \in Posts, c \in Configs : Post(t, p, c)
  BY <1>2, PostRows
<1>3. CASE \E t \in HttpThreads : HttpStep(t)
  BY <1>3, AssignRows, SavingRows, SaveRowRows, EnqueueRows DEF HttpStep
<1>4. CASE \E w \in Workers : WorkerStep(w)
  BY <1>4, WorkerStepRows
<1>5. CASE \E c \in Configs : EditConfig(c) \/ RemoveConfig(c)
  BY <1>5, OtherRows DEF EditConfig, RemoveConfig
<1>6. CASE Crash
  BY <1>6, CrashRows
<1>7. CASE StartUp
  BY <1>7, LoadRows, OtherRows DEF StartUp, Boot, FinishLoad
<1> QED
  BY <1>1, <1>2, <1>3, <1>4, <1>5, <1>6, <1>7 DEF Next

\* As long as files can be saved, what is left as a success has its final row
\* in the knowledge base, unless a crash cut it short: a failing row turns it
\* into a failure, in memory and in its file.
THEOREM SuccessesHaveRows ==
  ASSUME OneHttpThread, FilesAreSaved
  PROVE  Spec => []SuccessHasRow
<1>1. Init => RowInv
  BY InitRows
<1>2. Inv /\ RowInv /\ [Next]_vars => RowInv'
  BY NextRows
<1>3. Inv /\ RowInv => SuccessHasRow
  <2> SUFFICES ASSUME Inv, RowInv, NEW p \in Listed,
                      status[p] = "success", ~HasAgent(p), p \notin cut
               PROVE  HasRow(p)
    BY DEF SuccessHasRow, HasRow
  <2>1. p \in Posts /\ Done(p)
    BY ListedArePosts DEF Inv, Done
  <2> QED
    BY <2>1 DEF RowInv
<1> QED
  BY <1>1, <1>2, <1>3, HistoryInvariant, PTL DEF Spec
=============================================================================
