-------------------------- MODULE CrawlHistory_proofs --------------------------
(***************************************************************************)
(* Theorems about CrawlHistory, for every number of requests, workers,     *)
(* configurations, edits and crashes and every combination of faults, when *)
(* one HTTP thread at a time creates records.  With two of them the ids    *)
(* are not unique, and the theorems on the list do not hold.               *)
(***************************************************************************)
EXTENDS CrawlHistory, SequenceTheorems, TLAPS

OneHttpThread == \A t, u \in HttpThreads : t = u

-----------------------------------------------------------------------------
(***************************************************************************)
(* The inductive invariant.                                                *)
(***************************************************************************)
\* A configuration and a record belong to a request that was made.
BornInv ==
  \A p \in Posts :
    /\ status[p] = "none" =>
         starts[p] = 0 /\ p \notin Listed /\ \A n \in Readable : disk[n].owner # p
    /\ status[p] # "none" => recConfig[p] \in Configs

\* The record of a file has the id of the file.
IdInv == \A n \in Readable : recId[disk[n].owner] = n

\* While the server is not up nobody works.  While it loads, the list begins
\* with the newest of the records loaded so far; then identity is as great.
Quiet ==
  /\ \A t \in HttpThreads : hpc[t] = "idle"
  /\ queue = <<>>
  /\ \A w \in Workers : wpc[w] = "idle"

ServerInv ==
  /\ server # "up" => Quiet /\ \A p \in Listed : status[p] \in Terminal
  /\ server = "down" => crawlList = <<>>
  /\ server = "loading" =>
       /\ \A p \in Listed : recId[p] \in Readable \ unread
       /\ \A n \in Readable \ unread : crawlList # <<>> /\ n <= recId[crawlList[1]]
  /\ server = "up" =>
       /\ \A p \in Listed : recId[p] <= identity
       /\ \A n \in Readable : n <= identity

\* The record that is being created is unknown to the others, and has the
\* greatest id, until it is linked.
NewRecord(p) == p \notin Listed /\ \A n \in Readable : disk[n].owner # p

GreatestId ==
  /\ \A q \in Listed : recId[q] < identity
  /\ \A n \in Readable : n < identity

HttpInv ==
  \A t \in HttpThreads :
    hpc[t] # "idle" =>
      /\ hpost[t] \in Posts
      /\ status[hpost[t]] # "none"
      /\ hpc[t] = "assign" => seen[t] = identity
      /\ hpc[t] \in {"assign", "link"} => NewRecord(hpost[t])
      /\ hpc[t] = "link" =>
           copy[t] = crawlList /\ recId[hpost[t]] = identity /\ GreatestId
      /\ hpc[t] \notin {"assign", "link"} => hpost[t] \in Listed

\* Only records of the list are submitted and executed.
PoolInv ==
  /\ \A i \in DOMAIN queue : queue[i] \in Listed
  /\ \A w \in Workers : wpc[w] # "idle" => wpost[w] \in Listed

\* After the crawl was started its record is with the worker that started it.
Late == {"call", "reload", "update", "succeed", "writeSuccess", "row", "fail",
         "writeFailure"}

StartInv ==
  \A p \in Posts :
    /\ starts[p] <= 1
    /\ starts[p] # 0 =>
         /\ \A t \in HttpThreads : ~HttpHolds(t, p)
         /\ \A i \in DOMAIN queue : queue[i] # p
         /\ \A w \in Workers : WorkerHolds(w, p) => wpc[w] \in Late

\* The status a worker has set stays until it is done with the record.
StatusInv ==
  \A w \in Workers :
    /\ wpc[w] = "writeFailure" => status[wpost[w]] = "failure"
    /\ wpc[w] \in {"writeSuccess", "row"} => status[wpost[w]] = "success"

Inv ==
  /\ TypeOK /\ BornInv /\ IdInv /\ ServerInv /\ HttpInv /\ PoolInv
  /\ NewestFirst /\ FilesAreNotShared /\ AtMostOneAgent /\ StartInv
  /\ StatusInv /\ ActiveHasAgent

USE DEF store, records, http, pool, confs, history

-----------------------------------------------------------------------------
(***************************************************************************)
(* Sequences.                                                              *)
(***************************************************************************)
LEMMA ConsFacts ==
  ASSUME NEW S, NEW s \in Seq(S), NEW e \in S
  PROVE  Cons(e, s) = [i \in 1 .. Len(s) + 1 |-> IF i = 1 THEN e ELSE s[i - 1]]
<1> DEFINE c == <<e>> \o s
<1>1. <<e>> \in Seq(S) /\ Len(<<e>>) = 1 /\ <<e>>[1] = e /\ Len(s) \in Nat
  BY LenProperties
<1>2. /\ c \in Seq(S) /\ Len(c) = Len(s) + 1
      /\ \A i \in 1 .. Len(s) + 1 : c[i] = IF i <= 1 THEN <<e>>[i] ELSE s[i - 1]
  BY <1>1, ConcatProperties
<1> HIDE DEF c
<1>3. c = [i \in 1 .. Len(s) + 1 |-> c[i]]
  BY <1>2, LenProperties
<1>4. \A i \in 1 .. Len(s) + 1 : c[i] = IF i = 1 THEN e ELSE s[i - 1]
  BY <1>1, <1>2
<1>5. c = Cons(e, s)
  BY DEF c, Cons
<1> QED
  BY <1>3, <1>4, <1>5

\* Append as a function.
LEMMA AppendFacts ==
  ASSUME NEW S, NEW s \in Seq(S), NEW e \in S
  PROVE  Append(s, e) = [i \in 1 .. Len(s) + 1 |-> IF i = Len(s) + 1 THEN e ELSE s[i]]
<1> DEFINE a == Append(s, e)
<1>1. Len(s) \in Nat
  BY LenProperties
<1>2. /\ a \in Seq(S) /\ Len(a) = Len(s) + 1
      /\ \A i \in 1 .. Len(s) : a[i] = s[i]
      /\ a[Len(s) + 1] = e
  BY AppendProperties
<1> HIDE DEF a
<1>3. a = [i \in 1 .. Len(s) + 1 |-> a[i]]
  BY <1>2, LenProperties
<1>4. \A i \in 1 .. Len(s) + 1 : a[i] = IF i = Len(s) + 1 THEN e ELSE s[i]
  BY <1>1, <1>2
<1> QED
  BY <1>3, <1>4 DEF a

\* InsertAt as a function.
LEMMA InsertFacts ==
  ASSUME NEW S, NEW s \in Seq(S), NEW e \in S, NEW i \in 1 .. Len(s)
  PROVE  InsertAt(s, i, e) =
           [j \in 1 .. Len(s) + 1 |->
             IF j < i THEN s[j] ELSE IF j = i THEN e ELSE s[j - 1]]
<1> DEFINE a == SubSeq(s, 1, i - 1)
           b == SubSeq(s, i, Len(s))
<1>1. Len(s) \in Nat /\ \A j \in 1 .. Len(s) : s[j] \in S
  BY LenProperties
<1>2. a \in Seq(S) /\ Len(a) = i - 1 /\ \A j \in 1 .. i - 1 : a[j] = s[j]
  <2>1. \A j \in 1 .. i - 1 : s[j] \in S
    BY <1>1
  <2> QED
    BY <1>1, <2>1, SubSeqProperties
<1>3. b \in Seq(S) /\ Len(b) = Len(s) - i + 1 /\ \A j \in 1 .. Len(s) - i + 1 : b[j] = s[i + j - 1]
  <2>1. \A j \in i .. Len(s) : s[j] \in S
    BY <1>1
  <2> QED
    BY <1>1, <2>1, SubSeqProperties
<1>4. <<e>> \in Seq(S) /\ Len(<<e>>) = 1 /\ <<e>>[1] = e
  OBVIOUS
<1> DEFINE c == a \o <<e>>
<1> HIDE DEF a, b
<1>5. /\ c \in Seq(S) /\ Len(c) = i /\ c[i] = e
      /\ \A j \in 1 .. i - 1 : c[j] = s[j]
  BY <1>1, <1>2, <1>4, ConcatProperties
<1> HIDE DEF c
<1>6. /\ c \o b \in Seq(S) /\ Len(c \o b) = Len(c) + Len(b)
      /\ \A j \in 1 .. Len(c) + Len(b) : (c \o b)[j] = IF j <= Len(c) THEN c[j] ELSE b[j - Len(c)]
  BY <1>3, <1>5, ConcatProperties
<1>7. InsertAt(s, i, e) = c \o b
  BY DEF InsertAt, a, b, c
<1> DEFINE d == c \o b
<1>8. /\ d \in Seq(S) /\ Len(d) = Len(s) + 1
      /\ \A j \in 1 .. Len(s) + 1 : d[j] = IF j <= i THEN c[j] ELSE b[j - i]
  BY <1>1, <1>3, <1>5, <1>6
<1> HIDE DEF d
<1>9. \A j \in 1 .. Len(s) + 1 : d[j] = IF j < i THEN s[j] ELSE IF j = i THEN e ELSE s[j - 1]
  <2> SUFFICES ASSUME NEW j \in 1 .. Len(s) + 1
               PROVE  d[j] = IF j < i THEN s[j] ELSE IF j = i THEN e ELSE s[j - 1]
    OBVIOUS
  <2>1. CASE j <= i
    <3>1. d[j] = c[j]
      BY <1>8, <2>1
    <3> QED
      BY <1>1, <1>5, <2>1, <3>1
  <2>2. CASE j > i
    <3>1. d[j] = b[j - i] /\ j - i \in 1 .. Len(s) - i + 1
      BY <1>1, <1>8, <2>2
    <3>2. b[j - i] = s[j - 1]
      BY <1>1, <1>3, <3>1
    <3> QED
      BY <1>1, <2>2, <3>1, <3>2
  <2> QED
    BY <1>1, <2>1, <2>2
<1>10. d = [j \in 1 .. Len(s) + 1 |-> d[j]]
  BY <1>8, LenProperties
<1> QED
  BY <1>7, <1>9, <1>10 DEF d

-----------------------------------------------------------------------------
(***************************************************************************)
(* Consequences of the invariant.                                          *)
(***************************************************************************)
LEMMA ListedArePosts ==
  ASSUME TypeOK
  PROVE  /\ Listed \subseteq Posts
         /\ \A i \in 1 .. Len(crawlList) : crawlList[i] \in Listed
         /\ DOMAIN crawlList = 1 .. Len(crawlList)
         /\ Len(crawlList) \in Nat
<1>1. crawlList \in Seq(Posts)
  BY DEF TypeOK
<1> QED
  BY <1>1, LenProperties, ElementOfSeq DEF Listed, ToSet

\* Records of the list with the same id are the same.
LEMMA SameId ==
  ASSUME TypeOK, NewestFirst, NEW p \in Listed, NEW q \in Listed, recId[p] = recId[q]
  PROVE  p = q
<1>1. PICK i \in DOMAIN crawlList, j \in DOMAIN crawlList : crawlList[i] = p /\ crawlList[j] = q
  BY DEF Listed, ToSet
<1>2. i \in Nat /\ j \in Nat
  BY ListedArePosts
<1>3. recId[p] \in Nat
  BY ListedArePosts DEF TypeOK
<1> QED
  BY <1>1, <1>2, <1>3 DEF NewestFirst

\* What saving p does to the files that can be read.
DiskStep(p) ==
  \A n \in Readable' :
    \/ n \in Readable /\ disk'[n].owner = disk[n].owner
    \/ n = recId[p] /\ disk'[n].owner = p

\* Opening and writing a file put into it what has no other owner.
LEMMA SaveIsDiskStep ==
  ASSUME NEW p \in Posts, NEW r, r.owner \in {Null, p}, disk' = Put(disk, recId[p], r)
  PROVE  DiskStep(p)
<1> SUFFICES ASSUME NEW n \in Readable'
             PROVE  \/ n \in Readable /\ disk'[n].owner = disk[n].owner
                    \/ n = recId[p] /\ disk'[n].owner = p
  BY DEF DiskStep
<1>1. n \in DOMAIN disk \cup {recId[p]} /\ disk'[n].owner # Null
  BY DEF Readable, Put
<1>2. CASE n = recId[p]
  BY <1>1, <1>2 DEF Put
<1>3. CASE n # recId[p]
  BY <1>1, <1>3 DEF Put, Readable
<1> QED
  BY <1>2, <1>3

\* A save that fails leaves the files alone.
LEMMA NoSaveIsDiskStep ==
  ASSUME NEW p \in Posts, UNCHANGED disk
  PROVE  DiskStep(p)
BY DEF DiskStep, Readable

(***************************************************************************)
(* What a thread does to a record of the list while it goes on with it.    *)
(* The conjuncts of the invariant that depend on the store and the files.  *)
(***************************************************************************)
LEMMA SavingKeepsFiles ==
  ASSUME Inv, NEW p \in Listed, DiskStep(p), server = "up",
         UNCHANGED <<store, recId>>
  PROVE  /\ IdInv' /\ NewestFirst' /\ FilesAreNotShared'
         /\ \A n \in Readable' : n \in Readable \/ n = recId[p]
         /\ \A q \in Posts : (\A n \in Readable : disk[n].owner # q) /\ q # p =>
                           \A n \in Readable' : disk'[n].owner # q
<1>1. IdInv'
  BY DEF Inv, IdInv, DiskStep
<1>2. NewestFirst'
  BY DEF Inv, NewestFirst
<1>3. FilesAreNotShared'
  <2> SUFFICES ASSUME NEW q \in Listed, recId[q] \in Readable'
               PROVE  disk'[recId[q]].owner = q
    BY DEF FilesAreNotShared, Listed
  <2>1. CASE recId[q] = recId[p] /\ disk'[recId[q]].owner = p
    BY <2>1, SameId DEF Inv
  <2>2. CASE recId[q] \in Readable /\ disk'[recId[q]].owner = disk[recId[q]].owner
    BY <2>2 DEF Inv, FilesAreNotShared
  <2> QED
    BY <2>1, <2>2 DEF DiskStep
<1>4. \A n \in Readable' : n \in Readable \/ n = recId[p]
  BY DEF DiskStep
<1>5. \A q \in Posts : (\A n \in Readable : disk[n].owner # q) /\ q # p =>
                     \A n \in Readable' : disk'[n].owner # q
  BY DEF DiskStep
<1> QED
  BY <1>1, <1>2, <1>3, <1>4, <1>5

\* A worker goes on with its record or is done with it.
LEMMA WorkerMoves ==
  ASSUME Inv, TypeOK', NEW w \in Workers, wpc[w] # "idle", NEW l, NEW s,
         UNCHANGED <<store, recId, recConfig, http, queue, wpost>>,
         wpc' = [wpc EXCEPT ![w] = l],
         status' = [status EXCEPT ![wpost[w]] = s], s # "none",
         DiskStep(wpost[w]),
         \/ UNCHANGED starts
         \/ /\ wpc[w] \notin Late /\ l = "call"
            /\ starts' = [starts EXCEPT ![wpost[w]] = @ + 1],
         l \in Late \cup {"idle"} \/ (UNCHANGED starts /\ wpc[w] \notin Late),
         stranded \subseteq stranded',
         l = "idle" => s \in Terminal \/ wpost[w] \in stranded',
         l = "writeFailure" => s = "failure",
         l \in {"writeSuccess", "row"} => s = "success"
  PROVE  Inv'
<1> DEFINE p == wpost[w]
<1>1. p \in Listed /\ p \in Posts /\ status[p] # "none"
  BY ListedArePosts DEF Inv, PoolInv, BornInv
<1>2. server = "up"
  BY DEF Inv, ServerInv, Quiet
<1>3. /\ IdInv' /\ NewestFirst' /\ FilesAreNotShared'
      /\ \A n \in Readable' : n \in Readable \/ n = recId[p]
      /\ \A q \in Posts : (\A n \in Readable : disk[n].owner # q) /\ q # p =>
                        \A n \in Readable' : disk'[n].owner # q
  BY <1>1, <1>2, SavingKeepsFiles
<1>4. /\ Listed' = Listed
      /\ \A v \in Workers : wpc'[v] = IF v = w THEN l ELSE wpc[v]
      /\ \A q \in Posts : status'[q] = IF q = p THEN s ELSE status[q]
  BY <1>1 DEF Inv, TypeOK, Listed
<1> HIDE DEF p
<1>5. BornInv'
  <2> SUFFICES ASSUME NEW q \in Posts
               PROVE  /\ status'[q] = "none" =>
                           /\ starts'[q] = 0 /\ q \notin Listed
                           /\ \A n \in Readable' : disk'[n].owner # q
                      /\ status'[q] # "none" => recConfig[q] \in Configs
    BY <1>4 DEF BornInv
  <2>1. CASE q = p
    BY <1>1, <1>4, <2>1 DEF Inv, BornInv
  <2>2. CASE q # p
    <3>1. starts'[q] = starts[q]
      BY <2>2 DEF Inv, TypeOK, p
    <3> QED
      BY <1>3, <1>4, <2>2, <3>1 DEF Inv, BornInv
  <2> QED
    BY <2>1, <2>2
<1>6. ServerInv'
  BY <1>1, <1>2, <1>3, <1>4 DEF Inv, ServerInv
<1>7. HttpInv'
  <2> SUFFICES ASSUME NEW t \in HttpThreads, hpc[t] # "idle"
               PROVE  /\ hpost[t] \in Posts
                      /\ status'[hpost[t]] # "none"
                      /\ hpc[t] = "assign" => seen[t] = identity
                      /\ hpc[t] \in {"assign", "link"} => NewRecord(hpost[t])'
                      /\ hpc[t] = "link" =>
                           copy[t] = crawlList /\ recId[hpost[t]] = identity /\ GreatestId'
                      /\ hpc[t] \notin {"assign", "link"} => hpost[t] \in Listed
    BY <1>4 DEF HttpInv
  <2>1. hpost[t] \in Posts /\ status'[hpost[t]] # "none"
    BY <1>4 DEF Inv, HttpInv
  <2>2. ASSUME hpc[t] \in {"assign", "link"} PROVE NewRecord(hpost[t])'
    BY <1>1, <1>3, <1>4, <2>1, <2>2 DEF Inv, HttpInv, NewRecord
  <2>3. ASSUME hpc[t] = "link" PROVE GreatestId'
    BY <1>1, <1>3, <1>4, <2>3 DEF Inv, HttpInv, GreatestId
  <2> QED
    BY <2>1, <2>2, <2>3 DEF Inv, HttpInv
<1>8. PoolInv'
  BY <1>4 DEF Inv, PoolInv
<1>9. \A v \in Workers, q \in Posts :
        /\ WorkerHolds(v, q)' => WorkerHolds(v, q)
        /\ WorkerHolds(v, q) /\ ~WorkerHolds(v, q)' => v = w /\ q = p /\ l = "idle"
  BY <1>4 DEF WorkerHolds, p
<1>10. \A t \in HttpThreads, q \in Posts : HttpHolds(t, q)' <=> HttpHolds(t, q)
  BY DEF HttpHolds
<1>11. AtMostOneAgent'
  BY <1>9, <1>10 DEF Inv, AtMostOneAgent
<1>12. WorkerHolds(w, p)
  BY DEF WorkerHolds, p
<1>13. StartInv'
  <2> SUFFICES ASSUME NEW q \in Posts
               PROVE  /\ starts'[q] <= 1
                      /\ starts'[q] # 0 =>
                           /\ \A t \in HttpThreads : ~HttpHolds(t, q)'
                           /\ \A i \in DOMAIN queue : queue[i] # q
                           /\ \A v \in Workers : WorkerHolds(v, q)' => wpc'[v] \in Late
    BY DEF StartInv
  <2>1. CASE q # p
    <3>1. starts'[q] = starts[q]
      BY <2>1 DEF Inv, TypeOK, p
    <3>2. \A v \in Workers : WorkerHolds(v, q)' => v # w
      BY <1>9, <2>1 DEF WorkerHolds, p
    <3> QED
      BY <1>4, <1>9, <1>10, <3>1, <3>2 DEF Inv, StartInv
  <2>2. CASE q = p
    <3>1. \A t \in HttpThreads : ~HttpHolds(t, q)'
      BY <1>10, <1>12, <2>2 DEF Inv, AtMostOneAgent
    <3>2. \A i \in DOMAIN queue : queue[i] # p
      BY <1>12, <1>1 DEF Inv, AtMostOneAgent
    <3>3. \A v \in Workers : WorkerHolds(v, q)' => v = w
      BY <1>9, <1>12, <2>2 DEF Inv, AtMostOneAgent
    <3>4. wpc[w] \notin Late => starts[p] = 0
      BY <1>12, <1>1 DEF Inv, StartInv
    <3>5. starts'[p] <= 1 /\ (starts'[p] # 0 => l \in Late \cup {"idle"})
      BY <1>1, <3>4 DEF Inv, StartInv, TypeOK, p, Late
    <3>6. WorkerHolds(w, q)' => l # "idle"
      BY <1>4 DEF WorkerHolds
    <3> QED
      BY <1>4, <2>2, <3>1, <3>2, <3>3, <3>5, <3>6
  <2> QED
    BY <2>1, <2>2
<1>14. StatusInv'
  <2>1. \A v \in Workers \ {w} : wpc[v] # "idle" => wpost[v] # p
    BY <1>1, <1>12 DEF Inv, AtMostOneAgent, WorkerHolds
  <2>2. \A v \in Workers : wpc[v] # "idle" => wpost[v] \in Posts
    BY ListedArePosts DEF Inv, PoolInv
  <2> SUFFICES ASSUME NEW v \in Workers
               PROVE  /\ wpc'[v] = "writeFailure" => status'[wpost[v]] = "failure"
                      /\ wpc'[v] \in {"writeSuccess", "row"} => status'[wpost[v]] = "success"
    BY DEF StatusInv
  <2>3. CASE v = w
    BY <1>1, <1>4, <2>3 DEF p
  <2>4. CASE v # w
    BY <1>4, <2>1, <2>2, <2>4 DEF Inv, StatusInv
  <2> QED
    BY <2>3, <2>4
<1>15. ActiveHasAgent'
  <2> SUFFICES ASSUME NEW q \in Listed
               PROVE  status'[q] \in Terminal \/ q \in stranded' \/ HasAgent(q)'
    BY <1>4 DEF ActiveHasAgent
  <2>0. q \in Posts
    BY ListedArePosts DEF Inv
  <2>1. CASE q # p
    <3>1. HasAgent(q) => HasAgent(q)'
      BY <1>9, <1>10, <2>0, <2>1 DEF HasAgent
    <3> QED
      BY <1>4, <2>0, <2>1, <3>1 DEF Inv, ActiveHasAgent
  <2>2. CASE q = p /\ l = "idle"
    BY <1>1, <1>4, <2>2 DEF p
  <2>3. CASE q = p /\ l # "idle"
    BY <1>9, <1>12, <2>0, <2>3 DEF HasAgent
  <2> QED
    BY <2>1, <2>2, <2>3
<1> QED
  BY <1>3, <1>5, <1>6, <1>7, <1>8, <1>11, <1>13, <1>14, <1>15 DEF Inv

-----------------------------------------------------------------------------
(***************************************************************************)
(* The steps of a worker that has looked its record up.                    *)
(***************************************************************************)
Labels == {"idle", "lookup", "init", "build", "start", "announce", "call",
           "reload", "update", "succeed", "row", "fail",
           "writeRunning", "writeSuccess", "writeFailure"}

\* What the invariant says of a worker that has a task.
LEMMA WorkerFacts ==
  ASSUME Inv, NEW w \in Workers, wpc[w] # "idle"
  PROVE  /\ server = "up"
         /\ wpost[w] \in Listed /\ wpost[w] \in Posts
         /\ status[wpost[w]] # "none" /\ status[wpost[w]] \in Statuses
         /\ recId[wpost[w]] \in Nat
         /\ recConfig[wpost[w]] \in Configs
         /\ config[recConfig[wpost[w]]] \in Nat
         /\ status = [status EXCEPT ![wpost[w]] = status[wpost[w]]]
<1>1. server = "up"
  BY DEF Inv, ServerInv, Quiet
<1>2. wpost[w] \in Listed /\ wpost[w] \in Posts /\ status[wpost[w]] # "none"
  BY ListedArePosts DEF Inv, PoolInv, BornInv
<1> QED
  BY <1>1, <1>2 DEF Inv, BornInv, TypeOK

\* The places of a worker in run, by name.
LEMMA WorkerLabels ==
  ASSUME TypeOK
  PROVE  wpc \in [Workers -> Labels]
<1>1. DOMAIN AfterWrite = {"writeRunning", "writeSuccess", "writeFailure"}
  BY DEF AfterWrite
<1> QED
  BY <1>1 DEF TypeOK, Labels

\* The variables a step changes keep their types.
LEMMA WorkerTypes ==
  ASSUME TypeOK, NEW w \in Workers, NEW l \in Labels,
         UNCHANGED <<store, recId, recConfig, http, queue, edits, torn, cut, crashes>>,
         wpost' \in [Workers -> Posts \cup {Null}],
         modCount' \in [Workers -> Nat],
         wpc' = [wpc EXCEPT ![w] = l],
         held' \in [Workers -> Nat],
         config' \in [Configs -> Nat],
         status' \in [Posts -> Statuses],
         folder' \in [Posts -> BOOLEAN],
         starts' \in [Posts -> Nat],
         stranded' \subseteq Posts,
         DOMAIN disk \subseteq DOMAIN disk', DOMAIN disk' \subseteq Nat,
         \A n \in DOMAIN disk' :
           disk'[n] \in [owner : Posts \cup {Null}, status : Statuses, folder : BOOLEAN],
         DOMAIN kb' \subseteq Nat,
         \A n \in DOMAIN kb' : kb'[n] \in [owner : Posts, final : BOOLEAN]
  PROVE  TypeOK'
<1>1. DOMAIN AfterWrite = {"writeRunning", "writeSuccess", "writeFailure"}
  BY DEF AfterWrite
<1>2. wpc' \in [Workers -> Labels]
  BY WorkerLabels
<1>3. unread \subseteq DOMAIN disk'
  BY DEF TypeOK
<1> QED
  BY <1>1, <1>2, <1>3 DEF TypeOK, Labels

\* Putting a value of a type into a function keeps the type.
LEMMA PutType ==
  ASSUME NEW f, NEW k \in Nat, NEW T, NEW v \in T,
         DOMAIN f \subseteq Nat, \A n \in DOMAIN f : f[n] \in T
  PROVE  /\ DOMAIN f \subseteq DOMAIN Put(f, k, v)
         /\ DOMAIN Put(f, k, v) \subseteq Nat
         /\ \A n \in DOMAIN Put(f, k, v) : Put(f, k, v)[n] \in T
BY DEF Put

\* The same for the files.
LEMMA PutTypeOfDisk ==
  ASSUME Inv, NEW n \in Nat,
         NEW r \in [owner : Posts \cup {Null}, status : Statuses, folder : BOOLEAN],
         disk' = Put(disk, n, r)
  PROVE  /\ DOMAIN disk \subseteq DOMAIN disk' /\ DOMAIN disk' \subseteq Nat
         /\ \A m \in DOMAIN disk' :
              disk'[m] \in [owner : Posts \cup {Null}, status : Statuses, folder : BOOLEAN]
<1> DEFINE T == [owner : Posts \cup {Null}, status : Statuses, folder : BOOLEAN]
<1>1. DOMAIN disk \subseteq Nat /\ \A m \in DOMAIN disk : disk[m] \in T
  BY DEF Inv, TypeOK
<1>2. r \in T
  OBVIOUS
<1> HIDE DEF T
<1>3. /\ DOMAIN disk \subseteq DOMAIN disk' /\ DOMAIN disk' \subseteq Nat
      /\ \A m \in DOMAIN disk' : disk'[m] \in T
  BY <1>1, <1>2, PutType
<1> QED
  BY <1>3 DEF T

\* Reading the configuration and becoming initializing preserves Inv.
LEMMA InitializeInv ==
  ASSUME Inv, NEW w \in Workers, Initialize(w)
  PROVE  Inv'
<1> USE DEF Initialize, Goto
<1>1. wpc[w] # "idle" /\ wpc[w] \notin Late
  BY DEF Late
<1>2. PICK l \in {"build", "fail"} : wpc' = [wpc EXCEPT ![w] = l]
  OBVIOUS
<1>3. TypeOK'
  <2>1. l \in Labels
    BY DEF Labels
  <2>2. held' \in [Workers -> Nat] /\ status' \in [Posts -> Statuses]
    BY <1>1, WorkerFacts DEF Inv, TypeOK, Statuses
  <2> QED
    BY <1>2, <2>1, <2>2, WorkerTypes DEF Inv, TypeOK
<1>4. DiskStep(wpost[w])
  BY <1>1, WorkerFacts, NoSaveIsDiskStep
<1> QED
  BY <1>1, <1>2, <1>3, <1>4, WorkerMoves

\* So does building the crawler, an Error in it included.
LEMMA BuildInv ==
  ASSUME Inv, NEW w \in Workers, Build(w)
  PROVE  Inv'
<1> USE DEF Build, Goto, DieOfError
<1>1. wpc[w] # "idle" /\ wpc[w] \notin Late
  BY DEF Late
<1>2. PICK l \in {"start", "fail", "idle"} :
        /\ wpc' = [wpc EXCEPT ![w] = l]
        /\ l = "idle" => wpost[w] \in stranded'
  BY <1>1
<1>3. stranded \subseteq stranded' /\ stranded' \subseteq Posts
  <2>1. wpost[w] \in Posts
    BY <1>1, WorkerFacts
  <2>2. stranded \subseteq Posts
    BY DEF Inv, TypeOK
  <2> QED
    BY <2>1, <2>2
<1>4. TypeOK'
  <2>1. l \in Labels
    BY DEF Labels
  <2> QED
    BY <1>2, <1>3, <2>1, WorkerTypes DEF Inv, TypeOK
<1>5. DiskStep(wpost[w])
  BY <1>1, WorkerFacts, NoSaveIsDiskStep
<1> QED
  BY <1>1, <1>2, <1>3, <1>4, <1>5, WorkerFacts, WorkerMoves

\* Start, Succeed and Fail.
LEMMA SetStatusInv ==
  ASSUME Inv, NEW w \in Workers, wpc[w] # "idle",
         NEW s \in Statuses \ {"none"}, NEW writing \in Labels, NEW next \in Labels,
         SetStatus(w, s, writing, next),
         {writing, next} \subseteq Late \cup {"idle"} \/ wpc[w] \notin Late,
         writing # "idle",
         next = "idle" => s \in Terminal,
         "writeFailure" \in {writing, next} => s = "failure",
         {writing, next} \cap {"writeSuccess", "row"} # {} => s = "success"
  PROVE  Inv'
<1> USE DEF SetStatus, Goto
<1> DEFINE p == wpost[w]
<1>1. PICK l \in {writing, next} : wpc' = [wpc EXCEPT ![w] = l]
  OBVIOUS
<1>2. /\ folder' \in [Posts -> BOOLEAN]
      /\ \/ UNCHANGED disk
         \/ disk' = Put(disk, recId[p], TornFile)
  BY DEF OpenFile, Inv, TypeOK
<1>3. status' \in [Posts -> Statuses]
  BY DEF Inv, TypeOK
<1>4. TypeOK'
  <2>1. TornFile \in [owner : Posts \cup {Null}, status : Statuses, folder : BOOLEAN]
    BY DEF TornFile, Statuses
  <2>2. /\ DOMAIN disk \subseteq DOMAIN disk' /\ DOMAIN disk' \subseteq Nat
        /\ \A n \in DOMAIN disk' :
             disk'[n] \in [owner : Posts \cup {Null}, status : Statuses, folder : BOOLEAN]
    <3>1. CASE UNCHANGED disk
      BY <3>1 DEF Inv, TypeOK
    <3>2. CASE disk' = Put(disk, recId[p], TornFile)
      BY <2>1, <3>2, WorkerFacts, PutTypeOfDisk
    <3> QED
      BY <1>2, <3>1, <3>2
  <2> QED
    BY <1>1, <1>2, <1>3, <2>2, WorkerTypes DEF Inv, TypeOK
<1>5. DiskStep(p)
  <2>1. TornFile.owner \in {Null, p}
    BY DEF TornFile
  <2> QED
    BY <1>2, <2>1, WorkerFacts, NoSaveIsDiskStep, SaveIsDiskStep
<1> QED
  BY <1>1, <1>4, <1>5, WorkerMoves

\* A new status and the opening of the file preserve Inv.
LEMMA StatusStepsInv ==
  ASSUME Inv, NEW w \in Workers, Start(w) \/ Succeed(w) \/ Fail(w)
  PROVE  Inv'
<1>1. CASE Start(w)
  BY <1>1, SetStatusInv DEF Start, Statuses, Labels, Late
<1>2. CASE Succeed(w)
  BY <1>2, SetStatusInv DEF Succeed, Statuses, Labels, Late, Terminal
<1>3. CASE Fail(w)
  BY <1>3, SetStatusInv DEF Fail, Statuses, Labels, Late, Terminal
<1> QED
  BY <1>1, <1>2, <1>3

\* So does writing the file.
LEMMA WriteInv ==
  ASSUME Inv, NEW w \in Workers, Write(w)
  PROVE  Inv'
<1> USE DEF Write, Goto
<1> DEFINE p == wpost[w]
           r == [owner |-> p, status |-> status[p], folder |-> folder[p]]
           l == AfterWrite[wpc[w]]
<1>1. wpc[w] \in {"writeRunning", "writeSuccess", "writeFailure"}
  BY DEF AfterWrite
<1>2. wpc[w] # "idle" /\ l \in {"announce", "row", "idle"}
  BY <1>1 DEF AfterWrite
<1>3. UNCHANGED disk \/ disk' = Put(disk, recId[p], r)
  BY DEF WriteFile
<1>4. TypeOK'
  <2>1. /\ DOMAIN disk \subseteq DOMAIN disk' /\ DOMAIN disk' \subseteq Nat
        /\ \A n \in DOMAIN disk' :
             disk'[n] \in [owner : Posts \cup {Null}, status : Statuses, folder : BOOLEAN]
    <3>1. CASE UNCHANGED disk
      BY <3>1 DEF Inv, TypeOK
    <3>2. CASE disk' = Put(disk, recId[p], r)
      <4>1. folder[p] \in BOOLEAN
        BY <1>2, WorkerFacts DEF Inv, TypeOK
      <4>2. r \in [owner : Posts \cup {Null}, status : Statuses, folder : BOOLEAN]
        BY <1>2, <4>1, WorkerFacts
      <4> QED
        BY <1>2, <3>2, <4>2, WorkerFacts, PutTypeOfDisk
    <3> QED
      BY <1>3, <3>1, <3>2
  <2>2. l \in Labels
    BY <1>2 DEF Labels
  <2> QED
    BY <2>1, <2>2, WorkerTypes DEF Inv, TypeOK
<1>5. DiskStep(p)
  <2>1. r.owner \in {Null, p}
    OBVIOUS
  <2> QED
    BY <1>2, <1>3, <2>1, WorkerFacts, NoSaveIsDiskStep, SaveIsDiskStep
<1>6. /\ l \in Late \cup {"idle"} \/ wpc[w] \notin Late
      /\ l = "idle" => status[p] \in Terminal
      /\ l # "writeFailure"
      /\ l \in {"writeSuccess", "row"} => status[p] = "success"
  BY <1>1 DEF AfterWrite, Late, Terminal, Inv, StatusInv
<1> QED
  BY <1>2, <1>4, <1>5, <1>6, WorkerFacts, WorkerMoves

\* The crawl starts: only here starts changes.
LEMMA AnnounceInv ==
  ASSUME Inv, NEW w \in Workers, Announce(w)
  PROVE  Inv'
<1> USE DEF Announce, Goto
<1>1. wpc[w] # "idle" /\ wpc[w] \notin Late
  BY DEF Late
<1>2. PICK l \in {"call", "fail"} :
        /\ wpc' = [wpc EXCEPT ![w] = l]
        /\ \/ UNCHANGED starts
           \/ l = "call" /\ starts' = [starts EXCEPT ![wpost[w]] = @ + 1]
  OBVIOUS
<1>3. TypeOK'
  <2>1. l \in Labels
    BY DEF Labels
  <2>2. wpost[w] \in Posts /\ starts \in [Posts -> Nat]
    BY <1>1, WorkerFacts DEF Inv, TypeOK
  <2>3. starts' \in [Posts -> Nat]
    BY <1>2, <2>2
  <2> QED
    BY <1>2, <2>1, <2>3, WorkerTypes DEF Inv, TypeOK
<1>4. DiskStep(wpost[w])
  BY <1>1, WorkerFacts, NoSaveIsDiskStep
<1>5. l \in Late
  BY DEF Late
<1> QED
  BY <1>1, <1>2, <1>3, <1>4, <1>5, WorkerFacts, WorkerMoves

\* The crawl ends, by itself, by an exception or by an Error.
LEMMA ReturnInv ==
  ASSUME Inv, NEW w \in Workers, Return(w)
  PROVE  Inv'
<1> USE DEF Return, Goto, DieOfError
<1>1. wpc[w] # "idle"
  OBVIOUS
<1>2. PICK l \in {"reload", "fail", "idle"} :
        /\ wpc' = [wpc EXCEPT ![w] = l]
        /\ l = "idle" => wpost[w] \in stranded'
  BY <1>1
<1>3. stranded \subseteq stranded' /\ stranded' \subseteq Posts
  <2>1. wpost[w] \in Posts
    BY <1>1, WorkerFacts
  <2>2. stranded \subseteq Posts
    BY DEF Inv, TypeOK
  <2> QED
    BY <2>1, <2>2
<1>4. TypeOK'
  <2>1. l \in Labels
    BY DEF Labels
  <2> QED
    BY <1>2, <1>3, <2>1, WorkerTypes DEF Inv, TypeOK
<1>5. DiskStep(wpost[w])
  BY <1>1, WorkerFacts, NoSaveIsDiskStep
<1>6. l \in Late \cup {"idle"}
  BY DEF Late
<1> QED
  BY <1>1, <1>2, <1>3, <1>4, <1>5, <1>6, WorkerFacts, WorkerMoves

\* Reading the configuration again and putting it back.
LEMMA ConfigStepsInv ==
  ASSUME Inv, NEW w \in Workers, Reload(w) \/ UpdateConfig(w)
  PROVE  Inv'
<1> USE DEF Reload, UpdateConfig, Goto
<1>1. wpc[w] # "idle"
  OBVIOUS
<1>2. PICK l \in {"fail", "update", "succeed"} : wpc' = [wpc EXCEPT ![w] = l]
  OBVIOUS
<1>3. held' \in [Workers -> Nat] /\ config' \in [Configs -> Nat]
  <2>1. /\ recConfig[wpost[w]] \in Configs /\ config[recConfig[wpost[w]]] \in Nat
        /\ held \in [Workers -> Nat] /\ config \in [Configs -> Nat]
    BY <1>1, WorkerFacts DEF Inv, TypeOK
  <2> QED
    BY <2>1
<1>4. TypeOK'
  <2>1. l \in Labels
    BY DEF Labels
  <2> QED
    BY <1>2, <1>3, <2>1, WorkerTypes DEF Inv, TypeOK
<1>5. DiskStep(wpost[w])
  BY <1>1, WorkerFacts, NoSaveIsDiskStep
<1>6. l \in Late
  BY DEF Late
<1> QED
  BY <1>1, <1>2, <1>4, <1>5, <1>6, WorkerFacts, WorkerMoves

\* The row in the knowledge base.
LEMMA UpdateRowInv ==
  ASSUME Inv, NEW w \in Workers, UpdateRow(w)
  PROVE  Inv'
<1> USE DEF UpdateRow, Goto, AfterBadRow
<1> DEFINE p == wpost[w]
<1>1. wpc[w] # "idle" /\ status[p] = "success"
  BY DEF Inv, StatusInv
<1>2. PICK l \in {"idle", "fail"} : wpc' = [wpc EXCEPT ![w] = l]
  OBVIOUS
<1>3. DOMAIN kb' \subseteq Nat /\ \A n \in DOMAIN kb' : kb'[n] \in [owner : Posts, final : BOOLEAN]
  <2> DEFINE T == [owner : Posts, final : BOOLEAN]
             r == [owner |-> p, final |-> TRUE]
  <2>1. DOMAIN kb \subseteq Nat /\ \A n \in DOMAIN kb : kb[n] \in T
    BY DEF Inv, TypeOK
  <2>2. r \in T /\ recId[p] \in Nat
    BY <1>1, WorkerFacts
  <2>3. UNCHANGED kb \/ kb' = Put(kb, recId[p], r)
    OBVIOUS
  <2> HIDE DEF T, r
  <2>4. DOMAIN kb' \subseteq Nat /\ \A n \in DOMAIN kb' : kb'[n] \in T
    BY <2>1, <2>2, <2>3, PutType
  <2> QED
    BY <2>4 DEF T
<1>4. TypeOK'
  <2>1. l \in Labels
    BY DEF Labels
  <2> QED
    BY <1>2, <1>3, <2>1, WorkerTypes DEF Inv, TypeOK
<1>5. DiskStep(p)
  BY <1>1, WorkerFacts, NoSaveIsDiskStep
<1>6. l \in Late \cup {"idle"} /\ status[p] \in Terminal
  BY <1>1 DEF Late, Terminal
<1> QED
  BY <1>1, <1>2, <1>4, <1>5, <1>6, WorkerFacts, WorkerMoves

-----------------------------------------------------------------------------
(***************************************************************************)
(* A worker takes a task and looks its record up.                          *)
(***************************************************************************)
LEMMA TakeInv ==
  ASSUME Inv, NEW w \in Workers, Take(w)
  PROVE  Inv'
<1> USE DEF Take, Goto, Dequeued
<1> DEFINE p == queue[1]
<1>1. /\ queue \in Seq(Posts) /\ queue # <<>>
      /\ Len(queue) \in Nat \ {0} /\ DOMAIN queue = 1 .. Len(queue)
  BY EmptySeq, LenProperties DEF Inv, TypeOK
<1>2. /\ queue' \in Seq(Posts) /\ Len(queue') = Len(queue) - 1
      /\ DOMAIN queue' = 1 .. Len(queue')
      /\ \A i \in 1 .. Len(queue') : queue'[i] = queue[i + 1]
      /\ Head(queue) = p
  BY <1>1, HeadTailProperties, LenProperties
<1>3. p \in Listed /\ p \in Posts
  BY <1>1, ListedArePosts DEF Inv, PoolInv
<1>4. /\ \A v \in Workers : wpc'[v] = IF v = w THEN "lookup" ELSE wpc[v]
      /\ \A v \in Workers : wpost'[v] = IF v = w THEN p ELSE wpost[v]
  BY <1>2 DEF Inv, TypeOK
<1>5. server = "up"
  BY <1>1 DEF Inv, ServerInv, Quiet
<1>6. TypeOK'
  <2>1. "lookup" \in Labels
    BY DEF Labels
  <2>2. wpc' \in [Workers -> Labels]
    BY <2>1, WorkerLabels DEF Inv
  <2>3. wpost' \in [Workers -> Posts \cup {Null}] /\ modCount' \in [Workers -> Nat]
    <3>1. Len(crawlList) \in Nat
      BY ListedArePosts DEF Inv
    <3> QED
      BY <1>2, <1>3, <3>1 DEF Inv, TypeOK
  <2>4. DOMAIN AfterWrite = {"writeRunning", "writeSuccess", "writeFailure"}
    BY DEF AfterWrite
  <2> QED
    BY <1>2, <2>2, <2>3, <2>4 DEF Inv, TypeOK, Labels
<1> HIDE DEF p
<1>7. /\ \A v \in Workers, q \in Posts :
           WorkerHolds(v, q)' <=> IF v = w THEN q = p ELSE WorkerHolds(v, q)
      /\ \A q \in Posts : ~WorkerHolds(w, q)
      /\ \A t \in HttpThreads, q \in Posts : HttpHolds(t, q)' <=> HttpHolds(t, q)
      /\ \A i \in DOMAIN queue' : i + 1 \in DOMAIN queue /\ queue'[i] = queue[i + 1]
      /\ 1 \in DOMAIN queue /\ queue[1] = p
      /\ \A i \in DOMAIN queue : i # 1 => i - 1 \in DOMAIN queue' /\ queue'[i - 1] = queue[i]
      /\ DOMAIN queue \subseteq Nat /\ DOMAIN queue' \subseteq Nat
  BY <1>1, <1>2, <1>4 DEF WorkerHolds, HttpHolds, p
<1>8. AtMostOneAgent'
  <2> SUFFICES ASSUME NEW q \in Posts
      PROVE  /\ \A t, u \in HttpThreads : HttpHolds(t, q)' /\ HttpHolds(u, q)' => t = u
             /\ \A i, j \in DOMAIN queue' : queue'[i] = q /\ queue'[j] = q => i = j
             /\ \A v, x \in Workers : WorkerHolds(v, q)' /\ WorkerHolds(x, q)' => v = x
             /\ \A t \in HttpThreads, i \in DOMAIN queue' : ~(HttpHolds(t, q)' /\ queue'[i] = q)
             /\ \A t \in HttpThreads, v \in Workers : ~(HttpHolds(t, q)' /\ WorkerHolds(v, q)')
             /\ \A v \in Workers, i \in DOMAIN queue' : ~(WorkerHolds(v, q)' /\ queue'[i] = q)
    BY DEF AtMostOneAgent
  <2>1. /\ \A t, u \in HttpThreads : HttpHolds(t, q) /\ HttpHolds(u, q) => t = u
        /\ \A i, j \in DOMAIN queue : queue[i] = q /\ queue[j] = q => i = j
        /\ \A v, x \in Workers : WorkerHolds(v, q) /\ WorkerHolds(x, q) => v = x
        /\ \A t \in HttpThreads, i \in DOMAIN queue : ~(HttpHolds(t, q) /\ queue[i] = q)
        /\ \A t \in HttpThreads, v \in Workers : ~(HttpHolds(t, q) /\ WorkerHolds(v, q))
        /\ \A v \in Workers, i \in DOMAIN queue : ~(WorkerHolds(v, q) /\ queue[i] = q)
    BY DEF Inv, AtMostOneAgent
  <2>2. \A i, j \in DOMAIN queue' : queue'[i] = q /\ queue'[j] = q => i = j
    <3>1. SUFFICES ASSUME NEW i \in DOMAIN queue', NEW j \in DOMAIN queue',
                          queue'[i] = q, queue'[j] = q
                   PROVE  i = j
      OBVIOUS
    <3>2. i + 1 = j + 1
      BY <1>7, <2>1, <3>1
    <3> QED
      BY <1>7, <3>1, <3>2
  <2>3. \A t \in HttpThreads, i \in DOMAIN queue' : ~(HttpHolds(t, q)' /\ queue'[i] = q)
    BY <1>7, <2>1
  <2>4. \A v \in Workers, i \in DOMAIN queue' : ~(WorkerHolds(v, q)' /\ queue'[i] = q)
    <3>1. SUFFICES ASSUME NEW i \in DOMAIN queue', queue'[i] = q, WorkerHolds(w, q)'
                   PROVE  FALSE
      BY <1>7, <2>1
    <3>2. i + 1 = 1 /\ i \in Nat
      BY <1>7, <2>1, <3>1
    <3>3. i \in 1 .. Len(queue')
      BY <1>2, <3>1
    <3> QED
      BY <3>2, <3>3
  <2> QED
    BY <1>7, <2>1, <2>2, <2>3, <2>4
<1>9. BornInv' /\ IdInv' /\ ServerInv' /\ NewestFirst' /\ FilesAreNotShared'
  BY <1>5 DEF Inv, BornInv, IdInv, ServerInv, NewestFirst, FilesAreNotShared, Listed, Readable
<1>10. HttpInv'
  BY DEF Inv, HttpInv, NewRecord, GreatestId, Listed, Readable
<1>11. PoolInv'
  BY <1>3, <1>4, <1>7 DEF Inv, PoolInv, Listed
<1>12. StartInv'
  <2> SUFFICES ASSUME NEW q \in Posts, starts[q] # 0
               PROVE  /\ \A t \in HttpThreads : ~HttpHolds(t, q)'
                      /\ \A i \in DOMAIN queue' : queue'[i] # q
                      /\ \A v \in Workers : WorkerHolds(v, q)' => wpc'[v] \in Late
    BY DEF Inv, StartInv
  <2>1. q # p
    BY <1>7 DEF Inv, StartInv
  <2> QED
    BY <1>4, <1>7, <2>1 DEF Inv, StartInv
<1>13. StatusInv'
  BY <1>4 DEF Inv, StatusInv
<1>14. ActiveHasAgent'
  <2> SUFFICES ASSUME NEW q \in Listed
               PROVE  status[q] \in Terminal \/ q \in stranded \/ HasAgent(q)'
    BY DEF ActiveHasAgent, Listed
  <2>1. q \in Posts
    BY ListedArePosts DEF Inv
  <2>2. CASE q = p
    BY <1>7, <2>1, <2>2 DEF HasAgent
  <2>3. CASE q # p
    <3>1. ASSUME NEW i \in DOMAIN queue, queue[i] = q PROVE HasAgent(q)'
      BY <1>7, <2>3, <3>1 DEF HasAgent
    <3>2. HasAgent(q) => HasAgent(q)'
      BY <1>7, <2>1, <3>1 DEF HasAgent
    <3> QED
      BY <3>2 DEF Inv, ActiveHasAgent
  <2> QED
    BY <2>2, <2>3
<1> QED
  BY <1>6, <1>8, <1>9, <1>10, <1>11, <1>12, <1>13, <1>14 DEF Inv

\* Ids are unique, so that the worker finds the record of its task.
LEMMA LookUpInv ==
  ASSUME Inv, NEW w \in Workers, LookUp(w)
  PROVE  Inv'
<1> DEFINE task == wpost[w]
           matches == {i \in DOMAIN crawlList : recId[crawlList[i]] = recId[task]}
<1>1. wpc[w] = "lookup" /\ wpc[w] # "idle" /\ wpc[w] \notin Late
  BY DEF LookUp, Late
<1>2. \A i \in matches : crawlList[i] = task
  <2> TAKE i \in matches
  <2>1. crawlList[i] \in Listed /\ task \in Listed
    BY <1>1, ListedArePosts, WorkerFacts DEF Inv
  <2> QED
    BY <2>1, SameId DEF Inv
<1>3. PICK l \in {"init", "idle"} :
        /\ wpc' = [wpc EXCEPT ![w] = l]
        /\ UNCHANGED wpost
        /\ stranded' = IF l = "idle" THEN stranded \cup {task} ELSE stranded
  <2>1. CASE \E i \in matches :
               /\ wpost' = [wpost EXCEPT ![w] = crawlList[i]]
               /\ stranded' = stranded \cup ({task} \ {crawlList[i]})
               /\ Goto(w, "init")
    <3>1. wpost' = [wpost EXCEPT ![w] = task] /\ stranded' = stranded
      BY <1>2, <2>1
    <3>2. UNCHANGED wpost
      BY <3>1 DEF Inv, TypeOK
    <3> QED
      BY <2>1, <3>1, <3>2 DEF Goto
  <2>2. CASE stranded' = stranded \cup {task} /\ Goto(w, "idle") /\ UNCHANGED wpost
    BY <2>2 DEF Goto
  <2> QED
    BY <2>1, <2>2 DEF LookUp
<1>4. stranded \subseteq stranded' /\ stranded' \subseteq Posts
  <2>1. task \in Posts /\ stranded \subseteq Posts
    BY <1>1, WorkerFacts DEF Inv, TypeOK
  <2> QED
    BY <1>3, <2>1
<1>5. UNCHANGED <<store, records, disk, http, queue, modCount, held, confs, kb,
                  torn, cut, starts, crashes>>
  BY DEF LookUp
<1>6. TypeOK'
  <2>1. l \in Labels
    BY DEF Labels
  <2> QED
    BY <1>3, <1>4, <1>5, <2>1, WorkerTypes DEF Inv, TypeOK
<1>7. DiskStep(wpost[w])
  BY <1>1, <1>5, WorkerFacts, NoSaveIsDiskStep
<1> QED
  BY <1>1, <1>3, <1>4, <1>5, <1>6, <1>7, WorkerFacts, WorkerMoves

\* Every step of a worker preserves Inv.
LEMMA WorkerStepInv ==
  ASSUME Inv, NEW w \in Workers, WorkerStep(w)
  PROVE  Inv'
BY TakeInv, LookUpInv, InitializeInv, BuildInv, StatusStepsInv, AnnounceInv,
   ReturnInv, ConfigStepsInv, UpdateRowInv, WriteInv DEF WorkerStep

-----------------------------------------------------------------------------
(***************************************************************************)
(* The steps of the thread that answers a request.                         *)
(***************************************************************************)
LEMMA HttpFacts ==
  ASSUME Inv, NEW t \in HttpThreads, hpc[t] # "idle"
  PROVE  /\ server = "up"
         /\ hpost[t] \in Posts
         /\ status[hpost[t]] # "none"
         /\ recId[hpost[t]] \in Nat
         /\ recConfig[hpost[t]] \in Configs
         /\ HttpHolds(t, hpost[t])
         /\ hpc[t] \notin {"assign", "link"} => hpost[t] \in Listed
<1>1. server = "up"
  BY DEF Inv, ServerInv, Quiet
<1>2. hpost[t] \in Posts /\ status[hpost[t]] # "none"
  BY DEF Inv, HttpInv
<1> QED
  BY <1>1, <1>2 DEF Inv, HttpInv, BornInv, TypeOK, HttpHolds

\* The record is on the list; its file and its row are written.
LEMMA HttpMoves ==
  ASSUME Inv, TypeOK', NEW t \in HttpThreads, hpc[t] \in {"open", "write", "row"},
         NEW l \in {"write", "row", "queue"},
         UNCHANGED <<store, recId, recConfig, status, hpost, seen, copy, pool,
                     stranded, starts>>,
         hpc' = [hpc EXCEPT ![t] = l],
         DiskStep(hpost[t])
  PROVE  Inv'
<1> DEFINE p == hpost[t]
<1>1. server = "up" /\ p \in Listed /\ p \in Posts /\ hpc[t] # "idle"
  BY HttpFacts
<1>2. /\ IdInv' /\ NewestFirst' /\ FilesAreNotShared'
      /\ \A n \in Readable' : n \in Readable \/ n = recId[p]
      /\ \A q \in Posts : (\A n \in Readable : disk[n].owner # q) /\ q # p =>
                        \A n \in Readable' : disk'[n].owner # q
  BY <1>1, SavingKeepsFiles
<1>3. Listed' = Listed /\ \A u \in HttpThreads : hpc'[u] = IF u = t THEN l ELSE hpc[u]
  BY DEF Listed, Inv, TypeOK
<1> HIDE DEF p
<1>4. \A q \in Posts :
        /\ \A u \in HttpThreads : HttpHolds(u, q)' <=> HttpHolds(u, q)
        /\ \A w \in Workers : WorkerHolds(w, q)' <=> WorkerHolds(w, q)
        /\ HasAgent(q)' <=> HasAgent(q)
  BY <1>1, <1>3 DEF HttpHolds, WorkerHolds, HasAgent
<1>5. BornInv'
  <2> SUFFICES ASSUME NEW q \in Posts, status[q] = "none"
               PROVE  q \notin Listed /\ \A n \in Readable' : disk'[n].owner # q
    BY <1>3 DEF Inv, BornInv
  <2>1. q # p
    BY HttpFacts, <1>1 DEF p
  <2> QED
    BY <1>2, <2>1 DEF Inv, BornInv
<1>6. ServerInv'
  BY <1>1, <1>2, <1>3 DEF Inv, ServerInv
<1>7. HttpInv'
  <2> SUFFICES ASSUME NEW u \in HttpThreads, hpc'[u] # "idle"
               PROVE  /\ hpost[u] \in Posts
                      /\ status[hpost[u]] # "none"
                      /\ hpc'[u] = "assign" => seen[u] = identity
                      /\ hpc'[u] \in {"assign", "link"} => NewRecord(hpost[u])'
                      /\ hpc'[u] = "link" =>
                           copy[u] = crawlList /\ recId[hpost[u]] = identity /\ GreatestId'
                      /\ hpc'[u] \notin {"assign", "link"} => hpost[u] \in Listed
    BY <1>3 DEF HttpInv
  <2>1. CASE u = t
    BY <1>1, <1>3, <2>1 DEF p, Inv, HttpInv
  <2>2. CASE u # t
    <3>1. ASSUME hpc[u] \in {"assign", "link"} PROVE NewRecord(hpost[u])'
      BY <1>1, <1>2, <1>3, <3>1 DEF Inv, HttpInv, NewRecord
    <3>2. ASSUME hpc[u] = "link" PROVE GreatestId'
      BY <1>1, <1>2, <1>3, <3>2 DEF Inv, HttpInv, GreatestId
    <3> QED
      BY <1>3, <2>2, <3>1, <3>2 DEF Inv, HttpInv
  <2> QED
    BY <2>1, <2>2
<1>8. PoolInv'
  BY <1>3 DEF Inv, PoolInv
<1>9. AtMostOneAgent'
  BY <1>4 DEF Inv, AtMostOneAgent
<1>10. StartInv'
  BY <1>4 DEF Inv, StartInv
<1>11. StatusInv' /\ ActiveHasAgent'
  BY <1>3, <1>4, ListedArePosts DEF Inv, StatusInv, ActiveHasAgent
<1> QED
  BY <1>2, <1>5, <1>6, <1>7, <1>8, <1>9, <1>10, <1>11 DEF Inv

\* Types while an HTTP thread creates its record.
LEMMA HttpTypes ==
  ASSUME TypeOK, NEW t \in HttpThreads, NEW l,
         l \in {"idle", "assign", "link", "open", "write", "row", "queue"},
         UNCHANGED <<server, unread, pool, confs, torn, cut, starts, crashes>>,
         hpc' = [hpc EXCEPT ![t] = l],
         identity' \in Nat,
         crawlList' \in Seq(Posts),
         recId' \in [Posts -> Nat],
         recConfig' \in [Posts -> Configs \cup {Null}],
         status' \in [Posts -> Statuses],
         folder' \in [Posts -> BOOLEAN],
         hpost' \in [HttpThreads -> Posts \cup {Null}],
         seen' \in [HttpThreads -> Nat],
         copy' \in [HttpThreads -> Seq(Posts)],
         stranded' = stranded,
         DOMAIN disk \subseteq DOMAIN disk', DOMAIN disk' \subseteq Nat,
         \A n \in DOMAIN disk' :
           disk'[n] \in [owner : Posts \cup {Null}, status : Statuses, folder : BOOLEAN],
         DOMAIN kb' \subseteq Nat,
         \A n \in DOMAIN kb' : kb'[n] \in [owner : Posts, final : BOOLEAN]
  PROVE  TypeOK'
<1>1. hpc' \in [HttpThreads -> {"idle", "assign", "link", "open", "write", "row", "queue"}]
  BY DEF TypeOK
<1>2. unread' \subseteq DOMAIN disk'
  BY DEF TypeOK
<1> QED
  BY <1>1, <1>2 DEF TypeOK

\* The file of a new record is opened and written.
LEMMA SaveNewInv ==
  ASSUME Inv, NEW t \in HttpThreads, OpenNew(t) \/ WriteNew(t)
  PROVE  Inv'
<1> DEFINE p == hpost[t]
           r == [owner |-> p, status |-> status[p], folder |-> folder[p]]
<1>1. hpc[t] \in {"open", "write"} /\ hpc[t] # "idle"
  BY DEF OpenNew, WriteNew
<1>2. p \in Posts /\ recId[p] \in Nat
  BY <1>1, HttpFacts
<1>3. PICK l \in {"write", "row", "queue"} : hpc' = [hpc EXCEPT ![t] = l]
  BY DEF OpenNew, WriteNew
<1>4. \/ UNCHANGED disk
      \/ disk' = Put(disk, recId[p], TornFile)
      \/ disk' = Put(disk, recId[p], r)
  BY DEF OpenNew, WriteNew, OpenFile, WriteFile
<1>5. UNCHANGED <<store, recId, recConfig, status, hpost, seen, copy, pool,
                  confs, kb, history>>
  BY DEF OpenNew, WriteNew
<1>6. folder' \in [Posts -> BOOLEAN]
  <2>1. folder \in [Posts -> BOOLEAN]
    BY DEF Inv, TypeOK
  <2> QED
    BY <2>1 DEF OpenNew, WriteNew, OpenFile
<1>7. TypeOK'
  <2>1. /\ DOMAIN disk \subseteq DOMAIN disk' /\ DOMAIN disk' \subseteq Nat
        /\ \A n \in DOMAIN disk' :
             disk'[n] \in [owner : Posts \cup {Null}, status : Statuses, folder : BOOLEAN]
    <3>1. CASE UNCHANGED disk
      BY <3>1 DEF Inv, TypeOK
    <3>2. CASE disk' = Put(disk, recId[p], TornFile)
      <4>1. TornFile \in [owner : Posts \cup {Null}, status : Statuses, folder : BOOLEAN]
        BY DEF TornFile, Statuses
      <4> QED
        BY <1>2, <3>2, <4>1, PutTypeOfDisk
    <3>3. CASE disk' = Put(disk, recId[p], r)
      <4>1. folder[p] \in BOOLEAN /\ status[p] \in Statuses
        BY <1>2 DEF Inv, TypeOK
      <4>2. r \in [owner : Posts \cup {Null}, status : Statuses, folder : BOOLEAN]
        BY <1>2, <4>1
      <4> QED
        BY <1>2, <3>3, <4>2, PutTypeOfDisk
    <3> QED
      BY <1>4, <3>1, <3>2, <3>3
  <2> QED
    BY <1>3, <1>5, <1>6, <2>1, HttpTypes DEF Inv, TypeOK
<1>8. DiskStep(p)
  <2>1. r.owner \in {Null, p} /\ TornFile.owner \in {Null, p}
    BY DEF TornFile
  <2> QED
    BY <1>2, <1>4, <2>1, NoSaveIsDiskStep, SaveIsDiskStep
<1> QED
  BY <1>1, <1>3, <1>5, <1>7, <1>8, HttpMoves

\* The row of a new record is inserted.
LEMMA SaveRowInv ==
  ASSUME Inv, NEW t \in HttpThreads, SaveRow(t)
  PROVE  Inv'
<1> USE DEF SaveRow
<1> DEFINE p == hpost[t]
           T == [owner : Posts, final : BOOLEAN]
           r == [owner |-> p, final |-> FALSE]
<1>1. p \in Posts /\ recId[p] \in Nat
  BY HttpFacts
<1>2. DOMAIN kb' \subseteq Nat /\ \A n \in DOMAIN kb' : kb'[n] \in T
  <2>1. DOMAIN kb \subseteq Nat /\ \A n \in DOMAIN kb : kb[n] \in T
    BY DEF Inv, TypeOK
  <2>2. UNCHANGED kb \/ kb' = Put(kb, recId[p], r)
    OBVIOUS
  <2>3. r \in T
    BY <1>1
  <2> HIDE DEF T, r
  <2> QED
    BY <1>1, <2>1, <2>2, <2>3, PutType
<1>3. TypeOK'
  BY <1>2, HttpTypes DEF Inv, TypeOK
<1>4. DiskStep(p)
  BY <1>1, NoSaveIsDiskStep
<1> QED
  BY <1>3, <1>4, HttpMoves

\* The task goes from the HTTP thread to the queue, or is stranded.
LEMMA EnqueueInv ==
  ASSUME Inv, NEW t \in HttpThreads, Enqueue(t)
  PROVE  Inv'
<1> DEFINE p == hpost[t]
<1>1. server = "up" /\ p \in Listed /\ p \in Posts /\ HttpHolds(t, p)
  BY HttpFacts DEF Enqueue
<1>2. /\ hpc' = [hpc EXCEPT ![t] = "idle"]
      /\ status' = [status EXCEPT ![p] = "queued"]
      /\ UNCHANGED <<store, recId, recConfig, folder, disk, hpost, seen, copy,
                     wpc, wpost, modCount, held, confs, kb, torn, cut, starts,
                     crashes>>
  BY DEF Enqueue
<1>3. \/ queue' = Append(queue, p) /\ UNCHANGED stranded
      \/ UNCHANGED queue /\ stranded' = stranded \cup {p}
  BY DEF Enqueue
<1> HIDE DEF p
<1>4. /\ queue \in Seq(Posts) /\ DOMAIN queue \subseteq Nat
      /\ queue' = Append(queue, p) =>
           /\ queue' \in Seq(Posts)
           /\ DOMAIN queue' = DOMAIN queue \cup {Len(queue) + 1}
           /\ Len(queue) + 1 \notin DOMAIN queue
           /\ \A i \in DOMAIN queue : queue'[i] = queue[i]
           /\ queue'[Len(queue) + 1] = p
  <2>1. queue \in Seq(Posts) /\ p \in Posts
    BY <1>1 DEF Inv, TypeOK
  <2>2. Append(queue, p) =
          [i \in 1 .. Len(queue) + 1 |-> IF i = Len(queue) + 1 THEN p ELSE queue[i]]
    BY <2>1, AppendFacts
  <2>3. DOMAIN queue = 1 .. Len(queue) /\ Len(queue) \in Nat
    BY <2>1, LenProperties
  <2>4. Append(queue, p) \in Seq(Posts)
    BY <2>1, AppendProperties
  <2>5. ASSUME queue' = Append(queue, p)
        PROVE  /\ queue' \in Seq(Posts)
               /\ queue' = [i \in 1 .. Len(queue) + 1 |-> IF i = Len(queue) + 1 THEN p ELSE queue[i]]
    BY <2>2, <2>4, <2>5, Zenon
  <2>6. ASSUME queue' = [i \in 1 .. Len(queue) + 1 |-> IF i = Len(queue) + 1 THEN p ELSE queue[i]]
        PROVE  /\ DOMAIN queue' = DOMAIN queue \cup {Len(queue) + 1}
               /\ \A i \in DOMAIN queue : queue'[i] = queue[i]
               /\ queue'[Len(queue) + 1] = p
    BY <2>3, <2>6
  <2>7. DOMAIN queue \subseteq Nat /\ Len(queue) + 1 \notin DOMAIN queue
    BY <2>3
  <2> QED
    BY <2>1, <2>5, <2>6, <2>7, Zenon
<1>5. TypeOK'
  <2>1. queue' \in Seq(Posts) /\ stranded' \subseteq Posts
    BY <1>1, <1>3, <1>4 DEF Inv, TypeOK
  <2> QED
    BY <1>1, <1>2, <2>1 DEF Inv, TypeOK, Statuses
<1>6. /\ \A i \in DOMAIN queue' :
           \/ i \in DOMAIN queue /\ queue'[i] = queue[i]
           \/ i = Len(queue) + 1 /\ queue'[i] = p
      /\ \A i \in DOMAIN queue : i \in DOMAIN queue' /\ queue'[i] = queue[i]
      /\ stranded \subseteq stranded'
  BY <1>3, <1>4
<1>7. p \in stranded' \/ \E i \in DOMAIN queue' : queue'[i] = p
  BY <1>3, <1>4
<1>8. /\ Listed' = Listed /\ Readable' = Readable
      /\ \A u \in HttpThreads : hpc'[u] = IF u = t THEN "idle" ELSE hpc[u]
      /\ \A q \in Posts : status'[q] = IF q = p THEN "queued" ELSE status[q]
  BY <1>1, <1>2 DEF Listed, Readable, Inv, TypeOK
<1>9. \A q \in Posts :
        /\ \A u \in HttpThreads : HttpHolds(u, q)' => HttpHolds(u, q) /\ u # t
        /\ \A u \in HttpThreads : HttpHolds(u, q) /\ q # p => HttpHolds(u, q)'
        /\ \A w \in Workers : WorkerHolds(w, q)' <=> WorkerHolds(w, q)
  BY <1>2, <1>8 DEF HttpHolds, WorkerHolds, p
<1>10. /\ \A u \in HttpThreads : ~HttpHolds(u, p)'
       /\ \A w \in Workers : ~WorkerHolds(w, p)
       /\ \A i \in DOMAIN queue : queue[i] # p
  <2> SUFFICES ASSUME NEW q \in Posts, q = p
               PROVE  /\ \A u \in HttpThreads : ~HttpHolds(u, q)'
                      /\ \A w \in Workers : ~WorkerHolds(w, q)
                      /\ \A i \in DOMAIN queue : queue[i] # q
    BY <1>1, <1>2 DEF p, HttpHolds
  <2> QED
    BY <1>1, <1>9 DEF Inv, AtMostOneAgent
<1>11. AtMostOneAgent'
  <2> SUFFICES ASSUME NEW q \in Posts
      PROVE  /\ \A v, u \in HttpThreads : HttpHolds(v, q)' /\ HttpHolds(u, q)' => v = u
             /\ \A i, j \in DOMAIN queue' : queue'[i] = q /\ queue'[j] = q => i = j
             /\ \A v, w \in Workers : WorkerHolds(v, q)' /\ WorkerHolds(w, q)' => v = w
             /\ \A u \in HttpThreads, i \in DOMAIN queue' : ~(HttpHolds(u, q)' /\ queue'[i] = q)
             /\ \A u \in HttpThreads, w \in Workers : ~(HttpHolds(u, q)' /\ WorkerHolds(w, q)')
             /\ \A w \in Workers, i \in DOMAIN queue' : ~(WorkerHolds(w, q)' /\ queue'[i] = q)
    BY DEF AtMostOneAgent
  <2>1. CASE q = p
    <3>1. \A u \in HttpThreads : ~HttpHolds(u, q)'
      BY <1>9, <1>1, <2>1 DEF Inv, AtMostOneAgent
    <3> QED
      BY <1>6, <1>9, <1>10, <2>1, <3>1
  <2>2. CASE q # p
    <3>1. \A i \in DOMAIN queue' : queue'[i] = q => i \in DOMAIN queue /\ queue[i] = q
      BY <1>6, <2>2
    <3> QED
      BY <1>9, <3>1 DEF Inv, AtMostOneAgent
  <2> QED
    BY <2>1, <2>2
<1>12. BornInv' /\ IdInv' /\ ServerInv' /\ NewestFirst' /\ FilesAreNotShared'
  <2>1. BornInv'
    <3> SUFFICES ASSUME NEW q \in Posts
                 PROVE  /\ status'[q] = "none" => starts[q] = 0 /\ NewRecord(q)
                        /\ status'[q] # "none" => recConfig[q] \in Configs
      BY <1>2, <1>8 DEF BornInv, NewRecord
    <3>1. status[p] # "none"
      BY <1>1 DEF Inv, BornInv
    <3> QED
      BY <1>8, <3>1 DEF Inv, BornInv, NewRecord
  <2>2. IdInv' /\ NewestFirst' /\ FilesAreNotShared'
    BY <1>2, <1>8 DEF Inv, IdInv, NewestFirst, FilesAreNotShared
  <2>3. ServerInv'
    BY <1>1, <1>2, <1>8 DEF Inv, ServerInv
  <2> QED
    BY <2>1, <2>2, <2>3
<1>13. HttpInv'
  <2> SUFFICES ASSUME NEW u \in HttpThreads, u # t, hpc[u] # "idle"
               PROVE  /\ hpost[u] \in Posts
                      /\ status'[hpost[u]] # "none"
                      /\ hpc[u] = "assign" => seen[u] = identity
                      /\ hpc[u] \in {"assign", "link"} => NewRecord(hpost[u])
                      /\ hpc[u] = "link" =>
                           copy[u] = crawlList /\ recId[hpost[u]] = identity /\ GreatestId
                      /\ hpc[u] \notin {"assign", "link"} => hpost[u] \in Listed
    BY <1>2, <1>8 DEF HttpInv, NewRecord, GreatestId
  <2> QED
    BY <1>8 DEF Inv, HttpInv
<1>14. PoolInv'
  BY <1>1, <1>2, <1>6, <1>8 DEF Inv, PoolInv
<1>15. StartInv'
  <2>1. starts[p] = 0
    BY <1>1 DEF Inv, StartInv, p
  <2> SUFFICES ASSUME NEW q \in Posts, starts[q] # 0
               PROVE  /\ \A u \in HttpThreads : ~HttpHolds(u, q)'
                      /\ \A i \in DOMAIN queue' : queue'[i] # q
                      /\ \A w \in Workers : WorkerHolds(w, q)' => wpc'[w] \in Late
    BY <1>2 DEF Inv, StartInv
  <2> QED
    BY <1>2, <1>6, <1>9, <2>1 DEF Inv, StartInv
<1>16. StatusInv'
  <2> SUFFICES ASSUME NEW w \in Workers, wpc[w] # "idle"
               PROVE  status'[wpost[w]] = status[wpost[w]]
    BY <1>2 DEF Inv, StatusInv
  <2>1. WorkerHolds(w, wpost[w]) /\ wpost[w] \in Posts
    BY WorkerFacts DEF WorkerHolds
  <2> QED
    BY <1>8, <1>10, <2>1
<1>17. ActiveHasAgent'
  <2> SUFFICES ASSUME NEW q \in Listed
               PROVE  status'[q] \in Terminal \/ q \in stranded' \/ HasAgent(q)'
    BY <1>8 DEF ActiveHasAgent
  <2>1. q \in Posts
    BY ListedArePosts DEF Inv
  <2>2. CASE q = p
    BY <1>7, <2>2 DEF HasAgent
  <2>3. CASE q # p
    <3>1. HasAgent(q) => HasAgent(q)'
      BY <1>6, <1>9, <2>1, <2>3 DEF HasAgent
    <3> QED
      BY <1>6, <1>8, <2>1, <2>3, <3>1 DEF Inv, ActiveHasAgent
  <2> QED
    BY <2>2, <2>3
<1> QED
  BY <1>5, <1>11, <1>12, <1>13, <1>14, <1>15, <1>16, <1>17 DEF Inv

\* With one thread nothing else is being created.
LEMMA PostInv ==
  ASSUME Inv, OneHttpThread, NEW t \in HttpThreads, NEW p \in Posts, NEW c \in Configs,
         Post(t, p, c)
  PROVE  Inv'
<1> USE DEF Post
<1>1. /\ \A u \in HttpThreads : u = t /\ hpc[u] = "idle"
      /\ NewRecord(p) /\ starts[p] = 0 /\ server = "up"
  BY DEF OneHttpThread, Inv, BornInv, NewRecord
<1>2. /\ Listed' = Listed /\ Readable' = Readable
      /\ \A q \in Posts : status'[q] = IF q = p THEN "idle" ELSE status[q]
      /\ \A q \in Posts : recConfig'[q] = IF q = p THEN c ELSE recConfig[q]
      /\ hpc'[t] = "assign" /\ hpost'[t] = p /\ seen'[t] = identity
  BY DEF Listed, Readable, Inv, TypeOK
<1>3. TypeOK'
  BY HttpTypes DEF Inv, TypeOK, Statuses
<1>4. \A q \in Posts :
        /\ \A u \in HttpThreads : ~HttpHolds(u, q)
        /\ \A u \in HttpThreads : HttpHolds(u, q)' <=> q = p
        /\ \A w \in Workers : WorkerHolds(w, q)' <=> WorkerHolds(w, q)
  BY <1>1, <1>2 DEF HttpHolds, WorkerHolds
<1>5. /\ \A w \in Workers : ~WorkerHolds(w, p)
      /\ \A i \in DOMAIN queue : queue[i] # p
  BY <1>1 DEF Inv, PoolInv, WorkerHolds, NewRecord
<1>6. UNCHANGED <<store, recId, disk, queue, wpc, wpost, starts, stranded>>
  OBVIOUS
<1> HIDE DEF Post
<1>7. BornInv' /\ IdInv' /\ ServerInv' /\ NewestFirst' /\ FilesAreNotShared'
  <2>1. BornInv'
    BY <1>2, <1>6 DEF Inv, BornInv
  <2>2. IdInv' /\ NewestFirst' /\ FilesAreNotShared'
    BY <1>2, <1>6 DEF Inv, IdInv, NewestFirst, FilesAreNotShared
  <2>3. ServerInv'
    BY <1>1, <1>2, <1>6 DEF Inv, ServerInv
  <2> QED
    BY <2>1, <2>2, <2>3
<1>8. HttpInv'
  BY <1>1, <1>2, <1>6 DEF HttpInv, NewRecord
<1>9. PoolInv'
  BY <1>2, <1>6 DEF Inv, PoolInv
<1>10. AtMostOneAgent'
  BY <1>1, <1>4, <1>5, <1>6 DEF Inv, AtMostOneAgent
<1>11. StartInv'
  BY <1>1, <1>4, <1>6 DEF Inv, StartInv
<1>12. StatusInv'
  <2> SUFFICES ASSUME NEW w \in Workers, wpc[w] # "idle"
               PROVE  status'[wpost[w]] = status[wpost[w]]
    BY <1>6 DEF Inv, StatusInv
  <2>1. wpost[w] # p /\ wpost[w] \in Posts
    BY <1>5, WorkerFacts DEF WorkerHolds
  <2> QED
    BY <1>2, <2>1
<1>13. ActiveHasAgent'
  <2> SUFFICES ASSUME NEW q \in Listed
               PROVE  status'[q] \in Terminal \/ q \in stranded \/ HasAgent(q)'
    BY <1>2, <1>6 DEF ActiveHasAgent
  <2>1. q # p /\ q \in Posts
    BY <1>1, ListedArePosts DEF NewRecord, Inv
  <2>2. HasAgent(q) => HasAgent(q)'
    BY <1>4, <1>6, <2>1 DEF HasAgent
  <2> QED
    BY <1>2, <2>1, <2>2 DEF Inv, ActiveHasAgent
<1> QED
  BY <1>3, <1>7, <1>8, <1>9, <1>10, <1>11, <1>12, <1>13 DEF Inv

\* The id is greater than that of every record and file there is.
LEMMA AssignIdInv ==
  ASSUME Inv, OneHttpThread, NEW t \in HttpThreads, AssignId(t)
  PROVE  Inv'
<1> USE DEF AssignId
<1> DEFINE p == hpost[t]
<1>1. /\ \A u \in HttpThreads : u = t
      /\ NewRecord(p) /\ p \in Posts /\ seen[t] = identity
      /\ identity \in Nat /\ server = "up" /\ status[p] # "none"
  BY HttpFacts DEF OneHttpThread, Inv, HttpInv, TypeOK
<1>2. /\ Listed' = Listed /\ Readable' = Readable
      /\ identity' = identity + 1
      /\ \A q \in Posts : recId'[q] = IF q = p THEN identity + 1 ELSE recId[q]
  BY <1>1 DEF Listed, Readable, Inv, TypeOK
<1>3. PICK l \in {"idle", "link"} :
        /\ hpc' = [hpc EXCEPT ![t] = l]
        /\ copy' = IF l = "link" THEN [copy EXCEPT ![t] = crawlList] ELSE copy
  OBVIOUS
<1>4. TypeOK'
  <2>1. /\ identity' \in Nat /\ recId' \in [Posts -> Nat]
        /\ copy' \in [HttpThreads -> Seq(Posts)]
    BY <1>1, <1>3 DEF Inv, TypeOK
  <2> QED
    BY <1>3, <2>1, HttpTypes DEF Inv, TypeOK
<1>5. hpc'[t] = l /\ (l = "link" => copy'[t] = crawlList)
  BY <1>3 DEF Inv, TypeOK
<1>6. UNCHANGED <<server, unread, crawlList, recConfig, status, disk, hpost, pool,
                  stranded, starts>>
  OBVIOUS
<1> HIDE DEF AssignId
<1>7. \A q \in Listed : q \in Posts /\ q # p /\ recId'[q] = recId[q]
  BY <1>1, <1>2, ListedArePosts DEF NewRecord, Inv
<1>8. BornInv'
  BY <1>2, <1>6 DEF Inv, BornInv
<1>9. IdInv'
  <2> SUFFICES ASSUME NEW n \in Readable
               PROVE  recId'[disk[n].owner] = n
    BY <1>2, <1>6 DEF IdInv
  <2>1. disk[n].owner \in Posts /\ disk[n].owner # p
    BY <1>1 DEF NewRecord, Readable, Inv, TypeOK
  <2> QED
    BY <1>2, <2>1 DEF Inv, IdInv
<1>10. NewestFirst'
  <2>1. \A i \in DOMAIN crawlList : crawlList[i] \in Listed
    BY ListedArePosts DEF Inv
  <2> QED
    BY <1>6, <1>7, <2>1 DEF Inv, NewestFirst
<1>11. FilesAreNotShared'
  BY <1>2, <1>6, <1>7 DEF Inv, FilesAreNotShared
<1>12. GreatestId'
  <2>1. \A q \in Listed : recId[q] \in Nat
    BY <1>7 DEF Inv, TypeOK
  <2>2. \A n \in Readable : n \in Nat
    BY DEF Readable, Inv, TypeOK
  <2> QED
    BY <1>1, <1>2, <1>7, <2>1, <2>2 DEF Inv, ServerInv, GreatestId
<1>13. ServerInv'
  <2>1. \A q \in Listed : recId[q] \in Nat
    BY <1>7 DEF Inv, TypeOK
  <2>2. \A n \in Readable : n \in Nat
    BY DEF Readable, Inv, TypeOK
  <2> QED
    BY <1>1, <1>2, <1>6, <1>7, <2>1, <2>2 DEF Inv, ServerInv
<1>14. HttpInv'
  BY <1>1, <1>2, <1>5, <1>6, <1>12 DEF HttpInv, NewRecord
<1>15. PoolInv'
  BY <1>2, <1>6 DEF Inv, PoolInv
<1> HIDE DEF p
<1>16. \A q \in Posts :
         /\ \A u \in HttpThreads : HttpHolds(u, q)' => HttpHolds(u, q)
         /\ \A u \in HttpThreads : HttpHolds(u, q) => q = p
         /\ \A w \in Workers : WorkerHolds(w, q)' <=> WorkerHolds(w, q)
  <2>1. hpc[t] # "idle"
    BY DEF AssignId
  <2> QED
    BY <1>1, <1>6, <2>1 DEF HttpHolds, WorkerHolds, p
<1>17. AtMostOneAgent'
  BY <1>6, <1>16 DEF Inv, AtMostOneAgent
<1>18. StartInv'
  BY <1>6, <1>16 DEF Inv, StartInv
<1>19. StatusInv'
  BY <1>6 DEF Inv, StatusInv
<1>20. ActiveHasAgent'
  <2> SUFFICES ASSUME NEW q \in Listed
               PROVE  status[q] \in Terminal \/ q \in stranded \/ HasAgent(q)'
    BY <1>2, <1>6 DEF ActiveHasAgent
  <2>1. HasAgent(q) => HasAgent(q)'
    BY <1>6, <1>7, <1>16 DEF HasAgent
  <2> QED
    BY <2>1 DEF Inv, ActiveHasAgent
<1> QED
  BY <1>4, <1>8, <1>9, <1>10, <1>11, <1>13, <1>14, <1>15, <1>17, <1>18, <1>19, <1>20 DEF Inv

\* The record gets in front of the list, which nobody changed meanwhile:
\* here one HTTP thread is needed.
LEMMA LinkInv ==
  ASSUME Inv, OneHttpThread, NEW t \in HttpThreads, Link(t)
  PROVE  Inv'
<1> DEFINE p == hpost[t]
<1>1. /\ \A u \in HttpThreads : u = t
      /\ NewRecord(p) /\ p \in Posts /\ copy[t] = crawlList
      /\ recId[p] = identity /\ GreatestId
      /\ identity \in Nat /\ server = "up" /\ status[p] # "none" /\ HttpHolds(t, p)
  BY HttpFacts DEF Link, OneHttpThread, Inv, HttpInv, TypeOK
<1>2. UNCHANGED <<server, unread, identity, records, disk, hpost, seen, copy,
                  pool, confs, kb, history>>
  BY DEF Link
<1>3. /\ crawlList' \in Seq(Posts)
      /\ Len(crawlList') = Len(crawlList) + 1 /\ crawlList'[1] = p
      /\ \A i \in 1 .. Len(crawlList) : crawlList'[i + 1] = crawlList[i]
      /\ Len(crawlList) \in Nat /\ DOMAIN crawlList = 1 .. Len(crawlList)
      /\ DOMAIN crawlList' = 1 .. Len(crawlList) + 1
  <2>1. crawlList \in Seq(Posts) /\ p \in Posts
    BY <1>1 DEF Inv, TypeOK
  <2>2. crawlList' = Cons(p, crawlList)
    BY <1>1 DEF Link
  <2> HIDE DEF p
  <2>3. Len(crawlList) \in Nat /\ DOMAIN crawlList = 1 .. Len(crawlList)
    BY <2>1, LenProperties
  <2>4. Cons(p, crawlList) =
          [i \in 1 .. Len(crawlList) + 1 |-> IF i = 1 THEN p ELSE crawlList[i - 1]]
    BY <2>1, ConsFacts
  <2>5. \A i \in 1 .. Len(crawlList) : crawlList[i] \in Posts
    BY <2>1, ElementOfSeq
  <2> QED
    BY <2>1, <2>2, <2>3, <2>4, <2>5
<1>4. TypeOK'
  BY <1>3, HttpTypes DEF Link, Inv, TypeOK
<1>5. hpc'[t] = "open"
  BY DEF Link, Inv, TypeOK
<1>6. Listed' = Listed \cup {p} /\ Readable' = Readable
  <2>1. \A q : q \in Listed' => q \in Listed \cup {p}
    <3> SUFFICES ASSUME NEW i \in 1 .. Len(crawlList) + 1
                 PROVE  crawlList'[i] \in Listed \cup {p}
      BY <1>3 DEF Listed, ToSet
    <3>1. CASE i = 1
      BY <1>3, <3>1
    <3>2. CASE i # 1
      <4>1. i - 1 \in 1 .. Len(crawlList) /\ crawlList'[(i - 1) + 1] = crawlList[i - 1]
        BY <1>3, <3>2
      <4>2. crawlList[i - 1] \in Listed /\ (i - 1) + 1 = i
        BY <4>1, ListedArePosts DEF Inv
      <4> QED
        BY <4>1, <4>2
    <3> QED
      BY <3>1, <3>2
  <2>2. p \in Listed' /\ \A i \in 1 .. Len(crawlList) : crawlList[i] \in Listed'
    <3>1. \A i \in DOMAIN crawlList' : crawlList'[i] \in Listed'
      BY DEF Listed, ToSet
    <3> QED
      BY <1>3, <3>1
  <2>3. \A q \in Listed : q \in Listed'
    BY <1>3, <2>2 DEF Listed, ToSet
  <2> QED
    BY <1>2, <2>1, <2>2, <2>3 DEF Readable
<1>7. BornInv' /\ IdInv'
  BY <1>1, <1>2, <1>6 DEF Inv, BornInv, IdInv
<1>8. ServerInv'
  BY <1>1, <1>2, <1>6 DEF Inv, ServerInv, GreatestId
<1>9. HttpInv'
  BY <1>1, <1>2, <1>5, <1>6 DEF HttpInv
<1>10. PoolInv'
  BY <1>2, <1>6 DEF Inv, PoolInv
<1>11. NewestFirst'
  <2> SUFFICES ASSUME NEW i \in 1 .. Len(crawlList) + 1, NEW j \in 1 .. Len(crawlList) + 1, i < j
               PROVE  recId[crawlList'[i]] > recId[crawlList'[j]]
    BY <1>2, <1>3 DEF NewestFirst
  <2>1. j - 1 \in 1 .. Len(crawlList) /\ crawlList'[j] = crawlList[j - 1]
    <3>1. j - 1 \in 1 .. Len(crawlList) /\ (j - 1) + 1 = j
      BY <1>3
    <3> QED
      BY <1>3, <3>1
  <2>2. crawlList[j - 1] \in Listed
    BY <2>1, ListedArePosts DEF Inv
  <2>3. CASE i = 1
    <3>1. recId[crawlList[j - 1]] < identity /\ recId[crawlList[j - 1]] \in Nat
      BY <1>1, <2>2, ListedArePosts DEF GreatestId, Inv, TypeOK
    <3> QED
      BY <1>1, <1>3, <2>1, <2>3, <3>1
  <2>4. CASE i # 1
    <3>1. i - 1 \in 1 .. Len(crawlList) /\ (i - 1) + 1 = i /\ i - 1 < j - 1
      BY <1>3, <2>4
    <3>2. crawlList'[i] = crawlList[i - 1]
      BY <1>3, <3>1
    <3> QED
      BY <1>3, <2>1, <3>1, <3>2 DEF Inv, NewestFirst
  <2> QED
    BY <2>3, <2>4
<1>12. FilesAreNotShared'
  <2>1. recId[p] \notin Readable
    BY <1>1 DEF GreatestId
  <2> QED
    BY <1>2, <1>6, <2>1 DEF Inv, FilesAreNotShared
<1> HIDE DEF p
<1>13. \A q \in Posts :
         /\ \A u \in HttpThreads : HttpHolds(u, q)' <=> HttpHolds(u, q)
         /\ \A w \in Workers : WorkerHolds(w, q)' <=> WorkerHolds(w, q)
         /\ HasAgent(q)' <=> HasAgent(q)
  <2>1. hpc[t] # "idle"
    BY <1>1 DEF HttpHolds
  <2> QED
    BY <1>1, <1>2, <1>5, <2>1 DEF HttpHolds, WorkerHolds, HasAgent
<1>14. AtMostOneAgent' /\ StartInv' /\ StatusInv'
  BY <1>2, <1>13 DEF Inv, AtMostOneAgent, StartInv, StatusInv
<1>15. ActiveHasAgent'
  <2>1. HasAgent(p)
    BY <1>1 DEF HasAgent
  <2>2. \A q \in Listed' : q \in Posts
    BY <1>1, <1>6, ListedArePosts DEF Inv
  <2> QED
    BY <1>2, <1>6, <1>13, <2>1, <2>2 DEF Inv, ActiveHasAgent
<1> QED
  BY <1>4, <1>7, <1>8, <1>9, <1>10, <1>11, <1>12, <1>14, <1>15 DEF Inv

\* Every step of the HTTP thread preserves Inv.
LEMMA HttpStepInv ==
  ASSUME Inv, OneHttpThread, NEW t \in HttpThreads, HttpStep(t)
  PROVE  Inv'
BY AssignIdInv, LinkInv, SaveNewInv, SaveRowInv, EnqueueInv DEF HttpStep

-----------------------------------------------------------------------------
(***************************************************************************)
(* Clients, crashes and the start of the server.                           *)
(***************************************************************************)
LEMMA ClientInv ==
  ASSUME Inv, NEW c \in Configs, EditConfig(c) \/ RemoveConfig(c)
  PROVE  Inv'
<1>1. UNCHANGED <<store, records, disk, http, pool, kb, history>>
  BY DEF EditConfig, RemoveConfig
<1>2. config' \in [Configs -> Nat] /\ edits' \in Nat
  <2>1. config \in [Configs -> Nat] /\ edits \in Nat
    BY DEF Inv, TypeOK
  <2> QED
    BY <2>1 DEF EditConfig, RemoveConfig
<1>3. TypeOK'
  BY <1>1, <1>2 DEF Inv, TypeOK
<1>4. /\ Listed' = Listed /\ Readable' = Readable
      /\ \A p \in Posts : HasAgent(p)' <=> HasAgent(p)
  BY <1>1 DEF Listed, Readable, HasAgent, HttpHolds, WorkerHolds
<1>5. BornInv' /\ IdInv' /\ NewestFirst' /\ FilesAreNotShared' /\ ServerInv'
  <2>1. BornInv' /\ IdInv'
    BY <1>1, <1>4 DEF Inv, BornInv, IdInv
  <2>2. NewestFirst' /\ FilesAreNotShared'
    BY <1>1, <1>4 DEF Inv, NewestFirst, FilesAreNotShared
  <2>3. ServerInv'
    BY <1>1, <1>4 DEF Inv, ServerInv, Quiet
  <2> QED
    BY <2>1, <2>2, <2>3
<1>6. HttpInv' /\ PoolInv'
  BY <1>1, <1>4 DEF Inv, HttpInv, PoolInv, NewRecord, GreatestId
<1>7. AtMostOneAgent' /\ StartInv'
  BY <1>1 DEF Inv, AtMostOneAgent, StartInv, HttpHolds, WorkerHolds
<1>8. StatusInv'
  BY <1>1 DEF Inv, StatusInv
<1>9. ActiveHasAgent'
  BY <1>1, <1>4, ListedArePosts DEF Inv, ActiveHasAgent
<1> QED
  BY <1>3, <1>5, <1>6, <1>7, <1>8, <1>9 DEF Inv

\* When the server starts nobody holds a record.
LEMMA StartUpAgents ==
  ASSUME Inv, Quiet', UNCHANGED <<starts>>
  PROVE  HttpInv' /\ PoolInv' /\ AtMostOneAgent' /\ StartInv' /\ StatusInv'
<1>1. /\ \A t \in HttpThreads : hpc'[t] = "idle"
      /\ DOMAIN queue' = {}
      /\ \A w \in Workers : wpc'[w] = "idle"
  BY DEF Quiet
<1>2. /\ \A p \in Posts, t \in HttpThreads : ~HttpHolds(t, p)'
      /\ \A p \in Posts, w \in Workers : ~WorkerHolds(w, p)'
  BY <1>1 DEF HttpHolds, WorkerHolds
<1>3. HttpInv' /\ PoolInv' /\ StatusInv'
  BY <1>1 DEF HttpInv, PoolInv, StatusInv
<1>4. AtMostOneAgent'
  BY <1>1, <1>2 DEF AtMostOneAgent
<1>5. StartInv'
  BY <1>1, <1>2 DEF Inv, StartInv
<1> QED
  BY <1>3, <1>4, <1>5

\* A crash leaves only files, for which Inv says enough.
LEMMA CrashInv ==
  ASSUME Inv, Crash
  PROVE  Inv'
<1>1. /\ server' = "down" /\ unread' = {} /\ identity' = 0 /\ crawlList' = <<>>
      /\ hpc' = [t \in HttpThreads |-> "idle"] /\ queue' = <<>>
      /\ wpc' = [w \in Workers |-> "idle"]
      /\ UNCHANGED <<records, disk, hpost, seen, copy, wpost, modCount, held,
                     confs, kb, stranded, starts>>
  BY DEF Crash
<1>2. /\ crashes' \in Nat
      /\ torn' = torn \cup (DOMAIN disk \ Readable)
      /\ cut' \subseteq Posts
  BY DEF Crash, Inv, TypeOK
<1>3. TypeOK'
  <2>1. torn' \subseteq Nat
    BY <1>2 DEF Inv, TypeOK
  <2>2. /\ crawlList' \in Seq(Posts) /\ queue' \in Seq(Posts)
        /\ unread' \subseteq DOMAIN disk'
    BY <1>1
  <2> QED
    BY <1>1, <1>2, <2>1, <2>2 DEF Inv, TypeOK
<1>4. Listed' = {} /\ Readable' = Readable /\ DOMAIN crawlList' = {}
  BY <1>1 DEF Listed, ToSet, Readable
<1>5. Quiet'
  BY <1>1 DEF Quiet
<1>6. HttpInv' /\ PoolInv' /\ AtMostOneAgent' /\ StartInv' /\ StatusInv'
  BY <1>1, <1>5, StartUpAgents
<1>7. BornInv' /\ IdInv'
  BY <1>1, <1>4 DEF Inv, BornInv, IdInv
<1>8. NewestFirst' /\ FilesAreNotShared' /\ ActiveHasAgent'
  BY <1>4 DEF NewestFirst, FilesAreNotShared, ActiveHasAgent
<1>9. ServerInv'
  BY <1>1, <1>4, <1>5 DEF ServerInv
<1> QED
  BY <1>3, <1>6, <1>7, <1>8, <1>9 DEF Inv

\* The start-up begins with an empty list and no threads at work.
LEMMA BootInv ==
  ASSUME Inv, Boot
  PROVE  Inv'
<1> USE DEF Boot
<1>1. Quiet /\ crawlList = <<>>
  BY DEF Inv, ServerInv
<1>2. Listed' = {} /\ Readable' = Readable /\ DOMAIN crawlList' = {} /\ Readable \subseteq unread'
  BY <1>1 DEF Listed, ToSet, Readable
<1>3. TypeOK'
  BY DEF Inv, TypeOK
<1>4. Quiet'
  BY <1>1 DEF Quiet
<1>5. HttpInv' /\ PoolInv' /\ AtMostOneAgent' /\ StartInv' /\ StatusInv'
  BY <1>4, StartUpAgents
<1>6. BornInv' /\ IdInv'
  BY <1>2 DEF Inv, BornInv, IdInv
<1>7. NewestFirst' /\ FilesAreNotShared' /\ ActiveHasAgent'
  BY <1>2 DEF NewestFirst, FilesAreNotShared, ActiveHasAgent
<1>8. ServerInv'
  BY <1>2, <1>4 DEF ServerInv
<1> QED
  BY <1>3, <1>5, <1>6, <1>7, <1>8 DEF Inv

\* The records that are loaded are put where their ids belong.
LEMMA LoadedList ==
  ASSUME Inv, server = "loading", NEW n \in unread, n \in Readable, LoadRecord(n)
  PROVE  /\ crawlList' \in Seq(Posts)
         /\ Listed' \subseteq Listed \cup {disk[n].owner}
         /\ \A i, j \in DOMAIN crawlList' :
              i < j => recId[crawlList'[i]] > recId[crawlList'[j]]
         /\ crawlList' # <<>>
         /\ n <= recId[crawlList'[1]]
         /\ crawlList # <<>> => recId[crawlList[1]] <= recId[crawlList'[1]]
<1> DEFINE p == disk[n].owner
<1>1. /\ p \in Posts /\ p # Null /\ recId[p] = n /\ n \in Nat
      /\ crawlList \in Seq(Posts)
      /\ DOMAIN crawlList = 1 .. Len(crawlList) /\ Len(crawlList) \in Nat
      /\ \A i \in 1 .. Len(crawlList) : crawlList[i] \in Posts /\ recId[crawlList[i]] \in Nat
  <2>1. p \in Posts /\ p # Null /\ n \in Nat /\ crawlList \in Seq(Posts)
    BY DEF Readable, Inv, TypeOK
  <2>2. \A i \in 1 .. Len(crawlList) : crawlList[i] \in Posts /\ recId[crawlList[i]] \in Nat
    BY ListedArePosts DEF Inv, TypeOK
  <2>3. recId[p] = n
    BY DEF Inv, IdInv
  <2> QED
    BY <2>1, <2>2, <2>3, ListedArePosts DEF Inv
<1>2. \A i \in 1 .. Len(crawlList) : recId[crawlList[i]] # n
  BY ListedArePosts DEF Inv, ServerInv
<1>3. \A i, j \in 1 .. Len(crawlList) : i < j => recId[crawlList[i]] > recId[crawlList[j]]
  BY <1>1 DEF Inv, NewestFirst
<1>4. \/ crawlList = <<>> /\ crawlList' = <<p>>
      \/ \E i \in Positions(n) :
           (\A j \in Positions(n) : i <= j) /\ crawlList' = InsertAt(crawlList, i, p)
      \/ crawlList # <<>> /\ Positions(n) = {} /\ crawlList' = crawlList
  BY <1>1 DEF LoadRecord
<1>5. Positions(n) = {i \in 1 .. Len(crawlList) : recId[crawlList[i]] < n}
  BY <1>1 DEF Positions
<1> HIDE DEF p
<1>6. CASE crawlList = <<>> /\ crawlList' = <<p>>
  <2>1. DOMAIN crawlList' = {1} /\ crawlList'[1] = p /\ crawlList' \in Seq(Posts)
    BY <1>1, <1>6
  <2> QED
    BY <1>1, <1>6, <2>1 DEF Listed, ToSet, p
<1>7. CASE crawlList # <<>> /\ Positions(n) = {} /\ crawlList' = crawlList
  <2>1. 1 \in 1 .. Len(crawlList)
    BY <1>1, <1>7, EmptySeq
  <2>2. n <= recId[crawlList[1]]
    BY <1>1, <1>5, <1>7, <2>1
  <2> QED
    BY <1>1, <1>3, <1>7, <2>1, <2>2 DEF Listed
<1>8. ASSUME NEW i \in Positions(n), \A j \in Positions(n) : i <= j,
             crawlList' = InsertAt(crawlList, i, p)
      PROVE  /\ crawlList' \in Seq(Posts)
             /\ Listed' \subseteq Listed \cup {p}
             /\ \A k, j \in DOMAIN crawlList' :
                  k < j => recId[crawlList'[k]] > recId[crawlList'[j]]
             /\ crawlList' # <<>>
             /\ n <= recId[crawlList'[1]]
             /\ crawlList # <<>> => recId[crawlList[1]] <= recId[crawlList'[1]]
  <2>1. i \in 1 .. Len(crawlList) /\ recId[crawlList[i]] < n
    BY <1>5, <1>8
  <2>2. /\ crawlList' \in Seq(Posts)
        /\ Len(crawlList') = Len(crawlList) + 1
        /\ crawlList'[i] = p
        /\ \A j \in 1 .. i - 1 : crawlList'[j] = crawlList[j]
        /\ \A j \in i .. Len(crawlList) : crawlList'[j + 1] = crawlList[j]
    <3>1. crawlList \in Seq(Posts) /\ p \in Posts /\ i \in 1 .. Len(crawlList)
      BY <1>1, <2>1
    <3>2. InsertAt(crawlList, i, p) =
            [j \in 1 .. Len(crawlList) + 1 |->
              IF j < i THEN crawlList[j] ELSE IF j = i THEN p ELSE crawlList[j - 1]]
      BY <3>1, InsertFacts
    <3> QED
      BY <1>1, <1>8, <2>1, <3>1, <3>2
  <2>3. DOMAIN crawlList' = 1 .. Len(crawlList) + 1
    BY <2>2, LenProperties
  <2>4. /\ \A j \in 1 .. i - 1 : recId[crawlList[j]] > n
        /\ \A j \in i .. Len(crawlList) : recId[crawlList[j]] < n
    <3>1. ASSUME NEW j \in 1 .. i - 1 PROVE recId[crawlList[j]] > n
      <4>1. j \in 1 .. Len(crawlList) /\ j \notin Positions(n)
        BY <1>1, <1>8, <2>1
      <4> QED
        BY <1>1, <1>2, <1>5, <4>1
    <3>2. ASSUME NEW j \in i .. Len(crawlList) PROVE recId[crawlList[j]] < n
      <4>1. j \in 1 .. Len(crawlList) /\ (j = i \/ i < j)
        BY <1>1, <2>1
      <4> QED
        BY <1>1, <1>3, <2>1, <4>1
    <3> QED
      BY <3>1, <3>2
  <2> DEFINE old(k) == IF k < i THEN k ELSE k - 1
  <2>5. \A k \in 1 .. Len(crawlList) + 1 :
          k # i => old(k) \in 1 .. Len(crawlList) /\ crawlList'[k] = crawlList[old(k)]
    <3> SUFFICES ASSUME NEW k \in 1 .. Len(crawlList) + 1, k # i
                 PROVE  old(k) \in 1 .. Len(crawlList) /\ crawlList'[k] = crawlList[old(k)]
      OBVIOUS
    <3>1. CASE k < i
      <4>1. k \in 1 .. i - 1 /\ k \in 1 .. Len(crawlList)
        BY <1>1, <2>1, <3>1
      <4> QED
        BY <2>2, <3>1, <4>1
    <3>2. CASE k > i
      <4>1. /\ k - 1 \in i .. Len(crawlList) /\ k - 1 \in 1 .. Len(crawlList)
            /\ (k - 1) + 1 = k /\ ~(k < i)
        BY <1>1, <2>1, <3>2
      <4>2. crawlList'[(k - 1) + 1] = crawlList[k - 1]
        BY <2>2, <4>1
      <4> QED
        BY <4>1, <4>2
    <3> QED
      BY <1>1, <2>1, <3>1, <3>2
  <2>6. \A k, j \in 1 .. Len(crawlList) + 1 :
          k < j => recId[crawlList'[k]] > recId[crawlList'[j]]
    <3> SUFFICES ASSUME NEW k \in 1 .. Len(crawlList) + 1, NEW j \in 1 .. Len(crawlList) + 1, k < j
                 PROVE  recId[crawlList'[k]] > recId[crawlList'[j]]
      OBVIOUS
    <3>1. CASE k = i
      <4>1. old(j) \in i .. Len(crawlList) /\ crawlList'[j] = crawlList[old(j)]
        BY <1>1, <2>1, <2>5, <3>1
      <4> QED
        BY <1>1, <2>2, <2>4, <3>1, <4>1 DEF p
    <3>2. CASE j = i
      <4>1. k \in 1 .. i - 1
        BY <1>1, <2>1, <3>2
      <4> QED
        BY <1>1, <2>2, <2>4, <3>2, <4>1 DEF p
    <3>3. CASE k # i /\ j # i
      <4>1. old(k) < old(j)
        BY <1>1, <2>1, <3>3
      <4> HIDE DEF old
      <4> QED
        BY <1>3, <2>5, <3>3, <4>1
    <3> QED
      BY <3>1, <3>2, <3>3
  <2>7. Listed' \subseteq Listed \cup {p}
    <3> SUFFICES ASSUME NEW k \in 1 .. Len(crawlList) + 1, k # i
                 PROVE  crawlList'[k] \in Listed
      BY <2>2, <2>3 DEF Listed, ToSet
    <3> QED
      BY <2>5, ListedArePosts DEF Inv
  <2>8. n <= recId[crawlList'[1]] /\ recId[crawlList[1]] <= recId[crawlList'[1]]
    <3>1. CASE i = 1
      <4>1. crawlList'[1] = p /\ recId[crawlList[1]] < n
        BY <2>1, <2>2, <3>1
      <4> QED
        BY <1>1, <2>1, <3>1, <4>1 DEF p
    <3>2. CASE i # 1
      <4>1. 1 \in 1 .. i - 1 /\ 1 \in 1 .. Len(crawlList)
        BY <1>1, <2>1, <3>2
      <4>2. crawlList'[1] = crawlList[1] /\ recId[crawlList[1]] > n
        BY <2>2, <2>4, <4>1
      <4> QED
        BY <1>1, <4>1, <4>2
    <3> QED
      BY <3>1, <3>2
  <2>9. crawlList' # <<>>
    <3>1. 1 \in DOMAIN crawlList'
      BY <1>1, <2>3
    <3> QED
      BY <3>1
  <2> QED
    BY <2>2, <2>3, <2>6, <2>7, <2>8, <2>9
<1> QED
  BY <1>4, <1>6, <1>7, <1>8 DEF p

\* Loading one file preserves Inv: order, files, and terminal status.
LEMMA LoadRecordInv ==
  ASSUME Inv, NEW n \in unread, LoadRecord(n)
  PROVE  Inv'
<1> DEFINE p == disk[n].owner
<1>1. /\ server = "loading" /\ unread' = unread \ {n}
      /\ UNCHANGED <<server, identity, recId, recConfig, disk, http, pool, confs,
                     kb, history>>
  BY DEF LoadRecord
<1>2. n \in DOMAIN disk /\ n \in Nat /\ disk[n].status \in Statuses /\ disk[n].folder \in BOOLEAN
  BY DEF Inv, TypeOK
<1>3. Quiet'
  BY <1>1 DEF Quiet, Inv, ServerInv
<1>4. HttpInv' /\ PoolInv' /\ AtMostOneAgent' /\ StartInv' /\ StatusInv'
  BY <1>1, <1>3, StartUpAgents
<1>5. Readable' = Readable
  BY <1>1 DEF Readable
<1>6. CASE p = Null
  <2>1. UNCHANGED <<crawlList, status, folder>>
    BY <1>6 DEF LoadRecord
  <2>2. TypeOK'
    BY <1>1, <2>1 DEF Inv, TypeOK
  <2>3. n \notin Readable /\ Listed' = Listed
    BY <1>6, <2>1 DEF Readable, Listed
  <2>4. BornInv' /\ IdInv'
    BY <1>1, <1>5, <2>1, <2>3 DEF Inv, BornInv, IdInv
  <2>5. NewestFirst' /\ FilesAreNotShared' /\ ActiveHasAgent'
    <3>1. NewestFirst' /\ FilesAreNotShared'
      BY <1>1, <1>5, <2>1, <2>3 DEF Inv, NewestFirst, FilesAreNotShared
    <3>2. \A q \in Listed : status[q] \in Terminal
      BY <1>1 DEF Inv, ServerInv
    <3> QED
      BY <2>1, <2>3, <3>1, <3>2 DEF ActiveHasAgent
  <2>6. ServerInv'
    <3>1. Readable \ unread' = Readable \ unread
      BY <1>1, <2>3
    <3> QED
      BY <1>1, <1>3, <1>5, <2>1, <2>3, <3>1 DEF Inv, ServerInv
  <2> QED
    BY <1>4, <2>2, <2>4, <2>5, <2>6 DEF Inv
<1>7. CASE p # Null
  <2>1. n \in Readable
    BY <1>2, <1>7 DEF Readable
  <2>2. p \in Posts /\ recId[p] = n /\ status[p] # "none"
    BY <2>1, <1>2, <1>7 DEF Inv, TypeOK, IdInv, BornInv
  <2>3. /\ status' = [status EXCEPT ![p] = LoadedStatus(disk[n].status)]
        /\ folder' = [folder EXCEPT ![p] = disk[n].folder]
    BY <1>7 DEF LoadRecord
  <2>4. /\ crawlList' \in Seq(Posts)
        /\ Listed' \subseteq Listed \cup {p}
        /\ \A i, j \in DOMAIN crawlList' :
             i < j => recId[crawlList'[i]] > recId[crawlList'[j]]
        /\ crawlList' # <<>>
        /\ n <= recId[crawlList'[1]]
        /\ crawlList # <<>> => recId[crawlList[1]] <= recId[crawlList'[1]]
    BY <1>1, <2>1, LoadedList
  <2>5. LoadedStatus(disk[n].status) \in Terminal
    BY DEF LoadedStatus, Terminal
  <2>6. \A q \in Posts : status'[q] = IF q = p THEN LoadedStatus(disk[n].status) ELSE status[q]
    BY <2>2, <2>3 DEF Inv, TypeOK
  <2>7. TypeOK'
    <3>1. status' \in [Posts -> Statuses] /\ folder' \in [Posts -> BOOLEAN]
      <4>1. status \in [Posts -> Statuses] /\ folder \in [Posts -> BOOLEAN]
        BY DEF Inv, TypeOK
      <4> QED
        BY <1>2, <2>2, <2>3, <2>5, <4>1 DEF Statuses
    <3> QED
      BY <1>1, <2>4, <3>1 DEF Inv, TypeOK
  <2> HIDE DEF p
  <2>8. BornInv'
    <3> SUFFICES ASSUME NEW q \in Posts
                 PROVE  /\ status'[q] = "none" =>
                             /\ starts[q] = 0 /\ q \notin Listed'
                             /\ \A m \in Readable : disk[m].owner # q
                        /\ status'[q] # "none" => recConfig[q] \in Configs
      BY <1>1, <1>5 DEF BornInv
    <3>1. CASE q = p
      BY <2>2, <2>5, <2>6, <3>1 DEF Terminal, Inv, BornInv
    <3>2. CASE q # p
      BY <2>4, <2>6, <3>2 DEF Inv, BornInv
    <3> QED
      BY <3>1, <3>2
  <2>9. IdInv'
    BY <1>1, <1>5 DEF Inv, IdInv
  <2>10. NewestFirst'
    BY <1>1, <2>4 DEF NewestFirst
  <2>11. FilesAreNotShared'
    <3>1. disk[recId[p]].owner = p
      BY <2>2 DEF p
    <3> QED
      BY <1>1, <1>5, <2>4, <3>1 DEF Inv, FilesAreNotShared
  <2>12. \A q \in Listed' : status'[q] \in Terminal
    BY <1>1, <2>2, <2>4, <2>5, <2>6, ListedArePosts DEF Inv, ServerInv
  <2>13. ActiveHasAgent'
    BY <2>12 DEF ActiveHasAgent
  <2>14. ServerInv'
    <3>1. \A q \in Listed' : recId[q] \in Readable \ unread'
      BY <1>1, <2>1, <2>2, <2>4 DEF Inv, ServerInv
    <3>2. ASSUME NEW m \in Readable \ unread' PROVE m <= recId[crawlList'[1]]
      <4>1. CASE m = n
        BY <2>4, <4>1
      <4>2. CASE m # n
        <5>1. crawlList # <<>> /\ m <= recId[crawlList[1]]
          BY <1>1, <3>2, <4>2 DEF Inv, ServerInv
        <5>2. m \in Nat
          BY <3>2 DEF Readable, Inv, TypeOK
        <5>3. crawlList[1] \in Posts /\ crawlList'[1] \in Posts
          <6>1. crawlList \in Seq(Posts)
            BY DEF Inv, TypeOK
          <6>2. 1 \in 1 .. Len(crawlList) /\ 1 \in 1 .. Len(crawlList')
            BY <2>4, <5>1, <6>1, EmptySeq
          <6> QED
            BY <2>4, <6>1, <6>2, ElementOfSeq
        <5>4. recId[crawlList[1]] \in Nat /\ recId[crawlList'[1]] \in Nat
          BY <5>3 DEF Inv, TypeOK
        <5> QED
          BY <2>4, <5>1, <5>2, <5>4
      <4> QED
        BY <4>1, <4>2
    <3> QED
      BY <1>1, <1>3, <1>5, <2>4, <2>12, <3>1, <3>2 DEF ServerInv
  <2> QED
    BY <1>4, <2>7, <2>8, <2>9, <2>10, <2>11, <2>13, <2>14 DEF Inv
<1> QED
  BY <1>6, <1>7

\* The greatest id of the files becomes identity.
LEMMA FinishLoadInv ==
  ASSUME Inv, FinishLoad
  PROVE  Inv'
<1>1. /\ server = "loading" /\ unread = {} /\ server' = "up"
      /\ identity' = IF crawlList = <<>> THEN 0 ELSE recId[Head(crawlList)]
      /\ UNCHANGED <<unread, crawlList, records, disk, http, pool, confs, kb, history>>
  BY DEF FinishLoad
<1>2. Listed' = Listed /\ Readable' = Readable
  BY <1>1 DEF Listed, Readable
<1>3. crawlList # <<>> =>
        /\ 1 \in 1 .. Len(crawlList) /\ Head(crawlList) = crawlList[1]
        /\ crawlList[1] \in Posts /\ recId[crawlList[1]] \in Nat
  <2> SUFFICES ASSUME crawlList # <<>>
               PROVE  /\ 1 \in 1 .. Len(crawlList) /\ Head(crawlList) = crawlList[1]
                      /\ crawlList[1] \in Posts /\ recId[crawlList[1]] \in Nat
    OBVIOUS
  <2>1. crawlList \in Seq(Posts)
    BY DEF Inv, TypeOK
  <2>2. 1 \in 1 .. Len(crawlList)
    BY <2>1, EmptySeq
  <2>3. crawlList[1] \in Posts
    BY <2>1, <2>2, ElementOfSeq
  <2>4. recId[crawlList[1]] \in Nat
    BY <2>3 DEF Inv, TypeOK
  <2> QED
    BY <2>1, <2>2, <2>3, <2>4
<1>4. TypeOK'
  <2>1. identity' \in Nat
    BY <1>1, <1>3
  <2> QED
    BY <1>1, <2>1 DEF Inv, TypeOK
<1>5. Quiet'
  BY <1>1 DEF Quiet, Inv, ServerInv
<1>6. HttpInv' /\ PoolInv' /\ AtMostOneAgent' /\ StartInv' /\ StatusInv'
  BY <1>1, <1>5, StartUpAgents
<1>7. BornInv' /\ IdInv'
  BY <1>1, <1>2 DEF Inv, BornInv, IdInv
<1>8. NewestFirst' /\ FilesAreNotShared'
  BY <1>1, <1>2 DEF Inv, NewestFirst, FilesAreNotShared
<1>9. ActiveHasAgent'
  <2>1. \A q \in Listed : status[q] \in Terminal
    BY <1>1 DEF Inv, ServerInv
  <2> QED
    BY <1>1, <1>2, <2>1 DEF ActiveHasAgent
<1>10. ServerInv'
  <2>1. \A n \in Readable : n <= identity'
    BY <1>1, <1>3 DEF Inv, ServerInv
  <2>2. ASSUME NEW q \in Listed PROVE recId[q] <= identity'
    <3>1. PICK i \in 1 .. Len(crawlList) : crawlList[i] = q
      BY ListedArePosts DEF Listed, ToSet, Inv
    <3>2. crawlList # <<>>
      BY <3>1
    <3>3. identity' = recId[crawlList[1]] /\ 1 \in 1 .. Len(crawlList)
      BY <1>1, <1>3, <3>2
    <3>4. recId[q] \in Nat /\ recId[crawlList[1]] \in Nat
      BY <1>3, <3>2, ListedArePosts DEF Inv, TypeOK
    <3>5. CASE i = 1
      BY <3>1, <3>3, <3>4, <3>5
    <3>6. CASE 1 < i
      <4>1. recId[crawlList[1]] > recId[crawlList[i]]
        BY <3>1, <3>3, <3>6, ListedArePosts DEF Inv, NewestFirst
      <4> QED
        BY <3>1, <3>3, <3>4, <4>1
    <3> QED
      BY <3>1, <3>5, <3>6
  <2> QED
    BY <1>1, <1>2, <2>1, <2>2 DEF ServerInv
<1> QED
  BY <1>4, <1>6, <1>7, <1>8, <1>9, <1>10 DEF Inv

-----------------------------------------------------------------------------
(***************************************************************************)
(* The theorems.                                                           *)
(***************************************************************************)
LEMMA InitInv ==
  Init => Inv
<1> SUFFICES ASSUME Init PROVE Inv
  OBVIOUS
<1> USE DEF Init
<1>1. TypeOK
  <2>1. DOMAIN disk = {} /\ DOMAIN kb = {} /\ crawlList \in Seq(Posts) /\ queue \in Seq(Posts)
    OBVIOUS
  <2> QED
    BY <2>1 DEF TypeOK, Statuses
<1>2. Listed = {} /\ Readable = {} /\ DOMAIN crawlList = {} /\ DOMAIN queue = {}
  BY DEF Listed, ToSet, Readable
<1>3. BornInv /\ IdInv /\ NewestFirst /\ FilesAreNotShared /\ ServerInv /\ ActiveHasAgent
  BY <1>2 DEF BornInv, IdInv, NewestFirst, FilesAreNotShared, ServerInv, ActiveHasAgent
<1>4. HttpInv /\ PoolInv /\ StatusInv
  BY <1>2 DEF HttpInv, PoolInv, StatusInv
<1>5. AtMostOneAgent /\ StartInv
  BY <1>2 DEF AtMostOneAgent, StartInv, HttpHolds, WorkerHolds
<1> QED
  BY <1>1, <1>3, <1>4, <1>5 DEF Inv

\* Every step preserves Inv.
LEMMA NextInv ==
  ASSUME OneHttpThread, Inv, [Next]_vars
  PROVE  Inv'
<1>1. CASE UNCHANGED vars
  <2> USE <1>1 DEF vars
  <2>1. /\ Listed' = Listed /\ Readable' = Readable
        /\ \A p \in Posts :
             /\ HasAgent(p)' <=> HasAgent(p)
             /\ \A t \in HttpThreads : HttpHolds(t, p)' <=> HttpHolds(t, p)
             /\ \A w \in Workers : WorkerHolds(w, p)' <=> WorkerHolds(w, p)
    BY DEF Listed, Readable, HasAgent, HttpHolds, WorkerHolds
  <2>2. TypeOK'
    BY DEF Inv, TypeOK
  <2>3. BornInv' /\ IdInv' /\ NewestFirst' /\ FilesAreNotShared'
    BY <2>1 DEF Inv, BornInv, IdInv, NewestFirst, FilesAreNotShared
  <2>4. ServerInv'
    BY <2>1 DEF Inv, ServerInv, Quiet
  <2>5. HttpInv' /\ PoolInv' /\ StatusInv'
    BY <2>1 DEF Inv, HttpInv, PoolInv, StatusInv, NewRecord, GreatestId
  <2>6. AtMostOneAgent' /\ StartInv'
    BY <2>1 DEF Inv, AtMostOneAgent, StartInv
  <2>7. ActiveHasAgent'
    BY <2>1, ListedArePosts DEF Inv, ActiveHasAgent
  <2> QED
    BY <2>2, <2>3, <2>4, <2>5, <2>6, <2>7 DEF Inv
<1>2. CASE \E t \in HttpThreads, p \in Posts, c \in Configs : Post(t, p, c)
  BY <1>2, PostInv
<1>3. CASE \E t \in HttpThreads : HttpStep(t)
  BY <1>3, HttpStepInv
<1>4. CASE \E w \in Workers : WorkerStep(w)
  BY <1>4, WorkerStepInv
<1>5. CASE \E c \in Configs : EditConfig(c) \/ RemoveConfig(c)
  BY <1>5, ClientInv
<1>6. CASE Crash
  BY <1>6, CrashInv
<1>7. CASE StartUp
  BY <1>7, BootInv, LoadRecordInv, FinishLoadInv DEF StartUp
<1> QED
  BY <1>1, <1>2, <1>3, <1>4, <1>5, <1>6, <1>7 DEF Next

\* Inv holds always: types, the order and the ids of the list, the files, and
\* who is responsible for each record.
THEOREM HistoryInvariant ==
  ASSUME OneHttpThread
  PROVE  Spec => []Inv
<1>1. Inv /\ [Next]_vars => Inv'
  BY NextInv
<1> QED
  BY <1>1, InitInv, PTL DEF Spec

\* The variables keep their types, among them every label of the threads.
THEOREM HistoryTypes ==
  ASSUME OneHttpThread
  PROVE  Spec => []TypeOK
<1>1. Inv => TypeOK
  BY DEF Inv
<1> QED
  BY <1>1, HistoryInvariant, PTL

\* The list of the crawl history is in strictly descending order of ids, over
\* any number of crashes and restarts.
THEOREM HistoryIsOrdered ==
  ASSUME OneHttpThread
  PROVE  Spec => []NewestFirst
<1>1. Inv => NewestFirst
  BY DEF Inv
<1> QED
  BY <1>1, HistoryInvariant, PTL

\* Ids are unique as long as records are created by one thread at a time.
THEOREM IdsAreUnique ==
  ASSUME OneHttpThread
  PROVE  Spec => []UniqueIds
<1>1. Inv => UniqueIds
  BY SameId DEF Inv, UniqueIds
<1> QED
  BY <1>1, HistoryInvariant, PTL

\* No record is saved over the readable file of another one.
THEOREM FilesStayApart ==
  ASSUME OneHttpThread
  PROVE  Spec => []FilesAreNotShared
<1>1. Inv => FilesAreNotShared
  BY DEF Inv
<1> QED
  BY <1>1, HistoryInvariant, PTL

\* At most one thread or queued task is responsible for a record.
THEOREM OneAgentAtMost ==
  ASSUME OneHttpThread
  PROVE  Spec => []AtMostOneAgent
<1>1. Inv => AtMostOneAgent
  BY DEF Inv
<1> QED
  BY <1>1, HistoryInvariant, PTL

\* A crawl is started at most once, whatever crashes and restarts happen.
THEOREM OneStartAtMost ==
  ASSUME OneHttpThread
  PROVE  Spec => []StartedAtMostOnce
<1>1. Inv => StartedAtMostOnce
  BY DEF Inv, StartInv, StartedAtMostOnce
<1> QED
  BY <1>1, HistoryInvariant, PTL

\* A record shown as waiting or running has somebody who works on it, unless
\* its thread is known to have died.
THEOREM ActiveRecordsAreHeld ==
  ASSUME OneHttpThread
  PROVE  Spec => []ActiveHasAgent
<1>1. Inv => ActiveHasAgent
  BY DEF Inv
<1> QED
  BY <1>1, HistoryInvariant, PTL

-----------------------------------------------------------------------------
(***************************************************************************)
(* The configurations.  At the end of a crawl the worker reads the one of  *)
(* its record, and puts it back: between the two it holds a version of it. *)
(***************************************************************************)
HoldsVersion(w) == wpc[w] = "update"
ConfigOf(w)     == recConfig[wpost[w]]

\* A client edits no configuration while a worker holds a version of it.
EditsMeetNoUpdate ==
  [][\A c \in Configs, w \in Workers :
       EditConfig(c) /\ HoldsVersion(w) => ConfigOf(w) # c]_vars

\* Then a version that is held is that of the configuration, if it was not removed,
\* and of everybody else who holds one.
HeldIsCurrent ==
  \A w \in Workers : HoldsVersion(w) =>
    /\ held[w] <= edits
    /\ config[ConfigOf(w)] \in {0, held[w]}
    /\ \A v \in Workers : HoldsVersion(v) /\ ConfigOf(v) = ConfigOf(w) => held[v] = held[w]

VersionInv == HeldIsCurrent /\ \A c \in Configs : config[c] <= edits

\* What does not touch the configurations, and gives nobody a version of one.
LEMMA VersionsKept ==
  ASSUME Inv, VersionInv, UNCHANGED <<config, edits>>,
         \A w \in Workers : HoldsVersion(w)' =>
           HoldsVersion(w) /\ held'[w] = held[w] /\ ConfigOf(w)' = ConfigOf(w)
  PROVE  VersionInv'
<1>1. \A c \in Configs : config'[c] <= edits'
  BY DEF VersionInv
<1>2. HeldIsCurrent'
  BY DEF VersionInv, HeldIsCurrent
<1> QED
  BY <1>1, <1>2 DEF VersionInv

\* A worker that does not reload leaves the versions of the others alone.
LEMMA WorkerVersions ==
  ASSUME Inv, VersionInv, NEW w \in Workers, WorkerStep(w), ~Reload(w), ~UpdateConfig(w)
  PROVE  VersionInv'
<1>1. UNCHANGED <<config, edits, recConfig>> /\ ~HoldsVersion(w)'
  <2>1. wpc \in [Workers -> Labels]
    BY WorkerLabels DEF Inv
  <2>2. wpc[w] \in {"writeRunning", "writeSuccess", "writeFailure"} =>
          AfterWrite[wpc[w]] # "update"
    BY DEF AfterWrite
  <2>3. DOMAIN AfterWrite = {"writeRunning", "writeSuccess", "writeFailure"}
    BY DEF AfterWrite
  <2>4. CASE Take(w) \/ LookUp(w) \/ Initialize(w) \/ Build(w)
    BY <2>1, <2>4 DEF Take, LookUp, Initialize, Build, DieOfError, Goto, HoldsVersion
  <2>5. CASE Start(w) \/ Succeed(w) \/ Fail(w)
    BY <2>1, <2>5 DEF Start, Succeed, Fail, SetStatus, Goto, HoldsVersion
  <2>6. CASE Announce(w) \/ Return(w) \/ UpdateRow(w)
    BY <2>1, <2>6 DEF Announce, Return, UpdateRow, AfterBadRow, DieOfError, Goto, HoldsVersion
  <2>7. CASE Write(w)
    BY <2>1, <2>2, <2>3, <2>7 DEF Write, Goto, HoldsVersion
  <2> QED
    BY <2>4, <2>5, <2>6, <2>7 DEF WorkerStep
<1>2. \A v \in Workers \ {w} : wpc'[v] = wpc[v] /\ wpost'[v] = wpost[v] /\ held'[v] = held[v]
  <2>1. /\ wpc \in [Workers -> Labels] /\ wpost \in [Workers -> Posts \cup {Null}]
        /\ held \in [Workers -> Nat]
    BY WorkerLabels DEF Inv, TypeOK
  <2>2. CASE Take(w) \/ LookUp(w) \/ Initialize(w) \/ Build(w)
    BY <2>1, <2>2 DEF Take, LookUp, Initialize, Build, DieOfError, Goto
  <2>3. CASE Start(w) \/ Succeed(w) \/ Fail(w)
    BY <2>1, <2>3 DEF Start, Succeed, Fail, SetStatus, Goto
  <2>4. CASE Announce(w) \/ Return(w) \/ UpdateRow(w) \/ Write(w)
    BY <2>1, <2>4 DEF Announce, Return, UpdateRow, DieOfError, Goto, Write
  <2> QED
    BY <2>2, <2>3, <2>4 DEF WorkerStep
<1>3. ASSUME NEW v \in Workers, HoldsVersion(v)'
      PROVE  HoldsVersion(v) /\ held'[v] = held[v] /\ ConfigOf(v)' = ConfigOf(v)
  BY <1>1, <1>2, <1>3 DEF HoldsVersion, ConfigOf
<1> QED
  BY <1>1, <1>3, VersionsKept

\* The worker reads the configuration of its record: the version the others hold.
LEMMA ReloadVersion ==
  ASSUME Inv, VersionInv, NEW w \in Workers, Reload(w)
  PROVE  VersionInv'
<1> DEFINE c == ConfigOf(w)
<1>1. c \in Configs /\ config[c] \in Nat
  BY WorkerFacts DEF Reload, ConfigOf
<1>2. /\ UNCHANGED <<config, edits, recConfig, wpost>>
      /\ held' = [held EXCEPT ![w] = config[c]]
      /\ wpc' = [wpc EXCEPT ![w] = IF config[c] = 0 THEN "fail" ELSE "update"]
  BY DEF Reload, Goto, ConfigOf
<1>3. /\ held'[w] = config[c] /\ (HoldsVersion(w)' => config[c] # 0)
      /\ \A v \in Workers \ {w} :
           held'[v] = held[v] /\ (HoldsVersion(v)' <=> HoldsVersion(v))
  <2>1. wpc \in [Workers -> Labels] /\ held \in [Workers -> Nat]
    BY WorkerLabels DEF Inv, TypeOK
  <2> HIDE DEF c
  <2> QED
    BY <1>2, <2>1 DEF HoldsVersion
<1>4. \A v \in Workers : ConfigOf(v)' = ConfigOf(v)
  BY <1>2 DEF ConfigOf
<1>5. config[c] <= edits
  BY <1>1 DEF VersionInv
<1>6. \A v \in Workers : HoldsVersion(v) =>
        /\ held[v] <= edits
        /\ config[ConfigOf(v)] \in {0, held[v]}
        /\ \A u \in Workers :
             HoldsVersion(u) /\ ConfigOf(u) = ConfigOf(v) => held[u] = held[v]
  BY DEF VersionInv, HeldIsCurrent
<1>7. ASSUME NEW v \in Workers, HoldsVersion(v)'
      PROVE  held'[v] <= edits /\ config[ConfigOf(v)] \in {0, held'[v]}
  <2>1. CASE v = w
    BY <1>3, <1>5, <2>1
  <2>2. CASE v # w
    BY <1>3, <1>6, <1>7, <2>2
  <2> QED
    BY <2>1, <2>2
<1>8. ASSUME NEW v \in Workers, NEW u \in Workers, HoldsVersion(v)', HoldsVersion(u)',
             ConfigOf(u) = ConfigOf(v)
      PROVE  held'[u] = held'[v]
  <2>1. CASE u # w /\ v # w
    BY <1>3, <1>6, <1>8, <2>1
  <2>2. CASE u = w \/ v = w
    <3>1. ConfigOf(u) = c /\ ConfigOf(v) = c /\ config[c] # 0
      BY <1>3, <1>8, <2>2
    <3> QED
      BY <1>7, <1>8, <3>1
  <2> QED
    BY <2>1, <2>2
<1>9. HeldIsCurrent'
  BY <1>2, <1>4, <1>7, <1>8 DEF HeldIsCurrent
<1> QED
  BY <1>2, <1>9 DEF VersionInv

\* The worker puts back what it holds.
LEMMA UpdateVersion ==
  ASSUME Inv, VersionInv, NEW w \in Workers, UpdateConfig(w)
  PROVE  /\ VersionInv'
         /\ \A c \in Configs : config'[c] >= config[c]
<1> DEFINE c == ConfigOf(w)
<1>1. c \in Configs /\ config \in [Configs -> Nat] /\ held[w] \in Nat
  BY WorkerFacts DEF UpdateConfig, ConfigOf, Inv, TypeOK
<1>2. /\ UNCHANGED <<edits, recConfig, wpost, held>> /\ HoldsVersion(w)
      /\ config' = [config EXCEPT ![c] = held[w]]
      /\ wpc' = [wpc EXCEPT ![w] = "succeed"]
  BY DEF UpdateConfig, Goto, ConfigOf, HoldsVersion
<1> HIDE DEF c
<1>3. /\ config'[c] = held[w]
      /\ \A d \in Configs \ {c} : config'[d] = config[d]
  BY <1>1, <1>2
<1>4. held[w] <= edits /\ config[c] \in {0, held[w]}
  BY <1>2 DEF VersionInv, HeldIsCurrent, c
<1>5. \A d \in Configs : config'[d] >= config[d]
  BY <1>1, <1>3, <1>4
<1>6. \A d \in Configs : config'[d] <= edits
  BY <1>3, <1>4 DEF VersionInv
<1>7. ASSUME NEW v \in Workers, HoldsVersion(v)'
      PROVE  HoldsVersion(v) /\ ConfigOf(v)' = ConfigOf(v)
  <2>1. wpc \in [Workers -> Labels]
    BY WorkerLabels DEF Inv
  <2> QED
    BY <1>2, <1>7, <2>1 DEF HoldsVersion, ConfigOf
<1>8. ASSUME NEW v \in Workers, HoldsVersion(v)
      PROVE  config'[ConfigOf(v)] \in {0, held[v]}
  <2>1. CASE ConfigOf(v) = c
    BY <1>2, <1>3, <1>8, <2>1 DEF VersionInv, HeldIsCurrent, c
  <2>2. CASE ConfigOf(v) # c
    <3>1. ConfigOf(v) \in Configs
      BY <1>8, WorkerFacts DEF HoldsVersion, ConfigOf
    <3> QED
      BY <1>3, <1>8, <2>2, <3>1 DEF VersionInv, HeldIsCurrent
  <2> QED
    BY <2>1, <2>2
<1>9. HeldIsCurrent'
  BY <1>2, <1>7, <1>8 DEF HeldIsCurrent, VersionInv
<1> QED
  BY <1>2, <1>5, <1>6, <1>9 DEF VersionInv

\* Clients: an edit is newer than whatever was there.
LEMMA ClientVersions ==
  ASSUME Inv, VersionInv, NEW c \in Configs,
         \/ RemoveConfig(c)
         \/ EditConfig(c) /\ \A w \in Workers : HoldsVersion(w) => ConfigOf(w) # c
  PROVE  /\ VersionInv'
         /\ \A d \in Configs : config'[d] = 0 \/ config'[d] >= config[d]
<1>1. config \in [Configs -> Nat] /\ edits \in Nat /\ held \in [Workers -> Nat]
  BY DEF Inv, TypeOK
<1>2. UNCHANGED <<recConfig, wpost, wpc, held>>
  BY DEF RemoveConfig, EditConfig
<1>3. \A w \in Workers : HoldsVersion(w) => ConfigOf(w) \in Configs
  BY WorkerFacts DEF HoldsVersion, ConfigOf
<1>4. \A w \in Workers :
        (HoldsVersion(w)' <=> HoldsVersion(w)) /\ ConfigOf(w)' = ConfigOf(w)
  BY <1>2 DEF HoldsVersion, ConfigOf
<1>5. CASE RemoveConfig(c)
  <2>1. /\ config'[c] = 0 /\ edits' = edits
        /\ \A d \in Configs \ {c} : config'[d] = config[d]
    BY <1>1, <1>5 DEF RemoveConfig
  <2>2. \A d \in Configs : config'[d] \in {0, config[d]} /\ config'[d] <= edits
    BY <1>1, <2>1 DEF VersionInv
  <2>3. HeldIsCurrent'
    BY <1>2, <1>3, <1>4, <2>1, <2>2 DEF HeldIsCurrent, VersionInv
  <2> QED
    BY <1>1, <2>1, <2>2, <2>3 DEF VersionInv
<1>6. CASE EditConfig(c) /\ \A w \in Workers : HoldsVersion(w) => ConfigOf(w) # c
  <2>1. /\ config'[c] = edits + 1 /\ edits' = edits + 1
        /\ \A d \in Configs \ {c} : config'[d] = config[d]
    BY <1>1, <1>6 DEF EditConfig
  <2>2. \A d \in Configs : config'[d] <= edits' /\ config'[d] >= config[d]
    BY <1>1, <2>1 DEF VersionInv
  <2>3. ASSUME NEW w \in Workers, HoldsVersion(w)
        PROVE  /\ held[w] <= edits'
               /\ config'[ConfigOf(w)] \in {0, held[w]}
    <3>1. ConfigOf(w) \in Configs \ {c}
      BY <1>3, <1>6, <2>3
    <3>2. held[w] <= edits /\ config[ConfigOf(w)] \in {0, held[w]}
      BY <2>3 DEF VersionInv, HeldIsCurrent
    <3>3. config'[ConfigOf(w)] = config[ConfigOf(w)]
      BY <2>1, <3>1
    <3> QED
      BY <1>1, <2>1, <3>2, <3>3
  <2>4. HeldIsCurrent'
    BY <1>2, <1>4, <2>3 DEF HeldIsCurrent, VersionInv
  <2> QED
    BY <2>2, <2>4 DEF VersionInv
<1> QED
  BY <1>5, <1>6

\* Requests, crashes and restarts leave the configurations alone.
LEMMA OtherVersions ==
  ASSUME Inv, VersionInv,
         \/ \E t \in HttpThreads, p \in Posts, c \in Configs : Post(t, p, c)
         \/ \E t \in HttpThreads : HttpStep(t)
         \/ Crash \/ StartUp \/ UNCHANGED vars
  PROVE  VersionInv' /\ UNCHANGED config
<1>1. CASE \E t \in HttpThreads, p \in Posts, c \in Configs : Post(t, p, c)
  <2>1. PICK t \in HttpThreads, p \in Posts, c \in Configs : Post(t, p, c)
    BY <1>1
  <2>2. /\ UNCHANGED <<config, edits, wpc, wpost, held>> /\ status[p] = "none"
        /\ \A q \in Posts \ {p} : recConfig'[q] = recConfig[q]
    BY <2>1 DEF Post, Inv, TypeOK
  <2>3. ASSUME NEW w \in Workers, HoldsVersion(w)'
        PROVE  HoldsVersion(w) /\ held'[w] = held[w] /\ ConfigOf(w)' = ConfigOf(w)
    <3>1. HoldsVersion(w)
      BY <2>2, <2>3 DEF HoldsVersion
    <3>2. wpost[w] \in Posts /\ status[wpost[w]] # "none"
      BY <3>1, WorkerFacts DEF HoldsVersion
    <3> QED
      BY <2>2, <3>1, <3>2 DEF ConfigOf
  <2> QED
    BY <2>2, <2>3, VersionsKept
<1>2. CASE \/ \E t \in HttpThreads : HttpStep(t)
           \/ StartUp \/ UNCHANGED vars
  <2>1. UNCHANGED <<config, edits, wpc, wpost, held, recConfig>>
    BY <1>2
    DEF HttpStep, AssignId, Link, OpenNew, WriteNew, SaveRow, Enqueue, OpenFile, WriteFile,
        StartUp, Boot, LoadRecord, FinishLoad, vars
  <2> QED
    BY <2>1, VersionsKept DEF HoldsVersion, ConfigOf
<1>3. CASE Crash
  <2>1. UNCHANGED <<config, edits>> /\ \A w \in Workers : ~HoldsVersion(w)'
    BY <1>3 DEF Crash, HoldsVersion
  <2> QED
    BY <2>1, VersionsKept
<1> QED
  BY <1>1, <1>2, <1>3

\* A step of the system, when no edit meets an update.
LEMMA NextVersions ==
  ASSUME Inv, VersionInv, [Next]_vars,
         \A c \in Configs, w \in Workers :
           EditConfig(c) /\ HoldsVersion(w) => ConfigOf(w) # c
  PROVE  /\ VersionInv'
         /\ \A d \in Configs : config'[d] = 0 \/ config'[d] >= config[d]
<1>1. config \in [Configs -> Nat]
  BY DEF Inv, TypeOK
<1>2. CASE \/ \E t \in HttpThreads, p \in Posts, c \in Configs : Post(t, p, c)
           \/ \E t \in HttpThreads : HttpStep(t)
           \/ Crash \/ StartUp \/ UNCHANGED vars
  <2>1. VersionInv' /\ UNCHANGED config
    BY <1>2, OtherVersions
  <2> QED
    BY <1>1, <2>1
<1>3. ASSUME NEW w \in Workers, WorkerStep(w)
      PROVE  VersionInv' /\ \A d \in Configs : config'[d] >= config[d]
  <2>1. CASE Reload(w)
    <3>1. VersionInv'
      BY <2>1, ReloadVersion
    <3>2. UNCHANGED config
      BY <2>1 DEF Reload
    <3>3. \A d \in Configs : config[d] \in Nat
      BY <1>1
    <3> QED
      BY <3>1, <3>2, <3>3
  <2>2. CASE UpdateConfig(w)
    BY <2>2, UpdateVersion
  <2>3. CASE ~Reload(w) /\ ~UpdateConfig(w)
    <3>1. VersionInv'
      BY <1>3, <2>3, WorkerVersions
    <3>2. UNCHANGED config
      BY <1>3, <2>3
      DEF WorkerStep, Take, LookUp, Initialize, Build, Start, Succeed, Fail, SetStatus,
          Announce, Return, UpdateRow, Write
    <3> QED
      BY <1>1, <3>1, <3>2
  <2> QED
    BY <2>1, <2>2, <2>3
<1>4. ASSUME NEW c \in Configs, EditConfig(c) \/ RemoveConfig(c)
      PROVE  /\ VersionInv'
             /\ \A d \in Configs : config'[d] = 0 \/ config'[d] >= config[d]
  BY <1>4, ClientVersions
<1> QED
  BY <1>2, <1>3, <1>4 DEF Next

(***************************************************************************)
(* An update at the end of a crawl overwrites no newer version, however    *)
(* many workers update the same configuration, and whatever is removed and *)
(* restarted, unless a client saves the configuration just between the     *)
(* reload and the update (CrawlExecution.run).                             *)
(***************************************************************************)
THEOREM UpdatesKeepEdits ==
  ASSUME OneHttpThread
  PROVE  Spec /\ EditsMeetNoUpdate => EditsAreKept
<1> DEFINE Meets == \A c \in Configs, w \in Workers :
                      EditConfig(c) /\ HoldsVersion(w) => ConfigOf(w) # c
           Kept  == \A c \in Configs : config'[c] = 0 \/ config'[c] >= config[c]
<1>1. Init => VersionInv
  BY DEF Init, VersionInv, HeldIsCurrent, HoldsVersion
<1>2. Inv /\ VersionInv /\ [Next]_vars /\ [Meets]_vars => VersionInv' /\ [Kept]_config
  <2> SUFFICES ASSUME Inv, VersionInv, [Next]_vars, [Meets]_vars
               PROVE  VersionInv' /\ [Kept]_config
    OBVIOUS
  <2>1. CASE UNCHANGED vars
    <3>1. UNCHANGED config
      BY <2>1 DEF vars
    <3> QED
      BY <2>1, <3>1, OtherVersions
  <2>2. CASE Meets
    BY <2>2, NextVersions
  <2> QED
    BY <2>1, <2>2
<1> QED
  BY <1>1, <1>2, HistoryInvariant, PTL DEF Spec, EditsMeetNoUpdate, EditsAreKept
=============================================================================
