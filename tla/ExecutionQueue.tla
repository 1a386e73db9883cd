---------------------------- MODULE ExecutionQueue ----------------------------
(***************************************************************************)
(* The execution queue that a browser page of the web client shows, and    *)
(* the socket that keeps it up to date: ApplicationRoute and               *)
(* ApplicationController on the page, LogWebSocketServlet and              *)
(* LoggingSocket on the server, and the announcements CrawlRunner makes    *)
(* when the status of a crawl record changes.                              *)
(*                                                                         *)
(* The page reads the active records once, then only hears of changes.     *)
(* The socket is opened after that read, is closed by the server when it   *)
(* is idle, and is opened again at once by the page; what is announced in  *)
(* between reaches nobody.                                                 *)
(***************************************************************************)
EXTENDS Integers, Sequences, SequencesExt

CONSTANTS
  Crawls,    \* ids of the crawl records, queued in increasing order
  NoCrawl,   \* no record is shown
  Visited,   \* bound: records whose page the user opens
  MaxWire    \* bound: announcements under way at once

ASSUME QueueAssumption ==
  /\ Crawls \subseteq Nat
  /\ NoCrawl \notin Crawls
  /\ Visited \subseteq Crawls
  /\ MaxWire \in Nat

VARIABLES
  crawlStatus,     \* server: CrawlRecord.crawlStatus, "none" before the POST
  told,            \* server: the last status of each record it announced
  socket,          \* "none" until connectSocket, then "connecting" or "open"
  wire,            \* announcements on their way to the page
  executionQueue,  \* page: entries [id, crawlStatus], oldest first
  removals,        \* page: pending calls of removeQueue, per record
  shown,           \* page: content of the crawl record controller
  missed,          \* history: records of which an announcement was lost
  doubled          \* history: records read before they were announced

queueServer == <<crawlStatus, told>>
queuePage   == <<executionQueue, removals, shown>>
queueVars   == <<queueServer, socket, wire, queuePage, missed, doubled>>

Active == {"queued", "initializing", "running"}
Ended  == {"success", "failure"}

Entry(c, s) == [id |-> c, crawlStatus |-> s]
EntriesOf(c) == {i \in DOMAIN executionQueue : executionQueue[i].id = c}
PendingFor(c) == {i \in DOMAIN wire : wire[i].id = c}

-----------------------------------------------------------------------------
(***************************************************************************)
(* Faulty variants of definitions below; no part of QueueSpec.             *)
(***************************************************************************)
\* The oldest entry is taken out, whatever its id.
Removed_Oldest(q, c) == IF q = <<>> THEN q ELSE Tail(q)

\* Only a success takes the entry out of the queue.
LeavesQueue_SuccessOnly(s) == s = "success"

\* A record that is read again comes without its id.
Fetched_NoId(c) == Entry(NoCrawl, crawlStatus[c])

-----------------------------------------------------------------------------
(***************************************************************************)
(* The server.  A thread changes the status of a record and then announces *)
(* it, and makes the next change only after that.                          *)
(***************************************************************************)
NextStatus ==
  [ none         |-> {"queued"},
    queued       |-> {"initializing"},
    initializing |-> {"running", "failure"},
    running      |-> Ended,
    success      |-> {},
    failure      |-> {} ]

ChangeStatus(c) ==
  /\ told[c] = crawlStatus[c]
  /\ \A d \in Crawls : d < c => crawlStatus[d] # "none"
  /\ \E s \in NextStatus[crawlStatus[c]] :
       crawlStatus' = [crawlStatus EXCEPT ![c] = s]
  /\ UNCHANGED <<told, socket, wire, queuePage, missed, doubled>>

\* LogWebSocketServlet.sendToAll reaches the sockets that are connected.
Announce(c) ==
  /\ told[c] # crawlStatus[c]
  /\ Len(wire) < MaxWire
  /\ told' = [told EXCEPT ![c] = crawlStatus[c]]
  /\ IF socket = "open"
       THEN /\ wire' = Append(wire, Entry(c, crawlStatus[c]))
            /\ UNCHANGED missed
       ELSE /\ missed' = IF socket = "none" THEN missed ELSE missed \cup {c}
            /\ UNCHANGED wire
  /\ UNCHANGED <<crawlStatus, socket, queuePage, doubled>>

-----------------------------------------------------------------------------
(***************************************************************************)
(* The page.                                                               *)
(***************************************************************************)
\* getActiveCrawlList: the active records, oldest first.
ActiveList ==
  LET active == {c \in Crawls : crawlStatus[c] \in Active}
      places == 1 .. Cardinality(active)
      ids    == CHOOSE f \in [places -> active] :
                  \A i, j \in places : i < j => f[i] < f[j]
  IN  [i \in places |-> Entry(ids[i], crawlStatus[ids[i]])]

\* ApplicationRoute.setupController: the list is read, then the socket opened.
OpenPage ==
  /\ socket = "none"
  /\ executionQueue' = ActiveList
  /\ doubled' = {c \in Crawls : crawlStatus[c] = "queued" /\ told[c] = "none"}
  /\ socket' = "connecting"
  /\ UNCHANGED <<queueServer, wire, removals, shown, missed>>

\* onWebSocketConnect.
Connect ==
  /\ socket = "connecting"
  /\ socket' = "open"
  /\ UNCHANGED <<queueServer, wire, queuePage, missed, doubled>>

\* onclose connects again and reads nothing; what was under way is lost.
Drop ==
  /\ socket = "open"
  /\ socket' = "connecting"
  /\ wire' = <<>>
  /\ missed' = missed \cup {m.id : m \in ToSet(wire)}
  /\ UNCHANGED <<queueServer, queuePage, doubled>>

\* JavaScript's ==, between a string of the wire and a number.
SameId(a, b) == a = b

\* updateQueue and removeQueue act on the first entry with the id.
First(q, c) == SelectInSeq(q, LAMBDA e : SameId(e.id, c))
Updated(q, c, s) ==
  IF First(q, c) = 0 THEN q ELSE [q EXCEPT ![First(q, c)].crawlStatus = s]
Removed(q, c) == IF First(q, c) = 0 THEN q ELSE RemoveAt(q, First(q, c))

LeavesQueue(s) == s \in Ended

\* CrawlRecords.find, and CrawlrecordRoute for a record the user opens.
Fetched(c) == Entry(c, crawlStatus[c])

ShowRecord(c) ==
  /\ socket # "none"
  /\ crawlStatus[c] # "none"
  /\ shown' = Fetched(c)
  /\ UNCHANGED <<queueServer, socket, wire, executionQueue, removals, missed,
                 doubled>>

\* onmessage.  The status "queued" comes with a new record; a success also
\* reads the shown record again.
Deliver ==
  /\ wire # <<>>
  /\ LET m == Head(wire) IN
       /\ executionQueue' =
            IF m.crawlStatus = "queued"
              THEN Append(executionQueue, m)
              ELSE Updated(executionQueue, m.id, m.crawlStatus)
       /\ removals' = IF LeavesQueue(m.crawlStatus)
                        THEN [removals EXCEPT ![m.id] = @ + 1]
                        ELSE removals
       /\ shown' = IF m.crawlStatus = "success" /\ SameId(shown.id, m.id)
                     THEN Fetched(m.id)
                     ELSE shown
  /\ wire' = Tail(wire)
  /\ UNCHANGED <<queueServer, socket, missed, doubled>>

\* The function given to setTimeout, five seconds later.
Expire(c) ==
  /\ removals[c] > 0
  /\ removals' = [removals EXCEPT ![c] = @ - 1]
  /\ executionQueue' = Removed(executionQueue, c)
  /\ UNCHANGED <<queueServer, socket, wire, shown, missed, doubled>>

-----------------------------------------------------------------------------
QueueInit ==
  /\ crawlStatus = [c \in Crawls |-> "none"]
  /\ told = crawlStatus
  /\ socket = "none"
  /\ wire = <<>>
  /\ executionQueue = <<>>
  /\ removals = [c \in Crawls |-> 0]
  /\ shown = Entry(NoCrawl, "none")
  /\ missed = {}
  /\ doubled = {}

QueueNext ==
  \/ \E c \in Crawls : ChangeStatus(c) \/ Announce(c) \/ Expire(c)
  \/ \E c \in Visited : ShowRecord(c)
  \/ OpenPage
  \/ Connect
  \/ Drop
  \/ Deliver

\* The browser's event loop runs what has arrived and what is due.
QueueFairness ==
  /\ WF_queueVars(Deliver)
  /\ \A c \in Crawls : WF_queueVars(Expire(c))

QueueSpec == QueueInit /\ [][QueueNext]_queueVars /\ QueueFairness

-----------------------------------------------------------------------------
CrawlStatuses == DOMAIN NextStatus
EntrySet  == [id : Crawls, crawlStatus : CrawlStatuses]

QueueTypeOK ==
  /\ crawlStatus \in [Crawls -> CrawlStatuses]
  /\ told \in [Crawls -> CrawlStatuses]
  /\ socket \in {"none", "connecting", "open"}
  /\ wire \in Seq(EntrySet)
  /\ executionQueue \in Seq(EntrySet)
  /\ removals \in [Crawls -> Nat]
  /\ shown \in EntrySet \cup {Entry(NoCrawl, "none")}
  /\ missed \subseteq Crawls
  /\ doubled \subseteq Crawls

(***************************************************************************)
(* A record that the page could follow has at most one entry; what the     *)
(* entry shows, once the announcements under way have arrived, is what the *)
(* server last announced, or already holds; an active record has an entry, *)
(* and the entry of an ended one is about to leave.  Only a record that    *)
(* was announced while the socket was closed, or that was read before it   *)
(* was announced (its entry is there twice), is excepted.                  *)
(***************************************************************************)
Followed(c) == socket # "none" /\ c \notin missed \cup doubled

EntryIsRight(c) ==
  \A i \in EntriesOf(c) :
    /\ EntriesOf(c) = {i}
    /\ executionQueue[i].crawlStatus \in {told[c], crawlStatus[c]}
    /\ executionQueue[i].crawlStatus \in Ended => removals[c] = 1

QueueFollowsServer ==
  \A c \in Crawls : Followed(c) =>
    IF PendingFor(c) = {}
      THEN /\ EntryIsRight(c)
           /\ {told[c], crawlStatus[c]} \subseteq Active => EntriesOf(c) # {}
      ELSE /\ wire[Max(PendingFor(c))].crawlStatus = told[c]
           /\ wire[Min(PendingFor(c))].crawlStatus = "queued" => EntriesOf(c) = {}

(***************************************************************************)
(* The page of a crawl that succeeded says so, or its announcement is      *)
(* still under way, or it was lost.                                        *)
(***************************************************************************)
ShownRecordSucceeds ==
  \A c \in Crawls :
    shown.id = c /\ told[c] = "success" /\ c \notin missed =>
      \/ shown.crawlStatus = "success"
      \/ \E m \in ToSet(wire) : m = Entry(c, "success")

(***************************************************************************)
(* An ended crawl leaves the queue of a page that could follow it.         *)
(***************************************************************************)
EndedCrawlLeaves ==
  \A c \in Crawls :
    (Followed(c) /\ told[c] \in Ended) ~> (~Followed(c) \/ EntriesOf(c) = {})
===============================================================================
