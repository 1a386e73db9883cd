------------------------------- MODULE LogPanel -------------------------------
(***************************************************************************)
(* The log page of the web client, which follows the log of one crawl:     *)
(* LogRoute and sendMsg of ApplicationController on the page, LoggingSocket *)
(* and SocketLogAppender on the server, and the connection between them.   *)
(*                                                                         *)
(* The page asks for a log with "startlog" and ends it with "stoplog".  A  *)
(* message that cannot be sent yet is sent half a second later, on the     *)
(* connection there is by then, and "startlog" is only sent by a callback: *)
(* messages may overtake one another.                                      *)
(***************************************************************************)
EXTENDS Integers, Sequences, FiniteSets

CONSTANTS
  LogCrawls,     \* crawl records whose log page may be opened
  NoLog,         \* no log page is shown
  MaxVisits,     \* bound: how often a log page is opened
  MaxLogDrops,   \* bound: how often the connection is closed
  MaxDown        \* bound: what is on its way to the page when a line is sent

ASSUME LogAssumption ==
  /\ NoLog \notin LogCrawls
  /\ MaxVisits \in Nat
  /\ MaxLogDrops \in Nat
  /\ MaxDown \in Nat

VARIABLES
  panelOf,    \* page: the crawl whose log page is shown
  content,    \* page: the crawl record controller's content, kept on leaving
  isLogging,  \* page: LogRoute has started a log before
  ticks,      \* page: callbacks of LogRoute that are due
  late,       \* page: messages put off by sendMsg, oldest first
  panel,      \* page: #logPanel, its last file and the lines after it
  conn,       \* number of the connection
  ready,      \* readyState of its socket: "connecting" or "open"
  up,         \* messages under way to the server
  down,       \* files and lines under way to the page
  appenders,  \* server: what is attached to the root logger
  appender,   \* server: LoggingSocket.appender of the connection, 0 if null
  made,       \* server: appenders made so far
  visits,     \* history: log pages opened so far
  synced,     \* history: the page could tell this connection what it shows
  overtaken   \* history: connections on which a message came late

logPage   == <<panelOf, content, isLogging, ticks, panel>>
logServer == <<appenders, appender, made>>
logVars   == <<logPage, late, conn, ready, up, down, logServer, visits, synced,
               overtaken>>

Blank    == [file |-> NoLog, lines |-> {}]
Start(c) == [text |-> "startlog", of |-> c]
Stop     == [text |-> "stoplog", of |-> NoLog]
Attached == {a \in appenders : a.on = conn}

-----------------------------------------------------------------------------
(***************************************************************************)
(* Faulty variants of definitions below; no part of LogSpec.               *)
(***************************************************************************)
\* The socket that is closed, or told to stop, leaves its appender attached.
Stopped_Never(as, n) == as

\* A new log page does not end the log before it.
StopsFirst_Never == FALSE

\* The appender is attached before the file is sent: a line may come first.
Opened_LineFirst(c) == down \o <<[kind |-> "line", of |-> c], [kind |-> "file", of |-> c]>>

\* Lines are sent from now on, and the file never is.
Opened_NoFile(c) == down

-----------------------------------------------------------------------------
(***************************************************************************)
(* The page.                                                               *)
(***************************************************************************)
\* sendMsg, of one message or of none.
Send(msgs) ==
  IF ready = "open"
    THEN up' = up \o msgs /\ UNCHANGED late
    ELSE late' = late \o msgs /\ UNCHANGED up

\* Does LogRoute end a log before it starts one?
StopsFirst == isLogging

\* LogRoute.setupController; the log is started by a callback.
VisitLog(c) ==
  /\ visits < MaxVisits
  /\ visits' = visits + 1
  /\ panelOf' = c
  /\ content' = c
  /\ Send(IF StopsFirst THEN <<Stop>> ELSE <<>>)
  /\ ticks' = ticks + 1
  /\ panel' = IF panelOf = NoLog THEN Blank ELSE panel
  /\ UNCHANGED <<isLogging, conn, ready, down, logServer, synced, overtaken>>

\* The callback: it names the record that is shown when it runs.  When the user
\* has moved on meanwhile, it comes late.
StartLog ==
  /\ ticks > 0
  /\ ticks' = ticks - 1
  /\ panel' = Blank
  /\ Send(<<Start(content)>>)
  /\ isLogging' = TRUE
  /\ synced' = (ready = "open")
  /\ overtaken' = IF ticks = 1 /\ panelOf # NoLog THEN overtaken
                                                 ELSE overtaken \cup {conn}
  /\ UNCHANGED <<panelOf, content, conn, ready, down, logServer, visits>>

\* LogRoute.deactivate.
LeaveLog ==
  /\ panelOf # NoLog
  /\ panelOf' = NoLog
  /\ Send(<<Stop>>)
  /\ panel' = Blank
  /\ synced' = TRUE
  /\ UNCHANGED <<content, isLogging, ticks, conn, ready, down, logServer, visits,
                 overtaken>>

\* The half second is over.  A socket that is still connecting throws.
SendLate ==
  /\ late # <<>>
  /\ late' = Tail(late)
  /\ IF ready = "open"
       THEN up' = Append(up, Head(late)) /\ overtaken' = overtaken \cup {conn}
       ELSE UNCHANGED <<up, overtaken>>
  /\ UNCHANGED <<logPage, conn, ready, down, logServer, visits, synced>>

\* onmessage, for log- messages.  The panel is there on the log page only.
ReceiveLog ==
  /\ down # <<>>
  /\ down' = Tail(down)
  /\ LET m == Head(down) IN
       panel' = IF panelOf = NoLog THEN panel
                ELSE IF m.kind = "file" THEN [file |-> m.of, lines |-> {}]
                ELSE [panel EXCEPT !.lines = @ \cup {m.of}]
  /\ UNCHANGED <<panelOf, content, isLogging, ticks, late, conn, ready, up,
                 logServer, visits, synced, overtaken>>

-----------------------------------------------------------------------------
(***************************************************************************)
(* The connection.                                                         *)
(***************************************************************************)
ConnectLog ==
  /\ ready = "connecting"
  /\ ready' = "open"
  /\ UNCHANGED <<logPage, late, conn, up, down, logServer, visits, synced,
                 overtaken>>

\* SocketLogAppender.stop.
Stopped(as, n) == {a \in as : a.no # n}

\* The connection is closed and opened again: the server stops the appender of
\* its socket, and the next connection has a socket of its own.
DropLog ==
  /\ ready = "open"
  /\ conn <= MaxLogDrops
  /\ conn' = conn + 1
  /\ ready' = "connecting"
  /\ up' = <<>>
  /\ down' = <<>>
  /\ appenders' = Stopped(appenders, appender)
  /\ appender' = 0
  /\ synced' = (panelOf = NoLog)
  /\ UNCHANGED <<logPage, late, made, visits, overtaken>>

-----------------------------------------------------------------------------
(***************************************************************************)
(* The server.                                                             *)
(***************************************************************************)
\* sendLogFile: the file comes before any line of the new appender.
Opened(c) == Append(down, [kind |-> "file", of |-> c])

\* onWebSocketText.  A new appender takes the place of the former, which is
\* not stopped.
ReceiveText ==
  /\ up # <<>>
  /\ up' = Tail(up)
  /\ IF Head(up).text = "startlog"
       THEN /\ down' = Opened(Head(up).of)
            /\ made' = made + 1
            /\ appender' = made + 1
            /\ appenders' = appenders \cup
                 {[no |-> made + 1, of |-> Head(up).of, on |-> conn]}
       ELSE /\ appenders' = Stopped(appenders, appender)
            /\ UNCHANGED <<down, made, appender>>
  /\ UNCHANGED <<logPage, late, conn, ready, visits, synced, overtaken>>

\* A crawl writes to its log: every appender of it sends the line.
WriteLine(c) ==
  LET heard == {a \in Attached : a.of = c} IN
  /\ heard # {}
  /\ Len(down) + Cardinality(heard) <= MaxDown
  /\ down' = down \o [i \in 1 .. Cardinality(heard) |-> [kind |-> "line", of |-> c]]
  /\ UNCHANGED <<logPage, late, conn, ready, up, logServer, visits, synced,
                 overtaken>>

-----------------------------------------------------------------------------
LogInit ==
  /\ panelOf = NoLog
  /\ content = NoLog
  /\ isLogging = FALSE
  /\ ticks = 0
  /\ late = <<>>
  /\ panel = Blank
  /\ conn = 1
  /\ ready = "connecting"
  /\ up = <<>>
  /\ down = <<>>
  /\ appenders = {}
  /\ appender = 0
  /\ made = 0
  /\ visits = 0
  /\ synced = TRUE
  /\ overtaken = {}

LogNext ==
  \/ \E c \in LogCrawls : VisitLog(c) \/ WriteLine(c)
  \/ StartLog
  \/ LeaveLog
  \/ SendLate
  \/ ReceiveLog
  \/ ConnectLog
  \/ DropLog
  \/ ReceiveText

\* The browser's event loop and the server's socket threads do their work.
LogFairness ==
  /\ WF_logVars(StartLog)
  /\ WF_logVars(ConnectLog)
  /\ WF_logVars(ReceiveText)
  /\ WF_logVars(ReceiveLog)

LogSpec == LogInit /\ [][LogNext]_logVars /\ LogFairness

-----------------------------------------------------------------------------
LogMessages == {Start(c) : c \in LogCrawls} \cup {Stop}
LogData     == [kind : {"file", "line"}, of : LogCrawls]

LogTypeOK ==
  /\ panelOf \in LogCrawls \cup {NoLog}
  /\ content \in LogCrawls \cup {NoLog}
  /\ isLogging \in BOOLEAN
  /\ ticks \in Nat
  /\ late \in Seq(LogMessages)
  /\ panel \in [file : LogCrawls \cup {NoLog}, lines : SUBSET LogCrawls]
  /\ conn \in Nat
  /\ ready \in {"connecting", "open"}
  /\ up \in Seq(LogMessages)
  /\ down \in Seq(LogData)
  /\ appenders \subseteq [no : Nat, of : LogCrawls, on : Nat]
  /\ appender \in Nat
  /\ made \in Nat
  /\ visits \in Nat
  /\ synced \in BOOLEAN
  /\ overtaken \subseteq Nat

(***************************************************************************)
(* When nothing is under way, the server follows exactly the log whose     *)
(* page is shown, once: no appender is forgotten and none is left behind.  *)
(* Excepted are a page whose connection was replaced under it (LogRoute    *)
(* does not ask again) and a connection on which a message came late.      *)
(***************************************************************************)
Settled == ready = "open" /\ up = <<>> /\ late = <<>> /\ ticks = 0

LogFollowsPage ==
  Settled /\ synced /\ conn \notin overtaken =>
    IF panelOf = NoLog
      THEN Attached = {}
      ELSE \E a \in Attached : Attached = {a} /\ a.of = panelOf

(***************************************************************************)
(* An appender whose connection was closed is attached no more, unless a   *)
(* message of that connection came late: then LoggingSocket.appender may   *)
(* have been overwritten while it was attached.                            *)
(***************************************************************************)
ClosedSocketsAreSilent ==
  \A a \in appenders : a.on = conn \/ a.on \in overtaken

(***************************************************************************)
(* After the log file of a crawl the panel only gets lines of that crawl:  *)
(* what the crawl shown before still sends comes before the file.  Again no *)
(* message may have come late.                                             *)
(***************************************************************************)
LinesMatchFile ==
  overtaken = {} /\ panel.file # NoLog => panel.lines \subseteq {panel.file}

(***************************************************************************)
(* A log page that stays open on its connection gets the log of its crawl. *)
(***************************************************************************)
VisitedLogAppears ==
  (panelOf # NoLog) ~>
    (panelOf \in {NoLog, panel.file} \/ ~synced \/ conn \in overtaken)
===============================================================================
