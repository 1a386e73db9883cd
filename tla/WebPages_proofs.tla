---------------------------- MODULE WebPages_proofs ---------------------------
(***************************************************************************)
(* Theorems about the two parts of the web client that follow the server   *)
(* through the socket, the log page and the execution queue.  They hold    *)
(* for any number of crawls and of announcements and messages under way,   *)
(* and any number of lost connections.                                     *)
(*                                                                         *)
(* The two share the helpers of proofs, and stand side by side at the end, *)
(* as MCWebPages has them.                                                 *)
(***************************************************************************)
EXTENDS MCWebPages, FiniteSetTheorems, SequenceTheorems,
        WellFoundedInduction, NaturalsInduction, TLAPS

-----------------------------------------------------------------------------
(***************************************************************************)
(* The log page: the inductive invariant.                                  *)
(***************************************************************************)
\* The last message of the connection asked for a log, of the crawl c.
Starts     == IF up = <<>> THEN Attached # {} ELSE up[Len(up)].text = "startlog"
StartsOf(c) == IF up = <<>> THEN \E a \in Attached : a.of = c ELSE up[Len(up)] = Start(c)

\* The page knows which crawl it shows, and its panel is empty elsewhere.
PageInv ==
  /\ panelOf # NoLog => content = panelOf
  /\ ticks > 0 => content \in LogCrawls
  /\ panelOf = NoLog => panel = Blank

\* No connection has an appender before it begins.
NotAhead == IsFiniteSet(appenders) /\ \A a \in appenders : a.on <= conn

\* On its connection the messages come in turn: a log is asked for when the one
\* before it was ended, and by the page that is shown.
OneAppender ==
  /\ \A a \in Attached : a.no = appender
  /\ \A a, b \in Attached : a = b

TakeTurns ==
  \A i \in DOMAIN up : up[i].text = "startlog" =>
    IF i = 1 THEN Attached = {} ELSE up[i - 1].text = "stoplog"

PageAsks ==
  /\ Starts => ready = "open" /\ ticks = 0 /\ panelOf # NoLog /\ isLogging
  /\ synced /\ panelOf # NoLog /\ ticks = 0 => ready = "open" /\ StartsOf(panelOf)

InTurn == conn \notin overtaken => OneAppender /\ TakeTurns /\ PageAsks

\* A line comes after a line, or the file, of the same crawl.
LinesFollow ==
  /\ \A i \in DOMAIN down : down[i].kind = "line" =>
       IF i = 1 THEN panel.file \in {NoLog, down[i].of} ELSE down[i - 1].of = down[i].of
  /\ \A a \in Attached :
       IF down = <<>> THEN panel.file \in {NoLog, a.of} ELSE down[Len(down)].of = a.of
  /\ panel.file # NoLog => panel.lines \subseteq {panel.file}

LogInv ==
  /\ LogTypeOK
  /\ PageInv
  /\ NotAhead
  /\ InTurn
  /\ ClosedSocketsAreSilent
  /\ overtaken = {} => LinesFollow


USE DEF logPage, logServer

-----------------------------------------------------------------------------
(***************************************************************************)
(* Types, and what the page and the connections know.                      *)
(***************************************************************************)
\* What is taken from the front of a sequence, and put at its end.
LEMMA TailFacts ==
  ASSUME NEW S, NEW s \in Seq(S), s # <<>>
  PROVE  /\ Tail(s) \in Seq(S) /\ Head(s) \in S /\ Head(s) = s[1]
         /\ Len(s) \in Nat \ {0} /\ DOMAIN s = 1 .. Len(s)
         /\ DOMAIN Tail(s) = 1 .. Len(s) - 1 /\ Len(Tail(s)) = Len(s) - 1
         /\ \A i \in 1 .. Len(s) - 1 : Tail(s)[i] = s[i + 1]
         /\ (Tail(s) = <<>> <=> Len(s) = 1)
<1>1. Len(s) \in Nat \ {0}
  OBVIOUS
<1>2. /\ Tail(s) \in Seq(S) /\ Len(Tail(s)) = Len(s) - 1
      /\ \A i \in 1 .. Len(s) - 1 : Tail(s)[i] = s[i + 1]
  BY HeadTailProperties
<1>3. DOMAIN s = 1 .. Len(s) /\ Head(s) = s[1] /\ Head(s) \in S
  BY <1>1
<1>4. DOMAIN Tail(s) = 1 .. Len(s) - 1
  BY <1>2
<1>5. Tail(s) = <<>> <=> Len(s) = 1
  BY <1>1, <1>2
<1> QED
  BY <1>1, <1>2, <1>3, <1>4, <1>5

LEMMA AppendOne ==
  ASSUME NEW S, NEW s \in Seq(S), NEW m \in S
  PROVE  /\ Append(s, m) \in Seq(S) /\ Append(s, m) # <<>>
         /\ Len(Append(s, m)) = Len(s) + 1 /\ DOMAIN Append(s, m) = 1 .. Len(s) + 1
         /\ \A i \in 1 .. Len(s) : Append(s, m)[i] = s[i]
         /\ Append(s, m)[Len(s) + 1] = m
         /\ Len(s) \in Nat /\ DOMAIN s = 1 .. Len(s) /\ (s = <<>> <=> Len(s) = 0)
<1>1. Len(s) \in Nat /\ DOMAIN s = 1 .. Len(s) /\ (s = <<>> <=> Len(s) = 0)
  OBVIOUS
<1>2. Append(s, m) \in Seq(S) /\ Len(Append(s, m)) = Len(s) + 1
  OBVIOUS
<1>3. DOMAIN Append(s, m) = 1 .. Len(s) + 1
  BY <1>2
<1>4. /\ \A i \in 1 .. Len(s) : Append(s, m)[i] = s[i]
      /\ Append(s, m)[Len(s) + 1] = m
  BY <1>1
<1>5. Append(s, m) # <<>>
  BY <1>1, <1>2
<1> QED
  BY <1>1, <1>2, <1>3, <1>4, <1>5

\* The messages of the page.
LEMMA MessageType ==
  /\ Stop \in LogMessages /\ Stop.text = "stoplog"
  /\ \A c \in LogCrawls : Start(c) \in LogMessages /\ Start(c).text = "startlog" /\ Start(c).of = c
  /\ \A m \in LogMessages : m = Stop \/ (m.of \in LogCrawls /\ m = Start(m.of))
  /\ Blank \in [file : LogCrawls \cup {NoLog}, lines : SUBSET LogCrawls]
  /\ Blank.file = NoLog /\ Blank.lines = {}
BY DEF Stop, Start, LogMessages, Blank

\* A message goes on its way, or waits.
LEMMA SendOne ==
  ASSUME LogTypeOK, NEW m \in LogMessages, Send(<<m>>)
  PROVE  /\ up' \in Seq(LogMessages) /\ late' \in Seq(LogMessages)
         /\ ready = "open" => up' = Append(up, m)
         /\ ready # "open" => up' = up
<1>1. /\ up \o <<m>> = Append(up, m) /\ up \in Seq(LogMessages)
      /\ late \o <<m>> = Append(late, m) /\ late \in Seq(LogMessages)
  BY DEF LogTypeOK
<1>2. Append(up, m) \in Seq(LogMessages) /\ Append(late, m) \in Seq(LogMessages)
  BY <1>1
<1> QED
  BY <1>1, <1>2 DEF Send

\* Sending nothing changes nothing.
LEMMA SendNone ==
  ASSUME LogTypeOK, Send(<< >>)
  PROVE  up' = up /\ late' = late
<1>1. up \o << >> = up /\ late \o << >> = late
  BY DEF LogTypeOK
<1> QED
  BY <1>1 DEF Send

\* A visit ends the log before it, if the page has started one.
LEMMA VisitSends ==
  ASSUME LogTypeOK, NEW c \in LogCrawls, VisitLog(c)
  PROVE  /\ up' \in Seq(LogMessages) /\ late' \in Seq(LogMessages)
         /\ \/ isLogging /\ Send(<<Stop>>)
            \/ ~isLogging /\ up' = up
<1>1. CASE isLogging
  BY <1>1, SendOne, MessageType DEF VisitLog, StopsFirst
<1>2. CASE ~isLogging
  <2>1. Send(<< >>)
    BY <1>2 DEF VisitLog, StopsFirst
  <2> QED
    BY <1>2, <2>1, SendNone DEF LogTypeOK
<1> QED
  BY <1>1, <1>2

\* The appenders of a socket are finitely many, and so are those that hear a line.
LEMMA HeardType ==
  ASSUME NotAhead, NEW c
  PROVE  /\ IsFiniteSet({a \in Attached : a.of = c})
         /\ Cardinality({a \in Attached : a.of = c}) \in Nat
<1>1. IsFiniteSet({a \in Attached : a.of = c})
  BY FS_Subset DEF NotAhead, Attached
<1> QED
  BY <1>1, FS_CardinalityType

\* The lines of one call.
Lines(c, n) == [i \in 1 .. n |-> [kind |-> "line", of |-> c]]

\* A crawl writes a line, or several copies of it.
LEMMA WriteFacts ==
  ASSUME LogTypeOK, NotAhead, NEW c \in LogCrawls, WriteLine(c)
  PROVE  \E n \in Nat : /\ Lines(c, n) \in Seq(LogData) /\ Len(Lines(c, n)) = n
                        /\ \A i \in 1 .. n : Lines(c, n)[i] = [kind |-> "line", of |-> c]
                        /\ down' = down \o Lines(c, n)
                        /\ down' \in Seq(LogData)
<1> DEFINE n == Cardinality({a \in Attached : a.of = c})
<1>1. n \in Nat
  BY HeardType
<1>2. down' = down \o Lines(c, n)
  BY DEF WriteLine, Lines
<1>3. [kind |-> "line", of |-> c] \in LogData
  BY DEF LogData
<1> HIDE DEF n
<1>4. Lines(c, n) \in Seq(LogData) /\ Len(Lines(c, n)) = n
  BY <1>1, <1>3 DEF Lines
<1>5. down \o Lines(c, n) \in Seq(LogData)
  BY <1>4 DEF LogTypeOK
<1> QED
  BY <1>1, <1>2, <1>4, <1>5 DEF Lines

\* Each action keeps the types.
LEMMA NextLogType ==
  ASSUME LogTypeOK, PageInv, NotAhead, [LogNext]_logVars
  PROVE  LogTypeOK'
<1>1. ASSUME NEW c \in LogCrawls, VisitLog(c) PROVE LogTypeOK'
  <2>1. up' \in Seq(LogMessages) /\ late' \in Seq(LogMessages)
    BY <1>1, VisitSends
  <2>2. panel' \in [file : LogCrawls \cup {NoLog}, lines : SUBSET LogCrawls]
    BY <1>1, MessageType DEF VisitLog, LogTypeOK
  <2> QED
    BY <1>1, <2>1, <2>2 DEF VisitLog, LogTypeOK
<1>2. ASSUME NEW c \in LogCrawls, WriteLine(c) PROVE LogTypeOK'
  <2>1. down' \in Seq(LogData)
    BY <1>2, WriteFacts
  <2> QED
    BY <1>2, <2>1 DEF WriteLine, LogTypeOK
<1>3. ASSUME StartLog PROVE LogTypeOK'
  <2>1. content \in LogCrawls
    BY <1>3 DEF StartLog, PageInv
  <2>2. up' \in Seq(LogMessages) /\ late' \in Seq(LogMessages)
    BY <1>3, <2>1, SendOne, MessageType DEF StartLog
  <2>3. overtaken' \subseteq Nat
    BY <1>3 DEF StartLog, LogTypeOK
  <2> QED
    BY <1>3, <2>2, <2>3, MessageType DEF StartLog, LogTypeOK
<1>4. ASSUME LeaveLog PROVE LogTypeOK'
  <2>1. up' \in Seq(LogMessages) /\ late' \in Seq(LogMessages)
    BY <1>4, SendOne, MessageType DEF LeaveLog
  <2> QED
    BY <1>4, <2>1, MessageType DEF LeaveLog, LogTypeOK
<1>5. ASSUME SendLate PROVE LogTypeOK'
  <2>1. Tail(late) \in Seq(LogMessages) /\ Append(up, Head(late)) \in Seq(LogMessages)
    BY <1>5 DEF SendLate, LogTypeOK
  <2>2. up' \in Seq(LogMessages) /\ overtaken' \subseteq Nat
    BY <1>5, <2>1 DEF SendLate, LogTypeOK
  <2> QED
    BY <1>5, <2>1, <2>2 DEF SendLate, LogTypeOK
<1>6. ASSUME ReceiveLog PROVE LogTypeOK'
  <2>1. Tail(down) \in Seq(LogData) /\ Head(down) \in LogData
    BY <1>6 DEF ReceiveLog, LogTypeOK
  <2>2. panel' \in [file : LogCrawls \cup {NoLog}, lines : SUBSET LogCrawls]
    BY <1>6, <2>1 DEF ReceiveLog, LogTypeOK, LogData
  <2> QED
    BY <1>6, <2>1, <2>2 DEF ReceiveLog, LogTypeOK
<1>7. ASSUME ConnectLog PROVE LogTypeOK'
  BY <1>7 DEF ConnectLog, LogTypeOK
<1>8. ASSUME DropLog PROVE LogTypeOK'
  <2>1. << >> \in Seq(LogMessages) /\ << >> \in Seq(LogData)
    OBVIOUS
  <2> QED
    BY <1>8, <2>1 DEF DropLog, Stopped, LogTypeOK
<1>9. ASSUME ReceiveText PROVE LogTypeOK'
  <2>1. Tail(up) \in Seq(LogMessages) /\ Head(up) \in LogMessages
    BY <1>9 DEF ReceiveText, LogTypeOK
  <2>2. CASE Head(up).text = "startlog"
    <3>1. Head(up).of \in LogCrawls
      BY <2>1, <2>2, MessageType
    <3>2. [kind |-> "file", of |-> Head(up).of] \in LogData
      BY <3>1 DEF LogData
    <3>3. Append(down, [kind |-> "file", of |-> Head(up).of]) \in Seq(LogData)
      BY <3>2 DEF LogTypeOK
    <3>5. down' \in Seq(LogData)
      BY <1>9, <2>2, <3>3 DEF ReceiveText, Opened
    <3>4. [no |-> made + 1, of |-> Head(up).of, on |-> conn] \in [no : Nat, of : LogCrawls, on : Nat]
      BY <3>1 DEF LogTypeOK
    <3> QED
      BY <1>9, <2>1, <2>2, <3>5, <3>4 DEF ReceiveText, LogTypeOK
  <2>3. CASE Head(up).text # "startlog"
    BY <1>9, <2>1, <2>3 DEF ReceiveText, Stopped, LogTypeOK
  <2> QED
    BY <2>2, <2>3
<1>10. CASE UNCHANGED logVars
  BY <1>10 DEF logVars, LogTypeOK
<1> QED
  BY <1>1, <1>2, <1>3, <1>4, <1>5, <1>6, <1>7, <1>8, <1>9, <1>10 DEF LogNext

\* A crawl is shown from the first visit on, and the panel with it.
LEMMA NextPage ==
  ASSUME LogTypeOK, PageInv, [LogNext]_logVars
  PROVE  PageInv'
<1>1. ASSUME NEW c \in LogCrawls, VisitLog(c) PROVE PageInv'
  BY <1>1, LogAssumption DEF VisitLog, PageInv
<1>2. CASE StartLog
  BY <1>2 DEF StartLog, PageInv, LogTypeOK
<1>3. CASE LeaveLog
  BY <1>3 DEF LeaveLog, PageInv
<1>4. CASE ReceiveLog
  BY <1>4 DEF ReceiveLog, PageInv
<1>5. ASSUME UNCHANGED logPage PROVE PageInv'
  BY <1>5 DEF PageInv
<1> QED
  BY <1>1, <1>2, <1>3, <1>4, <1>5
  DEF LogNext, logVars, WriteLine, SendLate, ConnectLog, DropLog, ReceiveText

\* Appenders are attached to connections there are, or were.
LEMMA NextAhead ==
  ASSUME LogTypeOK, NotAhead, [LogNext]_logVars
  PROVE  NotAhead'
<1>1. Stopped(appenders, appender) \subseteq appenders /\ IsFiniteSet(Stopped(appenders, appender))
  BY FS_Subset DEF Stopped, NotAhead
<1>2. CASE DropLog
  BY <1>1, <1>2 DEF DropLog, NotAhead, LogTypeOK
<1>3. CASE ReceiveText
  <2> DEFINE new == [no |-> made + 1, of |-> Head(up).of, on |-> conn]
  <2>1. IsFiniteSet(appenders \cup {new})
    BY FS_AddElement DEF NotAhead
  <2>2. conn \in Nat /\ conn' = conn
    BY <1>3 DEF ReceiveText, LogTypeOK
  <2>3. new.on = conn
    OBVIOUS
  <2> HIDE DEF new
  <2>4. appenders' = appenders \cup {new} \/ appenders' = Stopped(appenders, appender)
    BY <1>3 DEF ReceiveText, new
  <2> QED
    BY <1>1, <2>1, <2>2, <2>3, <2>4 DEF NotAhead
<1>4. ASSUME UNCHANGED <<appenders, conn>> PROVE NotAhead'
  BY <1>4 DEF NotAhead
<1> QED
  BY <1>2, <1>3, <1>4
  DEF LogNext, logVars, VisitLog, WriteLine, StartLog, LeaveLog, SendLate, ReceiveLog, ConnectLog

-----------------------------------------------------------------------------
(***************************************************************************)
(* The messages of a connection.                                           *)
(***************************************************************************)
\* A message is sent in its turn.
LEMMA PushInTurn ==
  ASSUME LogTypeOK, OneAppender, TakeTurns, NEW m \in LogMessages,
         m.text = "startlog" => ~Starts,
         up' = Append(up, m), UNCHANGED <<conn, appenders, appender>>
  PROVE  OneAppender' /\ TakeTurns' /\ (Starts' <=> m.text = "startlog")
         /\ up' # <<>> /\ up'[Len(up')] = m
<1>1. Attached' = Attached /\ up \in Seq(LogMessages)
  BY DEF Attached, LogTypeOK
<1>2. /\ Len(up') = Len(up) + 1 /\ up' # <<>> /\ DOMAIN up' = 1 .. Len(up) + 1
      /\ \A i \in 1 .. Len(up) : up'[i] = up[i]
      /\ up'[Len(up')] = m /\ Len(up) \in Nat /\ DOMAIN up = 1 .. Len(up)
      /\ (up = <<>> <=> Len(up) = 0)
  BY <1>1, AppendOne
<1>3. ASSUME NEW i \in DOMAIN up', up'[i].text = "startlog"
      PROVE  IF i = 1 THEN Attached' = {} ELSE up'[i - 1].text = "stoplog"
  <2>1. CASE i \in 1 .. Len(up)
    <3>0. i \in DOMAIN up /\ up[i].text = "startlog"
      BY <1>2, <1>3, <2>1
    <3>1. IF i = 1 THEN Attached = {} ELSE up[i - 1].text = "stoplog"
      BY <3>0 DEF TakeTurns
    <3>2. i # 1 => up'[i - 1] = up[i - 1]
      BY <1>2, <2>1
    <3> QED
      BY <1>1, <3>1, <3>2
  <2>2. CASE i = Len(up) + 1
    <3>1. ~Starts
      BY <1>2, <1>3, <2>2
    <3>2. CASE up = <<>>
      BY <1>1, <1>2, <2>2, <3>1, <3>2 DEF Starts
    <3>3. CASE up # <<>>
      <4>1. Len(up) \in DOMAIN up /\ i # 1 /\ i - 1 = Len(up) /\ up'[i - 1] = up[Len(up)]
        <5>1. Len(up) \in 1 .. Len(up) /\ Len(up) # 0
          BY <1>2, <3>3
        <5>2. i # 1 /\ i - 1 = Len(up)
          BY <1>2, <2>2, <5>1
        <5> QED
          BY <1>2, <5>1, <5>2
      <4>2. up[Len(up)].text # "startlog"
        BY <3>1, <3>3 DEF Starts
      <4>3. up[Len(up)] \in LogMessages
        BY <1>1, <4>1
      <4>4. up[Len(up)].text = "stoplog"
        BY <4>2, <4>3, MessageType
      <4> QED
        BY <4>1, <4>4
    <3> QED
      BY <3>2, <3>3
  <2> QED
    BY <1>2, <2>1, <2>2
<1>4. OneAppender'
  BY <1>1 DEF OneAppender
<1>5. TakeTurns'
  BY <1>3 DEF TakeTurns
<1>6. Starts' <=> m.text = "startlog"
  BY <1>2 DEF Starts
<1> QED
  BY <1>2, <1>4, <1>5, <1>6

\* Nothing is sent, and the server has nothing to do.
LEMMA NothingSent ==
  ASSUME UNCHANGED <<up, conn, appenders, appender>>
  PROVE  /\ (OneAppender => OneAppender') /\ (TakeTurns => TakeTurns')
         /\ (Starts' <=> Starts)
         /\ \A c : StartsOf(c) => IF up' = <<>> THEN \E a \in Attached' : a.of = c
                                               ELSE up'[Len(up')] = Start(c)
<1>1. Attached' = Attached
  BY DEF Attached
<1> QED
  BY <1>1 DEF OneAppender, TakeTurns, Starts, StartsOf

\* A page that asks for no log any more.
LEMMA StopIsSilent ==
  ASSUME LogTypeOK, InTurn, Send(<<Stop>>), conn \notin overtaken,
         UNCHANGED <<conn, appenders, appender, ready>>
  PROVE  OneAppender' /\ TakeTurns' /\ ~Starts'
<1>1. OneAppender /\ TakeTurns /\ PageAsks
  BY DEF InTurn
<1>2. CASE ready = "open"
  <2>1. up' = Append(up, Stop)
    BY <1>2, SendOne, MessageType
  <2> QED
    BY <1>1, <2>1, PushInTurn, MessageType
<1>3. CASE ready # "open"
  <2>1. up' = up
    BY <1>3, SendOne, MessageType
  <2>2. ~Starts
    BY <1>1, <1>3 DEF PageAsks
  <2> QED
    BY <1>1, <2>1, <2>2, NothingSent
<1> QED
  BY <1>2, <1>3

\* A visit ends the log before it.
LEMMA VisitInTurn ==
  ASSUME LogTypeOK, InTurn, NEW c \in LogCrawls, VisitLog(c)
  PROVE  InTurn'
<1> SUFFICES ASSUME conn \notin overtaken PROVE OneAppender' /\ TakeTurns' /\ PageAsks'
  BY DEF VisitLog, InTurn
<1>1. OneAppender /\ TakeTurns /\ PageAsks
  BY DEF InTurn
<1>2. UNCHANGED <<conn, appenders, appender, ready>> /\ ticks' = ticks + 1 /\ ticks \in Nat
  BY DEF VisitLog, LogTypeOK
<1>3. OneAppender' /\ TakeTurns' /\ ~Starts'
  <2>1. CASE isLogging /\ Send(<<Stop>>)
    BY <1>2, <2>1, StopIsSilent
  <2>2. CASE ~isLogging /\ up' = up
    <3>1. ~Starts
      BY <1>1, <2>2 DEF PageAsks
    <3> QED
      BY <1>1, <1>2, <2>2, <3>1, NothingSent
  <2> QED
    BY <2>1, <2>2, VisitSends
<1>4. ticks' # 0
  BY <1>2
<1> QED
  BY <1>3, <1>4 DEF PageAsks

\* The log of the page that is shown is asked for.
LEMMA StartInTurn ==
  ASSUME LogTypeOK, PageInv, InTurn, StartLog
  PROVE  InTurn'
<1> SUFFICES ASSUME conn \notin overtaken' PROVE OneAppender' /\ TakeTurns' /\ PageAsks'
  BY DEF StartLog, InTurn
<1>1. ticks = 1 /\ panelOf # NoLog /\ conn \notin overtaken
  BY DEF StartLog
<1>2. OneAppender /\ TakeTurns /\ PageAsks /\ ~Starts
  BY <1>1 DEF InTurn, PageAsks
<1>3. /\ UNCHANGED <<conn, appenders, appender, ready, panelOf>>
      /\ ticks' = 0 /\ isLogging' = TRUE /\ Send(<<Start(content)>>)
      /\ synced' = (ready = "open") /\ content = panelOf /\ content \in LogCrawls
  BY <1>1 DEF StartLog, PageInv
<1>4. Start(content) \in LogMessages /\ Start(content).text = "startlog"
  BY <1>3, MessageType
<1>5. CASE ready = "open"
  <2>1. up' = Append(up, Start(content))
    BY <1>3, <1>4, <1>5, SendOne
  <2>2. OneAppender' /\ TakeTurns' /\ up' # <<>> /\ up'[Len(up')] = Start(panelOf')
    BY <1>2, <1>3, <1>4, <2>1, PushInTurn
  <2>3. StartsOf(panelOf)'
    BY <2>2 DEF StartsOf
  <2> QED
    BY <1>1, <1>3, <1>5, <2>2, <2>3 DEF PageAsks
<1>6. CASE ready # "open"
  <2>1. up' = up
    BY <1>3, <1>4, <1>6, SendOne
  <2>2. OneAppender' /\ TakeTurns' /\ ~Starts'
    BY <1>2, <1>3, <2>1, NothingSent
  <2>3. ~synced'
    BY <1>3, <1>6
  <2> QED
    BY <2>2, <2>3 DEF PageAsks
<1> QED
  BY <1>5, <1>6

\* Leaving the page ends the log.
LEMMA LeaveInTurn ==
  ASSUME LogTypeOK, InTurn, LeaveLog
  PROVE  InTurn'
<1> SUFFICES ASSUME conn \notin overtaken PROVE OneAppender' /\ TakeTurns' /\ PageAsks'
  BY DEF LeaveLog, InTurn
<1>1. OneAppender' /\ TakeTurns' /\ ~Starts'
  BY StopIsSilent DEF LeaveLog
<1>2. panelOf' = NoLog
  BY DEF LeaveLog
<1> QED
  BY <1>1, <1>2 DEF PageAsks

\* What nobody sent, and nobody received, changes no turns.
LEMMA SameTurns ==
  ASSUME LogTypeOK, InTurn,
         UNCHANGED <<up, conn, appenders, appender, ticks, panelOf, isLogging, synced, overtaken>>,
         ready = "open" => ready' = "open"
  PROVE  InTurn'
<1> SUFFICES ASSUME conn \notin overtaken PROVE OneAppender' /\ TakeTurns' /\ PageAsks'
  BY DEF InTurn
<1>1. OneAppender /\ TakeTurns /\ PageAsks
  BY DEF InTurn
<1>2. OneAppender' /\ TakeTurns' /\ (Starts' <=> Starts)
  BY <1>1, NothingSent
<1>3. StartsOf(panelOf) => StartsOf(panelOf)'
  BY NothingSent DEF StartsOf
<1> QED
  BY <1>1, <1>2, <1>3 DEF PageAsks

\* A late message is one of a connection that is excepted.
LEMMA LateInTurn ==
  ASSUME LogTypeOK, InTurn, SendLate
  PROVE  InTurn'
<1>1. CASE ready = "open"
  BY <1>1 DEF SendLate, InTurn
<1>2. CASE ready # "open"
  BY <1>2, SameTurns DEF SendLate
<1> QED
  BY <1>1, <1>2

\* A new connection has no appender.
LEMMA DropInTurn ==
  ASSUME LogTypeOK, NotAhead, DropLog
  PROVE  InTurn'
<1>1. /\ conn' = conn + 1 /\ conn \in Nat /\ up' = <<>> /\ synced' = (panelOf = NoLog)
      /\ panelOf' = panelOf /\ appenders' \subseteq appenders
  BY DEF DropLog, Stopped, LogTypeOK
<1>2. ASSUME NEW a \in Attached' PROVE FALSE
  <2>1. a \in appenders /\ a.on = conn + 1
    BY <1>1, <1>2 DEF Attached
  <2>2. a.on \in Nat /\ a.on <= conn
    BY <2>1 DEF NotAhead, LogTypeOK
  <2> QED
    BY <1>1, <2>1, <2>2
<1>3. OneAppender' /\ TakeTurns' /\ ~Starts'
  BY <1>1, <1>2 DEF OneAppender, TakeTurns, Starts
<1> QED
  BY <1>1, <1>3 DEF InTurn, PageAsks

\* The server takes the next message: it ends the one appender there is, or
\* attaches one where there is none.
LEMMA ReceiveInTurn ==
  ASSUME LogTypeOK, InTurn, ReceiveText
  PROVE  InTurn'
<1> SUFFICES ASSUME conn \notin overtaken PROVE OneAppender' /\ TakeTurns' /\ PageAsks'
  BY DEF ReceiveText, InTurn
<1>1. OneAppender /\ TakeTurns /\ PageAsks
  BY DEF InTurn
<1>2. /\ up \in Seq(LogMessages) /\ up # <<>> /\ up' = Tail(up) /\ conn' = conn
      /\ UNCHANGED <<ready, ticks, panelOf, isLogging, synced>>
  BY DEF ReceiveText, LogTypeOK
<1>3. /\ Len(up) \in Nat \ {0} /\ DOMAIN up = 1 .. Len(up) /\ Len(up') = Len(up) - 1
      /\ DOMAIN up' = 1 .. Len(up) - 1 /\ \A i \in DOMAIN up' : up'[i] = up[i + 1]
      /\ Head(up) = up[1] /\ Head(up) \in LogMessages
      /\ (up' = <<>> <=> Len(up) = 1)
  BY <1>2, TailFacts
<1>4. CASE Head(up).text = "startlog"
  <2> DEFINE new == [no |-> made + 1, of |-> Head(up).of, on |-> conn]
  <2>1. Attached = {}
    <3>1. 1 \in DOMAIN up /\ up[1].text = "startlog"
      BY <1>3, <1>4
    <3> QED
      BY <1>1, <3>1 DEF TakeTurns
  <2>2. appenders' = appenders \cup {new} /\ appender' = made + 1
    BY <1>4 DEF ReceiveText
  <2>3. new.on = conn /\ new.no = made + 1 /\ new.of = Head(up).of
    OBVIOUS
  <2> HIDE DEF new
  <2>4. Attached' = {new}
    BY <1>2, <2>1, <2>2, <2>3 DEF Attached
  <2>5. OneAppender'
    BY <2>2, <2>3, <2>4 DEF OneAppender
  <2>6. ASSUME NEW i \in DOMAIN up', up'[i].text = "startlog"
        PROVE  i # 1 /\ up'[i - 1].text = "stoplog"
    <3>1. i + 1 \in DOMAIN up /\ up[i + 1].text = "startlog" /\ i + 1 # 1 /\ (i + 1) - 1 = i
      BY <1>3, <2>6
    <3>2. up[i].text = "stoplog"
      BY <1>1, <3>1 DEF TakeTurns
    <3>3. i # 1
      BY <1>3, <1>4, <3>2
    <3>4. i - 1 \in DOMAIN up' /\ (i - 1) + 1 = i
      BY <1>3, <2>6, <3>3
    <3> QED
      BY <1>3, <3>2, <3>3, <3>4
  <2>7. TakeTurns'
    BY <2>6 DEF TakeTurns
  <2>8. (Starts' => Starts) /\ (StartsOf(panelOf) => StartsOf(panelOf)')
    <3>1. CASE up' = <<>>
      <4>1. Starts
        BY <1>2, <1>3, <1>4, <3>1 DEF Starts
      <4>2. ASSUME StartsOf(panelOf) PROVE StartsOf(panelOf)'
        <5>1. up[1] = Start(panelOf)
          BY <1>2, <1>3, <3>1, <4>2 DEF StartsOf
        <5>2. Head(up).of = panelOf'
          BY <1>2, <1>3, <5>1 DEF Start
        <5> QED
          BY <2>3, <2>4, <3>1, <5>2 DEF StartsOf
      <4> QED
        BY <4>1, <4>2
    <3>2. CASE up' # <<>>
      <4>1. up'[Len(up')] = up[Len(up)]
        BY <1>3, <3>2
      <4> QED
        BY <1>2, <3>2, <4>1 DEF Starts, StartsOf
    <3> QED
      BY <3>1, <3>2
  <2> QED
    BY <1>1, <1>2, <2>5, <2>7, <2>8 DEF PageAsks
<1>5. CASE Head(up).text # "startlog"
  <2>1. appenders' = {a \in appenders : a.no # appender}
    BY <1>5 DEF ReceiveText, Stopped
  <2>2. Attached' = {}
    BY <1>1, <1>2, <2>1 DEF Attached, OneAppender
  <2>3. OneAppender'
    BY <2>2 DEF OneAppender
  <2>4. ASSUME NEW i \in DOMAIN up', up'[i].text = "startlog", i # 1
        PROVE  up'[i - 1].text = "stoplog"
    <3>1. i + 1 \in DOMAIN up /\ up[i + 1].text = "startlog" /\ i + 1 # 1 /\ (i + 1) - 1 = i
      BY <1>3, <2>4
    <3>2. up[i].text = "stoplog"
      BY <1>1, <3>1 DEF TakeTurns
    <3>3. i - 1 \in DOMAIN up' /\ (i - 1) + 1 = i
      BY <1>3, <2>4
    <3> QED
      BY <1>3, <3>2, <3>3
  <2>5. TakeTurns'
    BY <2>2, <2>4 DEF TakeTurns
  <2>6. (Starts' => Starts) /\ (StartsOf(panelOf) => StartsOf(panelOf)')
    <3>1. CASE up' = <<>>
      <4>1. ~Starts'
        BY <2>2, <3>1 DEF Starts
      <4>2. up[Len(up)].text # "startlog" /\ up # <<>>
        BY <1>2, <1>3, <1>5, <3>1
      <4>3. ~StartsOf(panelOf)
        BY <4>2 DEF StartsOf, Start
      <4> QED
        BY <4>1, <4>3
    <3>2. CASE up' # <<>>
      <4>1. up'[Len(up')] = up[Len(up)]
        BY <1>3, <3>2
      <4> QED
        BY <1>2, <3>2, <4>1 DEF Starts, StartsOf
    <3> QED
      BY <3>1, <3>2
  <2> QED
    BY <1>1, <1>2, <2>3, <2>5, <2>6 DEF PageAsks
<1> QED
  BY <1>4, <1>5

\* Every step keeps the turns.
LEMMA NextInTurn ==
  ASSUME LogTypeOK, PageInv, NotAhead, InTurn, [LogNext]_logVars
  PROVE  InTurn'
<1>1. ASSUME NEW c \in LogCrawls, WriteLine(c) PROVE InTurn'
  BY <1>1, SameTurns DEF WriteLine
<1>2. CASE ReceiveLog
  BY <1>2, SameTurns DEF ReceiveLog
<1>3. CASE ConnectLog
  BY <1>3, SameTurns DEF ConnectLog
<1>4. CASE UNCHANGED logVars
  BY <1>4, SameTurns DEF logVars
<1> QED
  BY <1>1, <1>2, <1>3, <1>4, VisitInTurn, StartInTurn, LeaveInTurn, LateInTurn,
     DropInTurn, ReceiveInTurn DEF LogNext

\* A socket that is closed has stopped its appender.
LEMMA NextSilent ==
  ASSUME LogTypeOK, NotAhead, InTurn, ClosedSocketsAreSilent, [LogNext]_logVars
  PROVE  ClosedSocketsAreSilent'
<1>1. overtaken \subseteq overtaken'
  BY DEF LogNext, logVars, VisitLog, WriteLine, StartLog, LeaveLog, SendLate, ReceiveLog,
         ConnectLog, DropLog, ReceiveText
<1>2. CASE DropLog
  <2>1. ASSUME NEW a \in appenders' PROVE a.on \in overtaken'
    <3>1. a \in appenders /\ a.no # appender
      BY <1>2, <2>1 DEF DropLog, Stopped
    <3>2. CASE a.on = conn /\ conn \notin overtaken
      BY <3>1, <3>2 DEF InTurn, OneAppender, Attached
    <3> QED
      BY <1>1, <3>1, <3>2 DEF ClosedSocketsAreSilent
  <2> QED
    BY <2>1 DEF ClosedSocketsAreSilent
<1>3. CASE ReceiveText
  <2> DEFINE new == [no |-> made + 1, of |-> Head(up).of, on |-> conn]
  <2>1. new.on = conn /\ conn' = conn
    BY <1>3 DEF ReceiveText
  <2>2. appenders' \subseteq appenders \cup {new}
    BY <1>3 DEF ReceiveText, Stopped
  <2> HIDE DEF new
  <2> QED
    BY <1>1, <2>1, <2>2 DEF ClosedSocketsAreSilent
<1>4. ASSUME UNCHANGED <<appenders, conn>> PROVE ClosedSocketsAreSilent'
  BY <1>1, <1>4 DEF ClosedSocketsAreSilent
<1> QED
  BY <1>2, <1>3, <1>4
  DEF LogNext, logVars, VisitLog, WriteLine, StartLog, LeaveLog, SendLate, ReceiveLog, ConnectLog

-----------------------------------------------------------------------------
(***************************************************************************)
(* What is on its way to the page.                                         *)
(***************************************************************************)
\* The panel is emptied, or stays; nothing else happens.
LEMMA PanelKept ==
  ASSUME LinesFollow, panel' \in {panel, Blank}, UNCHANGED <<down, appenders, conn>>
  PROVE  LinesFollow'
<1>1. Attached' = Attached
  BY DEF Attached
<1>2. panel'.file \in {panel.file, NoLog} /\ (panel' = panel \/ panel'.file = NoLog)
  BY MessageType
<1>3. ASSUME NEW i \in DOMAIN down', down'[i].kind = "line"
      PROVE  IF i = 1 THEN panel'.file \in {NoLog, down'[i].of} ELSE down'[i - 1].of = down'[i].of
  BY <1>2, <1>3 DEF LinesFollow
<1>4. ASSUME NEW a \in Attached'
      PROVE  IF down' = <<>> THEN panel'.file \in {NoLog, a.of} ELSE down'[Len(down')].of = a.of
  BY <1>1, <1>2 DEF LinesFollow
<1>5. panel'.file # NoLog => panel'.lines \subseteq {panel'.file}
  BY <1>2 DEF LinesFollow
<1> QED
  BY <1>3, <1>4, <1>5 DEF LinesFollow

\* The page takes what comes first.
LEMMA ReceiveLines ==
  ASSUME LogTypeOK, PageInv, LinesFollow, ReceiveLog
  PROVE  LinesFollow'
<1> DEFINE m == Head(down)
<1>1. /\ down \in Seq(LogData) /\ down # <<>> /\ down' = Tail(down)
      /\ Attached' = Attached
  BY DEF ReceiveLog, Attached, LogTypeOK
<1>2. /\ m \in LogData /\ m = down[1]
      /\ Len(down) \in Nat \ {0} /\ DOMAIN down = 1 .. Len(down)
      /\ DOMAIN down' = 1 .. Len(down) - 1 /\ Len(down') = Len(down) - 1
      /\ \A i \in 1 .. Len(down) - 1 : down'[i] = down[i + 1]
      /\ (down' = <<>> <=> Len(down) = 1)
  BY <1>1, TailFacts
<1>3. m.kind = "line" => panel.file \in {NoLog, m.of}
  BY <1>2 DEF LinesFollow
<1>4. panel'.file \in {NoLog, m.of} /\ (panel'.file # NoLog => panel'.lines \subseteq {panel'.file})
  <2>1. CASE panelOf = NoLog
    BY <2>1, MessageType DEF ReceiveLog, PageInv
  <2>2. CASE panelOf # NoLog /\ m.kind = "file"
    BY <2>2 DEF ReceiveLog
  <2>3. CASE panelOf # NoLog /\ m.kind # "file"
    <3>1. m.kind = "line"
      BY <1>2, <2>3 DEF LogData
    <3>2. panel \in [file : LogCrawls \cup {NoLog}, lines : SUBSET LogCrawls]
      BY DEF LogTypeOK
    <3>3. panel' = [panel EXCEPT !.lines = @ \cup {m.of}]
      BY <2>3 DEF ReceiveLog
    <3>4. panel'.file = panel.file /\ panel'.lines = panel.lines \cup {m.of}
      BY <3>2, <3>3
    <3>5. panel.file # NoLog => panel.lines \subseteq {panel.file}
      BY DEF LinesFollow
    <3> QED
      BY <1>3, <3>1, <3>4, <3>5
  <2> QED
    BY <2>1, <2>2, <2>3
<1>5. ASSUME NEW i \in DOMAIN down', down'[i].kind = "line"
      PROVE  IF i = 1 THEN panel'.file \in {NoLog, down'[i].of} ELSE down'[i - 1].of = down'[i].of
  <2>1. /\ i + 1 \in DOMAIN down /\ i + 1 # 1 /\ (i + 1) - 1 = i
        /\ down'[i] = down[i + 1] /\ down[i + 1].kind = "line"
    BY <1>2, <1>5
  <2>2. down[i].of = down[i + 1].of
    BY <2>1 DEF LinesFollow
  <2>3. CASE i = 1
    BY <1>2, <1>4, <2>1, <2>2, <2>3
  <2>4. CASE i # 1
    <3>1. i - 1 \in 1 .. Len(down) - 1 /\ (i - 1) + 1 = i
      BY <1>2, <1>5, <2>4
    <3> QED
      BY <1>2, <2>1, <2>2, <2>4, <3>1
  <2> QED
    BY <2>3, <2>4
<1>6. ASSUME NEW a \in Attached'
      PROVE  IF down' = <<>> THEN panel'.file \in {NoLog, a.of} ELSE down'[Len(down')].of = a.of
  <2>1. down[Len(down)].of = a.of
    BY <1>1, <1>6 DEF LinesFollow
  <2>2. CASE Len(down) = 1
    BY <1>2, <1>4, <2>1, <2>2
  <2>3. CASE Len(down) # 1
    <3>1. Len(down) - 1 \in 1 .. Len(down) - 1 /\ (Len(down) - 1) + 1 = Len(down)
      BY <1>2, <2>3
    <3>2. down'[Len(down')] = down[Len(down)]
      BY <1>2, <3>1
    <3> QED
      BY <1>2, <2>1, <2>3, <3>2
  <2> QED
    BY <2>2, <2>3
<1> HIDE DEF m
<1> QED
  BY <1>4, <1>5, <1>6 DEF LinesFollow

\* A new appender sends its file first.
LEMMA TextLines ==
  ASSUME LogTypeOK, InTurn, conn \notin overtaken, LinesFollow, ReceiveText
  PROVE  LinesFollow'
<1>1. /\ up \in Seq(LogMessages) /\ up # <<>> /\ conn' = conn /\ panel' = panel
      /\ down \in Seq(LogData)
  BY DEF ReceiveText, LogTypeOK
<1>2. Head(up) \in LogMessages /\ Head(up) = up[1] /\ 1 \in DOMAIN up
  BY <1>1, TailFacts
<1>3. CASE Head(up).text = "startlog"
  <2> DEFINE new  == [no |-> made + 1, of |-> Head(up).of, on |-> conn]
             file == [kind |-> "file", of |-> Head(up).of]
  <2>1. Attached = {}
    BY <1>2, <1>3 DEF InTurn, TakeTurns
  <2>2. appenders' = appenders \cup {new} /\ down' = Append(down, file)
    BY <1>3 DEF ReceiveText, Opened
  <2>3. new.of = Head(up).of /\ file.of = Head(up).of /\ file.kind = "file"
    OBVIOUS
  <2>4. file \in LogData
    BY <1>2, <1>3, MessageType DEF LogData
  <2> HIDE DEF new, file
  <2>5. \A a \in Attached' : a = new
    BY <1>1, <2>1, <2>2 DEF Attached
  <2>6. /\ down' # <<>> /\ Len(down') = Len(down) + 1 /\ DOMAIN down' = 1 .. Len(down) + 1
        /\ \A i \in 1 .. Len(down) : down'[i] = down[i]
        /\ down'[Len(down) + 1] = file /\ Len(down) \in Nat /\ DOMAIN down = 1 .. Len(down)
    BY <1>1, <2>2, <2>4, AppendOne
  <2>7. ASSUME NEW i \in DOMAIN down', down'[i].kind = "line"
        PROVE  IF i = 1 THEN panel'.file \in {NoLog, down'[i].of} ELSE down'[i - 1].of = down'[i].of
    <3>1. i # Len(down) + 1
      BY <2>3, <2>6, <2>7
    <3>2. i \in DOMAIN down /\ down'[i] = down[i] /\ (i # 1 => down'[i - 1] = down[i - 1])
      BY <2>6, <3>1
    <3>3. IF i = 1 THEN panel.file \in {NoLog, down[i].of} ELSE down[i - 1].of = down[i].of
      BY <2>7, <3>2 DEF LinesFollow
    <3> QED
      BY <1>1, <3>2, <3>3
  <2>8. ASSUME NEW a \in Attached'
        PROVE  IF down' = <<>> THEN panel'.file \in {NoLog, a.of} ELSE down'[Len(down')].of = a.of
    BY <2>3, <2>5, <2>6
  <2> QED
    BY <1>1, <2>7, <2>8 DEF LinesFollow
<1>4. CASE Head(up).text # "startlog"
  <2>1. appenders' \subseteq appenders /\ down' = down
    BY <1>4 DEF ReceiveText, Stopped
  <2>2. Attached' \subseteq Attached
    BY <1>1, <2>1 DEF Attached
  <2> QED
    BY <1>1, <2>1, <2>2 DEF LinesFollow
<1> QED
  BY <1>3, <1>4

\* A crawl adds lines of its own.
LEMMA WriteLines ==
  ASSUME LogTypeOK, NotAhead, InTurn, conn \notin overtaken, LinesFollow,
         NEW c \in LogCrawls, WriteLine(c)
  PROVE  LinesFollow'
<1>1. PICK n \in Nat : /\ Lines(c, n) \in Seq(LogData) /\ Len(Lines(c, n)) = n
                       /\ \A i \in 1 .. n : Lines(c, n)[i] = [kind |-> "line", of |-> c]
                       /\ down' = down \o Lines(c, n)
  BY WriteFacts
<1>2. /\ down \in Seq(LogData) /\ UNCHANGED <<appenders, conn, panel>> /\ Attached' = Attached
  BY DEF WriteLine, LogTypeOK, Attached
<1>3. \A a \in Attached : a.of = c
  BY DEF WriteLine, InTurn, OneAppender
<1>4. Attached # {}
  BY DEF WriteLine
<1>5. Len(down) \in Nat /\ DOMAIN down = 1 .. Len(down) /\ (down = <<>> <=> Len(down) = 0)
  BY <1>2
<1>6. /\ Len(down') = Len(down) + n /\ DOMAIN down' = 1 .. (Len(down) + n)
      /\ (down' = <<>> <=> Len(down) + n = 0)
  <2>1. down' \in Seq(LogData) /\ Len(down') = Len(down) + n
    BY <1>1, <1>2
  <2>2. DOMAIN down' = 1 .. Len(down')
    BY <2>1
  <2>3. down' = <<>> <=> Len(down') = 0
    BY <2>1
  <2> QED
    BY <2>1, <2>2, <2>3
<1>7. /\ \A i \in 1 .. Len(down) : down'[i] = down[i]
      /\ \A i \in (Len(down) + 1) .. (Len(down) + n) : down'[i] = [kind |-> "line", of |-> c]
  BY <1>1, <1>2
<1>8. IF down = <<>> THEN panel.file \in {NoLog, c} ELSE down[Len(down)].of = c
  BY <1>3, <1>4 DEF LinesFollow
<1>9. \A i \in 1 .. (Len(down) + n) : i >= Len(down) /\ i # 0 => down'[i].of = c
  <2> SUFFICES ASSUME NEW i \in 1 .. (Len(down) + n), i >= Len(down) PROVE down'[i].of = c
    OBVIOUS
  <2>1. CASE i = Len(down)
    BY <1>5, <1>7, <1>8, <2>1
  <2>2. CASE i # Len(down)
    <3>1. i \in (Len(down) + 1) .. (Len(down) + n)
      <4>1. i \in Int /\ i >= Len(down) /\ i <= Len(down) + n /\ Len(down) \in Int
        BY <1>5
      <4>2. i >= Len(down) + 1
        BY <2>2, <4>1
      <4> QED
        BY <1>5, <4>1, <4>2
    <3> QED
      BY <1>7, <3>1
  <2> QED
    BY <2>1, <2>2
<1>10. ASSUME NEW i \in DOMAIN down', down'[i].kind = "line"
       PROVE  IF i = 1 THEN panel'.file \in {NoLog, down'[i].of} ELSE down'[i - 1].of = down'[i].of
  <2>1. CASE i \in 1 .. Len(down)
    <3>1. i \in DOMAIN down /\ down'[i] = down[i] /\ (i # 1 => down'[i - 1] = down[i - 1])
      BY <1>5, <1>7, <2>1
    <3>2. IF i = 1 THEN panel.file \in {NoLog, down[i].of} ELSE down[i - 1].of = down[i].of
      BY <1>10, <3>1 DEF LinesFollow
    <3> QED
      BY <1>2, <3>1, <3>2
  <2>2. CASE i > Len(down) /\ i # 1
    <3>1. i - 1 \in 1 .. (Len(down) + n) /\ i - 1 >= Len(down) /\ i >= Len(down)
      BY <1>5, <1>6, <2>2
    <3> QED
      BY <1>6, <1>9, <2>2, <3>1
  <2>3. CASE i > Len(down) /\ i = 1
    <3>1. down = <<>> /\ down'[i].of = c
      BY <1>5, <1>6, <1>9, <2>3
    <3> QED
      BY <1>2, <1>8, <2>3, <3>1
  <2> QED
    BY <1>5, <1>6, <2>1, <2>2, <2>3
<1>11. ASSUME NEW a \in Attached'
       PROVE  IF down' = <<>> THEN panel'.file \in {NoLog, a.of} ELSE down'[Len(down')].of = a.of
  <2>1. a.of = c
    BY <1>2, <1>3
  <2>2. CASE Len(down) + n = 0
    BY <1>2, <1>5, <1>6, <1>8, <2>1, <2>2
  <2>3. CASE Len(down) + n # 0
    <3>1. Len(down) + n \in 1 .. (Len(down) + n) /\ Len(down) + n >= Len(down)
      BY <1>5, <2>3
    <3> QED
      BY <1>6, <1>9, <2>1, <2>3, <3>1
  <2> QED
    BY <2>2, <2>3
<1> QED
  BY <1>2, <1>10, <1>11 DEF LinesFollow

\* Nothing follows a connection that is closed.
LEMMA DropLines ==
  ASSUME LogTypeOK, NotAhead, LinesFollow, DropLog
  PROVE  LinesFollow'
<1>1. /\ conn' = conn + 1 /\ conn \in Nat /\ down' = <<>> /\ panel' = panel
      /\ appenders' \subseteq appenders
  BY DEF DropLog, Stopped, LogTypeOK
<1>2. ASSUME NEW a \in Attached' PROVE FALSE
  <2>1. a \in appenders /\ a.on = conn + 1
    BY <1>1, <1>2 DEF Attached
  <2>2. a.on \in Nat /\ a.on <= conn
    BY <2>1 DEF NotAhead, LogTypeOK
  <2> QED
    BY <1>1, <2>1, <2>2
<1> QED
  BY <1>1, <1>2 DEF LinesFollow

\* Lines follow what they belong to, as long as no message comes late.
LEMMA NextLines ==
  ASSUME LogTypeOK, PageInv, NotAhead, InTurn, overtaken = {} => LinesFollow, [LogNext]_logVars
  PROVE  overtaken' = {} => LinesFollow'
<1>1. overtaken \subseteq overtaken'
  BY DEF LogNext, logVars, VisitLog, WriteLine, StartLog, LeaveLog, SendLate, ReceiveLog,
         ConnectLog, DropLog, ReceiveText
<1> SUFFICES ASSUME overtaken' = {} PROVE LinesFollow'
  OBVIOUS
<1>2. LinesFollow /\ conn \notin overtaken
  BY <1>1
<1>3. ASSUME NEW c \in LogCrawls, VisitLog(c) PROVE LinesFollow'
  BY <1>2, <1>3, PanelKept DEF VisitLog
<1>4. CASE StartLog
  BY <1>2, <1>4, PanelKept DEF StartLog
<1>5. CASE LeaveLog
  BY <1>2, <1>5, PanelKept DEF LeaveLog
<1>6. CASE SendLate
  BY <1>2, <1>6, PanelKept DEF SendLate
<1>7. CASE ConnectLog
  BY <1>2, <1>7, PanelKept DEF ConnectLog
<1>8. CASE UNCHANGED logVars
  BY <1>2, <1>8, PanelKept DEF logVars
<1> QED
  BY <1>2, <1>3, <1>4, <1>5, <1>6, <1>7, <1>8, WriteLines, ReceiveLines, DropLines, TextLines
  DEF LogNext

-----------------------------------------------------------------------------
(***************************************************************************)
(* The theorems about the log page.                                        *)
(***************************************************************************)
\* Nothing is attached, and nothing sent, at first.
LEMMA InitLog == LogInit => LogInv
<1> SUFFICES ASSUME LogInit PROVE LogInv
  OBVIOUS
<1>1. << >> \in Seq(LogMessages) /\ << >> \in Seq(LogData) /\ DOMAIN << >> = {}
  OBVIOUS
<1>2. LogTypeOK
  BY <1>1, MessageType DEF LogInit, LogTypeOK
<1>3. PageInv /\ NotAhead /\ ClosedSocketsAreSilent
  BY FS_EmptySet DEF LogInit, PageInv, NotAhead, ClosedSocketsAreSilent
<1>4. Attached = {} /\ up = << >> /\ down = << >> /\ panelOf = NoLog /\ panel = Blank
  BY DEF LogInit, Attached
<1>5. InTurn
  BY <1>1, <1>4 DEF InTurn, OneAppender, TakeTurns, PageAsks, Starts
<1>6. LinesFollow
  BY <1>1, <1>4, MessageType DEF LinesFollow
<1> QED
  BY <1>2, <1>3, <1>5, <1>6 DEF LogInv

\* Each action keeps the invariant.
LEMMA LogInvKept ==
  ASSUME LogInv, [LogNext]_logVars
  PROVE  LogInv'
<1>1. /\ LogTypeOK /\ PageInv /\ NotAhead /\ InTurn /\ ClosedSocketsAreSilent
      /\ overtaken = {} => LinesFollow
  BY DEF LogInv
<1>2. LogTypeOK' /\ PageInv' /\ NotAhead' /\ InTurn' /\ ClosedSocketsAreSilent'
  BY <1>1, NextLogType, NextPage, NextAhead, NextInTurn, NextSilent
<1>3. overtaken' = {} => LinesFollow'
  BY <1>1, NextLines
<1> QED
  BY <1>2, <1>3 DEF LogInv

\* The invariant of the log page.
LEMMA LogInvAlways == LogSpec => []LogInv
<1>1. LogInv /\ [LogNext]_logVars => LogInv'
  BY LogInvKept
<1> QED
  BY InitLog, <1>1, PTL DEF LogSpec

\* The state of the log page, its messages and its appenders keep their types,
\* whatever is visited, sent late or lost with a connection.
THEOREM LogTypeCorrect == LogSpec => []LogTypeOK
<1>1. LogInv => LogTypeOK
  BY DEF LogInv
<1> QED
  BY <1>1, LogInvAlways, PTL

\* When nothing is under way, the server follows exactly the log whose page is
\* shown, once: LogRoute and LoggingSocket agree on a connection on which no
\* message came late, however often the user moves between logs.
THEOREM PageIsFollowed == LogSpec => []LogFollowsPage
<1>1. LogInv => LogFollowsPage
  <2> SUFFICES ASSUME LogInv, Settled, synced, conn \notin overtaken
               PROVE  IF panelOf = NoLog
                        THEN Attached = {}
                        ELSE \E a \in Attached : Attached = {a} /\ a.of = panelOf
    BY DEF LogFollowsPage
  <2>1. OneAppender /\ PageAsks /\ up = <<>> /\ ticks = 0
    BY DEF LogInv, InTurn, Settled
  <2>2. CASE panelOf = NoLog
    BY <2>1, <2>2 DEF PageAsks, Starts
  <2>3. CASE panelOf # NoLog
    <3>1. PICK a \in Attached : a.of = panelOf
      BY <2>1, <2>3 DEF PageAsks, StartsOf
    <3>2. Attached = {a}
      BY <2>1 DEF OneAppender
    <3> QED
      BY <2>3, <3>1, <3>2
  <2> QED
    BY <2>2, <2>3
<1> QED
  BY <1>1, LogInvAlways, PTL

\* A closed socket has stopped its appender, as long as no message of its
\* connection came late: LoggingSocket.appender is then the one attached.
THEOREM ClosedMeansSilent == LogSpec => []ClosedSocketsAreSilent
<1>1. LogInv => ClosedSocketsAreSilent
  BY DEF LogInv
<1> QED
  BY <1>1, LogInvAlways, PTL

\* The panel shows no line of a crawl under the file of another one, as long
\* as no message comes late.
THEOREM LinesAreOfTheFile == LogSpec => []LinesMatchFile
<1>1. LogInv => LinesMatchFile
  BY DEF LogInv, LinesFollow, LinesMatchFile
<1> QED
  BY <1>1, LogInvAlways, PTL

-----------------------------------------------------------------------------
(***************************************************************************)
(* The execution queue: the inductive invariant.                           *)
(***************************************************************************)
\* A thread announces each change before it makes the next.
OneAhead ==
  \A c \in Crawls : crawlStatus[c] = told[c] \/ crawlStatus[c] \in NextStatus[told[c]]

\* Records are finitely many, and nothing is on its way without a socket.
AtRest ==
  /\ IsFiniteSet({c \in Crawls : crawlStatus[c] # "none"})
  /\ socket # "open" => wire = <<>>
  /\ socket = "none" => removals = [c \in Crawls |-> 0] /\ shown.id = NoCrawl

\* The first and the last announcement of c under way, and neighbours among them.
FirstOf(c, i)   == i \in PendingFor(c) /\ \A j \in PendingFor(c) : i <= j
LastOf(c, i)    == i \in PendingFor(c) /\ \A j \in PendingFor(c) : j <= i
NextTo(c, i, j) ==
  /\ i \in PendingFor(c) /\ j \in PendingFor(c) /\ i < j
  /\ \A k \in PendingFor(c) : k <= i \/ j <= k

\* What is on its way are the last statuses announced, in their order.
InOrder(c) ==
  /\ \A i \in DOMAIN wire : LastOf(c, i) => wire[i].crawlStatus = told[c]
  /\ \A i, j \in DOMAIN wire :
       NextTo(c, i, j) => wire[j].crawlStatus \in NextStatus[wire[i].crawlStatus]

WireInv ==
  /\ \A c \in Crawls : InOrder(c)
  /\ \A i \in DOMAIN wire : wire[i].crawlStatus = "success" => told[wire[i].id] = "success"

\* The entries of a record of which the page has heard status s.
OneEntry(c, s) == \E i \in DOMAIN executionQueue :
                     EntriesOf(c) = {i} /\ executionQueue[i].crawlStatus = s

Heard(c, s) ==
  /\ s = "none" => EntriesOf(c) = {} /\ removals[c] = 0
  /\ s \in Active => OneEntry(c, s) /\ removals[c] = 0
  /\ s \in Ended => EntriesOf(c) = {} \/ (OneEntry(c, s) /\ removals[c] = 1)

\* To hear s again does no harm: the page has read it with the list.
Harmless(c, s) == s \notin {"none", "queued"} /\ (s \in Ended => EntriesOf(c) = {})

Expects(c, s, t) == t \in NextStatus[s] \/ (t = s /\ Harmless(c, s))

\* What the page hears next follows from what it has heard.
Comes(c, s) ==
  /\ PendingFor(c) = {} => s = told[c] \/ (s = crawlStatus[c] /\ Harmless(c, s))
  /\ \A i \in DOMAIN wire : FirstOf(c, i) => Expects(c, s, wire[i].crawlStatus)

PageHears ==
  \A c \in Crawls : Followed(c) => \E s \in CrawlStatuses : Heard(c, s) /\ Comes(c, s)

QueueInv ==
  QueueTypeOK /\ OneAhead /\ AtRest /\ WireInv /\ PageHears /\ ShownRecordSucceeds

USE DEF queueServer, queuePage

-----------------------------------------------------------------------------
(***************************************************************************)
(* Numbers and lists.                                                      *)
(***************************************************************************)
\* A set of numbers that is not empty has a least one.
LEMMA LeastNat ==
  ASSUME NEW S, S \subseteq Nat, S # {}
  PROVE  Min(S) \in S /\ \A n \in S : Min(S) <= n
<1> DEFINE R == OpToRel(<, Nat)
<1>1. IsWellFoundedOn(R, Nat)
  BY NatLessThanWellFounded
<1>2. R = {ss \in Nat \X Nat : ss[1] < ss[2]}
  BY DEF OpToRel
<1> HIDE DEF R
<1>3. PICK x \in S : \A y \in S : <<y, x>> \notin R
  BY <1>1, WFMin
<1>4. ASSUME NEW y \in S PROVE x <= y
  <2>1. x \in Nat /\ y \in Nat
    OBVIOUS
  <2>2. ~(y < x)
    BY <1>2, <1>3, <2>1
  <2> QED
    BY <2>1, <2>2
<1>5. \E z \in S : \A y \in S : z =< y
  BY <1>3, <1>4
<1> QED
  BY <1>5 DEF Min

\* A set of numbers with a bound has a greatest one, too.
LEMMA GreatestNat ==
  ASSUME NEW S, S \subseteq Nat, S # {}, NEW b \in Nat, \A n \in S : n <= b
  PROVE  Max(S) \in S /\ \A n \in S : n <= Max(S)
<1> DEFINE U == {m \in Nat : \A n \in S : n <= m}
<1>1. U \subseteq Nat /\ b \in U
  OBVIOUS
<1> DEFINE m == Min(U)
<1>2. m \in U /\ \A n \in U : m <= n
  BY <1>1, LeastNat
<1>3. m \in Nat /\ \A n \in S : n <= m
  BY <1>2
<1> HIDE DEF m
<1>4. m \in S
  <2> SUFFICES ASSUME m \notin S PROVE FALSE
    OBVIOUS
  <2>1. \A n \in S : n <= m - 1 /\ n \in Nat
    BY <1>3
  <2> PICK n \in S : TRUE
    OBVIOUS
  <2>2. m - 1 \in Nat
    <3>1. n <= m - 1 /\ n \in Nat /\ m \in Nat
      BY <1>3, <2>1
    <3> QED
      BY <3>1
  <2>3. m - 1 \in U
    BY <2>1, <2>2
  <2> HIDE DEF U
  <2> QED
    BY <1>2, <1>3, <2>3
<1>5. \E x \in S : \A y \in S : x >= y
  BY <1>3, <1>4
<1>6. Max(S) \in S /\ \A y \in S : Max(S) >= y
  BY <1>5 DEF Max
<1> QED
  BY <1>6

\* Induction, with a set in the place of a predicate.
LEMMA SetInduction ==
  ASSUME NEW S, 0 \in S, \A n \in Nat : n \in S => n + 1 \in S
  PROVE  \A n \in Nat : n \in S
<1> DEFINE T == {n \in Nat : n \notin S}
<1> SUFFICES ASSUME T # {} PROVE FALSE
  OBVIOUS
<1>1. T \subseteq Nat
  OBVIOUS
<1>2. PICK x \in T : \A n \in T : x <= n
  BY <1>1, LeastNat
<1> HIDE DEF T
<1>3. x \in Nat /\ x # 0 /\ x - 1 \in Nat /\ ~(x <= x - 1)
  BY <1>1, <1>2 DEF T
<1>4. x - 1 \in S
  BY <1>2, <1>3 DEF T
<1> QED
  BY <1>2, <1>3, <1>4 DEF T

\* The numbers of a finite set can be listed in their order.
LEMMA SortedList ==
  ASSUME NEW S, S \subseteq Nat, IsFiniteSet(S)
  PROVE  \E f \in [1 .. Cardinality(S) -> S] :
            \A i, j \in 1 .. Cardinality(S) : i < j => f[i] < f[j]
<1> DEFINE Lists(n, T) == \E f \in [1 .. n -> T] : \A i, j \in 1 .. n : i < j => f[i] < f[j]
           N == {n \in Nat : \A T \in SUBSET Nat :
                    IsFiniteSet(T) /\ Cardinality(T) = n => Lists(n, T)}
<1>1. 0 \in N
  <2>1. ASSUME NEW T \in SUBSET Nat PROVE Lists(0, T)
    <3>1. 1 .. 0 = {}
      OBVIOUS
    <3>2. [i \in 1 .. 0 |-> 0] \in [1 .. 0 -> T]
      BY <3>1
    <3> QED
      BY <3>1, <3>2
  <2> HIDE DEF Lists
  <2> QED
    BY <2>1
<1>2. ASSUME NEW n \in Nat, n \in N PROVE n + 1 \in N
  <2> SUFFICES ASSUME NEW T \in SUBSET Nat, IsFiniteSet(T), Cardinality(T) = n + 1
               PROVE  Lists(n + 1, T)
    <3> HIDE DEF Lists
    <3> QED
      BY <1>2
  <2>1. T # {}
    BY FS_EmptySet
  <2> DEFINE x == Min(T)
             R == T \ {x}
  <2>2. x \in T /\ \A m \in T : x <= m
    BY <2>1, LeastNat
  <2> HIDE DEF x
  <2>3. IsFiniteSet(R) /\ Cardinality(R) = n /\ R \in SUBSET Nat
    BY <2>2, FS_RemoveElement
  <2>4. Lists(n, R)
    <3> HIDE DEF Lists, R
    <3> QED
      BY <1>2, <2>3
  <2>5. PICK f \in [1 .. n -> R] : \A i, j \in 1 .. n : i < j => f[i] < f[j]
    BY <2>4
  <2> DEFINE g == [i \in 1 .. n + 1 |-> IF i = 1 THEN x ELSE f[i - 1]]
  <2>6. ASSUME NEW i \in 1 .. n + 1, i # 1 PROVE i - 1 \in 1 .. n /\ g[i] = f[i - 1] /\ f[i - 1] \in R
    BY <2>6
  <2>7. g \in [1 .. n + 1 -> T]
    BY <2>2, <2>6
  <2>8. ASSUME NEW i \in 1 .. n + 1, NEW j \in 1 .. n + 1, i < j PROVE g[i] < g[j]
    <3>1. j # 1 /\ g[j] = f[j - 1] /\ j - 1 \in 1 .. n /\ f[j - 1] \in R
      BY <2>6, <2>8
    <3>2. CASE i = 1
      <4>1. g[i] = x /\ f[j - 1] \in T /\ f[j - 1] # x
        BY <3>1, <3>2
      <4>2. x \in Nat /\ f[j - 1] \in Nat /\ x <= f[j - 1]
        BY <2>2, <4>1
      <4> QED
        BY <3>1, <4>1, <4>2
    <3>3. CASE i # 1
      <4>1. g[i] = f[i - 1] /\ i - 1 \in 1 .. n /\ i - 1 < j - 1
        BY <2>6, <2>8, <3>3
      <4> QED
        BY <2>5, <3>1, <4>1
    <3> QED
      BY <3>2, <3>3
  <2> HIDE DEF g
  <2> QED
    BY <2>7, <2>8
<1>3. Cardinality(S) \in Nat
  BY FS_CardinalityType
<1> HIDE DEF Lists
<1>4. \A n \in Nat : n \in N => n + 1 \in N
  <2> HIDE DEF N
  <2> QED
    BY <1>2
<1>5. \A n \in Nat : n \in N
  <2> HIDE DEF N
  <2> QED
    BY <1>1, <1>4, SetInduction
<1>6. Lists(Cardinality(S), S)
  BY <1>3, <1>5
<1> QED
  BY <1>6 DEF Lists

-----------------------------------------------------------------------------
(***************************************************************************)
(* The operations on the queue.                                            *)
(***************************************************************************)
\* No record goes back to a former status.
LEMMA StatusFacts ==
  /\ CrawlStatuses = {"none"} \cup Active \cup Ended
  /\ \A s \in CrawlStatuses : NextStatus[s] \subseteq CrawlStatuses
  /\ \A s \in CrawlStatuses : \A t \in NextStatus[s] :
       t # "none" /\ t # s /\ s \notin Ended /\ (t = "queued" <=> s = "none")
  /\ "none" \notin Active \cup Ended /\ "queued" \notin Ended /\ Active \cap Ended = {}
  /\ "success" \in Ended
<1>1. CrawlStatuses = {"none", "queued", "initializing", "running", "success", "failure"}
  BY DEF CrawlStatuses, NextStatus
<1>2. /\ NextStatus["none"] = {"queued"} /\ NextStatus["queued"] = {"initializing"}
      /\ NextStatus["initializing"] = {"running", "failure"}
      /\ NextStatus["running"] = {"success", "failure"}
      /\ NextStatus["success"] = {} /\ NextStatus["failure"] = {}
  BY DEF NextStatus, Ended
<1>3. /\ CrawlStatuses = {"none"} \cup Active \cup Ended
      /\ "none" \notin Active \cup Ended /\ "queued" \notin Ended /\ Active \cap Ended = {}
      /\ "success" \in Ended
  BY <1>1 DEF Active, Ended
<1>4. \A s \in CrawlStatuses : NextStatus[s] \subseteq CrawlStatuses
  BY <1>1, <1>2
<1>5. \A s \in CrawlStatuses : \A t \in NextStatus[s] :
        t # "none" /\ t # s /\ s \notin Ended /\ (t = "queued" <=> s = "none")
  BY <1>1, <1>2 DEF Ended
<1> QED
  BY <1>3, <1>4, <1>5

\* The entry of a record.
LEMMA EntryType ==
  ASSUME NEW c \in Crawls, NEW s \in CrawlStatuses
  PROVE  Entry(c, s) \in EntrySet /\ Entry(c, s).id = c /\ Entry(c, s).crawlStatus = s
BY DEF Entry, EntrySet

\* The first entry of a record is found, if there is one.
LEMMA FirstFacts ==
  ASSUME NEW q \in Seq(EntrySet), NEW c
  PROVE  \/ First(q, c) = 0 /\ \A i \in DOMAIN q : q[i].id # c
         \/ First(q, c) \in DOMAIN q /\ First(q, c) # 0 /\ q[First(q, c)].id = c
<1> DEFINE I == {i \in 1 .. Len(q) : q[i].id = c}
<1>1. First(q, c) = IF I # {} THEN Min(I) ELSE 0
  BY DEF First, SelectInSeq, SameId
<1>2. DOMAIN q = 1 .. Len(q) /\ Len(q) \in Nat
  OBVIOUS
<1>3. I \subseteq Nat
  OBVIOUS
<1>4. I # {} => Min(I) \in I
  BY <1>3, LeastNat
<1> QED
  BY <1>1, <1>2, <1>4

\* What is left when the entry at a place is taken out.
LEMMA RemoveFacts ==
  ASSUME NEW q \in Seq(EntrySet), NEW k \in DOMAIN q
  PROVE  /\ RemoveAt(q, k) \in Seq(EntrySet)
         /\ DOMAIN RemoveAt(q, k) = 1 .. Len(q) - 1
         /\ \A i \in 1 .. Len(q) - 1 : RemoveAt(q, k)[i] = IF i < k THEN q[i] ELSE q[i + 1]
         /\ DOMAIN q = 1 .. Len(q) /\ Len(q) \in Nat
<1>1. k \in 1 .. Len(q) /\ Len(q) \in Nat /\ DOMAIN q = 1 .. Len(q)
  OBVIOUS
<1> DEFINE a == SubSeq(q, 1, k - 1)
           b == SubSeq(q, k + 1, Len(q))
<1>2. /\ a \in Seq(EntrySet) /\ Len(a) = k - 1 /\ \A i \in 1 .. k - 1 : a[i] = q[i]
  <2>1. \A i \in 1 .. k - 1 : q[i] \in EntrySet
    BY <1>1
  <2> QED
    BY <1>1, <2>1
<1>3. /\ b \in Seq(EntrySet) /\ Len(b) = Len(q) - k
      /\ \A i \in 1 .. Len(q) - k : b[i] = q[i + k]
  <2>1. \A i \in (k + 1) .. Len(q) : q[i] \in EntrySet
    BY <1>1
  <2> QED
    BY <1>1, <2>1
<1>4. RemoveAt(q, k) = a \o b
  BY DEF RemoveAt
<1> HIDE DEF a, b
<1>5. a \o b \in Seq(EntrySet) /\ Len(a \o b) = Len(q) - 1
  <2>1. a \o b \in Seq(EntrySet) /\ Len(a \o b) = Len(a) + Len(b)
    BY <1>2, <1>3, ConcatProperties
  <2>2. (k - 1) + (Len(q) - k) = Len(q) - 1
    BY <1>1
  <2> QED
    BY <1>2, <1>3, <2>1, <2>2
<1>6. DOMAIN (a \o b) = 1 .. Len(q) - 1
  BY <1>5
<1>7. ASSUME NEW i \in 1 .. Len(q) - 1 PROVE (a \o b)[i] = IF i < k THEN q[i] ELSE q[i + 1]
  <2>1. CASE i < k
    BY <1>1, <1>2, <1>3, <2>1
  <2>2. CASE i >= k
    <3>1. i - (k - 1) \in 1 .. Len(q) - k /\ (i - (k - 1)) + k = i + 1
      BY <1>1, <2>2
    <3>2. (a \o b)[i] = b[i - (k - 1)]
      <4>1. i \in 1 .. Len(a) + Len(b) /\ ~(i <= Len(a))
        BY <1>1, <1>2, <1>3, <2>2
      <4> QED
        BY <1>2, <1>3, <4>1, ConcatProperties
    <3> QED
      BY <1>1, <1>3, <2>2, <3>1, <3>2
  <2>3. i < k \/ i >= k
    BY <1>1
  <2> QED
    BY <2>1, <2>2, <2>3
<1> QED
  BY <1>1, <1>4, <1>5, <1>6, <1>7

\* Updating and removing keep the type of the queue.
LEMMA OperationTypes ==
  ASSUME NEW q \in Seq(EntrySet), NEW c \in Crawls, NEW s \in CrawlStatuses
  PROVE  /\ Updated(q, c, s) \in Seq(EntrySet) /\ DOMAIN Updated(q, c, s) = DOMAIN q
         /\ \A i \in DOMAIN q : Updated(q, c, s)[i] =
              IF First(q, c) # 0 /\ i = First(q, c) THEN [q[i] EXCEPT !.crawlStatus = s] ELSE q[i]
         /\ Removed(q, c) \in Seq(EntrySet)
<1>1. CASE First(q, c) = 0
  BY <1>1 DEF Updated, Removed
<1>2. CASE First(q, c) # 0
  <2> DEFINE k == First(q, c)
  <2>1. k \in DOMAIN q
    BY <1>2, FirstFacts
  <2> HIDE DEF k
  <2>2. Updated(q, c, s) = [q EXCEPT ![k].crawlStatus = s] /\ Removed(q, c) = RemoveAt(q, k)
    BY <1>2 DEF Updated, Removed, k
  <2>3. q[k] \in EntrySet /\ [q[k] EXCEPT !.crawlStatus = s] \in EntrySet
    <3>1. q[k] \in EntrySet
      BY <2>1
    <3> QED
      BY <3>1 DEF EntrySet
  <2>4. [q EXCEPT ![k].crawlStatus = s] \in Seq(EntrySet)
    BY <2>1, <2>3
  <2> QED
    BY <1>2, <2>1, <2>2, <2>4, RemoveFacts DEF k
<1> QED
  BY <1>1, <1>2

\* The list of the active records has each of them once.
LEMMA ActiveFacts ==
  ASSUME QueueTypeOK, AtRest
  PROVE  /\ ActiveList \in Seq(EntrySet)
         /\ \A i \in DOMAIN ActiveList :
              /\ ActiveList[i].id \in Crawls /\ crawlStatus[ActiveList[i].id] \in Active
              /\ ActiveList[i].crawlStatus = crawlStatus[ActiveList[i].id]
         /\ \A i, j \in DOMAIN ActiveList : ActiveList[i].id = ActiveList[j].id => i = j
         /\ \A c \in Crawls : crawlStatus[c] \in Active => \E i \in DOMAIN ActiveList : ActiveList[i].id = c
<1> DEFINE active == {c \in Crawls : crawlStatus[c] \in Active}
           n == Cardinality(active)
           ids == CHOOSE f \in [1 .. n -> active] : \A i, j \in 1 .. n : i < j => f[i] < f[j]
<1>1. active \subseteq Nat /\ IsFiniteSet(active)
  <2>1. active \subseteq {c \in Crawls : crawlStatus[c] # "none"}
    BY StatusFacts
  <2> QED
    BY <2>1, FS_Subset, QueueAssumption DEF AtRest
<1>2. ids \in [1 .. n -> active] /\ \A i, j \in 1 .. n : i < j => ids[i] < ids[j]
  <2>1. \E f \in [1 .. n -> active] : \A i, j \in 1 .. n : i < j => f[i] < f[j]
    BY <1>1, SortedList
  <2> HIDE DEF active, n
  <2> QED
    BY <2>1
<1>3. n \in Nat
  BY <1>1, FS_CardinalityType
<1>4. ActiveList = [i \in 1 .. n |-> Entry(ids[i], crawlStatus[ids[i]])]
  BY DEF ActiveList
<1>5. \A c \in active : c \in Crawls /\ crawlStatus[c] \in Active /\ crawlStatus[c] \in CrawlStatuses
  BY DEF QueueTypeOK
<1> HIDE DEF active, ids, n
<1>6. \A i \in 1 .. n : Entry(ids[i], crawlStatus[ids[i]]) \in EntrySet
  BY <1>2, <1>5, EntryType
<1>7. ActiveList \in Seq(EntrySet) /\ DOMAIN ActiveList = 1 .. n
  BY <1>3, <1>4, <1>6
<1>8. ASSUME NEW i \in DOMAIN ActiveList
      PROVE  /\ ActiveList[i].id = ids[i] /\ ids[i] \in active
             /\ ActiveList[i].crawlStatus = crawlStatus[ids[i]]
  BY <1>2, <1>4, <1>7 DEF Entry
<1>9. ASSUME NEW i \in 1 .. n, NEW j \in 1 .. n, ids[i] = ids[j] PROVE i = j
  <2>1. ids[i] \in Nat /\ ids[j] \in Nat
    BY <1>1, <1>2
  <2>2. ~(i < j) /\ ~(j < i)
    BY <1>2, <1>9, <2>1
  <2> QED
    BY <1>3, <2>2
<1>10. ids \in Injection(1 .. n, active)
  BY <1>2, <1>9 DEF Injection, IsInjective
<1>11. Cardinality(1 .. n) = n
  BY <1>3, FS_Interval
<1>12. ids \in Surjection(1 .. n, active)
  <2>1. Cardinality(1 .. n) = Cardinality(active)
    BY <1>11 DEF n
  <2> QED
    BY <1>1, <1>10, <2>1, FS_Injection
<1>13. \A c \in active : \E i \in 1 .. n : ids[i] = c
  BY <1>12 DEF Surjection
<1>14. ASSUME NEW c \in Crawls, crawlStatus[c] \in Active PROVE \E i \in DOMAIN ActiveList : ActiveList[i].id = c
  <2>1. c \in active
    BY <1>14 DEF active
  <2> QED
    BY <1>7, <1>8, <1>13, <2>1
<1> QED
  BY <1>5, <1>7, <1>8, <1>9, <1>14

\* The places of the entries of c in a queue.
At(q, c) == {i \in DOMAIN q : q[i].id = c}

\* The entries of c, if there is one at most, are the same in r as in q.
EntriesKept(q, r, c) ==
  /\ At(q, c) = {} => At(r, c) = {}
  /\ \A i \in DOMAIN q : At(q, c) = {i} =>
       \E k \in DOMAIN r : At(r, c) = {k} /\ r[k].crawlStatus = q[i].crawlStatus

\* What is done to the entry of another record leaves the entries of c alone.
LEMMA OthersKept ==
  ASSUME NEW q \in Seq(EntrySet), NEW c \in Crawls, NEW d \in Crawls, d # c, NEW s \in CrawlStatuses
  PROVE  /\ EntriesKept(q, Append(q, Entry(d, s)), c)
         /\ EntriesKept(q, Updated(q, d, s), c)
         /\ EntriesKept(q, Removed(q, d), c)
<1>1. EntriesKept(q, Append(q, Entry(d, s)), c)
  <2> DEFINE r == Append(q, Entry(d, s))
  <2>1. /\ DOMAIN r = 1 .. Len(q) + 1 /\ r[Len(q) + 1] = Entry(d, s)
        /\ \A i \in 1 .. Len(q) : r[i] = q[i]
        /\ DOMAIN q = 1 .. Len(q) /\ Len(q) \in Nat
    BY AppendOne, EntryType
  <2>2. r[Len(q) + 1].id # c
    BY <2>1, EntryType
  <2> HIDE DEF r
  <2>3. \A i \in DOMAIN r : i \in DOMAIN q \/ i = Len(q) + 1
    BY <2>1
  <2>4. At(r, c) = At(q, c)
    BY <2>1, <2>2, <2>3 DEF At
  <2>5. \A i \in DOMAIN q : i \in DOMAIN r /\ r[i].crawlStatus = q[i].crawlStatus
    BY <2>1
  <2> QED
    BY <2>4, <2>5 DEF EntriesKept, r
<1>2. EntriesKept(q, Updated(q, d, s), c)
  <2> DEFINE r == Updated(q, d, s)
             k == First(q, d)
  <2>1. /\ DOMAIN r = DOMAIN q
        /\ \A i \in DOMAIN q : r[i] = IF k # 0 /\ i = k THEN [q[i] EXCEPT !.crawlStatus = s] ELSE q[i]
    BY OperationTypes
  <2>2. k # 0 => k \in DOMAIN q /\ q[k].id = d
    BY FirstFacts
  <2>3. \A i \in DOMAIN q : q[i] \in EntrySet
    OBVIOUS
  <2> HIDE DEF r, k
  <2>4. ASSUME NEW i \in DOMAIN q
        PROVE  r[i].id = q[i].id /\ (q[i].id = c => r[i] = q[i])
    <3>1. CASE k # 0 /\ i = k
      <4>1. r[i] = [q[i] EXCEPT !.crawlStatus = s] /\ q[i] \in EntrySet /\ q[i].id = d
        BY <2>1, <2>2, <2>3, <3>1
      <4>2. r[i].id = q[i].id
        BY <4>1 DEF EntrySet
      <4> QED
        BY <4>1, <4>2
    <3>2. CASE ~(k # 0 /\ i = k)
      BY <2>1, <3>2
    <3> QED
      BY <3>1, <3>2
  <2>5. At(r, c) = At(q, c)
    BY <2>1, <2>4 DEF At
  <2>6. \A i \in At(q, c) : i \in DOMAIN r /\ r[i].crawlStatus = q[i].crawlStatus
    BY <2>1, <2>4 DEF At
  <2> QED
    BY <2>5, <2>6 DEF EntriesKept, r
<1>3. EntriesKept(q, Removed(q, d), c)
  <2>1. CASE First(q, d) = 0
    BY <2>1 DEF Removed, EntriesKept
  <2>2. CASE First(q, d) # 0
    <3> DEFINE k == First(q, d)
               r == RemoveAt(q, k)
    <3>1. k \in DOMAIN q /\ q[k].id = d
      BY <2>2, FirstFacts
    <3> HIDE DEF k
    <3>2. /\ DOMAIN r = 1 .. Len(q) - 1 /\ DOMAIN q = 1 .. Len(q) /\ Len(q) \in Nat
          /\ \A i \in 1 .. Len(q) - 1 : r[i] = IF i < k THEN q[i] ELSE q[i + 1]
      BY <3>1, RemoveFacts
    <3> HIDE DEF r
    <3>3. ASSUME NEW i \in At(q, c)
          PROVE  \E j \in DOMAIN r : r[j] = q[i]
      <4>1. i \in 1 .. Len(q) /\ i # k /\ k \in 1 .. Len(q)
        BY <3>1, <3>2 DEF At
      <4>2. CASE i < k
        <5>1. i \in 1 .. Len(q) - 1
          BY <3>2, <4>1, <4>2
        <5> QED
          BY <3>2, <4>2, <5>1
      <4>3. CASE i > k
        <5>1. i - 1 \in 1 .. Len(q) - 1 /\ ~(i - 1 < k) /\ (i - 1) + 1 = i
          BY <3>2, <4>1, <4>3
        <5> QED
          BY <3>2, <5>1
      <4> QED
        BY <4>1, <4>2, <4>3
    <3> DEFINE Old(j) == IF j < k THEN j ELSE j + 1
    <3>4. \A j \in DOMAIN r : Old(j) \in DOMAIN q /\ r[j] = q[Old(j)]
      BY <3>2
    <3>5. \A i, j \in DOMAIN r : Old(i) = Old(j) => i = j
      BY <3>1, <3>2
    <3> HIDE DEF Old
    <3>6. At(q, c) = {} => At(r, c) = {}
      BY <3>4 DEF At
    <3>7. ASSUME NEW i \in DOMAIN q, At(q, c) = {i}
          PROVE  \E j \in DOMAIN r : At(r, c) = {j} /\ r[j].crawlStatus = q[i].crawlStatus
      <4>1. i \in At(q, c) /\ q[i].id = c
        BY <3>7 DEF At
      <4>2. PICK j \in DOMAIN r : r[j] = q[i]
        BY <3>3, <4>1
      <4>3. j \in At(r, c)
        BY <4>1, <4>2 DEF At
      <4>4. ASSUME NEW l \in At(r, c) PROVE l = j
        <5>1. \A h \in At(r, c) : h \in DOMAIN r /\ Old(h) \in At(q, c)
          BY <3>4 DEF At
        <5>2. Old(l) = i /\ Old(j) = i /\ l \in DOMAIN r
          BY <3>7, <4>3, <5>1
        <5> QED
          BY <3>5, <5>2
      <4> QED
        BY <4>2, <4>3, <4>4
    <3> QED
      BY <2>2, <3>6, <3>7 DEF EntriesKept, Removed, r, k
  <2> QED
    BY <2>1, <2>2
<1> QED
  BY <1>1, <1>2, <1>3

\* What is done to the entry of a record that has one at most.
LEMMA OwnEntry ==
  ASSUME NEW q \in Seq(EntrySet), NEW c \in Crawls, NEW s \in CrawlStatuses
  PROVE  /\ At(q, c) = {} =>
              /\ Updated(q, c, s) = q /\ Removed(q, c) = q
              /\ At(Append(q, Entry(c, s)), c) = {Len(q) + 1}
              /\ Len(q) + 1 \in DOMAIN Append(q, Entry(c, s))
              /\ Append(q, Entry(c, s))[Len(q) + 1].crawlStatus = s
         /\ \A i \in DOMAIN q : At(q, c) = {i} =>
              /\ i \in DOMAIN Updated(q, c, s) /\ At(Updated(q, c, s), c) = {i}
              /\ Updated(q, c, s)[i].crawlStatus = s
              /\ At(Removed(q, c), c) = {}
<1>1. ASSUME At(q, c) = {}
      PROVE  /\ Updated(q, c, s) = q /\ Removed(q, c) = q
             /\ At(Append(q, Entry(c, s)), c) = {Len(q) + 1}
             /\ Len(q) + 1 \in DOMAIN Append(q, Entry(c, s))
             /\ Append(q, Entry(c, s))[Len(q) + 1].crawlStatus = s
  <2>1. First(q, c) = 0
    BY <1>1, FirstFacts DEF At
  <2> DEFINE r == Append(q, Entry(c, s))
  <2>2. /\ DOMAIN r = 1 .. Len(q) + 1 /\ r[Len(q) + 1] = Entry(c, s)
        /\ \A i \in 1 .. Len(q) : r[i] = q[i]
        /\ DOMAIN q = 1 .. Len(q) /\ Len(q) \in Nat
    BY AppendOne, EntryType
  <2>3. r[Len(q) + 1].id = c /\ r[Len(q) + 1].crawlStatus = s
    BY <2>2, EntryType
  <2> HIDE DEF r
  <2>4. \A i \in DOMAIN r : (i \in DOMAIN q /\ r[i] = q[i]) \/ i = Len(q) + 1
    BY <2>2
  <2>5. Len(q) + 1 \in DOMAIN r
    BY <2>2
  <2>6. At(r, c) = {Len(q) + 1}
    BY <1>1, <2>3, <2>4, <2>5 DEF At
  <2> QED
    BY <2>1, <2>3, <2>5, <2>6 DEF Updated, Removed, r
<1>2. ASSUME NEW i \in DOMAIN q, At(q, c) = {i}
      PROVE  /\ i \in DOMAIN Updated(q, c, s) /\ At(Updated(q, c, s), c) = {i}
             /\ Updated(q, c, s)[i].crawlStatus = s
             /\ At(Removed(q, c), c) = {}
  <2>1. First(q, c) = i /\ i # 0 /\ q[i].id = c /\ \A j \in DOMAIN q : q[j].id = c => j = i
    <3>1. q[i].id = c /\ \A j \in DOMAIN q : q[j].id = c => j = i
      BY <1>2 DEF At
    <3> QED
      BY <3>1, FirstFacts
  <2> DEFINE r == Updated(q, c, s)
  <2>2. /\ DOMAIN r = DOMAIN q /\ r[i] = [q[i] EXCEPT !.crawlStatus = s]
        /\ \A j \in DOMAIN q : j # i => r[j] = q[j]
    <3>1. /\ DOMAIN r = DOMAIN q
          /\ \A j \in DOMAIN q : r[j] =
               IF First(q, c) # 0 /\ j = First(q, c) THEN [q[j] EXCEPT !.crawlStatus = s] ELSE q[j]
      BY OperationTypes
    <3> HIDE DEF r
    <3> QED
      BY <2>1, <3>1
  <2> HIDE DEF r
  <2>3. q[i] \in EntrySet
    OBVIOUS
  <2>4. r[i].id = c /\ r[i].crawlStatus = s
    BY <2>1, <2>2, <2>3 DEF EntrySet
  <2>5. At(r, c) = {i}
    <3>1. \A j \in DOMAIN r : r[j].id = c <=> j = i
      BY <2>1, <2>2, <2>4
    <3>2. i \in DOMAIN r
      BY <2>2
    <3> QED
      BY <3>1, <3>2 DEF At
  <2> DEFINE p == RemoveAt(q, i)
  <2>6. /\ DOMAIN p = 1 .. Len(q) - 1 /\ DOMAIN q = 1 .. Len(q) /\ Len(q) \in Nat
        /\ \A j \in 1 .. Len(q) - 1 : p[j] = IF j < i THEN q[j] ELSE q[j + 1]
    BY RemoveFacts
  <2> HIDE DEF p
  <2>7. ASSUME NEW j \in DOMAIN p PROVE p[j].id # c
    <3>1. CASE j < i
      BY <2>1, <2>6, <3>1
    <3>2. CASE ~(j < i)
      <4>1. j + 1 \in DOMAIN q /\ j + 1 # i /\ p[j] = q[j + 1]
        BY <2>6, <3>2
      <4> QED
        BY <2>1, <4>1
    <3> QED
      BY <3>1, <3>2
  <2>8. At(p, c) = {}
    BY <2>7 DEF At
  <2>9. Removed(q, c) = p
    BY <2>1 DEF Removed, p
  <2> QED
    BY <2>2, <2>4, <2>5, <2>8, <2>9 DEF r
<1> QED
  BY <1>1, <1>2

-----------------------------------------------------------------------------
(***************************************************************************)
(* Types, and what the server and the socket know.                         *)
(***************************************************************************)
\* The message that is delivered, and what it does.
LEMMA DeliverFacts ==
  ASSUME QueueTypeOK, Deliver
  PROVE  \E c \in Crawls, s \in CrawlStatuses :
           /\ Head(wire) = Entry(c, s) /\ wire[1] = Entry(c, s) /\ 1 \in DOMAIN wire
           /\ executionQueue' = IF s = "queued" THEN Append(executionQueue, Entry(c, s))
                                               ELSE Updated(executionQueue, c, s)
           /\ removals' = IF s \in Ended THEN [removals EXCEPT ![c] = @ + 1] ELSE removals
           /\ shown' = IF s = "success" /\ shown.id = c THEN Entry(c, crawlStatus[c]) ELSE shown
<1> DEFINE m == Head(wire)
<1>1. wire \in Seq(EntrySet) /\ wire # <<>>
  BY DEF Deliver, QueueTypeOK
<1>2. m \in EntrySet /\ m = wire[1] /\ 1 \in DOMAIN wire
  BY <1>1, TailFacts
<1>3. m = Entry(m.id, m.crawlStatus) /\ m.id \in Crawls /\ m.crawlStatus \in CrawlStatuses
  BY <1>2 DEF EntrySet, Entry
<1>4. /\ executionQueue' = IF m.crawlStatus = "queued" THEN Append(executionQueue, m)
                             ELSE Updated(executionQueue, m.id, m.crawlStatus)
      /\ removals' = IF m.crawlStatus \in Ended THEN [removals EXCEPT ![m.id] = @ + 1] ELSE removals
      /\ shown' = IF m.crawlStatus = "success" /\ shown.id = m.id
                    THEN Entry(m.id, crawlStatus[m.id]) ELSE shown
  BY DEF Deliver, LeavesQueue, SameId, Fetched
<1> HIDE DEF m
<1>5. Head(wire) = m
  BY DEF m
<1> QED
  BY <1>2, <1>3, <1>4, <1>5

\* A number that is one less, or one more.
LEMMA RemovalsType ==
  ASSUME QueueTypeOK, NEW c \in Crawls
  PROVE  /\ [removals EXCEPT ![c] = @ + 1] \in [Crawls -> Nat]
         /\ removals[c] > 0 => [removals EXCEPT ![c] = @ - 1] \in [Crawls -> Nat]
BY DEF QueueTypeOK

\* Each action keeps the types.
LEMMA NextQueueType ==
  ASSUME QueueTypeOK, AtRest, [QueueNext]_queueVars
  PROVE  QueueTypeOK'
<1>1. ASSUME NEW c \in Crawls, ChangeStatus(c) PROVE QueueTypeOK'
  <2>1. crawlStatus' \in [Crawls -> CrawlStatuses]
    <3>1. PICK s \in NextStatus[crawlStatus[c]] : crawlStatus' = [crawlStatus EXCEPT ![c] = s]
      BY <1>1 DEF ChangeStatus
    <3>2. s \in CrawlStatuses
      BY StatusFacts DEF QueueTypeOK
    <3> QED
      BY <3>1, <3>2 DEF QueueTypeOK
  <2> QED
    BY <1>1, <2>1 DEF ChangeStatus, QueueTypeOK
<1>2. ASSUME NEW c \in Crawls, Announce(c) PROVE QueueTypeOK'
  <2>1. crawlStatus[c] \in CrawlStatuses
    BY DEF QueueTypeOK
  <2>2. Append(wire, Entry(c, crawlStatus[c])) \in Seq(EntrySet)
    BY <2>1, EntryType DEF QueueTypeOK
  <2>3. told' \in [Crawls -> CrawlStatuses]
    BY <1>2, <2>1 DEF Announce, QueueTypeOK
  <2>4. wire' \in Seq(EntrySet)
    BY <1>2, <2>2 DEF Announce, QueueTypeOK
  <2>5. missed' \subseteq Crawls
    BY <1>2 DEF Announce, QueueTypeOK
  <2> QED
    BY <1>2, <2>3, <2>4, <2>5 DEF Announce, QueueTypeOK
<1>3. ASSUME NEW c \in Crawls, Expire(c) PROVE QueueTypeOK'
  <2>1. Removed(executionQueue, c) \in Seq(EntrySet)
    <3>1. "none" \in CrawlStatuses
      BY StatusFacts
    <3> QED
      BY <3>1, OperationTypes DEF QueueTypeOK
  <2>2. removals' \in [Crawls -> Nat]
    BY <1>3, RemovalsType DEF Expire
  <2> QED
    BY <1>3, <2>1, <2>2 DEF Expire, QueueTypeOK
<1>4. ASSUME NEW c \in Visited, ShowRecord(c) PROVE QueueTypeOK'
  <2>1. c \in Crawls
    BY QueueAssumption
  <2>2. Fetched(c) \in EntrySet
    BY <2>1, EntryType DEF Fetched, QueueTypeOK
  <2> QED
    BY <1>4, <2>2 DEF ShowRecord, QueueTypeOK
<1>5. CASE OpenPage
  <2>1. ActiveList \in Seq(EntrySet)
    BY ActiveFacts
  <2> QED
    BY <1>5, <2>1 DEF OpenPage, QueueTypeOK
<1>6. CASE Connect
  BY <1>6 DEF Connect, QueueTypeOK
<1>7. CASE Drop
  <2>1. \A i \in DOMAIN wire : wire[i] \in EntrySet /\ wire[i].id \in Crawls
    <3>1. \A i \in DOMAIN wire : wire[i] \in EntrySet
      BY DEF QueueTypeOK
    <3> QED
      BY <3>1 DEF EntrySet
  <2>2. missed' \subseteq Crawls
    BY <1>7, <2>1 DEF Drop, ToSet, QueueTypeOK
  <2>3. wire' \in Seq(EntrySet)
    BY <1>7 DEF Drop
  <2> QED
    BY <1>7, <2>2, <2>3 DEF Drop, QueueTypeOK
<1>8. CASE Deliver
  <2>1. PICK c \in Crawls, s \in CrawlStatuses :
           /\ executionQueue' = IF s = "queued" THEN Append(executionQueue, Entry(c, s))
                                               ELSE Updated(executionQueue, c, s)
           /\ removals' = IF s \in Ended THEN [removals EXCEPT ![c] = @ + 1] ELSE removals
           /\ shown' = IF s = "success" /\ shown.id = c THEN Entry(c, crawlStatus[c]) ELSE shown
    BY <1>8, DeliverFacts
  <2>2. executionQueue' \in Seq(EntrySet)
    <3>1. executionQueue \in Seq(EntrySet)
      BY DEF QueueTypeOK
    <3>2. Append(executionQueue, Entry(c, s)) \in Seq(EntrySet)
      BY <3>1, EntryType, AppendOne
    <3>3. Updated(executionQueue, c, s) \in Seq(EntrySet)
      BY <3>1, OperationTypes
    <3> QED
      BY <2>1, <3>2, <3>3
  <2>3. removals' \in [Crawls -> Nat]
    BY <2>1, RemovalsType DEF QueueTypeOK
  <2>4. shown' \in EntrySet \cup {Entry(NoCrawl, "none")}
    BY <2>1, EntryType DEF QueueTypeOK
  <2>5. wire' \in Seq(EntrySet)
    BY <1>8, TailFacts DEF Deliver, QueueTypeOK
  <2> QED
    BY <1>8, <2>2, <2>3, <2>4, <2>5 DEF Deliver, QueueTypeOK
<1>9. CASE UNCHANGED queueVars
  BY <1>9 DEF queueVars, QueueTypeOK
<1> QED
  BY <1>1, <1>2, <1>3, <1>4, <1>5, <1>6, <1>7, <1>8, <1>9 DEF QueueNext

\* A change is announced before the next one.
LEMMA NextOneAhead ==
  ASSUME QueueTypeOK, OneAhead, [QueueNext]_queueVars
  PROVE  OneAhead'
<1>1. ASSUME NEW c \in Crawls, ChangeStatus(c) PROVE OneAhead'
  BY <1>1 DEF ChangeStatus, OneAhead, QueueTypeOK
<1>2. ASSUME NEW c \in Crawls, Announce(c) PROVE OneAhead'
  BY <1>2 DEF Announce, OneAhead, QueueTypeOK
<1>3. ASSUME UNCHANGED <<crawlStatus, told>> PROVE OneAhead'
  BY <1>3 DEF OneAhead
<1> QED
  BY <1>1, <1>2, <1>3
  DEF QueueNext, queueVars, OpenPage, Connect, Drop, ShowRecord, Deliver, Expire

\* Nothing is on its way without a socket, and the page is empty before it opens.
LEMMA NextAtRest ==
  ASSUME QueueTypeOK, AtRest, [QueueNext]_queueVars
  PROVE  AtRest'
<1> DEFINE Posted == {c \in Crawls : crawlStatus[c] # "none"}
<1>1. ASSUME NEW c \in Crawls, ChangeStatus(c) PROVE AtRest'
  <2>1. Posted' \subseteq Posted \cup {c}
    BY <1>1 DEF ChangeStatus, QueueTypeOK
  <2>2. IsFiniteSet(Posted \cup {c})
    BY FS_AddElement DEF AtRest
  <2>3. IsFiniteSet(Posted')
    BY <2>1, <2>2, FS_Subset
  <2> QED
    BY <1>1, <2>3 DEF ChangeStatus, AtRest
<1>2. ASSUME UNCHANGED crawlStatus,
             socket' # "open" => wire' = <<>>,
             socket' = "none" => UNCHANGED <<removals, shown, socket>>
      PROVE  AtRest'
  BY <1>2 DEF AtRest
<1>3. ASSUME NEW c \in Crawls, Announce(c) PROVE AtRest'
  BY <1>2, <1>3 DEF Announce, AtRest
<1>4. ASSUME NEW c \in Crawls, Expire(c) PROVE AtRest'
  <2>1. socket # "none"
    BY <1>4 DEF Expire, AtRest
  <2> QED
    BY <1>2, <1>4, <2>1 DEF Expire, AtRest
<1>5. ASSUME NEW c, ShowRecord(c) PROVE AtRest'
  BY <1>2, <1>5 DEF ShowRecord, AtRest
<1>6. CASE OpenPage
  BY <1>2, <1>6 DEF OpenPage, AtRest
<1>7. CASE Connect
  BY <1>2, <1>7 DEF Connect, AtRest
<1>8. CASE Drop
  BY <1>2, <1>8 DEF Drop, AtRest
<1>9. CASE Deliver
  BY <1>2, <1>9 DEF Deliver, AtRest
<1>10. CASE UNCHANGED queueVars
  BY <1>2, <1>10 DEF queueVars, AtRest
<1> QED
  BY <1>1, <1>3, <1>4, <1>5, <1>6, <1>7, <1>8, <1>9, <1>10 DEF QueueNext

-----------------------------------------------------------------------------
(***************************************************************************)
(* What is on its way.                                                     *)
(***************************************************************************)
\* The wire after an announcement that is sent.
LEMMA AnnounceWire ==
  ASSUME QueueTypeOK, OneAhead, NEW c \in Crawls, Announce(c), socket = "open"
  PROVE  LET n == Len(wire) IN
         /\ n \in Nat /\ DOMAIN wire = 1 .. n /\ DOMAIN wire' = 1 .. n + 1
         /\ \A i \in 1 .. n : wire'[i] = wire[i]
         /\ wire'[n + 1].id = c /\ wire'[n + 1].crawlStatus = crawlStatus[c]
         /\ told' = [told EXCEPT ![c] = crawlStatus[c]]
         /\ crawlStatus[c] \in NextStatus[told[c]] /\ told[c] \in CrawlStatuses
         /\ \A d \in Crawls : d # c => PendingFor(d)' = PendingFor(d)
         /\ PendingFor(c)' = PendingFor(c) \cup {n + 1}
<1> DEFINE n == Len(wire)
           s == crawlStatus[c]
<1>1. s \in CrawlStatuses /\ wire \in Seq(EntrySet) /\ Entry(c, s) \in EntrySet
  BY EntryType DEF QueueTypeOK
<1>2. wire' = Append(wire, Entry(c, s)) /\ told' = [told EXCEPT ![c] = s] /\ told[c] # s
  BY DEF Announce
<1>3. /\ n \in Nat /\ DOMAIN wire = 1 .. n /\ DOMAIN wire' = 1 .. n + 1
      /\ \A i \in 1 .. n : wire'[i] = wire[i]
      /\ wire'[n + 1] = Entry(c, s)
  BY <1>1, <1>2, AppendOne
<1>4. wire'[n + 1].id = c /\ wire'[n + 1].crawlStatus = s
  BY <1>1, <1>3, EntryType
<1>5. s \in NextStatus[told[c]] /\ told[c] \in CrawlStatuses
  BY <1>2 DEF OneAhead, QueueTypeOK
<1> HIDE DEF n, s
<1>6. \A i \in DOMAIN wire' : (i \in DOMAIN wire /\ wire'[i] = wire[i]) \/ i = n + 1
  BY <1>3
<1>7. \A i \in DOMAIN wire : i \in DOMAIN wire' /\ wire'[i] = wire[i]
  BY <1>3
<1>8. n + 1 \in DOMAIN wire'
  BY <1>3
<1>9. ASSUME NEW d \in Crawls, d # c PROVE PendingFor(d)' = PendingFor(d)
  BY <1>4, <1>6, <1>7, <1>9 DEF PendingFor
<1>10. PendingFor(c)' = PendingFor(c) \cup {n + 1}
  BY <1>4, <1>6, <1>7, <1>8 DEF PendingFor
<1> QED
  BY <1>2, <1>3, <1>4, <1>5, <1>9, <1>10 DEF n, s

\* The wire after the oldest announcement was taken from it.
LEMMA DeliverWire ==
  ASSUME QueueTypeOK, Deliver
  PROVE  LET n == Len(wire) IN
         /\ n \in Nat \ {0} /\ DOMAIN wire = 1 .. n /\ DOMAIN wire' = 1 .. n - 1
         /\ \A i \in 1 .. n - 1 : i + 1 \in 1 .. n /\ wire'[i] = wire[i + 1]
         /\ \A c, i : i \in PendingFor(c)' => i \in 1 .. n - 1 /\ i + 1 \in PendingFor(c)
         /\ \A c, i : i \in PendingFor(c) => i \in 1 .. n /\ (i = 1 \/ i - 1 \in PendingFor(c)')
<1> DEFINE n == Len(wire)
<1>1. wire \in Seq(EntrySet) /\ wire # <<>> /\ wire' = Tail(wire)
  BY DEF QueueTypeOK, Deliver
<1>2. /\ n \in Nat \ {0} /\ DOMAIN wire = 1 .. n /\ DOMAIN wire' = 1 .. n - 1
      /\ \A i \in 1 .. n - 1 : wire'[i] = wire[i + 1]
  BY <1>1, TailFacts
<1> HIDE DEF n
<1>3. \A i \in 1 .. n - 1 : i + 1 \in 1 .. n /\ wire'[i] = wire[i + 1]
  BY <1>2
<1>4. ASSUME NEW c, NEW i, i \in PendingFor(c)'
      PROVE  i \in 1 .. n - 1 /\ i + 1 \in PendingFor(c)
  BY <1>2, <1>3, <1>4 DEF PendingFor
<1>5. ASSUME NEW c, NEW i, i \in PendingFor(c)
      PROVE  i \in 1 .. n /\ (i = 1 \/ i - 1 \in PendingFor(c)')
  <2>1. i \in 1 .. n /\ wire[i].id = c
    BY <1>2, <1>5 DEF PendingFor
  <2>2. i # 1 => i - 1 \in 1 .. n - 1 /\ (i - 1) + 1 = i
    BY <1>2, <2>1
  <2> QED
    BY <1>2, <2>1, <2>2 DEF PendingFor
<1> QED
  BY <1>2, <1>3, <1>4, <1>5 DEF n

\* Announcements are sent in their order, and the order is kept.
LEMMA NextWire ==
  ASSUME QueueTypeOK, OneAhead, AtRest, WireInv, [QueueNext]_queueVars
  PROVE  WireInv'
<1>1. ASSUME UNCHANGED <<wire, told>> PROVE WireInv'
  BY <1>1 DEF WireInv, InOrder, LastOf, NextTo, PendingFor
<1>2. ASSUME wire' = <<>> PROVE WireInv'
  <2>1. DOMAIN wire' = {}
    BY <1>2
  <2> QED
    BY <2>1 DEF WireInv, InOrder
<1>3. ASSUME NEW c \in Crawls, Announce(c) PROVE WireInv'
  <2>1. CASE socket # "open"
    <3>1. wire' = <<>>
      BY <1>3, <2>1 DEF Announce, AtRest
    <3> QED
      BY <1>2, <3>1
  <2>2. CASE socket = "open"
    <3> DEFINE n == Len(wire)
               s == crawlStatus[c]
    <3>1. /\ n \in Nat /\ DOMAIN wire = 1 .. n /\ DOMAIN wire' = 1 .. n + 1
          /\ \A i \in 1 .. n : wire'[i] = wire[i]
          /\ wire'[n + 1].id = c /\ wire'[n + 1].crawlStatus = s
          /\ told' = [told EXCEPT ![c] = s]
          /\ s \in NextStatus[told[c]] /\ told[c] \in CrawlStatuses
          /\ \A d \in Crawls : d # c => PendingFor(d)' = PendingFor(d)
          /\ PendingFor(c)' = PendingFor(c) \cup {n + 1}
      BY <1>3, <2>2, AnnounceWire
    <3> HIDE DEF n, s
    <3>2. told'[c] = s /\ \A d \in Crawls : d # c => told'[d] = told[d]
      BY <3>1 DEF QueueTypeOK
    <3>3. \A d : PendingFor(d) \subseteq 1 .. n
      BY <3>1 DEF PendingFor
    <3>4. ASSUME NEW d \in Crawls, d # c PROVE InOrder(d)'
      <4>1. InOrder(d) /\ PendingFor(d)' = PendingFor(d) /\ told'[d] = told[d]
        BY <3>1, <3>2, <3>4 DEF WireInv
      <4>2. \A i \in PendingFor(d) : i \in DOMAIN wire /\ wire'[i] = wire[i]
        BY <3>1, <3>3
      <4> QED
        BY <4>1, <4>2 DEF InOrder, LastOf, NextTo
    <3>5. InOrder(c)'
      <4>1. InOrder(c)
        BY DEF WireInv
      <4>2. ASSUME NEW i, LastOf(c, i)' PROVE wire'[i].crawlStatus = told'[c]
        <5>1. n + 1 <= i /\ i \in 1 .. n + 1
          BY <3>1, <3>3, <4>2 DEF LastOf
        <5>2. i = n + 1
          BY <3>1, <5>1
        <5> QED
          BY <3>1, <3>2, <5>2
      <4>3. ASSUME NEW i, NEW j, NextTo(c, i, j)'
            PROVE  wire'[j].crawlStatus \in NextStatus[wire'[i].crawlStatus]
        <5>1. /\ i \in PendingFor(c) \cup {n + 1} /\ j \in PendingFor(c) \cup {n + 1} /\ i < j
              /\ \A k \in PendingFor(c) \cup {n + 1} : k <= i \/ j <= k
          BY <3>1, <4>3 DEF NextTo
        <5>2. i \in PendingFor(c) /\ i \in 1 .. n /\ wire'[i] = wire[i]
          <6>1. i # n + 1
            BY <3>1, <3>3, <5>1
          <6>2. i \in PendingFor(c)
            BY <5>1, <6>1
          <6> QED
            BY <3>1, <3>3, <6>2
        <5>3. CASE j = n + 1
          <6>1. \A k \in PendingFor(c) : k <= i
            BY <3>1, <3>3, <5>1, <5>3
          <6>2. wire[i].crawlStatus = told[c]
            BY <3>1, <4>1, <5>2, <6>1 DEF InOrder, LastOf
          <6> QED
            BY <3>1, <5>2, <5>3, <6>2
        <5>4. CASE j # n + 1
          <6>1. j \in PendingFor(c) /\ j \in 1 .. n /\ wire'[j] = wire[j]
            BY <3>1, <3>3, <5>1, <5>4
          <6>2. NextTo(c, i, j)
            BY <5>1, <5>2, <6>1 DEF NextTo
          <6> QED
            BY <3>1, <4>1, <5>2, <6>1, <6>2 DEF InOrder
        <5> QED
          BY <5>3, <5>4
      <4> QED
        BY <4>2, <4>3 DEF InOrder
    <3>6. ASSUME NEW i \in DOMAIN wire', wire'[i].crawlStatus = "success"
          PROVE  told'[wire'[i].id] = "success"
      <4>1. CASE i = n + 1
        BY <3>1, <3>2, <3>6, <4>1
      <4>2. CASE i # n + 1
        <5>1. i \in 1 .. n
          BY <3>1, <4>2
        <5>2. wire'[i] = wire[i] /\ wire[i] \in EntrySet
          BY <3>1, <5>1 DEF QueueTypeOK
        <5>3. told[wire[i].id] = "success" /\ wire[i].id \in Crawls
          <6>1. wire[i].id \in Crawls
            BY <5>2 DEF EntrySet
          <6> QED
            BY <3>1, <3>6, <5>1, <5>2, <6>1 DEF WireInv
        <5>4. wire[i].id # c
          BY <3>1, <5>3, StatusFacts
        <5> QED
          BY <3>2, <5>2, <5>3, <5>4
      <4> QED
        BY <4>1, <4>2
    <3> QED
      BY <3>4, <3>5, <3>6 DEF WireInv
  <2> QED
    BY <2>1, <2>2
<1>4. CASE Deliver
  <2> DEFINE n == Len(wire)
  <2>1. /\ n \in Nat \ {0} /\ DOMAIN wire = 1 .. n /\ DOMAIN wire' = 1 .. n - 1
        /\ \A i \in 1 .. n - 1 : i + 1 \in 1 .. n /\ wire'[i] = wire[i + 1]
        /\ \A c, i : i \in PendingFor(c)' => i \in 1 .. n - 1 /\ i + 1 \in PendingFor(c)
        /\ \A c, i : i \in PendingFor(c) => i \in 1 .. n /\ (i = 1 \/ i - 1 \in PendingFor(c)')
    BY <1>4, DeliverWire
  <2> HIDE DEF n
  <2>2. told' = told
    BY <1>4 DEF Deliver
  <2>3. ASSUME NEW c \in Crawls PROVE InOrder(c)'
    <3>1. InOrder(c)
      BY DEF WireInv
    <3>2. ASSUME NEW i, LastOf(c, i)' PROVE wire'[i].crawlStatus = told'[c]
      <4>1. i \in 1 .. n - 1 /\ i + 1 \in PendingFor(c)
        BY <2>1, <3>2 DEF LastOf
      <4>2. ASSUME NEW j \in PendingFor(c) PROVE j <= i + 1
        <5>1. j \in 1 .. n /\ (j = 1 \/ j - 1 <= i)
          BY <2>1, <3>2 DEF LastOf
        <5> QED
          BY <2>1, <4>1, <5>1
      <4>3. LastOf(c, i + 1)
        BY <4>1, <4>2 DEF LastOf
      <4> QED
        BY <2>1, <2>2, <3>1, <4>1, <4>3 DEF InOrder
    <3>3. ASSUME NEW i, NEW j, NextTo(c, i, j)'
          PROVE  wire'[j].crawlStatus \in NextStatus[wire'[i].crawlStatus]
      <4>1. /\ i \in 1 .. n - 1 /\ i + 1 \in PendingFor(c)
            /\ j \in 1 .. n - 1 /\ j + 1 \in PendingFor(c) /\ i < j
        BY <2>1, <3>3 DEF NextTo
      <4>2. ASSUME NEW k \in PendingFor(c) PROVE k <= i + 1 \/ j + 1 <= k
        <5>1. k \in 1 .. n /\ (k = 1 \/ k - 1 <= i \/ j <= k - 1)
          BY <2>1, <3>3 DEF NextTo
        <5> QED
          BY <2>1, <4>1, <5>1
      <4>3. i + 1 < j + 1
        BY <2>1, <4>1
      <4>4. NextTo(c, i + 1, j + 1)
        BY <4>1, <4>2, <4>3 DEF NextTo
      <4> QED
        BY <2>1, <3>1, <4>1, <4>4 DEF InOrder
    <3> QED
      BY <3>2, <3>3 DEF InOrder
  <2>4. \A i \in DOMAIN wire' : wire'[i].crawlStatus = "success" => told'[wire'[i].id] = "success"
    BY <2>1, <2>2 DEF WireInv
  <2> QED
    BY <2>3, <2>4 DEF WireInv
<1>5. CASE Drop
  BY <1>2, <1>5 DEF Drop
<1> QED
  BY <1>1, <1>3, <1>4, <1>5
  DEF QueueNext, queueVars, OpenPage, Connect, ShowRecord, ChangeStatus, Expire

\* A record that succeeded keeps that status.
LEMMA SuccessStays ==
  ASSUME QueueTypeOK, OneAhead, NEW c \in Crawls, told[c] = "success"
  PROVE  crawlStatus[c] = "success"
<1>1. NextStatus["success"] = {}
  BY DEF NextStatus
<1> QED
  BY <1>1 DEF OneAhead

\* The record that is shown hears of its success.
LEMMA NextShown ==
  ASSUME QueueTypeOK, OneAhead, AtRest, WireInv, ShownRecordSucceeds, [QueueNext]_queueVars
  PROVE  ShownRecordSucceeds'
<1>1. ASSUME UNCHANGED <<wire, told, shown, missed>> PROVE ShownRecordSucceeds'
  BY <1>1 DEF ShownRecordSucceeds
<1>2. ASSUME NEW c \in Crawls, Announce(c) PROVE ShownRecordSucceeds'
  <2> SUFFICES ASSUME NEW d \in Crawls, shown'.id = d, told'[d] = "success", d \notin missed'
               PROVE  shown'.crawlStatus = "success" \/ \E m \in ToSet(wire') : m = Entry(d, "success")
    BY DEF ShownRecordSucceeds
  <2>1. shown' = shown /\ told' = [told EXCEPT ![c] = crawlStatus[c]]
    BY <1>2 DEF Announce
  <2>2. CASE socket # "open"
    <3>1. d # NoCrawl
      BY QueueAssumption
    <3>2. socket # "none"
      BY <2>1, <3>1 DEF AtRest
    <3>3. d # c /\ d \notin missed /\ wire' = wire
      BY <1>2, <2>2, <3>2 DEF Announce
    <3>4. told[d] = "success"
      BY <2>1, <3>3 DEF QueueTypeOK
    <3> QED
      BY <2>1, <3>3, <3>4 DEF ShownRecordSucceeds
  <2>3. CASE socket = "open"
    <3> DEFINE n == Len(wire)
    <3>1. wire' = Append(wire, Entry(c, crawlStatus[c])) /\ missed' = missed
      BY <1>2, <2>3 DEF Announce
    <3>2. wire \in Seq(EntrySet) /\ Entry(c, crawlStatus[c]) \in EntrySet
      BY EntryType DEF QueueTypeOK
    <3>3. /\ n \in Nat /\ DOMAIN wire = 1 .. n /\ DOMAIN wire' = 1 .. n + 1
          /\ \A i \in 1 .. n : wire'[i] = wire[i]
          /\ wire'[n + 1] = Entry(c, crawlStatus[c])
      BY <3>1, <3>2, AppendOne
    <3> HIDE DEF n
    <3>4. \A m \in ToSet(wire) : m \in ToSet(wire')
      BY <3>3 DEF ToSet
    <3>5. CASE d = c
      <4>1. crawlStatus[c] = "success"
        BY <2>1, <3>5 DEF QueueTypeOK
      <4>2. Entry(c, "success") \in ToSet(wire')
        BY <3>3, <4>1 DEF ToSet
      <4> QED
        BY <3>5, <4>2
    <3>6. CASE d # c
      <4>1. told[d] = "success"
        BY <2>1, <3>6 DEF QueueTypeOK
      <4> QED
        BY <2>1, <3>1, <3>4, <4>1 DEF ShownRecordSucceeds
    <3> QED
      BY <3>5, <3>6
  <2> QED
    BY <2>2, <2>3
<1>3. ASSUME NEW c \in Visited, ShowRecord(c) PROVE ShownRecordSucceeds'
  <2>1. c \in Crawls
    BY QueueAssumption
  <2>2. shown' = Entry(c, crawlStatus[c]) /\ told' = told /\ crawlStatus[c] \in CrawlStatuses
    BY <1>3, <2>1 DEF ShowRecord, Fetched, QueueTypeOK
  <2>3. shown'.id = c /\ shown'.crawlStatus = crawlStatus[c]
    BY <2>1, <2>2, EntryType
  <2>4. told'[c] = "success" => shown'.crawlStatus = "success"
    BY <2>1, <2>2, <2>3, SuccessStays
  <2> QED
    BY <2>3, <2>4 DEF ShownRecordSucceeds
<1>4. CASE Drop
  <2>1. shown' = shown /\ told' = told /\ missed' = missed \cup {m.id : m \in ToSet(wire)}
    BY <1>4 DEF Drop
  <2>2. ASSUME NEW d \in Crawls, Entry(d, "success") \in ToSet(wire) PROVE d \in missed'
    <3>1. Entry(d, "success").id = d
      BY DEF Entry
    <3> QED
      BY <2>1, <2>2, <3>1
  <2> QED
    BY <2>1, <2>2 DEF ShownRecordSucceeds
<1>5. CASE Deliver
  <2>1. PICK c \in Crawls, s \in CrawlStatuses :
           /\ Head(wire) = Entry(c, s) /\ wire[1] = Entry(c, s) /\ 1 \in DOMAIN wire
           /\ executionQueue' = IF s = "queued" THEN Append(executionQueue, Entry(c, s))
                                               ELSE Updated(executionQueue, c, s)
           /\ removals' = IF s \in Ended THEN [removals EXCEPT ![c] = @ + 1] ELSE removals
           /\ shown' = IF s = "success" /\ shown.id = c THEN Entry(c, crawlStatus[c]) ELSE shown
    BY <1>5, DeliverFacts
  <2>2. told' = told /\ missed' = missed
    BY <1>5 DEF Deliver
  <2>3. CASE s = "success" /\ shown.id = c
    <3>1. wire[1].id = c /\ wire[1].crawlStatus = s
      BY <2>1, EntryType
    <3>2. told[c] = "success"
      BY <2>1, <2>3, <3>1 DEF WireInv
    <3>3. crawlStatus[c] = "success" /\ crawlStatus[c] \in CrawlStatuses
      BY <3>2, SuccessStays DEF QueueTypeOK
    <3>4. shown'.id = c /\ shown'.crawlStatus = "success"
      BY <2>1, <2>3, <3>3, EntryType
    <3> QED
      BY <3>4 DEF ShownRecordSucceeds
  <2>4. CASE ~(s = "success" /\ shown.id = c)
    <3> SUFFICES ASSUME NEW d \in Crawls, shown'.id = d, told'[d] = "success", d \notin missed'
                 PROVE  shown'.crawlStatus = "success" \/ Entry(d, "success") \in ToSet(wire')
      BY DEF ShownRecordSucceeds
    <3>1. shown' = shown
      BY <2>1, <2>4
    <3>2. shown.crawlStatus = "success" \/ Entry(d, "success") \in ToSet(wire)
      BY <2>2, <3>1 DEF ShownRecordSucceeds
    <3>3. ASSUME Entry(d, "success") \in ToSet(wire) PROVE Entry(d, "success") \in ToSet(wire')
      <4> DEFINE n == Len(wire)
      <4>1. /\ n \in Nat \ {0} /\ DOMAIN wire = 1 .. n /\ DOMAIN wire' = 1 .. n - 1
            /\ \A i \in 1 .. n - 1 : i + 1 \in 1 .. n /\ wire'[i] = wire[i + 1]
        BY <1>5, DeliverWire
      <4> HIDE DEF n
      <4>2. PICK i \in 1 .. n : wire[i] = Entry(d, "success")
        BY <3>3, <4>1 DEF ToSet
      <4>3. i # 1
        <5>1. Entry(d, "success").id = d /\ Entry(d, "success").crawlStatus = "success"
          BY DEF Entry
        <5>2. Entry(c, s).id = c /\ Entry(c, s).crawlStatus = s
          BY DEF Entry
        <5> QED
          BY <2>1, <2>4, <3>1, <4>2, <5>1, <5>2
      <4>4. i - 1 \in 1 .. n - 1 /\ (i - 1) + 1 = i
        BY <4>1, <4>3
      <4>5. wire'[i - 1] = Entry(d, "success") /\ i - 1 \in DOMAIN wire'
        BY <4>1, <4>2, <4>4
      <4> QED
        BY <4>5 DEF ToSet
    <3> QED
      BY <3>1, <3>2, <3>3
  <2> QED
    BY <2>3, <2>4
<1> QED
  BY <1>1, <1>2, <1>3, <1>4, <1>5
  DEF QueueNext, queueVars, OpenPage, Connect, ChangeStatus, Expire

-----------------------------------------------------------------------------
(***************************************************************************)
(* What the page has heard.                                                *)
(***************************************************************************)
Hears(c) == \E s \in CrawlStatuses : Heard(c, s) /\ Comes(c, s)

\* The first announcement of c under way stays the first.
FirstKept(c) ==
  /\ PendingFor(c)' = {} => PendingFor(c) = {}
  /\ \A i \in DOMAIN wire' : FirstOf(c, i)' =>
       \E k \in DOMAIN wire : FirstOf(c, k) /\ wire[k].crawlStatus = wire'[i].crawlStatus

\* What was heard stays heard, when the entries are kept.
LEMMA HeardKept ==
  ASSUME NEW c \in Crawls, NEW s,
         EntriesKept(executionQueue, executionQueue', c), removals'[c] = removals[c]
  PROVE  /\ Heard(c, s) => Heard(c, s)'
         /\ Harmless(c, s) => Harmless(c, s)'
<1>1. EntriesOf(c) = {} => EntriesOf(c)' = {}
  BY DEF EntriesKept, At, EntriesOf
<1>2. OneEntry(c, s) => OneEntry(c, s)'
  BY DEF OneEntry, EntriesKept, At, EntriesOf
<1>3. Heard(c, s) => Heard(c, s)'
  BY <1>1, <1>2 DEF Heard
<1>4. Harmless(c, s) => Harmless(c, s)'
  BY <1>1 DEF Harmless
<1> QED
  BY <1>3, <1>4

\* A step that leaves the record c alone.
LEMMA HearsKept ==
  ASSUME NEW c \in Crawls, Hears(c), FirstKept(c),
         EntriesKept(executionQueue, executionQueue', c), removals'[c] = removals[c],
         told'[c] = told[c], crawlStatus'[c] = crawlStatus[c]
  PROVE  Hears(c)'
<1>1. PICK s \in CrawlStatuses : Heard(c, s) /\ Comes(c, s)
  BY DEF Hears
<1>2. Heard(c, s)' /\ (Harmless(c, s) => Harmless(c, s)')
  BY <1>1, HeardKept
<1>3. ASSUME PendingFor(c)' = {}
      PROVE  s = told'[c] \/ (s = crawlStatus'[c] /\ Harmless(c, s)')
  BY <1>1, <1>2, <1>3 DEF Comes, FirstKept
<1>4. ASSUME NEW i \in DOMAIN wire', FirstOf(c, i)'
      PROVE  Expects(c, s, wire[i].crawlStatus)'
  <2>1. PICK k \in DOMAIN wire : FirstOf(c, k) /\ wire[k].crawlStatus = wire'[i].crawlStatus
    BY <1>4 DEF FirstKept
  <2>2. Expects(c, s, wire[k].crawlStatus)
    BY <1>1, <2>1 DEF Comes
  <2>3. \A t : Expects(c, s, t) => Expects(c, s, t)'
    BY <1>2 DEF Expects
  <2> QED
    BY <2>1, <2>2, <2>3
<1>5. Comes(c, s)'
  BY <1>3, <1>4 DEF Comes
<1> QED
  BY <1>2, <1>5 DEF Hears

\* Nothing happens to the entries, or to the wire.
LEMMA SameEntries ==
  ASSUME NEW c
  PROVE  /\ executionQueue' = executionQueue => EntriesKept(executionQueue, executionQueue', c)
         /\ wire' = wire => FirstKept(c)
<1>1. EntriesKept(executionQueue, executionQueue, c)
  BY DEF EntriesKept
<1>2. ASSUME wire' = wire PROVE FirstKept(c)
  BY <1>2 DEF FirstKept, FirstOf, PendingFor
<1> QED
  BY <1>1, <1>2

\* A change that is not announced yet.
LEMMA ChangeHears ==
  ASSUME QueueTypeOK, NEW d \in Crawls, ChangeStatus(d), NEW c \in Crawls, Hears(c)
  PROVE  Hears(c)'
<1>1. /\ UNCHANGED <<executionQueue, removals, wire, told>> /\ told[d] = crawlStatus[d]
      /\ \E t : crawlStatus' = [crawlStatus EXCEPT ![d] = t]
  BY DEF ChangeStatus
<1>2. CASE c # d
  <2>1. crawlStatus'[c] = crawlStatus[c]
    BY <1>1, <1>2 DEF QueueTypeOK
  <2> QED
    BY <1>1, <2>1, SameEntries, HearsKept
<1>3. CASE c = d
  <2>1. PICK s \in CrawlStatuses : Heard(c, s) /\ Comes(c, s)
    BY DEF Hears
  <2>2. Heard(c, s)'
    BY <1>1, <2>1, SameEntries, HeardKept
  <2>3. PendingFor(c)' = PendingFor(c) /\ \A i : FirstOf(c, i)' = FirstOf(c, i)
    BY <1>1 DEF PendingFor, FirstOf
  <2>4. PendingFor(c)' = {} => s = told'[c]
    BY <1>1, <1>3, <2>1, <2>3 DEF Comes
  <2>5. \A t : Expects(c, s, t) => Expects(c, s, t)'
    BY <1>1 DEF Expects, Harmless, EntriesOf
  <2>6. Comes(c, s)'
    BY <1>1, <2>1, <2>3, <2>4, <2>5 DEF Comes
  <2> QED
    BY <2>2, <2>6 DEF Hears
<1> QED
  BY <1>2, <1>3

\* An announcement, sent or lost.
LEMMA AnnounceHears ==
  ASSUME QueueTypeOK, OneAhead, NEW d \in Crawls, Announce(d),
         NEW c \in Crawls, Hears(c), Followed(c)'
  PROVE  Hears(c)'
<1>1. /\ UNCHANGED <<executionQueue, removals, crawlStatus, socket>>
      /\ told' = [told EXCEPT ![d] = crawlStatus[d]]
  BY DEF Announce
<1>2. CASE socket # "open"
  <2>1. c # d /\ wire' = wire
    BY <1>1, <1>2 DEF Announce, Followed
  <2>2. told'[c] = told[c]
    BY <1>1, <2>1 DEF QueueTypeOK
  <2> QED
    BY <1>1, <2>1, <2>2, SameEntries, HearsKept
<1>3. CASE socket = "open"
  <2> DEFINE n == Len(wire)
             t == crawlStatus[d]
  <2>1. /\ n \in Nat /\ DOMAIN wire = 1 .. n /\ DOMAIN wire' = 1 .. n + 1
        /\ \A i \in 1 .. n : wire'[i] = wire[i]
        /\ wire'[n + 1].id = d /\ wire'[n + 1].crawlStatus = t
        /\ t \in NextStatus[told[d]]
        /\ \A e \in Crawls : e # d => PendingFor(e)' = PendingFor(e)
        /\ PendingFor(d)' = PendingFor(d) \cup {n + 1}
    BY <1>3, AnnounceWire
  <2> HIDE DEF n
  <2>2. \A e : PendingFor(e) \subseteq 1 .. n
    BY <2>1 DEF PendingFor
  <2>3. CASE c # d
    <3>1. told'[c] = told[c] /\ PendingFor(c)' = PendingFor(c)
      BY <1>1, <2>1, <2>3 DEF QueueTypeOK
    <3>2. \A i \in PendingFor(c) : i \in DOMAIN wire /\ wire'[i] = wire[i]
      BY <2>1, <2>2
    <3>3. FirstKept(c)
      BY <3>1, <3>2 DEF FirstKept, FirstOf
    <3> QED
      BY <1>1, <3>1, <3>3, SameEntries, HearsKept
  <2>4. CASE c = d
    <3>1. PICK s \in CrawlStatuses : Heard(c, s) /\ Comes(c, s)
      BY DEF Hears
    <3>2. Heard(c, s)'
      BY <1>1, <3>1, SameEntries, HeardKept
    <3>3. \A u : Expects(c, s, u) => Expects(c, s, u)'
      BY <1>1 DEF Expects, Harmless, EntriesOf
    <3>4. ASSUME NEW i \in DOMAIN wire', FirstOf(c, i)'
          PROVE  Expects(c, s, wire'[i].crawlStatus)
      <4>1. CASE PendingFor(c) = {}
        <5>1. i = n + 1
          BY <2>1, <2>4, <3>4, <4>1 DEF FirstOf
        <5>2. s = told[c] \/ (s = t /\ Harmless(c, s))
          BY <2>4, <3>1, <4>1 DEF Comes
        <5> QED
          BY <2>1, <2>4, <5>1, <5>2 DEF Expects
      <4>2. CASE PendingFor(c) # {}
        <5>1. /\ i \in PendingFor(c) \cup {n + 1}
              /\ \A j \in PendingFor(c) \cup {n + 1} : i <= j
          BY <2>1, <2>4, <3>4 DEF FirstOf
        <5>2. i # n + 1
          <6>1. PICK j \in PendingFor(c) : TRUE
            BY <4>2
          <6>2. j \in 1 .. n /\ i <= j
            BY <2>2, <5>1, <6>1
          <6> QED
            BY <2>1, <6>2
        <5>3. FirstOf(c, i) /\ i \in 1 .. n
          BY <2>2, <5>1, <5>2 DEF FirstOf
        <5> QED
          BY <2>1, <3>1, <5>3 DEF Comes
      <4> QED
        BY <4>1, <4>2
    <3>5. PendingFor(c)' # {}
      BY <2>1, <2>4
    <3>6. Comes(c, s)'
      BY <3>3, <3>4, <3>5 DEF Comes
    <3> QED
      BY <3>2, <3>6 DEF Hears
  <2> QED
    BY <2>3, <2>4
<1> QED
  BY <1>2, <1>3

\* An entry that is taken out five seconds later.
LEMMA ExpireHears ==
  ASSUME QueueTypeOK, NEW d \in Crawls, Expire(d), NEW c \in Crawls, Hears(c)
  PROVE  Hears(c)'
<1>1. /\ UNCHANGED <<wire, told, crawlStatus>> /\ removals[d] > 0
      /\ executionQueue' = Removed(executionQueue, d)
      /\ removals' = [removals EXCEPT ![d] = @ - 1]
      /\ executionQueue \in Seq(EntrySet)
  BY DEF Expire, QueueTypeOK
<1>2. CASE c # d
  <2>1. removals'[c] = removals[c]
    BY <1>1, <1>2 DEF QueueTypeOK
  <2>2. EntriesKept(executionQueue, executionQueue', c)
    <3>1. "none" \in CrawlStatuses
      BY StatusFacts
    <3> QED
      BY <1>1, <1>2, <3>1, OthersKept
  <2> QED
    BY <1>1, <2>1, <2>2, SameEntries, HearsKept
<1>3. CASE c = d
  <2>1. PICK s \in CrawlStatuses : Heard(c, s) /\ Comes(c, s)
    BY DEF Hears
  <2>2. s \in Ended /\ s \notin {"none"} \cup Active
    <3>1. removals[c] # 0
      BY <1>1, <1>3
    <3>2. s # "none" /\ s \notin Active
      BY <2>1, <3>1 DEF Heard
    <3> QED
      BY <3>2, StatusFacts
  <2>3. At(executionQueue, c) = {} \/ \E i \in DOMAIN executionQueue : At(executionQueue, c) = {i}
    BY <2>1, <2>2 DEF Heard, OneEntry, At, EntriesOf
  <2>4. At(executionQueue', c) = {}
    <3>1. executionQueue' = Removed(executionQueue, c)
      BY <1>1, <1>3
    <3> QED
      BY <1>1, <2>1, <2>3, <3>1, OwnEntry
  <2>5. EntriesOf(c)' = {}
    BY <2>4 DEF At, EntriesOf
  <2>6. Heard(c, s)' /\ Harmless(c, s)'
    <3>1. s \notin {"none", "queued"}
      BY <2>2 DEF Active
    <3> QED
      BY <2>2, <2>5, <3>1 DEF Heard, Harmless
  <2>7. PendingFor(c)' = PendingFor(c) /\ \A i : FirstOf(c, i)' = FirstOf(c, i)
    BY <1>1 DEF PendingFor, FirstOf
  <2>8. PendingFor(c)' = {} => s = told'[c] \/ (s = crawlStatus'[c] /\ Harmless(c, s)')
    BY <1>1, <2>1, <2>6, <2>7 DEF Comes
  <2>9. \A i \in DOMAIN wire' : FirstOf(c, i)' => Expects(c, s, wire[i].crawlStatus)'
    <3>1. \A t : Expects(c, s, t) => Expects(c, s, t)'
      BY <2>6 DEF Expects
    <3> QED
      BY <1>1, <2>1, <2>7, <3>1 DEF Comes
  <2>10. Comes(c, s)'
    BY <2>8, <2>9 DEF Comes
  <2> QED
    BY <2>6, <2>10 DEF Hears
<1> QED
  BY <1>2, <1>3

\* The page reads the active records.
LEMMA OpenHears ==
  ASSUME QueueTypeOK, OneAhead, AtRest, OpenPage, NEW c \in Crawls, Followed(c)'
  PROVE  Hears(c)'
<1> PICK q : q = ActiveList
  OBVIOUS
<1> PICK s : s = crawlStatus[c]
  OBVIOUS
<1>1. /\ q \in Seq(EntrySet)
      /\ \A i \in DOMAIN q : q[i].id \in Crawls /\ crawlStatus[q[i].id] \in Active
                             /\ q[i].crawlStatus = crawlStatus[q[i].id]
      /\ \A i, j \in DOMAIN q : q[i].id = q[j].id => i = j
      /\ \A d \in Crawls : crawlStatus[d] \in Active => \E i \in DOMAIN q : q[i].id = d
  BY ActiveFacts
<1>2. /\ executionQueue' = q /\ UNCHANGED <<crawlStatus, told, wire, removals>>
      /\ wire = <<>> /\ removals[c] = 0
      /\ ~(s = "queued" /\ told[c] = "none")
  BY DEF OpenPage, AtRest, Followed
<1>3. s \in CrawlStatuses /\ (s = told[c] \/ s \in NextStatus[told[c]]) /\ told[c] \in CrawlStatuses
  BY DEF OneAhead, QueueTypeOK
<1>4. s \notin Active => EntriesOf(c)' = {}
  BY <1>1, <1>2 DEF EntriesOf
<1>5. s \in Active => OneEntry(c, s)'
  <2> SUFFICES ASSUME s \in Active PROVE OneEntry(c, s)'
    OBVIOUS
  <2>1. PICK i \in DOMAIN q : q[i].id = c
    BY <1>1
  <2>2. q[i].crawlStatus = s
    BY <1>1, <2>1
  <2>3. EntriesOf(c)' = {i}
    BY <1>1, <1>2, <2>1 DEF EntriesOf
  <2> QED
    BY <1>2, <2>2, <2>3 DEF OneEntry
<1>6. Heard(c, s)'
  <2>1. (s = "none" \/ s \in Ended) => s \notin Active
    BY StatusFacts
  <2> QED
    BY <1>2, <1>4, <1>5, <2>1 DEF Heard
<1>7. s = told[c] \/ Harmless(c, s)'
  <2>1. CASE s = "none"
    BY <1>3, <2>1, StatusFacts
  <2>2. CASE s = "queued"
    BY <1>2, <1>3, <2>2, StatusFacts
  <2>3. CASE s \notin {"none", "queued"}
    BY <1>4, <2>3, StatusFacts DEF Harmless
  <2> QED
    BY <2>1, <2>2, <2>3
<1>8. Comes(c, s)'
  <2>1. DOMAIN wire' = {}
    BY <1>2
  <2> QED
    BY <1>2, <1>7, <2>1 DEF Comes
<1> QED
  BY <1>2, <1>3, <1>6, <1>8 DEF Hears

\* What was under way is lost.
LEMMA DropHears ==
  ASSUME QueueTypeOK, Drop, NEW c \in Crawls, Hears(c), Followed(c)'
  PROVE  Hears(c)'
<1>1. /\ UNCHANGED <<executionQueue, removals, told, crawlStatus>> /\ wire' = <<>>
      /\ missed' = missed \cup {m.id : m \in ToSet(wire)}
  BY DEF Drop
<1>2. PendingFor(c) = {}
  <2> SUFFICES ASSUME NEW i \in PendingFor(c) PROVE FALSE
    OBVIOUS
  <2>1. wire[i] \in ToSet(wire) /\ wire[i].id = c
    BY DEF PendingFor, ToSet
  <2> QED
    BY <1>1, <2>1 DEF Followed
<1>3. FirstKept(c)
  BY <1>1, <1>2 DEF FirstKept
<1> QED
  BY <1>1, <1>3, SameEntries, HearsKept

\* An announcement arrives: of this record, or of another.
LEMMA DeliverHears ==
  ASSUME QueueTypeOK, WireInv, Deliver, NEW c \in Crawls, Hears(c)
  PROVE  Hears(c)'
<1> DEFINE n == Len(wire)
<1>1. PICK d \in Crawls, t \in CrawlStatuses :
         /\ Head(wire) = Entry(d, t) /\ wire[1] = Entry(d, t) /\ 1 \in DOMAIN wire
         /\ executionQueue' = IF t = "queued" THEN Append(executionQueue, Entry(d, t))
                                             ELSE Updated(executionQueue, d, t)
         /\ removals' = IF t \in Ended THEN [removals EXCEPT ![d] = @ + 1] ELSE removals
         /\ shown' = IF t = "success" /\ shown.id = d THEN Entry(d, crawlStatus[d]) ELSE shown
  BY DeliverFacts
<1>2. wire[1].id = d /\ wire[1].crawlStatus = t /\ 1 \in DOMAIN wire
  BY <1>1, EntryType
<1>3. UNCHANGED <<told, crawlStatus>> /\ executionQueue \in Seq(EntrySet)
  BY DEF Deliver, QueueTypeOK
<1>4. /\ n \in Nat \ {0} /\ DOMAIN wire = 1 .. n /\ DOMAIN wire' = 1 .. n - 1
      /\ \A i \in 1 .. n - 1 : i + 1 \in 1 .. n /\ wire'[i] = wire[i + 1]
      /\ \A e, i : i \in PendingFor(e)' => i \in 1 .. n - 1 /\ i + 1 \in PendingFor(e)
      /\ \A e, i : i \in PendingFor(e) => i \in 1 .. n /\ (i = 1 \/ i - 1 \in PendingFor(e)')
  BY DeliverWire
<1> HIDE DEF n
<1>5. CASE c # d
  <2>1. removals'[c] = removals[c]
    BY <1>1, <1>5 DEF QueueTypeOK
  <2>2. EntriesKept(executionQueue, executionQueue', c)
    <3>1. /\ EntriesKept(executionQueue, Append(executionQueue, Entry(d, t)), c)
          /\ EntriesKept(executionQueue, Updated(executionQueue, d, t), c)
      BY <1>3, <1>5, OthersKept
    <3> QED
      BY <1>1, <3>1
  <2>3. 1 \notin PendingFor(c)
    BY <1>2, <1>5 DEF PendingFor
  <2>4. PendingFor(c)' = {} => PendingFor(c) = {}
    BY <1>4, <2>3
  <2>5. ASSUME NEW i \in DOMAIN wire', FirstOf(c, i)'
        PROVE  i + 1 \in DOMAIN wire /\ FirstOf(c, i + 1) /\ wire[i + 1].crawlStatus = wire'[i].crawlStatus
    <3>1. i \in 1 .. n - 1 /\ i + 1 \in PendingFor(c)
      BY <1>4, <2>5 DEF FirstOf
    <3>2. ASSUME NEW j \in PendingFor(c) PROVE i + 1 <= j
      <4>1. j \in 1 .. n /\ i <= j - 1
        BY <1>4, <2>3, <2>5 DEF FirstOf
      <4> QED
        BY <1>4, <3>1, <4>1
    <3> QED
      BY <1>4, <3>1, <3>2 DEF FirstOf
  <2>6. FirstKept(c)
    BY <2>4, <2>5 DEF FirstKept
  <2> QED
    BY <1>3, <2>1, <2>2, <2>6, HearsKept
<1>6. CASE c = d
  <2>1. PICK s \in CrawlStatuses : Heard(c, s) /\ Comes(c, s)
    BY DEF Hears
  <2>2. FirstOf(c, 1)
    <3>1. 1 \in PendingFor(c)
      BY <1>2, <1>6 DEF PendingFor
    <3>2. \A j \in PendingFor(c) : 1 <= j
      BY <1>4
    <3> QED
      BY <3>1, <3>2 DEF FirstOf
  <2>3. t \in NextStatus[s] \/ (t = s /\ Harmless(c, s))
    BY <1>2, <2>1, <2>2 DEF Comes, Expects
  <2>4. Heard(c, t)'
    <3>1. /\ executionQueue' = IF t = "queued" THEN Append(executionQueue, Entry(c, t))
                                               ELSE Updated(executionQueue, c, t)
          /\ removals'[c] = IF t \in Ended THEN removals[c] + 1 ELSE removals[c]
      BY <1>1, <1>6 DEF QueueTypeOK
    <3>2. EntriesOf(c) = At(executionQueue, c) /\ EntriesOf(c)' = At(executionQueue', c)
      BY DEF EntriesOf, At
    <3> DEFINE q == executionQueue
    <3>3. /\ At(q, c) = {} =>
               /\ Updated(q, c, t) = q
               /\ At(Append(q, Entry(c, t)), c) = {Len(q) + 1}
               /\ Len(q) + 1 \in DOMAIN Append(q, Entry(c, t))
               /\ Append(q, Entry(c, t))[Len(q) + 1].crawlStatus = t
          /\ \A i \in DOMAIN q : At(q, c) = {i} =>
               /\ i \in DOMAIN Updated(q, c, t) /\ At(Updated(q, c, t), c) = {i}
               /\ Updated(q, c, t)[i].crawlStatus = t
      BY <1>3, OwnEntry
    <3>4. CASE t \in NextStatus[s] /\ t = "queued"
      <4>1. s = "none" /\ t \notin Ended
        BY <3>4, StatusFacts
      <4>2. EntriesOf(c) = {} /\ removals[c] = 0
        BY <2>1, <4>1 DEF Heard
      <4>3. executionQueue' = Append(executionQueue, Entry(c, t)) /\ removals'[c] = 0
        BY <3>1, <3>4, <4>1, <4>2
      <4>4. OneEntry(c, t)'
        <5> DEFINE r == Append(executionQueue, Entry(c, t))
                   k == Len(executionQueue) + 1
        <5>1. At(r, c) = {k} /\ k \in DOMAIN r /\ r[k].crawlStatus = t
          BY <3>2, <3>3, <4>2
        <5> HIDE DEF k
        <5> QED
          BY <3>2, <4>3, <5>1 DEF OneEntry
      <4> QED
        BY <3>4, <4>1, <4>3, <4>4, StatusFacts DEF Heard
    <3>5. CASE s \in Active /\ t \notin {"none", "queued"}
      <4>1. PICK i \in DOMAIN executionQueue : EntriesOf(c) = {i}
        BY <2>1, <3>5 DEF Heard, OneEntry
      <4>2. removals[c] = 0 /\ executionQueue' = Updated(executionQueue, c, t)
        BY <2>1, <3>1, <3>5 DEF Heard
      <4>3. OneEntry(c, t)'
        <5> DEFINE r == Updated(executionQueue, c, t)
        <5>1. i \in DOMAIN r /\ At(r, c) = {i} /\ r[i].crawlStatus = t
          BY <3>2, <3>3, <4>1
        <5> HIDE DEF r
        <5>2. executionQueue' = r
          BY <4>2 DEF r
        <5> QED
          BY <3>2, <5>1, <5>2 DEF OneEntry
      <4>4. t \in Active => removals'[c] = 0
        BY <3>1, <4>2, StatusFacts
      <4>5. t \in Ended => removals'[c] = 1
        BY <3>1, <4>2
      <4> QED
        BY <3>5, <4>3, <4>4, <4>5 DEF Heard
    <3>6. CASE t \in Ended /\ EntriesOf(c) = {}
      <4>1. t # "queued" /\ t # "none" /\ t \notin Active
        BY <3>6, StatusFacts
      <4>2. executionQueue' = executionQueue
        BY <3>1, <3>2, <3>6, <3>3, <4>1
      <4> QED
        BY <3>2, <3>6, <4>1, <4>2 DEF Heard
    <3>7. ASSUME t \in NextStatus[s], t # "queued" PROVE s \in Active /\ t # "none"
      BY <3>7, StatusFacts
    <3>8. ASSUME t = s, Harmless(c, s)
          PROVE  t \notin {"none", "queued"} /\ (s \in Active \/ (t \in Ended /\ EntriesOf(c) = {}))
      BY <3>8, StatusFacts DEF Harmless
    <3> QED
      BY <2>3, <3>4, <3>5, <3>6, <3>7, <3>8
  <2>5. InOrder(c)
    BY DEF WireInv
  <2>6. PendingFor(c)' = {} => t = told'[c]
    <3> SUFFICES ASSUME PendingFor(c)' = {} PROVE t = told'[c]
      OBVIOUS
    <3>1. \A j \in PendingFor(c) : j <= 1
      BY <1>4
    <3>2. LastOf(c, 1)
      BY <2>2, <3>1 DEF FirstOf, LastOf
    <3> QED
      BY <1>2, <1>3, <2>5, <3>2 DEF InOrder
  <2>7. ASSUME NEW i \in DOMAIN wire', FirstOf(c, i)' PROVE wire'[i].crawlStatus \in NextStatus[t]
    <3>1. i \in 1 .. n - 1 /\ i + 1 \in PendingFor(c) /\ i + 1 \in 1 .. n /\ 1 < i + 1
      BY <1>4, <2>7 DEF FirstOf
    <3>2. ASSUME NEW k \in PendingFor(c) PROVE k <= 1 \/ i + 1 <= k
      <4>1. k \in 1 .. n /\ (k = 1 \/ i <= k - 1)
        BY <1>4, <2>7 DEF FirstOf
      <4> QED
        BY <1>4, <3>1, <4>1
    <3>3. NextTo(c, 1, i + 1)
      BY <2>2, <3>1, <3>2 DEF NextTo, FirstOf
    <3> QED
      BY <1>2, <1>4, <2>5, <3>1, <3>3 DEF InOrder
  <2>8. Comes(c, t)'
    <3>1. \A u : u \in NextStatus[t] => Expects(c, t, u)'
      BY DEF Expects
    <3> QED
      BY <2>6, <2>7, <3>1 DEF Comes
  <2> QED
    BY <2>4, <2>8 DEF Hears
<1> QED
  BY <1>5, <1>6

\* The page hears what it has to hear.
LEMMA NextHears ==
  ASSUME QueueTypeOK, OneAhead, AtRest, WireInv, PageHears, [QueueNext]_queueVars
  PROVE  PageHears'
<1> SUFFICES ASSUME NEW c \in Crawls, Followed(c)' PROVE Hears(c)'
  BY DEF PageHears, Hears
<1>1. Followed(c) => Hears(c)
  BY DEF PageHears, Hears
<1>2. ASSUME UNCHANGED <<executionQueue, removals, wire, told, crawlStatus, missed, doubled>>, socket # "none"
      PROVE  Hears(c)'
  <2>1. Hears(c)
    BY <1>1, <1>2 DEF Followed
  <2> QED
    BY <1>2, <2>1, SameEntries, HearsKept
<1>3. ASSUME UNCHANGED <<socket, doubled>>, missed \subseteq missed' PROVE Hears(c)
  BY <1>1, <1>3 DEF Followed
<1>4. ASSUME NEW d \in Crawls, ChangeStatus(d) PROVE Hears(c)'
  <2>1. Hears(c)
    BY <1>3, <1>4 DEF ChangeStatus
  <2> QED
    BY <1>4, <2>1, ChangeHears
<1>5. ASSUME NEW d \in Crawls, Announce(d) PROVE Hears(c)'
  <2>1. Hears(c)
    BY <1>3, <1>5 DEF Announce
  <2> QED
    BY <1>5, <2>1, AnnounceHears
<1>6. ASSUME NEW d \in Crawls, Expire(d) PROVE Hears(c)'
  <2>1. Hears(c)
    BY <1>3, <1>6 DEF Expire
  <2> QED
    BY <1>6, <2>1, ExpireHears
<1>7. ASSUME NEW d \in Visited, ShowRecord(d) PROVE Hears(c)'
  BY <1>2, <1>7 DEF ShowRecord
<1>8. CASE OpenPage
  BY <1>8, OpenHears
<1>9. CASE Connect
  BY <1>2, <1>9 DEF Connect
<1>10. CASE Drop
  <2>1. Hears(c)
    BY <1>1, <1>10 DEF Drop, Followed
  <2> QED
    BY <1>10, <2>1, DropHears
<1>11. CASE Deliver
  <2>1. Hears(c)
    BY <1>3, <1>11 DEF Deliver
  <2> QED
    BY <1>11, <2>1, DeliverHears
<1>12. CASE UNCHANGED queueVars
  <2>1. socket # "none"
    BY <1>12 DEF queueVars, Followed
  <2> QED
    BY <1>2, <1>12, <2>1 DEF queueVars
<1> QED
  BY <1>4, <1>5, <1>6, <1>7, <1>8, <1>9, <1>10, <1>11, <1>12 DEF QueueNext

-----------------------------------------------------------------------------
(***************************************************************************)
(* The theorems.                                                           *)
(***************************************************************************)
\* Nothing was queued, and no page is open.
LEMMA InitQueue == QueueInit => QueueInv
<1> SUFFICES ASSUME QueueInit PROVE QueueInv
  OBVIOUS
<1>1. /\ crawlStatus = [c \in Crawls |-> "none"] /\ told = crawlStatus
      /\ socket = "none" /\ wire = <<>> /\ executionQueue = <<>>
      /\ removals = [c \in Crawls |-> 0] /\ shown = Entry(NoCrawl, "none")
      /\ missed = {} /\ doubled = {}
  BY DEF QueueInit
<1>2. QueueTypeOK
  BY <1>1, StatusFacts DEF QueueTypeOK
<1>3. OneAhead
  BY <1>1 DEF OneAhead
<1>4. AtRest
  <2>1. {c \in Crawls : crawlStatus[c] # "none"} = {}
    BY <1>1
  <2>2. shown.id = NoCrawl
    BY <1>1 DEF Entry
  <2> QED
    BY <1>1, <2>1, <2>2, FS_EmptySet DEF AtRest
<1>5. WireInv
  <2>1. DOMAIN wire = {}
    BY <1>1
  <2> QED
    BY <2>1 DEF WireInv, InOrder
<1>6. PageHears
  BY <1>1 DEF PageHears, Followed
<1>7. ShownRecordSucceeds
  BY <1>1 DEF ShownRecordSucceeds
<1> QED
  BY <1>2, <1>3, <1>4, <1>5, <1>6, <1>7 DEF QueueInv

\* Each action keeps the invariant.
LEMMA QueueInvKept ==
  ASSUME QueueInv, [QueueNext]_queueVars
  PROVE  QueueInv'
<1>1. QueueTypeOK /\ OneAhead /\ AtRest /\ WireInv /\ PageHears /\ ShownRecordSucceeds
  BY DEF QueueInv
<1>2. QueueTypeOK'
  BY <1>1, NextQueueType
<1>3. OneAhead'
  BY <1>1, NextOneAhead
<1>4. AtRest'
  BY <1>1, NextAtRest
<1>5. WireInv'
  BY <1>1, NextWire
<1>6. PageHears'
  BY <1>1, NextHears
<1>7. ShownRecordSucceeds'
  BY <1>1, NextShown
<1> QED
  BY <1>2, <1>3, <1>4, <1>5, <1>6, <1>7 DEF QueueInv

\* The invariant holds in every state.
LEMMA QueueInvAlways == QueueSpec => []QueueInv
<1>1. QueueInv /\ [QueueNext]_queueVars => QueueInv'
  BY QueueInvKept
<1> QED
  BY <1>1, InitQueue, PTL DEF QueueSpec

\* What the page has heard, and hears next, is what it has to show.
LEMMA HeardIsShown ==
  ASSUME QueueInv
  PROVE  QueueFollowsServer
<1>1. QueueTypeOK /\ WireInv /\ PageHears
  BY DEF QueueInv
<1> SUFFICES ASSUME NEW c \in Crawls, Followed(c)
             PROVE  /\ PendingFor(c) = {} =>
                         /\ EntryIsRight(c)
                         /\ {told[c], crawlStatus[c]} \subseteq Active => EntriesOf(c) # {}
                    /\ PendingFor(c) # {} =>
                         /\ wire[Max(PendingFor(c))].crawlStatus = told[c]
                         /\ wire[Min(PendingFor(c))].crawlStatus = "queued" => EntriesOf(c) = {}
  BY DEF QueueFollowsServer
<1>2. PICK s \in CrawlStatuses : Heard(c, s) /\ Comes(c, s)
  BY <1>1 DEF PageHears
<1>3. ASSUME PendingFor(c) = {}
      PROVE  /\ EntryIsRight(c)
             /\ {told[c], crawlStatus[c]} \subseteq Active => EntriesOf(c) # {}
  <2>1. s \in {told[c], crawlStatus[c]}
    BY <1>2, <1>3 DEF Comes
  <2>2. ASSUME NEW i \in EntriesOf(c)
        PROVE  /\ EntriesOf(c) = {i} /\ executionQueue[i].crawlStatus = s
               /\ s \in Ended => removals[c] = 1
    <3>1. OneEntry(c, s) /\ (s \in Ended => removals[c] = 1)
      BY <1>2, <2>2, StatusFacts DEF Heard
    <3> QED
      BY <2>2, <3>1 DEF OneEntry
  <2>3. EntryIsRight(c)
    BY <2>1, <2>2 DEF EntryIsRight
  <2>4. s \in Active => EntriesOf(c) # {}
    BY <1>2 DEF Heard, OneEntry
  <2> QED
    BY <2>1, <2>3, <2>4
<1>4. ASSUME PendingFor(c) # {}
      PROVE  /\ wire[Max(PendingFor(c))].crawlStatus = told[c]
             /\ wire[Min(PendingFor(c))].crawlStatus = "queued" => EntriesOf(c) = {}
  <2>1. /\ PendingFor(c) \subseteq Nat /\ Len(wire) \in Nat
        /\ \A i \in PendingFor(c) : i <= Len(wire) /\ i \in DOMAIN wire
    <3>1. wire \in Seq(EntrySet)
      BY <1>1 DEF QueueTypeOK
    <3>2. DOMAIN wire = 1 .. Len(wire) /\ Len(wire) \in Nat
      BY <3>1
    <3> QED
      BY <3>2 DEF PendingFor
  <2>2. LastOf(c, Max(PendingFor(c)))
    BY <1>4, <2>1, GreatestNat DEF LastOf
  <2>3. FirstOf(c, Min(PendingFor(c)))
    BY <1>4, <2>1, LeastNat DEF FirstOf
  <2>4. wire[Max(PendingFor(c))].crawlStatus = told[c]
    BY <1>1, <2>1, <2>2 DEF WireInv, InOrder, LastOf
  <2>5. Expects(c, s, wire[Min(PendingFor(c))].crawlStatus)
    BY <1>2, <2>1, <2>3 DEF Comes, FirstOf
  <2>6. ASSUME Expects(c, s, "queued") PROVE EntriesOf(c) = {}
    <3>1. "queued" \in NextStatus[s]
      BY <2>6 DEF Expects, Harmless
    <3> QED
      BY <1>2, <3>1, StatusFacts DEF Heard
  <2> QED
    BY <2>4, <2>5, <2>6
<1> QED
  BY <1>3, <1>4

\* The statuses of the server, what is on its way and the queue of the page keep
\* their types.
THEOREM QueueTypeCorrect == QueueSpec => []QueueTypeOK
<1>1. QueueInv => QueueTypeOK
  BY DEF QueueInv
<1> QED
  BY <1>1, QueueInvAlways, PTL

\* The queue of a page that misses nothing shows each record once, with the status
\* that was announced (ApplicationController.updateQueue and removeQueue).
THEOREM QueueIsFollowed == QueueSpec => []QueueFollowsServer
<1>1. QueueInv => QueueFollowsServer
  BY HeardIsShown
<1> QED
  BY <1>1, QueueInvAlways, PTL

\* The page of a crawl that succeeded says so, or will (ApplicationController, on
\* the message of a success).
THEOREM SuccessIsShown == QueueSpec => []ShownRecordSucceeds
<1>1. QueueInv => ShownRecordSucceeds
  BY DEF QueueInv
<1> QED
  BY <1>1, QueueInvAlways, PTL

-----------------------------------------------------------------------------
(***************************************************************************)
(* The queue and the log page, side by side in one page of the client.     *)
(***************************************************************************)
\* The two invariants hold side by side.
LEMMA PagesInvAlways == PagesSpec => [](QueueInv /\ LogInv)
<1>1. PagesInit => QueueInv /\ LogInv
  BY InitQueue, InitLog DEF PagesInit
<1>2. QueueInv /\ LogInv /\ [PagesNext]_<<part, queueVars, logVars>> => QueueInv' /\ LogInv'
  <2> SUFFICES ASSUME QueueInv, LogInv, [PagesNext]_<<part, queueVars, logVars>>
               PROVE  QueueInv' /\ LogInv'
    OBVIOUS
  <2>1. [QueueNext]_queueVars /\ [LogNext]_logVars
    BY DEF PagesNext
  <2> QED
    BY <2>1, QueueInvKept, LogInvKept
<1> QED
  BY <1>1, <1>2, PTL DEF PagesSpec

\* The statuses, the messages, the queue and the log page of one client keep their
\* types (controllers.js and models.js, CrawlRunner, LoggingSocket).
THEOREM PagesTypeCorrect == PagesSpec => []PagesTypeOK
<1>1. QueueInv /\ LogInv => PagesTypeOK
  BY DEF QueueInv, LogInv, PagesTypeOK
<1> QED
  BY <1>1, PagesInvAlways, PTL
===============================================================================
