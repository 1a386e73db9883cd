------------------------------ MODULE MCWebPages ------------------------------
(***************************************************************************)
(* The two parts of the web client that follow the server through the      *)
(* socket, the execution queue and the log page, for the model checker.    *)
(*                                                                         *)
(* They share no state but the connection, of which each models what it    *)
(* uses; a behaviour is one of the queue or one of the log.                *)
(***************************************************************************)
EXTENDS ExecutionQueue, LogPanel

VARIABLE part

PagesInit ==
  /\ part \in {"queue", "log"}
  /\ QueueInit
  /\ LogInit

PagesNext ==
  /\ UNCHANGED part
  /\ \/ part = "queue" /\ QueueNext /\ UNCHANGED logVars
     \/ part = "log" /\ LogNext /\ UNCHANGED queueVars

\* The fairness of both; a log page that is not there need not connect.
PagesFairness ==
  /\ QueueFairness
  /\ WF_logVars(part = "log" /\ StartLog)
  /\ WF_logVars(part = "log" /\ ConnectLog)
  /\ WF_logVars(part = "log" /\ ReceiveText)
  /\ WF_logVars(part = "log" /\ ReceiveLog)

PagesSpec == PagesInit /\ [][PagesNext]_<<part, queueVars, logVars>> /\ PagesFairness

\* The types of the state of both parts.
PagesTypeOK == QueueTypeOK /\ LogTypeOK
===============================================================================
