------------------------ MODULE CrawlHistory_refinement ------------------------
(***************************************************************************)
(* CrawlHistory implements CrawlJobs: each step of the history is a step   *)
(* of the abstract jobs or leaves them as they are.  One HTTP thread at a  *)
(* time creates records; there are finitely many workers.                  *)
(***************************************************************************)
EXTENDS CrawlHistory_proofs, FiniteSetTheorems

USE DEF store, records, http, pool, confs, history

-----------------------------------------------------------------------------
(***************************************************************************)
(* The refinement mapping.                                                 *)
(***************************************************************************)
Executing == {p \in Posts : \E w \in Workers : WorkerHolds(w, p)}
Over      == {p \in Posts : status[p] # "none" /\ ~HasAgent(p)}

JobsUnchanged == UNCHANGED <<queue, Executing, Over>>

\* What leaves the jobs alone is a stuttering step of CrawlJobs.
LEMMA JobVariables ==
  ASSUME JobsUnchanged
  PROVE  UNCHANGED Jobs!jobVars
<1>1. UNCHANGED <<queue, Executing, Over>>
  BY DEF JobsUnchanged
<1>2. /\ Jobs!jobVars = <<queue, Executing, Over>>
      /\ Jobs!jobVars' = <<queue', Executing', Over'>>
  BY DEF Jobs!jobVars, Executing, Over
<1> QED
  BY <1>1, <1>2

\* The jobs depend on the queue, on who holds what, and on which requests
\* were made.
LEMMA SameJobs ==
  ASSUME UNCHANGED queue,
         \A p \in Posts :
           /\ (status'[p] = "none") <=> (status[p] = "none")
           /\ HasAgent(p)' <=> HasAgent(p)
           /\ \A w \in Workers : WorkerHolds(w, p)' <=> WorkerHolds(w, p)
  PROVE  JobsUnchanged
BY DEF JobsUnchanged, Executing, Over

\* The set of the tasks in the queue.
LEMMA InQueue ==
  ASSUME Inv
  PROVE  /\ \A p \in Posts : p \in ToSet(queue) <=> \E i \in DOMAIN queue : queue[i] = p
         /\ ToSet(queue) \subseteq Posts
<1>1. queue \in Seq(Posts)
  BY DEF Inv, TypeOK
<1>2. DOMAIN queue = 1 .. Len(queue) /\ \A i \in 1 .. Len(queue) : queue[i] \in Posts
  BY <1>1, LenProperties, ElementOfSeq
<1> QED
  BY <1>2 DEF ToSet

\* A record that an HTTP thread holds is no job yet.
LEMMA HeldByHttpIsUnborn ==
  ASSUME Inv, NEW t \in HttpThreads, NEW p \in Posts, HttpHolds(t, p)
  PROVE  p \in Posts \ (ToSet(queue) \cup Executing \cup Over)
<1>1. p \notin ToSet(queue)
  BY InQueue DEF Inv, AtMostOneAgent
<1>2. p \notin Executing
  BY DEF Inv, AtMostOneAgent, Executing
<1>3. p \notin Over
  BY DEF Over, HasAgent
<1> QED
  BY <1>1, <1>2, <1>3

-----------------------------------------------------------------------------
(***************************************************************************)
(* A worker ends a job, takes one, or goes on.                             *)
(***************************************************************************)
EndsJob(p) ==
  /\ p \in Executing
  /\ Executing' = Executing \ {p}
  /\ Over' = Over \cup {p}
  /\ UNCHANGED queue

\* A worker that changes only its place either goes on with its job or ends it.
LEMMA WorkerGoesOn ==
  ASSUME Inv, NEW w \in Workers, wpc[w] # "idle", NEW l,
         wpc' = [wpc EXCEPT ![w] = l],
         UNCHANGED <<queue, wpost, hpc, hpost>>,
         \A p \in Posts : (status'[p] = "none") <=> (status[p] = "none")
  PROVE  JobsUnchanged \/ \E p \in Posts : EndsJob(p)
<1> DEFINE p == wpost[w]
<1>1. p \in Posts /\ status[p] # "none" /\ WorkerHolds(w, p)
  BY WorkerFacts DEF WorkerHolds
<1>2. \A v \in Workers : wpc'[v] = IF v = w THEN l ELSE wpc[v]
  BY DEF Inv, TypeOK
<1>3. \A q \in Posts, t \in HttpThreads : HttpHolds(t, q)' <=> HttpHolds(t, q)
  BY DEF HttpHolds
<1> HIDE DEF p
<1>4. CASE l # "idle"
  <2>1. \A q \in Posts, v \in Workers : WorkerHolds(v, q)' <=> WorkerHolds(v, q)
    BY <1>2, <1>4 DEF WorkerHolds
  <2>2. \A q \in Posts : HasAgent(q)' <=> HasAgent(q)
    BY <1>3, <2>1 DEF HasAgent
  <2> QED
    BY <2>1, <2>2, SameJobs
<1>5. CASE l = "idle"
  <2>1. \A q \in Posts, v \in Workers :
          WorkerHolds(v, q)' <=> v # w /\ WorkerHolds(v, q)
    BY <1>2, <1>5 DEF WorkerHolds
  <2>2. \A v \in Workers : WorkerHolds(v, p) => v = w
    BY <1>1 DEF Inv, AtMostOneAgent
  <2>3. \A q \in Posts : WorkerHolds(w, q) => q = p
    BY DEF WorkerHolds, p
  <2>4. p \in Executing /\ Executing' = Executing \ {p}
    BY <1>1, <2>1, <2>2, <2>3 DEF Executing
  <2>5. ASSUME NEW q \in Posts, q = p PROVE ~HasAgent(q)'
    BY <1>1, <1>3, <2>1, <2>2, <2>5 DEF HasAgent, Inv, AtMostOneAgent
  <2>6. ASSUME NEW q \in Posts, q # p PROVE HasAgent(q)' <=> HasAgent(q)
    BY <1>3, <2>1, <2>3, <2>6 DEF HasAgent
  <2>7. HasAgent(p)
    BY <1>1 DEF HasAgent
  <2>8. \A q : q \in Over' <=> q \in Over \cup {p}
    BY <1>1, <2>5, <2>6 DEF Over
  <2> QED
    BY <1>1, <2>4, <2>8 DEF EndsJob
<1> QED
  BY <1>4, <1>5

\* What the steps of a worker that has its task have in common.
GoesOn(w) == \E l \in Labels : Goto(w, l)

\* A label is enough to go on.
LEMMA Going ==
  ASSUME NEW w \in Workers, NEW l \in Labels, Goto(w, l)
  PROVE  GoesOn(w)
BY DEF GoesOn

SameBorn == \A p \in Posts : (status'[p] = "none") <=> (status[p] = "none")

\* findByID finds the record of the task itself, so that the job stays the same.
LEMMA LookUpGoesOn ==
  ASSUME Inv, NEW w \in Workers, LookUp(w)
  PROVE  wpc[w] # "idle" /\ GoesOn(w) /\ SameBorn /\ UNCHANGED <<queue, wpost, hpc, hpost>>
<1> DEFINE task == wpost[w]
           matches == {i \in DOMAIN crawlList : recId[crawlList[i]] = recId[task]}
<1>1. wpc[w] # "idle" /\ UNCHANGED <<queue, hpc, hpost, status>>
  BY DEF LookUp
<1>2. \A i \in matches : crawlList[i] = task
  <2> TAKE i \in matches
  <2>1. crawlList[i] \in Listed /\ task \in Listed
    BY <1>1, ListedArePosts, WorkerFacts DEF Inv
  <2> QED
    BY <2>1, SameId DEF Inv
<1>3. UNCHANGED wpost
  <2>1. CASE \E i \in matches : wpost' = [wpost EXCEPT ![w] = crawlList[i]]
    <3>1. wpost' = [wpost EXCEPT ![w] = task]
      BY <1>2, <2>1
    <3> QED
      BY <3>1 DEF Inv, TypeOK
  <2> QED
    BY <2>1 DEF LookUp
<1>4. GoesOn(w)
  <2>1. Goto(w, "init") \/ Goto(w, "idle")
    BY DEF LookUp
  <2> QED
    BY <2>1, Going DEF Labels
<1> QED
  BY <1>1, <1>3, <1>4 DEF SameBorn

\* A worker's record was made by a request, and stays so.
LEMMA StatusGoesOn ==
  ASSUME Inv, NEW w \in Workers, wpc[w] # "idle", NEW s, s # "none",
         status' = [status EXCEPT ![wpost[w]] = s]
  PROVE  SameBorn
<1>1. status[wpost[w]] # "none" /\ wpost[w] \in Posts
  BY WorkerFacts
<1> QED
  BY <1>1 DEF SameBorn, Inv, TypeOK

\* Start, Succeed and Fail.
LEMMA SetStatusGoesOn ==
  ASSUME Inv, NEW w \in Workers, Start(w) \/ Succeed(w) \/ Fail(w)
  PROVE  wpc[w] # "idle" /\ GoesOn(w) /\ SameBorn /\ UNCHANGED <<queue, wpost, hpc, hpost>>
<1>1. PICK s \in {"running", "success", "failure"},
           writing \in Labels, next \in Labels : SetStatus(w, s, writing, next)
  <2>1. CASE Start(w)
    BY <2>1, Zenon DEF Start, Labels
  <2>2. CASE Succeed(w)
    BY <2>2, Zenon DEF Succeed, Labels
  <2>3. CASE Fail(w)
    BY <2>3, Zenon DEF Fail, Labels
  <2> QED
    BY <2>1, <2>2, <2>3
<1>2. wpc[w] # "idle"
  BY DEF Start, Succeed, Fail
<1>3. status' = [status EXCEPT ![wpost[w]] = s] /\ UNCHANGED <<queue, wpost, hpc, hpost>>
  BY <1>1 DEF SetStatus
<1>4. GoesOn(w)
  BY <1>1, Going DEF SetStatus
<1> QED
  BY <1>2, <1>3, <1>4, StatusGoesOn

\* All steps of a worker that has a task: only its place matters for the jobs.
LEMMA WorkerFrame ==
  ASSUME Inv, NEW w \in Workers, WorkerStep(w), ~Take(w)
  PROVE  wpc[w] # "idle" /\ GoesOn(w) /\ SameBorn /\ UNCHANGED <<queue, wpost, hpc, hpost>>
<1>1. CASE LookUp(w)
  BY <1>1, LookUpGoesOn
<1>2. CASE Start(w) \/ Succeed(w) \/ Fail(w)
  BY <1>2, SetStatusGoesOn
<1>3. CASE Initialize(w)
  <2>1. wpc[w] # "idle" /\ SameBorn
    BY <1>3, StatusGoesOn DEF Initialize
  <2>2. GoesOn(w)
    <3>1. Goto(w, "build") \/ Goto(w, "fail")
      BY <1>3 DEF Initialize
    <3> QED
      BY <3>1, Going DEF Labels
  <2> QED
    BY <1>3, <2>1, <2>2 DEF Initialize
<1>4. CASE Build(w) \/ Return(w)
  <2>1. wpc[w] # "idle" /\ UNCHANGED <<queue, wpost, hpc, hpost, status>>
    BY <1>4 DEF Build, Return
  <2>2. GoesOn(w)
    <3>1. Goto(w, "start") \/ Goto(w, "fail") \/ Goto(w, "idle") \/ Goto(w, "reload")
      BY <1>4 DEF Build, Return, DieOfError
    <3> QED
      BY <3>1, Going DEF Labels
  <2> QED
    BY <2>1, <2>2 DEF SameBorn
<1>5. CASE Announce(w) \/ UpdateRow(w)
  <2>1. wpc[w] # "idle" /\ UNCHANGED <<queue, wpost, hpc, hpost, status>>
    BY <1>5 DEF Announce, UpdateRow
  <2>2. GoesOn(w)
    <3>1. Goto(w, "call") \/ Goto(w, "fail") \/ Goto(w, "idle")
      BY <1>5 DEF Announce, UpdateRow, AfterBadRow
    <3> QED
      BY <3>1, Going DEF Labels
  <2> QED
    BY <2>1, <2>2 DEF SameBorn
<1>6. CASE Reload(w) \/ UpdateConfig(w)
  <2>1. wpc[w] # "idle" /\ UNCHANGED <<queue, wpost, hpc, hpost, status>>
    BY <1>6 DEF Reload, UpdateConfig
  <2>2. GoesOn(w)
    <3>1. Goto(w, "fail") \/ Goto(w, "update") \/ Goto(w, "succeed")
      BY <1>6 DEF Reload, UpdateConfig
    <3> QED
      BY <3>1, Going DEF Labels
  <2> QED
    BY <2>1, <2>2 DEF SameBorn
<1>7. CASE Write(w)
  <2>1. wpc[w] \in DOMAIN AfterWrite /\ UNCHANGED <<queue, wpost, hpc, hpost, status>>
    BY <1>7 DEF Write
  <2>2. wpc[w] # "idle" /\ AfterWrite[wpc[w]] \in Labels
    BY <2>1 DEF AfterWrite, Labels
  <2>3. GoesOn(w)
    <3>1. Goto(w, AfterWrite[wpc[w]])
      BY <1>7 DEF Write
    <3> QED
      BY <2>2, <3>1, Going
  <2> QED
    BY <2>1, <2>2, <2>3 DEF SameBorn
<1> QED
  BY <1>1, <1>2, <1>3, <1>4, <1>5, <1>6, <1>7 DEF WorkerStep

BeginsJob ==
  /\ queue # <<>>
  /\ Cardinality(Executing) < Cardinality(Workers)
  /\ Executing' = Executing \cup {Head(queue)}
  /\ queue' = Tail(queue)
  /\ UNCHANGED Over

\* A task that goes from the queue to a worker has an agent before and after.
LEMMA TakeAgents ==
  ASSUME Inv, NEW w \in Workers, Take(w)
  PROVE  \A q \in Posts : HasAgent(q)' <=> HasAgent(q)
<1> DEFINE p == Head(queue)
<1>1. /\ wpc[w] = "idle" /\ queue # <<>> /\ queue' = Tail(queue)
      /\ wpc' = [wpc EXCEPT ![w] = "lookup"] /\ wpost' = [wpost EXCEPT ![w] = p]
      /\ UNCHANGED <<hpc, hpost>>
  BY DEF Take, Goto, Dequeued
<1>2. /\ queue \in Seq(Posts) /\ queue[1] = p
      /\ DOMAIN queue = 1 .. Len(queue) /\ 1 \in 1 .. Len(queue)
  <2>1. queue \in Seq(Posts)
    BY DEF Inv, TypeOK
  <2> QED
    BY <1>1, <2>1, HeadTailProperties, EmptySeq, LenProperties
<1>3. \A v \in Workers, q \in Posts :
        WorkerHolds(v, q)' <=> IF v = w THEN q = p ELSE WorkerHolds(v, q)
  BY <1>1 DEF WorkerHolds, Inv, TypeOK
<1>4. \A q \in Posts : ~WorkerHolds(w, q)
  BY <1>1 DEF WorkerHolds
<1>5. \A t \in HttpThreads, q \in Posts : HttpHolds(t, q)' <=> HttpHolds(t, q)
  BY <1>1 DEF HttpHolds
<1> HIDE DEF p
<1> SUFFICES ASSUME NEW q \in Posts PROVE HasAgent(q)' <=> HasAgent(q)
  OBVIOUS
<1>6. CASE q = p
  BY <1>2, <1>3, <1>6 DEF HasAgent
<1>7. CASE q # p
  <2>1. (\E i \in DOMAIN queue' : queue'[i] = q) <=> (\E i \in DOMAIN queue : queue[i] = q)
    <3>1. /\ Len(queue') = Len(queue) - 1 /\ DOMAIN queue' = 1 .. Len(queue')
          /\ \A i \in 1 .. Len(queue') : queue'[i] = queue[i + 1]
      BY <1>1, <1>2, HeadTailProperties, LenProperties
    <3>2. \A i \in 1 .. Len(queue') : i + 1 \in DOMAIN queue
      BY <1>2, <3>1
    <3>3. ASSUME NEW i \in DOMAIN queue, queue[i] = q
          PROVE  i - 1 \in DOMAIN queue' /\ queue'[i - 1] = q
      <4>1. i # 1
        BY <1>2, <1>7, <3>3
      <4>2. i - 1 \in 1 .. Len(queue') /\ (i - 1) + 1 = i
        BY <1>2, <3>1, <4>1
      <4> QED
        BY <3>1, <3>3, <4>2
    <3> QED
      BY <3>1, <3>2, <3>3
  <2> QED
    BY <1>3, <1>4, <1>5, <1>7, <2>1 DEF HasAgent
<1> QED
  BY <1>6, <1>7

\* A worker that takes a task was idle, so that the others have fewer jobs
\* than there are workers.
LEMMA TakeBegins ==
  ASSUME Inv, IsFiniteSet(Workers), NEW w \in Workers, Take(w)
  PROVE  BeginsJob
<1> DEFINE p == Head(queue)
           busy == {v \in Workers : wpc[v] # "idle"}
           job == [v \in busy |-> wpost[v]]
<1>1. /\ wpc[w] = "idle" /\ queue # <<>> /\ queue' = Tail(queue)
      /\ wpc' = [wpc EXCEPT ![w] = "lookup"] /\ wpost' = [wpost EXCEPT ![w] = p]
      /\ UNCHANGED <<hpc, hpost, status>>
  BY DEF Take, Goto, Dequeued
<1>2. Cardinality(Executing) < Cardinality(Workers)
  <2>1. job \in Surjection(busy, Executing)
    <3>1. \A v \in busy : wpost[v] \in Executing
      BY WorkerFacts DEF Executing, WorkerHolds
    <3>2. \A q \in Executing : \E v \in busy : wpost[v] = q
      BY DEF Executing, WorkerHolds
    <3> QED
      BY <3>1, <3>2 DEF Surjection
  <2>2. /\ IsFiniteSet(Workers \ {w})
        /\ Cardinality(Workers \ {w}) = Cardinality(Workers) - 1
    BY FS_RemoveElement
  <2>3. busy \in SUBSET (Workers \ {w})
    BY <1>1
  <2>4. IsFiniteSet(busy) /\ Cardinality(busy) <= Cardinality(Workers \ {w})
    BY <2>2, <2>3, FS_Subset
  <2>5. IsFiniteSet(Executing) /\ Cardinality(Executing) <= Cardinality(busy)
    BY <2>1, <2>4, FS_Surjection
  <2> HIDE DEF busy, job
  <2>6. /\ Cardinality(Executing) \in Nat /\ Cardinality(busy) \in Nat
        /\ Cardinality(Workers) \in Nat
    BY <2>4, <2>5, FS_CardinalityType
  <2> QED
    BY <2>2, <2>4, <2>5, <2>6
<1>3. /\ queue \in Seq(Posts) /\ p \in Posts /\ p \in Listed
      /\ DOMAIN queue = 1 .. Len(queue) /\ 1 \in 1 .. Len(queue) /\ queue[1] = p
  <2>1. queue \in Seq(Posts)
    BY DEF Inv, TypeOK
  <2>2. p \in Posts /\ queue[1] = p
    BY <1>1, <2>1, HeadTailProperties
  <2>3. DOMAIN queue = 1 .. Len(queue) /\ 1 \in 1 .. Len(queue)
    BY <1>1, <2>1, EmptySeq, LenProperties
  <2> QED
    BY <2>1, <2>2, <2>3 DEF Inv, PoolInv
<1>4. \A v \in Workers, q \in Posts :
        WorkerHolds(v, q)' <=> IF v = w THEN q = p ELSE WorkerHolds(v, q)
  BY <1>1 DEF WorkerHolds, Inv, TypeOK
<1>5. \A q \in Posts : ~WorkerHolds(w, q)
  BY <1>1 DEF WorkerHolds
<1> HIDE DEF p
<1>6. Executing' = Executing \cup {p}
  BY <1>3, <1>4, <1>5 DEF Executing
<1>7. \A q \in Posts : HasAgent(q)' <=> HasAgent(q)
  BY TakeAgents
<1>8. UNCHANGED Over
  BY <1>1, <1>7 DEF Over
<1> QED
  BY <1>1, <1>2, <1>6, <1>8 DEF BeginsJob, p

\* Each step of a worker begins or ends a job, or leaves the jobs alone.
LEMMA WorkerJobs ==
  ASSUME Inv, IsFiniteSet(Workers), NEW w \in Workers, WorkerStep(w)
  PROVE  JobsUnchanged \/ BeginsJob \/ \E p \in Posts : EndsJob(p)
<1>1. CASE Take(w)
  BY <1>1, TakeBegins
<1>2. CASE ~Take(w)
  <2>1. wpc[w] # "idle" /\ GoesOn(w) /\ SameBorn /\ UNCHANGED <<queue, wpost, hpc, hpost>>
    BY <1>2, WorkerFrame
  <2>2. PICK l \in Labels : wpc' = [wpc EXCEPT ![w] = l]
    BY <2>1 DEF GoesOn, Goto
  <2> QED
    BY <2>1, <2>2, WorkerGoesOn DEF SameBorn
<1> QED
  BY <1>1, <1>2

-----------------------------------------------------------------------------
(***************************************************************************)
(* A request is accepted or refused by its last step.                      *)
(***************************************************************************)
Unborn == Posts \ (ToSet(queue) \cup Executing \cup Over)

AcceptsJob(p) ==
  /\ p \in Unborn
  /\ queue' = Append(queue, p)
  /\ UNCHANGED <<Executing, Over>>

RefusesJob(p) ==
  /\ p \in Unborn
  /\ Over' = Over \cup {p}
  /\ UNCHANGED <<queue, Executing>>

\* Jobs that execute depend on the workers only.
LEMMA SameWorkers ==
  ASSUME UNCHANGED <<wpc, wpost>>
  PROVE  /\ UNCHANGED Executing
         /\ \A p \in Posts, w \in Workers : WorkerHolds(w, p)' <=> WorkerHolds(w, p)
BY DEF Executing, WorkerHolds

\* A request that arrives is no job yet.
LEMMA PostJobs ==
  ASSUME Inv, NEW t \in HttpThreads, NEW p \in Posts, NEW c \in Configs, Post(t, p, c)
  PROVE  JobsUnchanged
<1>1. /\ hpc[t] = "idle" /\ status[p] = "none"
      /\ status' = [status EXCEPT ![p] = "idle"]
      /\ hpc' = [hpc EXCEPT ![t] = "assign"] /\ hpost' = [hpost EXCEPT ![t] = p]
      /\ UNCHANGED <<queue, wpc, wpost>>
  BY DEF Post
<1>2. \A u \in HttpThreads, q \in Posts :
        HttpHolds(u, q)' <=> IF u = t THEN q = p ELSE HttpHolds(u, q)
  BY <1>1 DEF HttpHolds, Inv, TypeOK
<1>3. \A q \in Posts : ~HttpHolds(t, q)
  BY <1>1 DEF HttpHolds
<1>4. \A q \in Posts : q # p => status'[q] = status[q] /\ (HasAgent(q)' <=> HasAgent(q))
  BY <1>1, <1>2, <1>3, SameWorkers DEF HasAgent, Inv, TypeOK
<1>5. HasAgent(p)'
  BY <1>2 DEF HasAgent
<1>6. \A q : q \in Over' <=> q \in Over
  BY <1>1, <1>4, <1>5 DEF Over
<1> QED
  BY <1>1, <1>6, SameWorkers DEF JobsUnchanged

\* Nor does it become one before the last step.
LEMMA HttpGoesOn ==
  ASSUME Inv, NEW t \in HttpThreads, hpc[t] # "idle", NEW l, l # "idle",
         hpc' = [hpc EXCEPT ![t] = l],
         UNCHANGED <<hpost, status, queue, wpc, wpost>>
  PROVE  JobsUnchanged
<1>1. \A u \in HttpThreads, q \in Posts : HttpHolds(u, q)' <=> HttpHolds(u, q)
  BY DEF HttpHolds, Inv, TypeOK
<1>2. \A q \in Posts : HasAgent(q)' <=> HasAgent(q)
  BY <1>1, SameWorkers DEF HasAgent
<1> QED
  BY <1>2, SameWorkers, SameJobs

\* What happens to the agents when an HTTP thread is done with its record.
LEMMA HttpLetsGo ==
  ASSUME Inv, NEW t \in HttpThreads, hpc[t] # "idle",
         hpc' = [hpc EXCEPT ![t] = "idle"], UNCHANGED hpost
  PROVE  \A u \in HttpThreads, q \in Posts :
           /\ q = hpost[t] => ~HttpHolds(u, q)'
           /\ q # hpost[t] => (HttpHolds(u, q)' <=> HttpHolds(u, q))
<1>1. \A u \in HttpThreads : HttpHolds(u, hpost[t]) => u = t
  BY HttpFacts DEF Inv, AtMostOneAgent
<1> QED
  BY <1>1 DEF HttpHolds, Inv, TypeOK

\* A request that ends without a task in the queue is a job refused.
LEMMA HttpRefuses ==
  ASSUME Inv, NEW t \in HttpThreads, hpc[t] # "idle",
         hpc' = [hpc EXCEPT ![t] = "idle"],
         UNCHANGED <<hpost, queue, wpc, wpost>>, SameBorn
  PROVE  RefusesJob(hpost[t])
<1> DEFINE p == hpost[t]
<1>1. p \in Posts /\ status[p] # "none" /\ HttpHolds(t, p)
  BY HttpFacts
<1>2. p \in Unborn
  BY <1>1, HeldByHttpIsUnborn DEF Unborn
<1>3. \A u \in HttpThreads, q \in Posts : q = p => ~HttpHolds(u, q)'
  BY HttpLetsGo
<1>4. \A u \in HttpThreads, q \in Posts : q # p => (HttpHolds(u, q)' <=> HttpHolds(u, q))
  BY HttpLetsGo
<1> HIDE DEF p
<1>5. \A q \in Posts : q = p => ~HasAgent(q)'
  <2>1. /\ \A i \in DOMAIN queue : queue[i] # p
        /\ \A w \in Workers : ~WorkerHolds(w, p)
    BY <1>1 DEF Inv, AtMostOneAgent
  <2> QED
    BY <1>1, <1>3, <2>1, SameWorkers DEF HasAgent
<1>6. \A q \in Posts : q # p => (HasAgent(q)' <=> HasAgent(q))
  BY <1>4, SameWorkers DEF HasAgent
<1>7. \A q : q \in Over' <=> q \in Over \cup {p}
  BY <1>1, <1>5, <1>6 DEF Over, SameBorn
<1> QED
  BY <1>2, <1>7, SameWorkers DEF RefusesJob, p

\* One that ends with it is a job accepted.
LEMMA HttpAccepts ==
  ASSUME Inv, NEW t \in HttpThreads, hpc[t] # "idle",
         hpc' = [hpc EXCEPT ![t] = "idle"],
         UNCHANGED <<hpost, wpc, wpost>>, SameBorn,
         queue' = Append(queue, hpost[t])
  PROVE  AcceptsJob(hpost[t])
<1> DEFINE p == hpost[t]
<1>1. p \in Posts /\ status[p] # "none" /\ HttpHolds(t, p)
  BY HttpFacts
<1>2. p \in Unborn
  BY <1>1, HeldByHttpIsUnborn DEF Unborn
<1>3. \A u \in HttpThreads, q \in Posts : q # p => (HttpHolds(u, q)' <=> HttpHolds(u, q))
  BY HttpLetsGo
<1>4. queue \in Seq(Posts) /\ queue' = Append(queue, p)
  BY DEF Inv, TypeOK
<1> HIDE DEF p
<1>5. queue' = [i \in 1 .. Len(queue) + 1 |-> IF i = Len(queue) + 1 THEN p ELSE queue[i]]
  BY <1>1, <1>4, AppendFacts
<1>6. Len(queue) \in Nat /\ DOMAIN queue = 1 .. Len(queue)
  BY <1>4, LenProperties
<1>7. \E i \in DOMAIN queue' : queue'[i] = p
  BY <1>5, <1>6
<1>8. \A q : q # p => ((\E i \in DOMAIN queue' : queue'[i] = q)
                         <=> (\E i \in DOMAIN queue : queue[i] = q))
  BY <1>5, <1>6
<1>9. \A q \in Posts : q = p => HasAgent(q) /\ HasAgent(q)'
  BY <1>1, <1>7 DEF HasAgent
<1>10. \A q \in Posts : q # p => (HasAgent(q)' <=> HasAgent(q))
  BY <1>3, <1>8, SameWorkers DEF HasAgent
<1>11. \A q : q \in Over' <=> q \in Over
  BY <1>9, <1>10 DEF Over, SameBorn
<1> QED
  BY <1>2, <1>4, <1>11, SameWorkers DEF AcceptsJob, p

\* Each step of an HTTP thread accepts or refuses a job, or leaves the jobs alone.
LEMMA HttpJobs ==
  ASSUME Inv, NEW t \in HttpThreads, HttpStep(t)
  PROVE  \/ JobsUnchanged
         \/ \E p \in Posts : AcceptsJob(p) \/ RefusesJob(p)
<1>1. CASE AssignId(t)
  <2>1. /\ hpc[t] # "idle" /\ UNCHANGED <<hpost, status, queue, wpc, wpost>>
        /\ \/ hpc' = [hpc EXCEPT ![t] = "idle"]
           \/ hpc' = [hpc EXCEPT ![t] = "link"]
    BY <1>1 DEF AssignId
  <2>2. SameBorn /\ hpost[t] \in Posts
    BY <2>1, HttpFacts DEF SameBorn
  <2> QED
    BY <2>1, <2>2, HttpGoesOn, HttpRefuses
<1>2. CASE Link(t)
  <2>1. /\ hpc[t] # "idle" /\ UNCHANGED <<hpost, status, queue, wpc, wpost>>
        /\ hpc' = [hpc EXCEPT ![t] = "open"]
    BY <1>2 DEF Link
  <2> QED
    BY <2>1, HttpGoesOn
<1>3. CASE OpenNew(t) \/ WriteNew(t) \/ SaveRow(t)
  <2>1. /\ hpc[t] # "idle" /\ UNCHANGED <<hpost, status, queue, wpc, wpost>>
        /\ \/ hpc' = [hpc EXCEPT ![t] = "write"]
           \/ hpc' = [hpc EXCEPT ![t] = "row"]
           \/ hpc' = [hpc EXCEPT ![t] = "queue"]
    BY <1>3 DEF OpenNew, WriteNew, SaveRow
  <2> QED
    BY <2>1, HttpGoesOn
<1>4. CASE Enqueue(t)
  <2>1. /\ hpc[t] # "idle" /\ UNCHANGED <<hpost, wpc, wpost>>
        /\ hpc' = [hpc EXCEPT ![t] = "idle"]
        /\ status' = [status EXCEPT ![hpost[t]] = "queued"]
        /\ queue' = Append(queue, hpost[t]) \/ UNCHANGED queue
    BY <1>4 DEF Enqueue
  <2>2. hpost[t] \in Posts /\ status[hpost[t]] # "none"
    BY <2>1, HttpFacts
  <2>3. SameBorn
    BY <2>1, <2>2 DEF SameBorn, Inv, TypeOK
  <2> QED
    BY <2>1, <2>2, <2>3, HttpAccepts, HttpRefuses
<1> QED
  BY <1>1, <1>2, <1>3, <1>4 DEF HttpStep

-----------------------------------------------------------------------------
(***************************************************************************)
(* A crash ends all jobs, and the requests in progress are lost.           *)
(***************************************************************************)
JobsDie(lost) ==
  /\ lost \subseteq Unborn
  /\ Over' = Over \cup ToSet(queue) \cup Executing \cup lost
  /\ queue' = <<>>
  /\ Executing' = {}

\* Lost are the requests that HTTP threads worked on.
LEMMA CrashJobs ==
  ASSUME Inv, Crash
  PROVE  \E lost \in SUBSET Posts : JobsDie(lost)
<1> DEFINE lost == {p \in Posts : \E t \in HttpThreads : HttpHolds(t, p)}
<1>1. /\ hpc' = [t \in HttpThreads |-> "idle"] /\ queue' = <<>>
      /\ wpc' = [w \in Workers |-> "idle"] /\ UNCHANGED status
  BY DEF Crash
<1>2. lost \in SUBSET Posts /\ lost \subseteq Unborn
  BY HeldByHttpIsUnborn DEF Unborn
<1>3. \A p \in Posts : ~HasAgent(p)'
  BY <1>1 DEF HasAgent, HttpHolds, WorkerHolds
<1>4. \A p : p \in Over' <=> p \in Posts /\ status[p] # "none"
  BY <1>1, <1>3 DEF Over
<1>5. \A p \in Posts : HasAgent(p) => status[p] # "none"
  <2> SUFFICES ASSUME NEW p \in Posts, HasAgent(p) PROVE status[p] # "none"
    OBVIOUS
  <2>1. CASE \E t \in HttpThreads : HttpHolds(t, p)
    BY <2>1, HttpFacts DEF HttpHolds
  <2>2. CASE \E i \in DOMAIN queue : queue[i] = p
    BY <2>2 DEF Inv, PoolInv, BornInv
  <2>3. CASE \E w \in Workers : WorkerHolds(w, p)
    BY <2>3, WorkerFacts DEF WorkerHolds
  <2> QED
    BY <2>1, <2>2, <2>3 DEF HasAgent
<1>6. \A p \in Posts :
        HasAgent(p) <=> p \in ToSet(queue) \/ p \in Executing \/ p \in lost
  BY InQueue DEF HasAgent, Executing
<1>7. /\ ToSet(queue) \subseteq Posts /\ Executing \subseteq Posts
      /\ \A p : p \in Over <=> p \in Posts /\ status[p] # "none" /\ ~HasAgent(p)
  BY InQueue DEF Executing, Over
<1>8. Executing' = {}
  BY <1>1 DEF Executing, WorkerHolds
<1> HIDE DEF lost
<1>9. Over' = Over \cup ToSet(queue) \cup Executing \cup lost
  BY <1>2, <1>4, <1>5, <1>6, <1>7
<1> QED
  BY <1>1, <1>2, <1>8, <1>9 DEF JobsDie

\* Steps that touch neither threads nor queue leave the jobs alone.
LEMMA OthersJobs ==
  ASSUME Inv, UNCHANGED <<hpc, hpost, queue, wpc, wpost>>, SameBorn
  PROVE  JobsUnchanged
<1>1. \A q \in Posts : HasAgent(q)' <=> HasAgent(q)
  BY DEF HasAgent, HttpHolds, WorkerHolds
<1> QED
  BY <1>1, SameWorkers, SameJobs DEF SameBorn

\* A record that is loaded was made by a request, whatever its file says.
LEMMA LoadIsSameBorn ==
  ASSUME Inv, NEW n \in unread, LoadRecord(n)
  PROVE  SameBorn
<1> DEFINE p == disk[n].owner
<1>1. CASE p = Null
  BY <1>1 DEF LoadRecord, SameBorn
<1>2. CASE p # Null
  <2>1. n \in Readable /\ p \in Posts
    BY <1>2 DEF Inv, TypeOK, Readable
  <2>2. status[p] # "none"
    BY <2>1 DEF Inv, BornInv
  <2>3. status' = [status EXCEPT ![p] = LoadedStatus(disk[n].status)]
    BY <1>2 DEF LoadRecord
  <2>4. LoadedStatus(disk[n].status) # "none"
    BY DEF LoadedStatus, Terminal
  <2> QED
    BY <2>1, <2>2, <2>3, <2>4 DEF SameBorn, Inv, TypeOK
<1> QED
  BY <1>1, <1>2

\* The start-up of the server leaves the jobs alone.
LEMMA StartUpJobs ==
  ASSUME Inv, StartUp
  PROVE  JobsUnchanged
<1>1. CASE Boot \/ FinishLoad
  BY <1>1, OthersJobs DEF Boot, FinishLoad, SameBorn
<1>2. CASE \E n \in unread : LoadRecord(n)
  <2>1. UNCHANGED <<hpc, hpost, queue, wpc, wpost>>
    BY <1>2 DEF LoadRecord
  <2>2. SameBorn
    BY <1>2, LoadIsSameBorn
  <2> QED
    BY <2>1, <2>2, OthersJobs
<1> QED
  BY <1>1, <1>2 DEF StartUp

\* So do clients that edit configurations.
LEMMA ClientJobs ==
  ASSUME Inv, NEW c \in Configs, EditConfig(c) \/ RemoveConfig(c)
  PROVE  JobsUnchanged
BY OthersJobs DEF EditConfig, RemoveConfig, SameBorn

-----------------------------------------------------------------------------
(***************************************************************************)
(* The steps above are the actions of CrawlJobs.                           *)
(***************************************************************************)
LEMMA JobActions ==
  /\ \A p \in Posts : AcceptsJob(p) => Jobs!Accept(p)
  /\ \A p \in Posts : RefusesJob(p) => Jobs!Refuse(p)
  /\ \A p \in Posts : EndsJob(p) => Jobs!End(p)
  /\ BeginsJob => Jobs!Begin
  /\ \A lost \in SUBSET Posts : JobsDie(lost) => Jobs!Die(lost)
<1>1. Jobs!Unborn = Unborn
  BY DEF Jobs!Unborn, Unborn, Jobs!ToSet, ToSet, Executing, Over
<1>2. ASSUME NEW p \in Posts PROVE AcceptsJob(p) => Jobs!Accept(p)
  BY <1>1 DEF AcceptsJob, Jobs!Accept, Executing, Over
<1>3. ASSUME NEW p \in Posts PROVE RefusesJob(p) => Jobs!Refuse(p)
  BY <1>1 DEF RefusesJob, Jobs!Refuse, Executing, Over
<1>4. ASSUME NEW p \in Posts PROVE EndsJob(p) => Jobs!End(p)
  BY DEF EndsJob, Jobs!End, Executing, Over
<1>5. BeginsJob => Jobs!Begin
  <2>1. Jobs!Cardinality(Executing) = Cardinality(Executing)
    BY DEF Jobs!Cardinality, Cardinality
  <2> QED
    BY <2>1 DEF BeginsJob, Jobs!Begin, Executing, Over
<1>6. ASSUME NEW lost \in SUBSET Posts PROVE JobsDie(lost) => Jobs!Die(lost)
  BY <1>1 DEF JobsDie, Jobs!Die, Jobs!ToSet, ToSet, Executing, Over
<1> QED
  BY <1>2, <1>3, <1>4, <1>5, <1>6

\* At first there are no jobs.
LEMMA InitJobs ==
  ASSUME Init
  PROVE  Jobs!Init
<1>1. Executing = {} /\ Over = {} /\ queue = <<>>
  BY DEF Init, Executing, Over, WorkerHolds
<1> QED
  BY <1>1 DEF Jobs!Init, Executing, Over

\* Every step of the history is a step of the jobs or a stutter.
LEMMA NextJobs ==
  ASSUME Inv, IsFiniteSet(Workers), [Next]_vars
  PROVE  [Jobs!Next]_(Jobs!jobVars)
<1>1. CASE UNCHANGED vars
  <2>1. JobsUnchanged
    BY <1>1, OthersJobs DEF vars, SameBorn
  <2> QED
    BY <2>1, JobVariables
<1>2. CASE Next
  <2>1. \/ JobsUnchanged
        \/ \E p \in Posts : AcceptsJob(p) \/ RefusesJob(p) \/ EndsJob(p)
        \/ BeginsJob
        \/ \E lost \in SUBSET Posts : JobsDie(lost)
    <3>1. CASE \E t \in HttpThreads, p \in Posts, c \in Configs : Post(t, p, c)
      BY <3>1, PostJobs
    <3>2. CASE \E t \in HttpThreads : HttpStep(t)
      BY <3>2, HttpJobs
    <3>3. CASE \E w \in Workers : WorkerStep(w)
      BY <3>3, WorkerJobs
    <3>4. CASE \E c \in Configs : EditConfig(c) \/ RemoveConfig(c)
      BY <3>4, ClientJobs
    <3>5. CASE Crash
      BY <3>5, CrashJobs
    <3>6. CASE StartUp
      BY <3>6, StartUpJobs
    <3> QED
      BY <1>2, <3>1, <3>2, <3>3, <3>4, <3>5, <3>6 DEF Next
  <2>2. CASE JobsUnchanged
    BY <2>2, JobVariables
  <2>3. CASE ~JobsUnchanged
    BY <2>1, <2>3, JobActions DEF Jobs!Next
  <2> QED
    BY <2>2, <2>3
<1> QED
  BY <1>1, <1>2

\* The crawl history keeps the promise of CrawlJobs: crawls are executed in
\* the order of acceptance, each at most once, by as many workers as there are,
\* over any number of crashes and restarts.
THEOREM HistoryImplementsJobs ==
  ASSUME OneHttpThread, IsFiniteSet(Workers)
  PROVE  Spec => ImplementsCrawlJobs
<1>1. Init => Jobs!Init
  BY InitJobs
<1>2. Inv /\ [Next]_vars => [Jobs!Next]_(Jobs!jobVars)
  BY NextJobs
<1> QED
  BY <1>1, <1>2, HistoryInvariant, PTL DEF Spec, ImplementsCrawlJobs, Jobs!Spec
=============================================================================
